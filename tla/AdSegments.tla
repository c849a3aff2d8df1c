----------------------------- MODULE AdSegments -----------------------------
(***************************************************************************)
(* The ring of ad segments of Streamside.c.                                *)
(*                                                                         *)
(* When no alternate of a stream is clean, its playlist keeps its ads and  *)
(* strip_ad_segments puts their URLs into a ring.  The player then asks    *)
(* for them like for any other, and the two transports answer those in the *)
(* ring with a blank.  Playlists of all streams are stripped, on as many   *)
(* threads, into one ring, which forgets by age and by wrapping around.    *)
(*                                                                         *)
(* marks and shown are history variables: what a segment's last entry was, *)
(* and what the player has seen.  A definition introduced as a fault is a  *)
(* plausible mistake in the one after it; no specification uses it.        *)
(***************************************************************************)
EXTENDS Integers, Sequences, Functions

CONSTANTS
    Ads, Lives,         \* segments whose EXTINF is without, or with, ",live"
    Playlists,          \* the segments of each playlist that may be stripped
    Strippers, Loads,   \* threads in strip_ad_segments; requests of the player
    MaxSegments,        \* TAS_MAX_AD_SEGMENTS
    Lifetime,           \* the 120 s of is_cached_ad_segment
    MaxClock,           \* bound on the clock
    None

Segments == Ads \cup Lives

ASSUME SegmentsAssumption == Ads \cap Lives = {} /\ None \notin Segments
ASSUME PlaylistsAssumption == Playlists \subseteq Seq(Segments) \ {<<>>}
ASSUME BoundsAssumption == MaxSegments \in Nat \ {0} /\ Lifetime \in Nat /\ MaxClock \in Nat

VARIABLES
    ring,       \* g_ad_segments
    next,       \* g_next_ad_segment % TAS_MAX_AD_SEGMENTS
    now,        \* time(NULL)
    strip,      \* each stripping thread
    load,       \* each request of the player
    marks,      \* where, when and how many entries ago a segment was put last
    shown       \* segments of stripped playlists that the player was given

vars == <<ring, next, now, strip, load, marks, shown>>

Slots == 0 .. MaxSegments - 1

\* TASAdSegment
Entry == [url : Segments \cup {None}, created : Nat]
EmptyEntry == [url |-> None, created |-> 0]

\* "extinf" and "uri" are the lines of the entry that is read next.
Stripper == [at : {"idle", "extinf", "uri"}, playlist : Playlists \cup {<<>>},
             entry : Nat \ {0}, cacheNextUri : BOOLEAN]
IdleStripper == [at |-> "idle", playlist |-> <<>>, entry |-> 1, cacheNextUri |-> FALSE]

\* asked is the time is_cached_ad_segment has read.
Load == [at : {"idle", "canInit", "taken", "startLoading", "loader", "blank", "network"},
         segment : Segments \cup {None}, asked : Nat]
IdleLoad == [at |-> "idle", segment |-> None, asked |-> 0]

\* A mark is made at 1 or later; since stops counting at MaxSegments.
Mark == [slot : Slots, at : Nat, since : 0 .. MaxSegments]
NoMark == [slot |-> 0, at |-> 0, since |-> MaxSegments]

Init ==
    /\ ring = [i \in Slots |-> EmptyEntry]
    /\ next = 0
    /\ now = 1
    /\ strip = [t \in Strippers |-> IdleStripper]
    /\ load = [q \in Loads |-> IdleLoad]
    /\ marks = [s \in Segments |-> NoMark]
    /\ shown = {}

----------------------------------------------------------------------------
(* strip_ad_segments                                                       *)

Put(s) ==
    /\ ring' = [ring EXCEPT ![next] = [url |-> s, created |-> now]]
    /\ next' = IF next = MaxSegments - 1 THEN 0 ELSE next + 1

Marked(s) ==
    marks' = [z \in Segments |->
                IF z = s THEN [slot |-> next, at |-> now, since |-> 0]
                ELSE [marks[z] EXCEPT !.since = IF @ < MaxSegments THEN @ + 1 ELSE @]]

\* remember_ad_segment: a new entry at every refresh of the playlist.
Remember(s) == Put(s) /\ Marked(s)

Strip(t, list) ==
    /\ strip[t].at = "idle"
    /\ strip' = [strip EXCEPT ![t] =
                   [at |-> "extinf", playlist |-> list, entry |-> 1, cacheNextUri |-> FALSE]]
    /\ UNCHANGED <<ring, next, now, load, marks, shown>>

Extinf(t) ==
    /\ strip[t].at = "extinf"
    /\ strip' = [strip EXCEPT ![t].at = "uri",
                              ![t].cacheNextUri = @ \/ strip[t].playlist[strip[t].entry] \in Ads]
    /\ UNCHANGED <<ring, next, now, load, marks, shown>>

Advance(t, cacheNextUri) ==
    IF strip[t].entry < Len(strip[t].playlist)
    THEN /\ strip' = [strip EXCEPT ![t].at = "extinf", ![t].entry = @ + 1,
                                   ![t].cacheNextUri = cacheNextUri]
         /\ UNCHANGED shown
    ELSE /\ strip' = [strip EXCEPT ![t] = IdleStripper]
         /\ shown' = shown \cup Range(strip[t].playlist)

\* Fault: the flag stays set for the rest of the playlist.
UriUnreset(t) ==
    /\ strip[t].at = "uri"
    /\ IF strip[t].cacheNextUri THEN Remember(strip[t].playlist[strip[t].entry])
       ELSE UNCHANGED <<ring, next, marks>>
    /\ Advance(t, strip[t].cacheNextUri)
    /\ UNCHANGED <<now, load>>

\* After the last line, the playlist with its ads goes to the player.
Uri(t) ==
    /\ strip[t].at = "uri"
    /\ IF strip[t].cacheNextUri THEN Remember(strip[t].playlist[strip[t].entry])
       ELSE UNCHANGED <<ring, next, marks>>
    /\ Advance(t, FALSE)
    /\ UNCHANGED <<now, load>>

----------------------------------------------------------------------------
(* is_cached_ad_segment, asked by both transports                          *)

\* Fault: an entry ends with its last second, not after it.
ExpiredEarly(entry, time) == entry.url # None /\ time - entry.created >= Lifetime

Expired(entry, time) == entry.url # None /\ time - entry.created > Lifetime
Cached(s, time) == \E i \in Slots : ring[i].url = s /\ ~Expired(ring[i], time)

\* Reading the clock comes before taking the lock.
Ask(q, at, s) ==
    /\ load' = [load EXCEPT ![q] = [at |-> at, segment |-> s, asked |-> now]]
    /\ UNCHANGED <<ring, next, now, strip, marks, shown>>

\* The test, under the lock: expired entries are emptied, found or not.
Test(q, found, lost) ==
    LET time == load[q].asked
    IN /\ ring' = [i \in Slots |-> IF Expired(ring[i], time) THEN EmptyEntry ELSE ring[i]]
       /\ load' = [load EXCEPT ![q].at =
                      IF Cached(load[q].segment, time) THEN found ELSE lost]
       /\ UNCHANGED <<next, now, strip, marks, shown>>

\* The player asks for a segment: protocol_can_init, or loader_handle.
Request(q, s, transport) ==
    /\ load[q].at \in {"idle", "blank", "network"}
    /\ Ask(q, transport, s)

\* A request that the protocol does not take goes to the network.
CanInit(q) == load[q].at = "canInit" /\ Test(q, "taken", "network")

\* protocol_start_loading asks again.
StartLoading(q) == load[q].at = "taken" /\ Ask(q, "startLoading", load[q].segment)

Answer(q) == load[q].at \in {"startLoading", "loader"} /\ Test(q, "blank", "network")

Tick ==
    /\ now < MaxClock
    /\ now' = now + 1
    /\ UNCHANGED <<ring, next, strip, load, marks, shown>>

----------------------------------------------------------------------------
Next ==
    \/ \E t \in Strippers : \/ \E list \in Playlists : Strip(t, list)
                            \/ Extinf(t)
                            \/ Uri(t)
    \/ \E q \in Loads : \/ \E s \in Segments, at \in {"canInit", "loader"} : Request(q, s, at)
                        \/ CanInit(q)
                        \/ StartLoading(q)
                        \/ Answer(q)
    \/ Tick

Spec == Init /\ [][Next]_vars

----------------------------------------------------------------------------
(* Properties                                                              *)

\* Every variable holds what its C type holds, and a stripping thread reads
\* within its playlist.
TypeOK ==
    /\ ring \in [Slots -> Entry]
    /\ next \in Slots
    /\ now \in Nat \ {0}
    /\ strip \in [Strippers -> Stripper]
    /\ \A t \in Strippers : strip[t].at # "idle" => strip[t].entry \in 1 .. Len(strip[t].playlist)
    /\ load \in [Loads -> Load]
    /\ marks \in [Segments -> Mark]
    /\ shown \subseteq Segments

Recent(s) == marks[s].at > 0 /\ marks[s].since < MaxSegments /\ now - marks[s].at <= Lifetime

\* A segment is held for as long as its last entry is neither too old nor the
\* ring once round since: no test of a slow thread with a clock reading from
\* before, and no older entry of the same segment, takes it out before.
RecentHeld == \A s \in Segments : Recent(s) => ring[marks[s].slot] = [url |-> s, created |-> marks[s].at]

\* The real content of an ad in a playlist that was stripped and given to the
\* player is fetched only if the ad was put in the ring before the playlist
\* was given out, and has been forgotten by age or by a full round since, be it
\* between the question of canInit and that of startLoading.
LeakExplained ==
    [][\A q \in Loads :
         /\ load[q].at # "network" /\ load'[q].at = "network"
         /\ load[q].segment \in shown \cap Ads
         => marks[load[q].segment].at > 0 /\ ~Recent(load[q].segment)]_vars

\* A blank answers an ad only, never a live segment of the same or of another
\* stream, and only within the lifetime of what put it in the ring.
BlankJustified ==
    [][\A q \in Loads :
         load[q].at # "blank" /\ load'[q].at = "blank"
         => /\ load[q].segment \in Ads
            /\ load[q].asked - marks[load[q].segment].at <= Lifetime]_vars

----------------------------------------------------------------------------
(* The inductive invariant of the proofs in AdSegmentsProofs               *)

\* How many entries were put after the one at slot i, if the next goes to n.
Distance(i, n) == IF i < n THEN n - 1 - i ELSE n - 1 - i + MaxSegments

\* The last entry of a segment is where its mark says, unless it was emptied.
MarkOK(s) ==
    marks[s].since < MaxSegments =>
      /\ marks[s].at \in 1 .. now
      /\ Distance(marks[s].slot, next) = marks[s].since
      /\ \/ ring[marks[s].slot] = [url |-> s, created |-> marks[s].at]
         \/ ring[marks[s].slot] = EmptyEntry /\ now - marks[s].at > Lifetime

\* What is in the ring is an ad, not newer than its mark.
EntryOK(i) ==
    ring[i].url # None =>
      /\ ring[i].url \in Ads
      /\ ring[i].created \in 1 .. now
      /\ ring[i].created <= marks[ring[i].url].at

\* The ads a thread has read are marked, and the flag is that of its entry.
StripperOK(t) ==
    /\ strip[t].at = "extinf" => ~strip[t].cacheNextUri
    /\ strip[t].at = "uri" =>
         (strip[t].cacheNextUri <=> strip[t].playlist[strip[t].entry] \in Ads)
    /\ strip[t].at # "idle" =>
         \A k \in 1 .. strip[t].entry - 1 :
           strip[t].playlist[k] \in Ads => marks[strip[t].playlist[k]].at > 0

Marks == \A s \in Segments : MarkOK(s)
Entries == \A i \in Slots : EntryOK(i)
Strippings == \A t \in Strippers : StripperOK(t)
ShownMarked == \A s \in shown \cap Ads : marks[s].at > 0
AskedBefore ==
    \A q \in Loads : load[q].asked <= now /\ (load[q].at # "idle" => load[q].segment # None)

IInv == TypeOK /\ Marks /\ Entries /\ Strippings /\ ShownMarked /\ AskedBefore

============================================================================
