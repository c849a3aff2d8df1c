----------------------------- MODULE EmoteImages -----------------------------
(***************************************************************************)
(* The image identities of TASEmotes.c.                                    *)
(*                                                                         *)
(* An emote is drawn by its identity: Twitch asks for the image of that    *)
(* number, and the request is answered with the URL found in the sets or,  *)
(* for emotes that have left them, in the history ring.  An identity is a  *)
(* hash of scope, name and URL, so two emotes may have the same.           *)
(*                                                                         *)
(* What a thread does under g_emote_lock is one step or, where it is a     *)
(* loop over emotes, a section of several: nobody else moves until it is   *)
(* free again.  Which fetch an answer belongs to is in EmoteRooms; here    *)
(* a set that is occupied may be parsed into at any time.                  *)
(*                                                                         *)
(* A definition introduced as a fault is a plausible mistake in the one    *)
(* after it; no specification uses it.                                     *)
(***************************************************************************)
EXTENDS EmoteSet

CONSTANTS
    RoomIds, Names, Urls,
    ProviderOf,     \* the provider of a URL, by its prefix
    Identity,       \* image_identity: scope, name and URL to a number
    Numbers,        \* what it yields
    MaxRooms, MaxRoom, MaxGlobal, MaxHistory,
    RoomIdle, SweepSeconds, HistorySeconds,
    MaxDelay,       \* bound on how long a thread waits for the lock
    MaxClock,       \* bound on the clock
    Global, None

Slots == 1 .. MaxRooms
Sets == 0 .. MaxRooms           \* g_global is at 0
Scopes == RoomIds \cup {Global}
Ring == 0 .. MaxHistory - 1

ASSUME ScopesAssumption == Global \notin RoomIds /\ None \notin RoomIds \cup {Global} \cup Urls
ASSUME EmotesAssumption ==
    /\ Names \subseteq Nat
    /\ ProviderOf \in [Urls -> Nat]
    /\ Identity \in [Scopes \X Names \X Urls -> Numbers]
ASSUME BoundsAssumption ==
    /\ MaxRooms \in Nat \ {0} /\ MaxRoom \in Nat \ {0} /\ MaxGlobal \in Nat \ {0}
    /\ MaxHistory \in Nat \ {0}
    /\ RoomIdle \in Nat /\ SweepSeconds \in Nat /\ MaxClock \in Nat /\ MaxDelay \in Nat
    /\ HistorySeconds \in Nat /\ MaxDelay < HistorySeconds

VARIABLES
    rooms,      \* g_rooms, and g_global at 0
    old,        \* g_old
    oldNext,    \* g_old_next % MAX_HISTORY
    now,        \* time(NULL)
    lastSweep,  \* g_last_sweep
    section     \* what the holder of g_emote_lock is at

vars == <<rooms, old, oldNext, now, lastSweep, section>>

\* Emote, Room, OldImage.  A room of None is not occupied; a URL of None is
\* NULL, and then the rest means nothing.
Emote == [name : Names, url : Urls, provider : Nat, number : Numbers]
Room == [id : RoomIds \cup {Global, None}, lastUsed : Nat, items : SUBSET Emote]
EmptyRoom == [id |-> None, lastUsed |-> 0, items |-> {}]
OldImage == [name : Names, url : Urls, number : Numbers, retiredAt : Nat]
NoImage == [url |-> None]

\* "retire" goes through the emotes of the sets, which are no longer what they
\* were of, with the time the thread has read; "parse" adds to one set.
Section == [at : {"free", "retire", "parse"}, sets : SUBSET Sets, time : Nat]
Free == [at |-> "free", sets |-> {}, time |-> 0]

Init ==
    /\ rooms = [i \in Sets |-> IF i = 0 THEN [EmptyRoom EXCEPT !.id = Global] ELSE EmptyRoom]
    /\ old = [j \in Ring |-> NoImage]
    /\ oldNext = 0
    /\ now = 1
    /\ lastSweep = 0
    /\ section = Free

----------------------------------------------------------------------------
(* Retiring                                                                *)

\* retire_emote_locked: the ring takes it, over what is there.
Retire(e, time) ==
    /\ old' = [old EXCEPT ![oldNext] = [name |-> e.name, url |-> e.url, number |-> e.number,
                                        retiredAt |-> time]]
    /\ oldNext' = IF oldNext = MaxHistory - 1 THEN 0 ELSE oldNext + 1

\* The sets still to be gone through, and the section with them.
Retiring(rs, sets, time) ==
    LET left == {i \in sets : rs[i].items # {}}
    IN IF left = {} THEN Free ELSE [at |-> "retire", sets |-> left, time |-> time]

\* Fault: the emotes of a room that lost its slot are dropped.
RetireNothing ==
    /\ section.at = "retire"
    /\ \E i \in section.sets : \E e \in rooms[i].items :
         /\ \A j \in section.sets : i <= j
         /\ \A x \in rooms[i].items : e.name <= x.name
         /\ rooms' = [rooms EXCEPT ![i].items = @ \ {e}]
         /\ section' = Retiring(rooms', section.sets, section.time)
    /\ UNCHANGED <<old, oldNext, now, lastSweep>>

\* The loop of reset_room_locked, set after set, in the order of the names.
RetireNext ==
    /\ section.at = "retire"
    /\ \E i \in section.sets : \E e \in rooms[i].items :
         /\ \A j \in section.sets : i <= j
         /\ \A x \in rooms[i].items : e.name <= x.name
         /\ Retire(e, section.time)
         /\ rooms' = [rooms EXCEPT ![i].items = @ \ {e}]
         /\ section' = Retiring(rooms', section.sets, section.time)
    /\ UNCHANGED <<now, lastSweep>>

----------------------------------------------------------------------------
(* ensure_loaded                                                           *)

\* The clock is read before the lock is taken.
Readings == {time \in 1 .. now : now - time <= MaxDelay}

\* expire_locked
SweepDue(time) == time - lastSweep >= SweepSeconds
Swept(time) ==
    [i \in Sets |->
       IF SweepDue(time) /\ i # 0 /\ rooms[i].id # None /\ time - rooms[i].lastUsed > RoomIdle
       THEN [rooms[i] EXCEPT !.id = None, !.lastUsed = 0] ELSE rooms[i]]
Remembered(time) ==
    [j \in Ring |->
       IF SweepDue(time) /\ old[j].url # None /\ time - old[j].retiredAt > HistorySeconds
       THEN NoImage ELSE old[j]]

\* room_locked: the room's own slot, else the last empty one, else the first of
\* those used longest ago.
RoomSlot(rs, r, i) ==
    \/ rs[i].id = r
    \/ /\ \A j \in Slots : rs[j].id # r
       /\ rs[i].id = None
       /\ \A j \in Slots : rs[j].id = None => j <= i
    \/ /\ \A j \in Slots : rs[j].id \notin {r, None}
       /\ \A j \in Slots :
            \/ rs[i].lastUsed < rs[j].lastUsed
            \/ rs[i].lastUsed = rs[j].lastUsed /\ i <= j

Taken(rs, i, r, time) == [rs EXCEPT ![i].id = r, ![i].lastUsed = time]

\* A slot that was swept, or is given to another room, is reset; a room that was
\* swept may come back to its slot at once.
Reset(time, rs) ==
    {i \in Slots : /\ rooms[i].id # None
                   /\ Swept(time)[i].id # rooms[i].id \/ rs[i].id # rooms[i].id}

Ensure(time, rs) ==
    /\ section = Free
    /\ rooms' = rs
    /\ section' = Retiring(rs, Reset(time, rs), time)
    /\ old' = Remembered(time)
    /\ lastSweep' = IF SweepDue(time) THEN time ELSE lastSweep
    /\ UNCHANGED <<oldNext, now>>

EnsureGlobal(time) == Ensure(time, Swept(time))

EnsureRoom(time, r) ==
    \E i \in Slots :
      /\ RoomSlot(Swept(time), r, i)
      /\ Ensure(time, Taken(Swept(time), i, r, time))

----------------------------------------------------------------------------
(* finish_provider                                                         *)

\* Fault: what the history still serves is not asked for.
AvailableInSets(number, name, url) ==
    \A i \in Sets : \A x \in rooms[i].items :
      x.number = number => x.name = name /\ x.url = url

\* identity_available_locked
Available(number, name, url) ==
    /\ \A i \in Sets : \A x \in rooms[i].items :
         x.number = number => x.name = name /\ x.url = url
    /\ \A j \in Ring : old[j].url # None /\ old[j].number = number =>
         old[j].name = name /\ old[j].url = url

Parse(i) ==
    /\ section = Free
    /\ rooms[i].id # None
    /\ section' = [at |-> "parse", sets |-> {i}, time |-> 0]
    /\ UNCHANGED <<rooms, old, oldNext, now, lastSweep>>

Limit(i) == IF i = 0 THEN MaxGlobal ELSE MaxRoom

\* add_emote_locked
Add(name, url) ==
    /\ section.at = "parse"
    /\ \E i \in section.sets :
         LET number == Identity[<<rooms[i].id, name, url>>]
             e == [name |-> name, url |-> url, provider |-> ProviderOf[url], number |-> number]
             items == rooms[i].items
         IN /\ Available(number, name, url)
            /\ \/ /\ GiveWay(items, Limit(i), e) = {}
                  /\ UNCHANGED <<old, oldNext>>
               \/ \E x \in GiveWay(items, Limit(i), e) : Retire(x, now)
            /\ rooms' = [rooms EXCEPT ![i].items = Added(items, Limit(i), e)]
    /\ UNCHANGED <<now, lastSweep, section>>

\* The list ends; what it had that was not available or not valid was skipped.
Parsed ==
    /\ section.at = "parse"
    /\ section' = Free
    /\ UNCHANGED <<rooms, old, oldNext, now, lastSweep>>

----------------------------------------------------------------------------
(* Other operations                                                        *)

\* tas_emotes_local_matches_copy, for a room that is there.
LocalMatches(i) ==
    /\ section = Free
    /\ rooms[i].id # None
    /\ rooms' = [rooms EXCEPT ![i].lastUsed = now]
    /\ UNCHANGED <<old, oldNext, now, lastSweep, section>>

\* tas_emotes_reload; a fetch of the sets follows.
Reload ==
    /\ section = Free
    /\ rooms' = [i \in Sets |->
                   [rooms[i] EXCEPT !.id = IF i = 0 THEN Global ELSE None, !.lastUsed = 0]]
    /\ section' = Retiring(rooms, Sets, now)
    /\ UNCHANGED <<old, oldNext, now, lastSweep>>

\* tas_emotes_clear_cache: the history goes too, but not its index.
ClearCache ==
    /\ section = Free
    /\ rooms' = [i \in Sets |-> IF i = 0 THEN [EmptyRoom EXCEPT !.id = Global] ELSE EmptyRoom]
    /\ old' = [j \in Ring |-> NoImage]
    /\ UNCHANGED <<oldNext, now, lastSweep, section>>

\* A section takes no time.
Tick ==
    /\ section = Free
    /\ now < MaxClock
    /\ now' = now + 1
    /\ UNCHANGED <<rooms, old, oldNext, lastSweep, section>>

----------------------------------------------------------------------------
Next ==
    \/ \E time \in Readings : \/ EnsureGlobal(time)
                              \/ \E r \in RoomIds : EnsureRoom(time, r)
    \/ \E i \in Sets : Parse(i)
    \/ \E name \in Names, url \in Urls : Add(name, url)
    \/ Parsed
    \/ RetireNext
    \/ \E i \in Slots : LocalMatches(i)
    \/ Reload
    \/ ClearCache
    \/ Tick

Spec == Init /\ [][Next]_vars

----------------------------------------------------------------------------
(* Properties                                                              *)

\* Every variable holds what its C type holds, and a set keeps within its
\* limit and has a name once.
SetOK(items, max) ==
    /\ Cardinality(items) <= max
    /\ \A x, y \in items : x.name = y.name => x = y
TypeOK ==
    /\ rooms \in [Sets -> Room]
    /\ \A i \in Sets : SetOK(rooms[i].items, Limit(i))
    /\ old \in [Ring -> OldImage \cup {NoImage}]
    /\ oldNext \in Ring
    /\ now \in Nat \ {0}
    /\ lastSweep \in Nat
    /\ section \in Section

\* What url_for_id_locked may find for a number.
Served(number) ==
    {x \in UNION {rooms[i].items : i \in Sets} : x.number = number}
Kept(number) ==
    {j \in Ring : /\ old[j].url # None /\ old[j].number = number
                  /\ now - old[j].retiredAt < HistorySeconds}
IsServed(number) == Served(number) # {} \/ Kept(number) # {}

\* Two emotes of the sets, or of the history, have one number only if they are
\* one image, whatever their scopes and however the hash collides: no chat cell
\* is drawn with another's image while either is known.
Occupied == {j \in Ring : old[j].url # None}
Images == (UNION {rooms[i].items : i \in Sets}) \cup {old[j] : j \in Occupied}
OneImagePerNumber ==
    \A x, y \in Images : x.number = y.number => x.name = y.name /\ x.url = y.url

\* A number that can be drawn stays so through evictions, expiry, replacement
\* and reloading.  It is lost only to clearing the cache, to age, or to a
\* retirement that takes the turn of its place in the ring.
KeepsServed ==
    [][\A n \in Numbers :
         IsServed(n) /\ ~IsServed(n)'
         => \/ ClearCache
            \/ /\ Served(n) = {}
               /\ \/ \A j \in Kept(n) : now' - old[j].retiredAt >= HistorySeconds
                  \/ section # Free /\ Kept(n) = {oldNext}]_vars

----------------------------------------------------------------------------
(* The inductive invariant of the proofs in EmoteImagesProofs              *)

IInv ==
    /\ TypeOK
    /\ \A i \in Sets : IsFiniteSet(rooms[i].items)
    /\ OneImagePerNumber
    /\ section.at = "retire" => now - section.time <= MaxDelay
    /\ section.at = "parse" => \A i \in section.sets : rooms[i].id # None

============================================================================
