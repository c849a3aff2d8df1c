---------------------------- MODULE StreamTable ----------------------------
(***************************************************************************)
(* The stream contexts and the variant routes of Streamside.c: everything  *)
(* that g_lock protects and that decides which channel a media playlist    *)
(* belongs to.  Every action below is one critical section of g_lock.      *)
(*                                                                         *)
(* A URL is a member of Urls, a master playlist is the set of the variant  *)
(* URLs it lists, and the master URL of a context is its channel (the      *)
(* channel is parsed out of that URL).  A route is found by its URL, and   *)
(* at most one slot of g_variant_routes holds a URL, so the array is a     *)
(* function on Urls; module RouteSlots has the array itself.               *)
(*                                                                         *)
(* A definition introduced as a fault is a plausible mistake in the one    *)
(* after it; no specification uses it.                                     *)
(***************************************************************************)
EXTENDS Integers, FiniteSets

CONSTANTS
    Channels,       \* channels a master playlist can be for
    Urls,           \* URLs of media playlists
    Renditions,     \* resolution and frame rate pairs
    Players,        \* TAS_PLAYER_TYPE_COUNT
    MaxStreams,     \* TAS_MAX_STREAMS
    MaxRoutes,      \* TAS_MAX_VARIANT_ROUTES
    StreamTtl,      \* TAS_STREAM_TTL
    BackupLife,     \* the 600 s a backup variant is reused for
    MaxClock,       \* bound on the clock
    MaxGeneration,  \* bound on g_next_stream_generation
    Listings,       \* what a channel's master playlist may list
    None            \* no channel, no URL, no rendition

ASSUME ChannelsAssumption == None \notin Channels
ASSUME UrlsAssumption == IsFiniteSet(Urls) /\ None \notin Urls
ASSUME RenditionsAssumption == None \notin Renditions
ASSUME BoundsAssumption ==
    /\ Players \in Nat \ {0}
    /\ MaxStreams \in Nat \ {0}
    /\ MaxRoutes \in Nat \ {0}
    /\ StreamTtl \in Nat
    /\ BackupLife \in Nat
    /\ MaxClock \in Nat
    /\ MaxGeneration \in Nat
ASSUME ListingsAssumption == Listings \in [Channels -> SUBSET SUBSET Urls]

VARIABLES
    streams,        \* g_streams
    routes,         \* g_variant_routes, by URL
    nextGeneration, \* g_next_stream_generation
    now             \* time(NULL)

tableVars == <<streams, routes, nextGeneration, now>>

Slot == 1 .. MaxStreams
Player == 1 .. Players

\* A variant of a channel's alternate master, picked for a rendition.
NoBackup == [channel |-> None, rendition |-> None]
Backup == [channel : Channels \cup {None}, rendition : Renditions \cup {None}]

\* TASStreamContext.  "masters" holds, for each player type, the channel whose
\* alternate master is cached in backup_masters.
EmptyStream ==
    [active |-> FALSE, generation |-> 0, lastSeen |-> 0, channel |-> None,
     manifest |-> {}, backup |-> NoBackup, backupCreated |-> 0,
     masters |-> [p \in Player |-> None]]
Stream ==
    [active : BOOLEAN, generation : Nat, lastSeen : Nat,
     channel : Channels \cup {None}, manifest : SUBSET Urls,
     backup : Backup, backupCreated : Nat,
     masters : [Player -> Channels \cup {None}]]

\* TASVariantRoute without its URL.  TASStreamRef is the same pair of a slot
\* and the generation it held.
NoRoute == [slot |-> 0, generation |-> 0, lastSeen |-> 0]
Route == [slot : Slot \cup {0}, generation : Nat, lastSeen : Nat]
NoRef == [slot |-> 0, generation |-> 0]
Ref == [slot : Slot \cup {0}, generation : Nat]

TableTypeOK ==
    /\ streams \in [Slot -> Stream]
    /\ routes \in [Urls -> Route]
    /\ nextGeneration \in Nat
    /\ now \in Nat
    /\ Cardinality({u \in Urls : routes[u].slot # 0}) <= MaxRoutes

TableInit ==
    /\ streams = [i \in Slot |-> EmptyStream]
    /\ routes = [u \in Urls |-> NoRoute]
    /\ nextGeneration = 1
    /\ now = 0

----------------------------------------------------------------------------
(* References and lookups                                                  *)

\* Fault: the generation of the slot is not compared.
StreamRefMatchesAnyGeneration(ref) ==
    ref.slot \in Slot /\ streams[ref.slot].active

StreamRefMatches(ref) ==
    /\ ref.slot \in Slot
    /\ streams[ref.slot].active
    /\ streams[ref.slot].generation = ref.generation

Routed(u) == routes[u].slot # 0
RouteRef(u) == [slot |-> routes[u].slot, generation |-> routes[u].generation]

\* stream_for_variant_locked: the route of the URL and its stream are touched;
\* a route whose stream is gone is retired.
StreamForVariant(u) ==
    /\ Routed(u) /\ StreamRefMatches(RouteRef(u))
    /\ routes' = [routes EXCEPT ![u].lastSeen = now]
    /\ streams' = [streams EXCEPT ![routes[u].slot].lastSeen = now]
    /\ UNCHANGED <<nextGeneration, now>>

NoStreamForVariant(u) ==
    /\ ~(Routed(u) /\ StreamRefMatches(RouteRef(u)))
    /\ routes' = [routes EXCEPT ![u] = NoRoute]
    /\ UNCHANGED <<streams, nextGeneration, now>>

----------------------------------------------------------------------------
(* A master playlist arrives                                               *)

Expired(i) == streams[i].active /\ now - streams[i].lastSeen > StreamTtl

\* The slots prune_streams_locked leaves occupied.
Survivors == {i \in Slot : streams[i].active /\ ~Expired(i)}

Holders(channel) == {i \in Survivors : streams[i].channel = channel}

\* Fault: a full table gives up its most recently seen context.
NewestSlot(channel, i) ==
    \/ i \in Holders(channel)
    \/ Holders(channel) = {} /\ i \in Slot \ Survivors
    \/ /\ Holders(channel) = {} /\ Survivors = Slot
       /\ i \in Slot /\ \A j \in Slot : streams[j].lastSeen <= streams[i].lastSeen

\* The slot update_stream_master_locked settles on, after pruning: the first
\* that holds the channel, else the first free one, else the one seen least
\* recently.
SlotFor(channel, i) ==
    \/ /\ i \in Holders(channel)
       /\ \A j \in Holders(channel) : i <= j
    \/ /\ Holders(channel) = {}
       /\ i \in Slot \ Survivors
       /\ \A j \in Slot \ Survivors : i <= j
    \/ /\ Holders(channel) = {} /\ Survivors = Slot
       /\ i \in Slot
       /\ \A j \in Slot :
            \/ streams[i].lastSeen < streams[j].lastSeen
            \/ streams[i].lastSeen = streams[j].lastSeen /\ i <= j

\* Fault: a slot is taken over without clearing the context it holds.
RecycledStream(channel, listing, i) ==
    LET base == IF streams[i].active THEN streams[i]
                ELSE [EmptyStream EXCEPT !.active = TRUE, !.channel = channel,
                                         !.generation = nextGeneration]
    IN [base EXCEPT !.manifest = listing, !.backup = NoBackup,
                    !.backupCreated = 0, !.lastSeen = now]

\* The context of slot i once the channel's master playlist is recorded: a
\* refresh keeps the generation and the alternate masters, anything else
\* starts from a cleared context.
RecordedStream(channel, listing, i) ==
    LET base == IF i \in Holders(channel) THEN streams[i]
                ELSE [EmptyStream EXCEPT !.active = TRUE, !.channel = channel,
                                         !.generation = nextGeneration]
    IN [base EXCEPT !.manifest = listing, !.backup = NoBackup,
                    !.backupCreated = 0, !.lastSeen = now]

\* Fault: a replaced context hands its generation on.
ReuseGeneration(channel, listing, i) ==
    /\ streams' = [j \in Slot |->
                     IF j = i THEN RecordedStream(channel, listing, i)
                     ELSE IF Expired(j) THEN EmptyStream ELSE streams[j]]
    /\ nextGeneration' = nextGeneration

\* Fault: the counter is so narrow that generations come round again.
WrapGeneration(channel, listing, i) ==
    /\ streams' = [j \in Slot |->
                     IF j = i THEN RecordedStream(channel, listing, i)
                     ELSE IF Expired(j) THEN EmptyStream ELSE streams[j]]
    /\ nextGeneration' = IF i \in Holders(channel) THEN nextGeneration
                         ELSE 1 + (nextGeneration % 2)

\* clear_stream_context_locked for the contexts that expire or are replaced,
\* then the context of slot i.  A refreshed context takes no new generation.
UpdateStreamMaster(channel, listing, i) ==
    /\ streams' = [j \in Slot |->
                     IF j = i THEN RecordedStream(channel, listing, i)
                     ELSE IF Expired(j) THEN EmptyStream ELSE streams[j]]
    /\ nextGeneration' = IF i \in Holders(channel) THEN nextGeneration
                         ELSE nextGeneration + 1

\* The routes left after clear_routes_for_stream_locked has run for every
\* context cleared and for slot i.
SurvivingRoutes(i) ==
    {u \in Urls : Routed(u) /\ routes[u].slot \in Survivors \ {i}}

\* add_variant_route_locked run for each listed URL: what does not fit is the
\* routes seen least recently, where a listed URL counts as seen now.
KeptRoutes(kept, wanted, seen) ==
    /\ kept \subseteq wanted
    /\ Cardinality(wanted) <= MaxRoutes => kept = wanted
    /\ Cardinality(wanted) > MaxRoutes =>
         /\ Cardinality(kept) = MaxRoutes
         /\ \A u \in wanted \ kept, v \in kept : seen[u] <= seen[v]

\* register_variant_routes_locked
RegisterVariantRoutes(listing, i, generation) ==
    LET seen == [u \in Urls |-> IF u \in listing THEN now ELSE routes[u].lastSeen]
    IN \E kept \in SUBSET Urls :
         /\ KeptRoutes(kept, SurvivingRoutes(i) \cup listing, seen)
         /\ routes' = [u \in Urls |->
                         IF u \notin kept THEN NoRoute
                         ELSE IF u \in listing
                         THEN [slot |-> i, generation |-> generation,
                               lastSeen |-> now]
                         ELSE routes[u]]

\* The master branch of process_manifest, one critical section.
MasterPlaylist(channel, listing) ==
    \E i \in Slot :
      /\ SlotFor(channel, i)
      /\ i \in Holders(channel) \/ nextGeneration <= MaxGeneration
      /\ UpdateStreamMaster(channel, listing, i)
      /\ RegisterVariantRoutes(listing, i, RecordedStream(channel, listing, i).generation)
      /\ now' = now

----------------------------------------------------------------------------
(* What the VAFT fetches write.  Each one looks up the reference again,    *)
(* under the lock, and writes nothing if the slot has a new generation.    *)

\* Fault: the write goes to the slot whatever it holds now.
WriteUnchecked(ref, stream) ==
    /\ streams' = IF ref.slot \in Slot
                  THEN [streams EXCEPT ![ref.slot] = stream] ELSE streams
    /\ UNCHANGED <<routes, nextGeneration, now>>

WriteStream(ref, stream) ==
    /\ streams' = IF StreamRefMatches(ref)
                  THEN [streams EXCEPT ![ref.slot] = stream] ELSE streams
    /\ UNCHANGED <<routes, nextGeneration, now>>

\* clear_active_backup
ClearActiveBackup(ref) ==
    WriteStream(ref, [streams[ref.slot] EXCEPT !.backup = NoBackup,
                                               !.backupCreated = 0])

\* The store at the end of load_backup_master.
StoreBackupMaster(ref, p, channel) ==
    WriteStream(ref, [streams[ref.slot] EXCEPT !.masters[p] = channel])

\* clear_backup_master
ClearBackupMaster(ref, p) ==
    WriteStream(ref, [streams[ref.slot] EXCEPT !.masters[p] = None])

\* The clean candidate of fetch_vaft_variant.
PublishBackup(ref, backup) ==
    WriteStream(ref, [streams[ref.slot] EXCEPT !.backup = backup,
                                               !.backupCreated = now,
                                               !.lastSeen = now])

\* A second passes.
Tick ==
    /\ now < MaxClock
    /\ now' = now + 1
    /\ UNCHANGED <<streams, routes, nextGeneration>>

----------------------------------------------------------------------------
(* The tables under lookups and master playlists alone, without the        *)
(* fetches of VaftFetch.                                                   *)

TableNext ==
    \/ Tick
    \/ \E channel \in Channels : \E listing \in Listings[channel] :
         MasterPlaylist(channel, listing)
    \/ \E u \in Urls : StreamForVariant(u) \/ NoStreamForVariant(u)

TableSpec == TableInit /\ [][TableNext]_tableVars

----------------------------------------------------------------------------
(* Properties of the tables                                                *)

\* Whatever was pruned, replaced, refreshed or reassigned, a route in the
\* table belongs to the context now in its slot, and that context's master
\* lists the URL: a media playlist is never classified by a stale route (the
\* "stale_generation" branch never runs) and variant_metadata finds its line.
RoutesOwned ==
    \A u \in Urls : Routed(u) =>
      /\ StreamRefMatches(RouteRef(u))
      /\ u \in streams[routes[u].slot].manifest

\* However late an answer arrives, a context holds alternate masters and a
\* backup variant of its own channel only, and no channel has two contexts.
ContextsOwned ==
    \A i \in Slot : streams[i].active =>
      /\ streams[i].backup.channel \in {None, streams[i].channel}
      /\ \A p \in Player : streams[i].masters[p] \in {None, streams[i].channel}
      /\ \A j \in Slot : streams[j].active /\ streams[j].channel = streams[i].channel
                           => i = j

\* A generation identifies one incarnation of a slot: those in use were all
\* given out before, and 0 is the generation of an empty slot.
GenerationsGiven ==
    /\ nextGeneration >= 1
    /\ \A i \in Slot :
         /\ streams[i].generation < nextGeneration
         /\ streams[i].active => streams[i].generation >= 1 /\ streams[i].channel # None
         /\ ~streams[i].active => streams[i].generation = 0

TableInv == TableTypeOK /\ GenerationsGiven /\ RoutesOwned /\ ContextsOwned

============================================================================
