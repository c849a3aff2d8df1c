----------------------------- MODULE RouteSlots -----------------------------
(***************************************************************************)
(* g_variant_routes as the array it is, with the ring g_retired_routes     *)
(* that remembers why a route went.  A master playlist is the sequence of  *)
(* the URLs on its lines; each is entered by a scan of the array, and the  *)
(* scans of one playlist run under one hold of g_lock.  RouteTable below   *)
(* is StreamTable with the array read as a function on URLs: what the      *)
(* scans leave is what StreamTable says they leave.                        *)
(***************************************************************************)
EXTENDS Integers, Sequences, FiniteSets, Functions

CONSTANTS
    Channels, Urls, Renditions, Players, MaxStreams, MaxRoutes, StreamTtl,
    BackupLife, MaxClock, MaxGeneration, None,
    RetiredRoutes,  \* TAS_RETIRED_ROUTES
    CounterSize,    \* the counter of retirements wraps here (2^64)
    Playlists       \* the URLs a channel's master may list, line by line

\* The ring divides the range of its counter, as 64 divides 2^64.
ASSUME RetiredRoutesAssumption ==
    /\ RetiredRoutes \in Nat \ {0}
    /\ CounterSize \in Nat \ {0}
    /\ CounterSize % RetiredRoutes = 0

ASSUME TablesAssumption ==
    /\ MaxStreams \in Nat \ {0} /\ MaxRoutes \in Nat \ {0}
    /\ StreamTtl \in Nat /\ Players \in Nat \ {0}
    /\ IsFiniteSet(Urls) /\ None \notin Urls /\ None \notin Channels

\* No playlist retires as many routes as the counter counts.
ASSUME PlaylistsAssumption ==
    /\ Playlists \in [Channels -> SUBSET Seq(Urls)]
    /\ \A c \in Channels : \A lines \in Playlists[c] : MaxRoutes + Len(lines) < CounterSize

VARIABLES
    slots,          \* g_variant_routes
    retired,        \* g_retired_routes
    nextRetired,    \* g_next_retired_route
    streams, nextGeneration, now

vars == <<slots, retired, nextRetired, streams, nextGeneration, now>>

Index == 1 .. MaxRoutes
Holds(table, k) == table.slots[k].url # None

\* At most one slot holds a URL (LookupsFresh): the array as a function.
SlotsOf(u) == {k \in Index : slots[k].url = u}
ByUrl == [u \in Urls |->
            IF SlotsOf(u) = {} THEN [slot |-> 0, generation |-> 0, lastSeen |-> 0]
            ELSE LET route == slots[CHOOSE k \in SlotsOf(u) : TRUE]
                 IN [slot |-> route.slot, generation |-> route.generation,
                     lastSeen |-> route.lastSeen]]

RouteTable == INSTANCE StreamTable WITH
                routes <- ByUrl,
                Listings <- [c \in Channels |-> {Range(lines) : lines \in Playlists[c]}]

EmptyRoute == [url |-> None, slot |-> 0, generation |-> 0, lastSeen |-> 0]
NoRetired == [url |-> None, generation |-> 0, reason |-> "none"]

Init ==
    /\ slots = [k \in Index |-> EmptyRoute]
    /\ retired = [r \in 0 .. RetiredRoutes - 1 |-> NoRetired]
    /\ nextRetired = 0
    /\ streams = [i \in 1 .. MaxStreams |-> RouteTable!EmptyStream]
    /\ nextGeneration = 1
    /\ now = 0

----------------------------------------------------------------------------
(* The loops, on a record of the array and the ring                        *)

Tables == [slots |-> slots, retired |-> retired, next |-> nextRetired]
TablesBecome(table) ==
    /\ slots' = table.slots
    /\ retired' = table.retired
    /\ nextRetired' = table.next

\* The lowest index of a nonempty set.
First(indexes) == CHOOSE k \in indexes : \A j \in indexes : k <= j

\* Fault: the slot is emptied and nothing is remembered.
ForgetRoute(table, k, reason) == [table EXCEPT !.slots[k] = EmptyRoute]

\* retire_route_locked
RetireRoute(table, k, reason) ==
    IF ~Holds(table, k) THEN table
    ELSE [slots |-> [table.slots EXCEPT ![k] = EmptyRoute],
          retired |-> [table.retired EXCEPT ![table.next % RetiredRoutes] =
                         [url |-> table.slots[k].url,
                          generation |-> table.slots[k].generation,
                          reason |-> reason]],
          next |-> (table.next + 1) % CounterSize]

\* retire_route_locked for each of the slots, in the order of the array.
RetireRoutes(table, ks, reason) ==
    LET after[k \in 0 .. MaxRoutes] ==
          IF k = 0 THEN table
          ELSE IF k \in ks THEN RetireRoute(after[k - 1], k, reason) ELSE after[k - 1]
    IN after[MaxRoutes]

\* Fault: the routes of the context are left to be found stale.
KeepRoutes(table, i, reason) == table

\* clear_routes_for_stream_locked
ClearRoutesForStream(table, i, reason) ==
    RetireRoutes(table, {k \in Index : Holds(table, k) /\ table.slots[k].slot = i}, reason)

\* Fault: a full table gives up the route seen last.
NewestRoute(table, u) ==
    LET same == {k \in Index : table.slots[k].url = u}
        empty == {k \in Index : ~Holds(table, k)}
        newest == {k \in Index : \A j \in Index :
                     table.slots[j].lastSeen <= table.slots[k].lastSeen}
    IN First(IF same # {} THEN same ELSE IF empty # {} THEN empty ELSE newest)

\* Fault: the first empty slot is taken even if a later one holds the URL.
FirstEmptyFirst(table, u) ==
    LET empty == {k \in Index : ~Holds(table, k)}
        same == {k \in Index : table.slots[k].url = u}
    IN IF empty # {} THEN First(empty)
       ELSE IF same # {} THEN First(same)
       ELSE First({k \in Index : \A j \in Index :
                     table.slots[k].lastSeen <= table.slots[j].lastSeen})

\* The slot add_variant_route_locked takes for the URL: the one that holds
\* it, else the first empty one, else the first of those seen longest ago.
RouteIndex(table, u) ==
    LET same == {k \in Index : table.slots[k].url = u}
        empty == {k \in Index : ~Holds(table, k)}
        oldest == {k \in Index : \A j \in Index :
                     table.slots[k].lastSeen <= table.slots[j].lastSeen}
    IN First(IF same # {} THEN same ELSE IF empty # {} THEN empty ELSE oldest)

\* add_variant_route_locked
AddVariantRoute(table, i, generation, u) ==
    LET k == RouteIndex(table, u)
        route == table.slots[k]
        cleared == IF route.url # u
                   THEN RetireRoute(table, k, "route_capacity")
                   ELSE IF route.generation # generation
                   THEN RetireRoute(table, k, "route_reassigned")
                   ELSE table
    IN [cleared EXCEPT !.slots[k] = [url |-> u, slot |-> i,
                                     generation |-> generation, lastSeen |-> now]]

\* register_variant_routes_locked
RegisterVariantRoutes(table, i, generation, lines) ==
    LET after[n \in 0 .. Len(lines)] ==
          IF n = 0 THEN ClearRoutesForStream(table, i, "master_refresh")
          ELSE AddVariantRoute(after[n - 1], i, generation, lines[n])
    IN after[Len(lines)]

\* The routes of the contexts prune_streams_locked clears, in their order.
PruneRoutes(table) ==
    LET after[i \in 0 .. MaxStreams] ==
          IF i = 0 THEN table
          ELSE IF RouteTable!Expired(i)
          THEN ClearRoutesForStream(after[i - 1], i, "stream_expired")
          ELSE after[i - 1]
    IN after[MaxStreams]

----------------------------------------------------------------------------
(* The critical sections of g_lock                                         *)

\* The master branch of process_manifest.
MasterPlaylist(channel, lines) ==
    \E i \in 1 .. MaxStreams :
      LET held == i \in RouteTable!Holders(channel)
          recorded == RouteTable!RecordedStream(channel, Range(lines), i)
          pruned == PruneRoutes(Tables)
          freed == IF i \in RouteTable!Survivors /\ ~held
                   THEN ClearRoutesForStream(pruned, i, "stream_replaced") ELSE pruned
      IN /\ RouteTable!SlotFor(channel, i)
         /\ held \/ nextGeneration <= MaxGeneration
         /\ RouteTable!UpdateStreamMaster(channel, Range(lines), i)
         /\ TablesBecome(RegisterVariantRoutes(freed, i, recorded.generation, lines))
         /\ now' = now

\* The slots with the URL whose stream is the one they were entered for.
Live(u) == {k \in SlotsOf(u) :
              RouteTable!StreamRefMatches([slot |-> slots[k].slot,
                                           generation |-> slots[k].generation])}

\* stream_for_variant_locked: the first live slot is touched, and the stale
\* ones before it are retired.
RouteHit(u) ==
    LET k == First(Live(u))
    IN /\ Live(u) # {}
       /\ TablesBecome([RetireRoutes(Tables, {j \in SlotsOf(u) : j < k}, "stale_generation")
                          EXCEPT !.slots[k].lastSeen = now])
       /\ streams' = [streams EXCEPT ![slots[k].slot].lastSeen = now]
       /\ UNCHANGED <<nextGeneration, now>>

RouteMiss(u) ==
    /\ Live(u) = {}
    /\ TablesBecome(RetireRoutes(Tables, SlotsOf(u), "stale_generation"))
    /\ UNCHANGED <<streams, nextGeneration, now>>

Tick ==
    /\ now < MaxClock
    /\ now' = now + 1
    /\ UNCHANGED <<slots, retired, nextRetired, streams, nextGeneration>>

Next ==
    \/ Tick
    \/ \E channel \in Channels : \E lines \in Playlists[channel] :
         MasterPlaylist(channel, lines)
    \/ \E u \in Urls : RouteHit(u) \/ RouteMiss(u)

Spec == Init /\ [][Next]_vars

----------------------------------------------------------------------------
(* Properties                                                              *)

\* However entries are taken, reassigned, evicted and freed, a lookup never has
\* to pass a stale route: no URL is in two slots, and every context that goes
\* takes its routes along, so that the reason "stale_generation" is never
\* recorded.
LookupsFresh ==
    /\ \A j, k \in Index : slots[j].url # None /\ slots[j].url = slots[k].url => j = k
    /\ \A r \in DOMAIN retired : retired[r].reason # "stale_generation"

\* The scans of the array implement the routes of StreamTable.
ImplementsStreamTable == RouteTable!TableSpec

\* No route disappears without a trace: a URL that loses its route in a step
\* is in the ring after it, with the generation it had, unless that one step
\* retired more routes than the ring holds.
LostRoutesExplained ==
    [][(nextRetired' - nextRetired) % CounterSize <= RetiredRoutes =>
       \A j \in Index :
         slots[j].url # None /\ ~(\E k \in Index : slots'[k].url = slots[j].url)
         => \E r \in DOMAIN retired' :
              /\ retired'[r].url = slots[j].url
              /\ retired'[r].generation = slots[j].generation]_vars

============================================================================
