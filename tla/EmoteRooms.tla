----------------------------- MODULE EmoteRooms -----------------------------
(***************************************************************************)
(* The emote sets of TASEmotes.c: the global set, the sets of the rooms    *)
(* seen in chat, and the fetches that fill them.  Every action is one      *)
(* critical section of g_emote_lock.                                       *)
(*                                                                         *)
(* A receiver is a thread that delivers chat frames; Main is the thread of *)
(* the buttons Reload Emotes and Clear Emote Cache.  A fetch runs from the *)
(* moment its provider is marked pending until finish_provider, whether a  *)
(* task calls that or, when there is none, the thread that marked it.      *)
(*                                                                         *)
(* A definition introduced as a fault is a plausible mistake in the one    *)
(* after it; no specification uses it.                                     *)
(***************************************************************************)
EXTENDS Integers

CONSTANTS
    RoomIds,        \* rooms of chat frames
    Providers,      \* 7TV, BTTV, FFZ
    Receivers, Main, \* threads
    MaxRooms,       \* MAX_ROOMS
    RoomIdle,       \* ROOM_IDLE_SECONDS
    SweepSeconds,   \* the 30 s between two sweeps of expire_locked
    RetrySeconds,   \* RETRY_SECONDS
    MaxFailures,    \* failures stop counting here (5)
    MaxDoublings,   \* and the delay stops doubling here (3)
    MaxClock,       \* bound on the clock
    MaxGeneration,  \* bound on g_generation
    Global, None    \* the scope of the global set; no room

ASSUME ScopesAssumption == Global \notin RoomIds /\ None \notin RoomIds \cup {Global}
ASSUME MainAssumption == Main \notin Receivers
ASSUME BoundsAssumption ==
    /\ MaxRooms \in Nat \ {0}
    /\ RoomIdle \in Nat /\ SweepSeconds \in Nat /\ RetrySeconds \in Nat
    /\ MaxFailures \in Nat /\ MaxDoublings \in Nat
    /\ MaxClock \in Nat /\ MaxGeneration \in Nat \ {0, 1}

VARIABLES
    rooms,          \* g_rooms, and g_global at 0
    generation,     \* g_generation
    lastRoom,       \* g_last_room
    lastSweep,      \* g_last_sweep
    now,            \* time(NULL)
    fetches,        \* how many of each fetch are running
    thread          \* where each thread is in rewrite_line or tas_emotes_reload

vars == <<rooms, generation, lastRoom, lastSweep, now, fetches, thread>>

Slots == 1 .. MaxRooms
Threads == Receivers \cup {Main}

\* What a fetch is for; a set that was installed is named by its fetch.
Fetch == [scope : RoomIds \cup {Global}, generation : 0 .. MaxGeneration,
          provider : Providers]

\* Room.  An id of None is "not occupied", and 0 in attempted is "never".
Room == [id : RoomIds \cup {Global, None}, generation : 0 .. MaxGeneration,
         lastUsed : Nat, attempted : [Providers -> Nat],
         failures : [Providers -> 0 .. MaxFailures],
         loaded : [Providers -> BOOLEAN], pending : [Providers -> BOOLEAN],
         sets : SUBSET Fetch]
CleanRoom(id, gen, used) ==
    [id |-> id, generation |-> gen, lastUsed |-> used,
     attempted |-> [p \in Providers |-> 0],
     failures |-> [p \in Providers |-> 0],
     loaded |-> [p \in Providers |-> FALSE],
     pending |-> [p \in Providers |-> FALSE],
     sets |-> {}]
EmptyRoom == CleanRoom(None, 0, 0)

Thread == [at : {"idle", "global", "room"}, room : RoomIds \cup {None}]
IdleThread == [at |-> "idle", room |-> None]

\* tas_emotes_initialize has numbered the global set, and Main is about to
\* fetch it.
Init ==
    /\ rooms = [i \in Slots \cup {0} |-> IF i = 0 THEN CleanRoom(Global, 2, 0) ELSE EmptyRoom]
    /\ generation = 2
    /\ lastRoom = None
    /\ lastSweep = 0
    /\ now = 1
    /\ fetches = [f \in Fetch |-> 0]
    /\ thread = [t \in Threads |->
                   IF t = Main THEN [at |-> "global", room |-> None] ELSE IdleThread]

----------------------------------------------------------------------------
(* ensure_loaded                                                           *)

\* expire_locked
SweepDue == now - lastSweep >= SweepSeconds
Swept ==
    [i \in Slots \cup {0} |->
       IF SweepDue /\ i # 0 /\ rooms[i].id # None /\ now - rooms[i].lastUsed > RoomIdle
       THEN EmptyRoom ELSE rooms[i]]

\* Fault: a full table gives up the room used last.
NewestRoomSlot(rs, r, i) ==
    \/ rs[i].id = r
    \/ (\A j \in Slots : rs[j].id # r) /\ rs[i].id = None
    \/ /\ \A j \in Slots : rs[j].id \notin {r, None}
       /\ \A j \in Slots : rs[j].lastUsed <= rs[i].lastUsed

\* The slot room_locked takes: the room's own, else the last empty one, else
\* the first of those used longest ago.
RoomSlot(rs, r, i) ==
    \/ rs[i].id = r
    \/ /\ \A j \in Slots : rs[j].id # r
       /\ rs[i].id = None
       /\ \A j \in Slots : rs[j].id = None => j <= i
    \/ /\ \A j \in Slots : rs[j].id \notin {r, None}
       /\ \A j \in Slots :
            \/ rs[i].lastUsed < rs[j].lastUsed
            \/ rs[i].lastUsed = rs[j].lastUsed /\ i <= j

\* The delay doubles with every failure after the first.
RetryAfter(failures) ==
    LET doublings == IF failures = 0 THEN 0
                     ELSE IF failures - 1 > MaxDoublings THEN MaxDoublings
                     ELSE failures - 1
    IN RetrySeconds * 2 ^ doublings

\* Fault: a provider is fetched again though an earlier fetch is running.
DueWhilePending(room) ==
    {p \in Providers :
       /\ ~room.loaded[p]
       /\ \/ room.attempted[p] = 0
          \/ now - room.attempted[p] >= RetryAfter(room.failures[p])}

\* The providers to fetch for a room; nothing in the code sets "force".
Due(room) ==
    {p \in Providers :
       /\ ~room.pending[p] /\ ~room.loaded[p]
       /\ \/ room.attempted[p] = 0
          \/ now - room.attempted[p] >= RetryAfter(room.failures[p])}

FetchDue(rs, i) ==
    LET room == rs[i]
        due == Due(room)
    IN /\ rooms' = [rs EXCEPT ![i] =
                      [room EXCEPT
                         !.pending = [p \in Providers |-> room.pending[p] \/ p \in due],
                         !.attempted = [p \in Providers |->
                                          IF p \in due THEN now ELSE room.attempted[p]]]]
       /\ fetches' = [f \in Fetch |->
                        IF /\ f.scope = room.id /\ f.generation = room.generation
                           /\ f.provider \in due
                        THEN fetches[f] + 1 ELSE fetches[f]]
       /\ lastSweep' = IF SweepDue THEN now ELSE lastSweep

\* ensure_loaded(NULL, false)
EnsureGlobal(t) ==
    /\ thread[t].at = "global"
    /\ FetchDue(Swept, 0)
    /\ thread' = [thread EXCEPT ![t] = IF thread[t].room = None THEN IdleThread
                                       ELSE [at |-> "room", room |-> thread[t].room]]
    /\ UNCHANGED <<generation, lastRoom, now>>

\* ensure_loaded(room_id, false): the room is touched, or takes a slot with a
\* generation of its own.
EnsureRoom(t) ==
    LET r == thread[t].room
    IN /\ thread[t].at = "room"
       /\ \E i \in Slots :
            /\ RoomSlot(Swept, r, i)
            /\ IF Swept[i].id = r
               THEN /\ FetchDue([Swept EXCEPT ![i].lastUsed = now], i)
                    /\ generation' = generation
               ELSE /\ generation < MaxGeneration
                    /\ FetchDue([Swept EXCEPT ![i] = CleanRoom(r, generation + 1, now)], i)
                    /\ generation' = generation + 1
       /\ thread' = [thread EXCEPT ![t] = IdleThread]
       /\ UNCHANGED <<lastRoom, now>>

----------------------------------------------------------------------------
(* finish_provider                                                         *)

\* Fault: a response is taken by whichever incarnation of the room is there.
CurrentOfAny(room, f) == room.id = f.scope

\* The room and the incarnation that the fetch was for.
Current(room, f) == room.id = f.scope /\ room.generation = f.generation

\* The room once its fetch has ended.  "failed" is every other result: HTTP,
\* transport, empty, oversized, JSON, schema, unavailable.
Finished(room, f, result) ==
    LET p == f.provider
        ok == result \in {"ready", "absent"}
    IN [room EXCEPT
          !.pending[p] = FALSE,
          !.loaded[p] = ok,
          !.failures[p] = IF ok THEN 0 ELSE IF @ < MaxFailures THEN @ + 1 ELSE @,
          !.sets = IF result = "ready" THEN @ \cup {f} ELSE @]

\* Fault: without a session or a task, nobody finishes the fetch.
FinishSilently(f, result) ==
    /\ fetches[f] > 0
    /\ result = "absent" => f.scope # Global
    /\ fetches' = [fetches EXCEPT ![f] = @ - 1]
    /\ rooms' = IF result = "failed" THEN rooms
                ELSE [i \in Slots \cup {0} |->
                        IF Current(rooms[i], f) THEN Finished(rooms[i], f, result)
                        ELSE rooms[i]]
    /\ UNCHANGED <<generation, lastRoom, lastSweep, now, thread>>

\* A channel the provider does not know is "absent"; a global set that is
\* missing has failed.
Finish(f, result) ==
    /\ fetches[f] > 0
    /\ result = "absent" => f.scope # Global
    /\ fetches' = [fetches EXCEPT ![f] = @ - 1]
    /\ rooms' = [i \in Slots \cup {0} |->
                   IF Current(rooms[i], f) THEN Finished(rooms[i], f, result) ELSE rooms[i]]
    /\ UNCHANGED <<generation, lastRoom, lastSweep, now, thread>>

----------------------------------------------------------------------------
(* Frames and buttons                                                      *)

\* rewrite_line, for a frame with a room: what it does first.
Frame(t, r) ==
    /\ t \in Receivers /\ thread[t] = IdleThread
    /\ lastRoom' = r
    /\ thread' = [thread EXCEPT ![t] = [at |-> "global", room |-> r]]
    /\ UNCHANGED <<rooms, generation, lastSweep, now, fetches>>

\* Fault: the rooms' sets go but the global set keeps its generation.
ResetRooms ==
    /\ generation < MaxGeneration
    /\ generation' = generation + 1
    /\ rooms' = [i \in Slots \cup {0} |->
                   IF i = 0 THEN CleanRoom(Global, rooms[0].generation, 0) ELSE EmptyRoom]

\* reset_room_locked for every set.  The global set has a generation at all
\* times; a room has none until it takes a slot again.
ResetAll ==
    /\ generation < MaxGeneration
    /\ generation' = generation + 1
    /\ rooms' = [i \in Slots \cup {0} |->
                   IF i = 0 THEN CleanRoom(Global, generation + 1, 0) ELSE EmptyRoom]

\* tas_emotes_reload; the fetches of the global set and of the last room
\* follow.
Reload ==
    /\ thread[Main] = IdleThread
    /\ ResetAll
    /\ thread' = [thread EXCEPT ![Main] = [at |-> "global", room |-> lastRoom]]
    /\ UNCHANGED <<lastRoom, lastSweep, now, fetches>>

\* tas_emotes_clear_cache
ClearCache ==
    /\ thread[Main] = IdleThread
    /\ ResetAll
    /\ lastRoom' = None
    /\ UNCHANGED <<lastSweep, now, fetches, thread>>

\* tas_emotes_local_matches_copy, for a message the user has sent: its room is
\* in use too.
LocalMatches(i) ==
    /\ rooms[i].id # None
    /\ rooms' = [rooms EXCEPT ![i].lastUsed = now]
    /\ UNCHANGED <<generation, lastRoom, lastSweep, now, fetches, thread>>

Tick ==
    /\ now < MaxClock
    /\ now' = now + 1
    /\ UNCHANGED <<rooms, generation, lastRoom, lastSweep, fetches, thread>>

----------------------------------------------------------------------------
Result == {"ready", "absent", "failed"}

Next ==
    \/ \E t \in Threads : EnsureGlobal(t) \/ EnsureRoom(t)
    \/ \E f \in Fetch, result \in Result : Finish(f, result)
    \/ \E t \in Receivers, r \in RoomIds : Frame(t, r)
    \/ \E i \in Slots : LocalMatches(i)
    \/ Reload \/ ClearCache \/ Tick

Spec == Init /\ [][Next]_vars

\* A task ends (it times out), and one that was never made is finished by the
\* thread that could not make it.
FairSpec == Spec /\ \A f \in Fetch : WF_vars(\E result \in Result : Finish(f, result))

----------------------------------------------------------------------------
(* Properties                                                              *)

\* Every variable holds what its C type holds, and no room is in two slots, so
\* that the room a lookup finds is the one it means.
TypeOK ==
    /\ rooms \in [Slots \cup {0} -> Room]
    /\ rooms[0].id = Global
    /\ \A i \in Slots : rooms[i].id # Global
    /\ \A i, j \in Slots : rooms[i].id = rooms[j].id /\ rooms[i].id # None => i = j
    /\ generation \in 0 .. MaxGeneration
    /\ lastRoom \in RoomIds \cup {None}
    /\ lastSweep \in Nat
    /\ now \in Nat \ {0}
    /\ fetches \in [Fetch -> Nat]
    /\ thread \in [Threads -> Thread]

\* A provider is pending for a set exactly while its fetch runs, and never
\* twice at once: no reset, expiry, eviction or late response leaves a set
\* waiting for a fetch that is over, or clears the mark of one that is not.
PendingExactly(room, running) ==
    \A f \in Fetch : Current(room, f) =>
      running[f] = IF room.pending[f.provider] THEN 1 ELSE 0
PendingWhileFetching ==
    \A i \in Slots \cup {0} : rooms[i].id # None => PendingExactly(rooms[i], fetches)

\* A set holds emotes of its own room and incarnation only, and nothing
\* fetched before the last reload or clearing is there or comes back.
SetsOwned ==
    \A i \in Slots \cup {0} : \A f \in rooms[i].sets :
      /\ Current(rooms[i], f)
      /\ f.generation >= rooms[0].generation

\* Emotes that were loaded stay as long as their room keeps its slot: no late
\* failure of another fetch takes them back.
LoadedStays ==
    [][\A i \in Slots \cup {0}, p \in Providers :
         rooms[i].loaded[p] /\ rooms'[i].generation = rooms[i].generation
         => /\ rooms'[i].loaded[p]
            /\ rooms[i].sets \subseteq rooms'[i].sets]_vars

\* A room loses its slot only to a button, to idleness, or to a room that
\* found the table full, and then it was the one used longest ago.
EvictsIdleOrOldest ==
    [][\A i \in Slots :
         rooms[i].id # None /\ rooms'[i].generation # rooms[i].generation
         => \/ rooms'[0].generation # rooms[0].generation
            \/ now - rooms[i].lastUsed > RoomIdle
            \/ \A j \in Slots : /\ rooms[j].id # None
                                /\ rooms[i].lastUsed <= rooms[j].lastUsed]_vars

\* TASEmotes.c:462: all exits release pending state.  No provider stays
\* pending for ever, whatever becomes of its task.
PendingEnds ==
    \A i \in Slots \cup {0}, p \in Providers :
      rooms[i].pending[p] ~> ~rooms[i].pending[p]

----------------------------------------------------------------------------
(* The inductive invariant of the proofs in EmoteRoomsProofs               *)

\* A room that has a slot has a generation that was given out; one that has
\* none holds nothing.
RoomOK(room, gen) ==
    /\ room \in Room
    /\ room.generation <= gen
    /\ room.id # None => room.generation >= 1
    /\ room.id = None => room.generation = 0 /\ room.sets = {}
    /\ \A p \in Providers : room.loaded[p] => room.id # None /\ ~room.pending[p]
    /\ \A f \in room.sets : Current(room, f)

\* The sets, as ensure_loaded leaves them between two of its steps: rs with
\* generations up to gen given out and fs running.
TableShape(rs) ==
    /\ rs \in [Slots \cup {0} -> Room]
    /\ rs[0].id = Global
    /\ \A i \in Slots : rs[i].id # Global
    /\ \A i, j \in Slots : rs[i].id = rs[j].id /\ rs[i].id # None => i = j
TableInv(rs, gen, fs) ==
    /\ TableShape(rs)
    /\ \A i \in Slots \cup {0} :
         /\ RoomOK(rs[i], gen)
         /\ rs[i].id # None => /\ rs[i].generation >= rs[0].generation
                               /\ PendingExactly(rs[i], fs)

\* No fetch runs for a generation still to be given out.
FetchesGiven(gen, fs) ==
    /\ fs \in [Fetch -> Nat]
    /\ \A f \in Fetch : f.generation > gen => fs[f] = 0

OtherTypes ==
    /\ generation \in 0 .. MaxGeneration
    /\ lastRoom \in RoomIds \cup {None}
    /\ lastSweep \in Nat
    /\ now \in Nat \ {0}
    /\ thread \in [Threads -> Thread]
    /\ \A t \in Threads : thread[t].at = "room" => thread[t].room \in RoomIds

IInv ==
    /\ TableInv(rooms, generation, fetches)
    /\ FetchesGiven(generation, fetches)
    /\ OtherTypes

============================================================================
