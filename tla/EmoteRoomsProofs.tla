-------------------------- MODULE EmoteRoomsProofs --------------------------
(***************************************************************************)
(* The emote sets for any number of rooms, threads and providers.  The     *)
(* invariant IInv is about the table of sets as a value, so that the steps *)
(* ensure_loaded takes inside one critical section (sweep, enter, mark)    *)
(* each have a lemma that says it survives.                                *)
(***************************************************************************)
EXTENDS EmoteRooms, TLAPS

Index == Slots \cup {0}

\* A provider that is due is neither pending nor loaded (ensure_loaded).
LEMMA DueFacts ==
  ASSUME NEW room
  PROVE  \A p \in Due(room) : p \in Providers /\ ~room.pending[p] /\ ~room.loaded[p]
BY DEF Due

\* A room that was just entered has nothing pending and nothing loaded.
LEMMA CleanRoomOK ==
  ASSUME NEW id \in RoomIds \cup {Global}, NEW gen \in 1 .. MaxGeneration,
         NEW used \in Nat
  PROVE  /\ RoomOK(CleanRoom(id, gen, used), gen)
         /\ CleanRoom(id, gen, used).id = id
         /\ CleanRoom(id, gen, used).generation = gen
         /\ \A p \in Providers : ~CleanRoom(id, gen, used).pending[p]
BY ScopesAssumption, BoundsAssumption DEF CleanRoom, RoomOK, Room

\* So has an unoccupied slot.
LEMMA EmptyRoomOK ==
  ASSUME NEW gen \in Nat
  PROVE  RoomOK(EmptyRoom, gen) /\ EmptyRoom.id = None
BY BoundsAssumption DEF EmptyRoom, CleanRoom, RoomOK, Room

\* More generations given out do not matter to a room.
LEMMA RoomOKMonotone ==
  ASSUME NEW room, NEW a \in Nat, NEW b \in Nat, a <= b, RoomOK(room, a)
  PROVE  RoomOK(room, b)
BY BoundsAssumption DEF RoomOK, Room

----------------------------------------------------------------------------
(* The steps of ensure_loaded                                              *)

\* expire_locked
LEMMA SweepOK ==
  ASSUME IInv
  PROVE  TableInv(Swept, generation, fetches)
<1>1. generation \in Nat
  BY BoundsAssumption DEF IInv, OtherTypes
<1>2. RoomOK(EmptyRoom, generation) /\ EmptyRoom.id = None
  BY <1>1, EmptyRoomOK
<1>3. /\ Swept[0] = rooms[0]
      /\ \A i \in Slots : Swept[i] \in {rooms[i], EmptyRoom}
      /\ Swept \in [Slots \cup {0} -> Room]
  BY <1>2 DEF IInv, TableInv, TableShape, RoomOK, Swept, Slots
<1>4. QED
  BY <1>2, <1>3, ScopesAssumption DEF IInv, TableInv, TableShape

\* room_locked, when the room is in its slot.
LEMMA TouchOK ==
  ASSUME NEW rs, NEW gen \in Nat, NEW fs, TableInv(rs, gen, fs),
         NEW i \in Slots, NEW used \in Nat
  PROVE  TableInv([rs EXCEPT ![i].lastUsed = used], gen, fs)
<1> DEFINE m == [rs[i] EXCEPT !.lastUsed = used]
           ts == [rs EXCEPT ![i].lastUsed = used]
<1>1. RoomOK(rs[i], gen) /\ i \in Index /\ i # 0
  BY DEF TableInv, Index, Slots
<1>2. /\ m.id = rs[i].id /\ m.generation = rs[i].generation
      /\ m.sets = rs[i].sets /\ m.pending = rs[i].pending /\ m.loaded = rs[i].loaded
      /\ m \in Room
  BY <1>1 DEF RoomOK, Room
<1>3. RoomOK(m, gen)
  BY <1>1, <1>2 DEF RoomOK, Current
<1>4. /\ \A j \in Index : ts[j] = IF j = i THEN m ELSE rs[j]
      /\ ts \in [Index -> Room]
  BY <1>1, <1>2 DEF TableInv, TableShape, Index
<1> HIDE DEF m, ts
<1>5. \A j \in Index : /\ ts[j].id = rs[j].id /\ ts[j].generation = rs[j].generation
                       /\ ts[j].pending = rs[j].pending
                       /\ RoomOK(ts[j], gen)
  BY <1>2, <1>3, <1>4 DEF TableInv, Index
<1>6. TableShape(ts)
  BY <1>4, <1>5 DEF TableInv, TableShape, Index
<1>7. \A j \in Index : PendingExactly(rs[j], fs) => PendingExactly(ts[j], fs)
  BY <1>5 DEF PendingExactly, Current
<1>8. 0 \in Index
  BY DEF Index
<1>9. TableInv(ts, gen, fs)
  BY <1>5, <1>6, <1>7, <1>8 DEF TableInv, Index
<1>10. QED
  BY <1>9 DEF ts

\* room_locked, when the room takes a slot.
LEMMA TakeSlotOK ==
  ASSUME NEW rs, NEW gen \in Nat, NEW fs, TableInv(rs, gen, fs), FetchesGiven(gen, fs),
         gen + 1 <= MaxGeneration, NEW i \in Slots, NEW r \in RoomIds, NEW used \in Nat,
         \A j \in Slots : rs[j].id # r
  PROVE  TableInv([rs EXCEPT ![i] = CleanRoom(r, gen + 1, used)], gen + 1, fs)
<1> DEFINE m == CleanRoom(r, gen + 1, used)
           ts == [rs EXCEPT ![i] = m]
<1>1. /\ RoomOK(m, gen + 1) /\ m.id = r /\ m.generation = gen + 1
      /\ \A p \in Providers : ~m.pending[p]
  BY CleanRoomOK, BoundsAssumption
<1>2. /\ \A j \in Index : ts[j] = IF j = i THEN m ELSE rs[j]
      /\ ts \in [Index -> Room]
      /\ i \in Index /\ i # 0 /\ 0 \in Index
  BY <1>1 DEF TableInv, TableShape, RoomOK, Index, Slots
<1> HIDE DEF m, ts
<1>3. \A j \in Index : RoomOK(rs[j], gen + 1)
  BY RoomOKMonotone DEF TableInv, Index
<1>4. PendingExactly(m, fs)
  <2> SUFFICES ASSUME NEW f \in Fetch, Current(m, f)
               PROVE  fs[f] = IF m.pending[f.provider] THEN 1 ELSE 0
    BY DEF PendingExactly
  <2>1. f.generation = gen + 1 /\ f.provider \in Providers
    BY <1>1 DEF Current, Fetch
  <2>2. fs[f] = 0
    BY <2>1 DEF FetchesGiven
  <2>3. QED
    BY <1>1, <2>1, <2>2
<1>5. rs[0].generation <= gen
  BY <1>2 DEF TableInv, RoomOK, Index
<1>6. gen + 1 >= rs[0].generation
  BY <1>2, <1>5, BoundsAssumption DEF TableInv, RoomOK, Room, Index
<1>7. r # Global /\ r # None
  BY ScopesAssumption
<1>8. TableShape(ts)
  BY <1>1, <1>2, <1>7 DEF TableInv, TableShape, Index
<1>9. TableInv(ts, gen + 1, fs)
  BY <1>1, <1>2, <1>3, <1>4, <1>6, <1>8 DEF TableInv, Index
<1>10. QED
  BY <1>9 DEF ts, m

\* The marks and the fetches they stand for.
LEMMA MarkOK ==
  ASSUME NEW rs, NEW gen \in Nat, TableInv(rs, gen, fetches), FetchesGiven(gen, fetches),
         NEW i \in Index, rs[i].id # None, now \in Nat, FetchDue(rs, i)
  PROVE  /\ TableInv(rooms', gen, fetches')
         /\ FetchesGiven(gen, fetches')
<1> DEFINE due == Due(rs[i])
           pending == [p \in Providers |-> rs[i].pending[p] \/ p \in due]
           attempted == [p \in Providers |-> IF p \in due THEN now ELSE rs[i].attempted[p]]
           m == [rs[i] EXCEPT !.pending = pending, !.attempted = attempted]
<1>1. RoomOK(rs[i], gen)
  BY DEF TableInv, Index
<1>2. \A p \in due : p \in Providers /\ ~rs[i].pending[p] /\ ~rs[i].loaded[p]
  BY DueFacts
<1>3. /\ rooms' = [rs EXCEPT ![i] = m]
      /\ rs \in [Index -> Room]
      /\ \A j \in Index : rooms'[j] = IF j = i THEN m ELSE rs[j]
  BY DEF FetchDue, TableInv, TableShape, Index
<1>4. fetches' = [f \in Fetch |->
                    IF Current(rs[i], f) /\ f.provider \in due
                    THEN fetches[f] + 1 ELSE fetches[f]]
  BY Zenon DEF FetchDue, Current
<1> HIDE DEF due
<1>5. /\ pending \in [Providers -> BOOLEAN]
      /\ \A p \in Providers : pending[p] <=> (rs[i].pending[p] \/ p \in due)
  BY Zenon
<1>6. attempted \in [Providers -> Nat]
  BY <1>1 DEF RoomOK, Room
<1> HIDE DEF pending, attempted
<1>7. /\ m.id = rs[i].id /\ m.generation = rs[i].generation
      /\ m.sets = rs[i].sets /\ m.loaded = rs[i].loaded /\ m.pending = pending
      /\ m \in Room
  BY <1>1, <1>5, <1>6 DEF RoomOK, Room
<1> HIDE DEF m
<1>8. RoomOK(m, gen)
  BY <1>1, <1>2, <1>5, <1>7 DEF RoomOK, Current
<1>9. \A j \in Index : /\ rooms'[j].id = rs[j].id /\ rooms'[j].generation = rs[j].generation
                       /\ RoomOK(rooms'[j], gen)
  BY <1>3, <1>7, <1>8 DEF TableInv, Index
<1>10. \A j \in Index : rs[j].id # None => PendingExactly(rooms'[j], fetches')
  <2> SUFFICES ASSUME NEW j \in Index, rs[j].id # None, NEW f \in Fetch, Current(rs[j], f)
               PROVE  fetches'[f] = IF rooms'[j].pending[f.provider] THEN 1 ELSE 0
    BY <1>9 DEF PendingExactly, Current
  <2>1. /\ f.provider \in Providers
        /\ fetches[f] = IF rs[j].pending[f.provider] THEN 1 ELSE 0
    BY DEF TableInv, Index, Fetch, PendingExactly
  <2>2. CASE j = i
    <3>1. rooms'[j].pending = pending
      BY <1>3, <1>7, <2>2
    <3>2. CASE f.provider \in due
      BY <1>2, <1>4, <1>5, <2>1, <2>2, <3>1, <3>2
    <3>3. CASE f.provider \notin due
      BY <1>4, <1>5, <2>1, <2>2, <3>1, <3>3
    <3>4. QED
      BY <3>2, <3>3
  <2>3. CASE j # i
    <3>1. rs[j].id # rs[i].id
      BY <2>3 DEF TableInv, TableShape, Index, Slots
    <3>2. ~Current(rs[i], f)
      BY <3>1 DEF Current
    <3>3. rooms'[j] = rs[j] /\ fetches'[f] = fetches[f]
      BY <1>3, <1>4, <2>3, <3>2
    <3>4. QED
      BY <2>1, <3>3
  <2>4. QED
    BY <2>2, <2>3
<1>11. TableInv(rooms', gen, fetches')
  <2>1. 0 \in Index
    BY DEF Index
  <2>2. rooms' \in [Index -> Room]
    BY <1>3, <1>7
  <2>3. TableShape(rooms')
    BY <1>9, <2>2 DEF TableInv, TableShape, Index
  <2>4. QED
    BY <1>9, <1>10, <2>1, <2>3 DEF TableInv, Index
<1>12. FetchesGiven(gen, fetches')
  <2>1. fetches' \in [Fetch -> Nat]
    BY <1>4 DEF FetchesGiven
  <2>2. ASSUME NEW f \in Fetch, f.generation > gen
        PROVE  fetches'[f] = 0
    <3>1. rs[i].generation <= gen /\ rs[i].generation \in Nat /\ f.generation \in Nat
      BY <1>1, BoundsAssumption DEF RoomOK, Room, Fetch
    <3>2. ~Current(rs[i], f)
      BY <2>2, <3>1 DEF Current
    <3>3. QED
      BY <1>4, <2>2, <3>2 DEF FetchesGiven
  <2>3. QED
    BY <2>1, <2>2 DEF FetchesGiven
<1>13. QED
  BY <1>11, <1>12

----------------------------------------------------------------------------
(* The actions                                                             *)

\* The invariant holds after tas_emotes_initialize.
LEMMA InitInv == Init => IInv
<1> SUFFICES ASSUME Init
             PROVE  IInv
  OBVIOUS
<1>1. /\ RoomOK(rooms[0], 2) /\ rooms[0].id = Global
      /\ \A p \in Providers : ~rooms[0].pending[p]
  <2>1. rooms[0] = CleanRoom(Global, 2, 0) /\ 2 \in 1 .. MaxGeneration
    BY BoundsAssumption DEF Init
  <2>2. QED
    BY <2>1, CleanRoomOK
<1>2. \A i \in Slots : rooms[i] = EmptyRoom /\ i # 0
  BY DEF Init, Slots
<1>3. RoomOK(EmptyRoom, 2) /\ EmptyRoom.id = None
  BY EmptyRoomOK
<1>4. rooms \in [Slots \cup {0} -> Room]
  BY <1>1, <1>2, <1>3 DEF Init, RoomOK
<1>5. TableShape(rooms)
  BY <1>1, <1>2, <1>3, <1>4, ScopesAssumption DEF TableShape
<1>6. PendingExactly(rooms[0], fetches)
  BY <1>1 DEF PendingExactly, Fetch, Init
<1>7. TableInv(rooms, generation, fetches)
  <2>1. generation = 2 /\ rooms[0].generation \in Nat
    BY <1>4, BoundsAssumption DEF Init, Room
  <2>2. QED
    BY <1>1, <1>2, <1>3, <1>5, <1>6, <2>1 DEF TableInv
<1>8. FetchesGiven(generation, fetches)
  BY DEF Init, FetchesGiven
<1>9. OtherTypes
  BY BoundsAssumption DEF Init, OtherTypes, Thread, Threads, IdleThread
<1>10. QED
  BY <1>7, <1>8, <1>9 DEF IInv

\* ensure_loaded of the global set keeps the invariant.
LEMMA EnsureGlobalInv ==
  ASSUME IInv, NEW t \in Threads, EnsureGlobal(t)
  PROVE  IInv'
<1>1. PICK rs : rs = Swept
  OBVIOUS
<1>2. TableInv(rs, generation, fetches)
  BY <1>1, SweepOK
<1>3. /\ generation \in Nat /\ generation \in 0 .. MaxGeneration
      /\ now \in Nat /\ FetchesGiven(generation, fetches)
  BY BoundsAssumption DEF IInv, OtherTypes
<1>4. 0 \in Index /\ rs[0].id # None
  BY <1>2, ScopesAssumption DEF TableInv, TableShape, Index
<1>5. FetchDue(rs, 0) /\ generation' = generation
  BY <1>1 DEF EnsureGlobal
<1>6. /\ TableInv(rooms', generation, fetches')
      /\ FetchesGiven(generation, fetches')
  BY <1>2, <1>3, <1>4, <1>5, MarkOK
<1>7. OtherTypes'
  <2>1. lastSweep' \in Nat
    BY DEF EnsureGlobal, FetchDue, IInv, OtherTypes
  <2>2. thread[t] \in Thread
    BY DEF IInv, OtherTypes
  <2>3. thread[t].room # None => thread[t].room \in RoomIds
    BY <2>2 DEF Thread
  <2>4. /\ thread' \in [Threads -> Thread]
        /\ \A s \in Threads : thread'[s].at = "room" => thread'[s].room \in RoomIds
    BY <2>2, <2>3 DEF EnsureGlobal, IInv, OtherTypes, Thread, IdleThread
  <2>5. QED
    BY <2>1, <2>4 DEF EnsureGlobal, IInv, OtherTypes
<1>8. QED
  BY <1>5, <1>6, <1>7 DEF IInv

\* ensure_loaded of a room keeps the invariant, whatever slot it takes.
LEMMA EnsureRoomInv ==
  ASSUME IInv, NEW t \in Threads, EnsureRoom(t)
  PROVE  IInv'
<1>1. PICK rs : rs = Swept
  OBVIOUS
<1>2. TableInv(rs, generation, fetches)
  BY <1>1, SweepOK
<1>3. /\ generation \in Nat /\ generation \in 0 .. MaxGeneration
      /\ now \in Nat /\ FetchesGiven(generation, fetches)
  BY BoundsAssumption DEF IInv, OtherTypes
<1>4. PICK r \in RoomIds : r = thread[t].room
  BY DEF EnsureRoom, IInv, OtherTypes
<1>5. PICK i \in Slots :
        /\ RoomSlot(rs, r, i)
        /\ IF rs[i].id = r
           THEN /\ FetchDue([rs EXCEPT ![i].lastUsed = now], i)
                /\ generation' = generation
           ELSE /\ generation < MaxGeneration
                /\ FetchDue([rs EXCEPT ![i] = CleanRoom(r, generation + 1, now)], i)
                /\ generation' = generation + 1
  BY <1>1, <1>4, Zenon DEF EnsureRoom
<1>6. i \in Index /\ r # None /\ rs \in [Index -> Room]
  BY <1>2, ScopesAssumption DEF Index, TableInv, TableShape
<1>7. /\ TableInv(rooms', generation', fetches')
      /\ FetchesGiven(generation', fetches')
  <2>1. CASE rs[i].id = r
    <3>1. PICK ts : ts = [rs EXCEPT ![i].lastUsed = now]
      OBVIOUS
    <3>2. TableInv(ts, generation, fetches)
      BY <1>2, <1>3, <3>1, TouchOK
    <3>3. ts[i].id # None
      BY <1>6, <2>1, <3>1 DEF Room
    <3>4. FetchDue(ts, i) /\ generation' = generation
      BY <1>5, <2>1, <3>1
    <3>5. QED
      BY <1>3, <1>6, <3>2, <3>3, <3>4, MarkOK
  <2>2. CASE rs[i].id # r
    <3>1. PICK ts : ts = [rs EXCEPT ![i] = CleanRoom(r, generation + 1, now)]
      OBVIOUS
    <3>2. \A j \in Slots : rs[j].id # r
      BY <1>5, <2>2 DEF RoomSlot
    <3>3. PICK gen \in Nat : gen = generation + 1 /\ gen \in 0 .. MaxGeneration
      BY <1>3, <1>5, <2>2, BoundsAssumption
    <3>4. TableInv(ts, gen, fetches)
      <4>1. generation + 1 <= MaxGeneration
        BY <3>3, BoundsAssumption
      <4>2. QED
        BY <1>2, <1>3, <3>1, <3>2, <3>3, <4>1, TakeSlotOK
    <3>5. FetchesGiven(gen, fetches)
      BY <1>3, <3>3, BoundsAssumption DEF FetchesGiven, Fetch
    <3>6. ts[i].id # None
      BY <1>6, <3>1 DEF CleanRoom
    <3>7. FetchDue(ts, i) /\ generation' = gen
      BY <1>5, <2>2, <3>1, <3>3
    <3>8. QED
      BY <1>3, <1>6, <3>3, <3>4, <3>5, <3>6, <3>7, MarkOK
  <2>3. QED
    BY <2>1, <2>2
<1>8. OtherTypes'
  <2>1. lastSweep' \in Nat
    <3>1. lastSweep' \in {now, lastSweep}
      BY <1>5 DEF FetchDue
    <3>2. QED
      BY <3>1 DEF IInv, OtherTypes
  <2>2. generation' \in 0 .. MaxGeneration
    BY <1>3, <1>5, BoundsAssumption
  <2>3. /\ thread' \in [Threads -> Thread]
        /\ \A s \in Threads : thread'[s].at = "room" => thread'[s].room \in RoomIds
    BY DEF EnsureRoom, IInv, OtherTypes, Thread, IdleThread
  <2>4. QED
    BY <2>1, <2>2, <2>3 DEF EnsureRoom, IInv, OtherTypes
<1>9. QED
  BY <1>7, <1>8 DEF IInv

\* A set that a fetch was for is in order when the fetch has ended.
LEMMA FinishedOK ==
  ASSUME NEW room, NEW gen \in Nat, RoomOK(room, gen), NEW f \in Fetch,
         Current(room, f), NEW result \in Result
  PROVE  LET done == Finished(room, f, result)
         IN /\ RoomOK(done, gen)
            /\ done.id = room.id /\ done.generation = room.generation
            /\ done.pending = [room.pending EXCEPT ![f.provider] = FALSE]
<1> DEFINE p == f.provider
           ok == result \in {"ready", "absent"}
           pending == [room.pending EXCEPT ![p] = FALSE]
           loaded == [room.loaded EXCEPT ![p] = ok]
           failures == [room.failures EXCEPT
                          ![p] = IF ok THEN 0 ELSE IF @ < MaxFailures THEN @ + 1 ELSE @]
           sets == IF result = "ready" THEN room.sets \cup {f} ELSE room.sets
           done == [room EXCEPT !.pending = pending, !.loaded = loaded,
                                !.failures = failures, !.sets = sets]
<1>1. room \in Room /\ p \in Providers
  BY DEF RoomOK, Fetch
<1>2. Finished(room, f, result) = done
  BY <1>1 DEF Finished, Room
<1>3. ok \in BOOLEAN /\ pending \in [Providers -> BOOLEAN] /\ loaded \in [Providers -> BOOLEAN]
  BY <1>1 DEF Room
<1>4. failures \in [Providers -> 0 .. MaxFailures]
  <2>1. room.failures \in [Providers -> 0 .. MaxFailures]
    BY <1>1 DEF Room
  <2>2. \A n \in 0 .. MaxFailures :
          (IF ok THEN 0 ELSE IF n < MaxFailures THEN n + 1 ELSE n) \in 0 .. MaxFailures
    BY BoundsAssumption
  <2> HIDE DEF ok
  <2>3. QED
    BY <1>1, <2>1, <2>2
<1>5. sets \in SUBSET Fetch /\ \A g \in sets : Current(room, g)
  BY <1>1 DEF RoomOK, Room
<1>6. /\ pending[p] = FALSE
      /\ \A q \in Providers : q # p => pending[q] = room.pending[q] /\ loaded[q] = room.loaded[q]
  BY <1>1 DEF Room
<1> HIDE DEF ok, failures, sets, pending, loaded
<1>8. /\ done \in Room
      /\ done.id = room.id /\ done.generation = room.generation
      /\ done.pending = pending /\ done.loaded = loaded /\ done.sets = sets
  BY <1>1, <1>3, <1>4, <1>5 DEF Room
<1> HIDE DEF done
<1>9. room.id # None
  BY ScopesAssumption DEF Current, Fetch
<1>10. \A q \in Providers : done.loaded[q] => ~done.pending[q]
  <2> SUFFICES ASSUME NEW q \in Providers, done.loaded[q]
               PROVE  ~done.pending[q]
    OBVIOUS
  <2>1. CASE q = p
    BY <1>6, <1>8, <2>1
  <2>2. CASE q # p
    BY <1>6, <1>8, <2>2 DEF RoomOK
  <2>3. QED
    BY <2>1, <2>2
<1>11. RoomOK(done, gen)
  BY <1>5, <1>8, <1>9, <1>10 DEF RoomOK, Current
<1>12. QED
  BY <1>2, <1>8, <1>11 DEF pending, p

\* A fetch is its set, generation and provider.
LEMMA SameFetch ==
  ASSUME NEW f \in Fetch, NEW g \in Fetch,
         f.scope = g.scope, f.generation = g.generation, f.provider = g.provider
  PROVE  f = g
BY DEF Fetch

\* finish_provider keeps the invariant, whether its set is still there or not.
LEMMA FinishInv ==
  ASSUME IInv, NEW f \in Fetch, NEW result \in Result, Finish(f, result)
  PROVE  IInv'
<1>1. /\ generation \in Nat /\ TableInv(rooms, generation, fetches)
      /\ FetchesGiven(generation, fetches)
  BY BoundsAssumption DEF IInv, OtherTypes
<1>2. /\ fetches[f] > 0 /\ fetches[f] \in Nat
      /\ fetches' = [fetches EXCEPT ![f] = fetches[f] - 1]
      /\ fetches \in [Fetch -> Nat]
  BY <1>1 DEF Finish, FetchesGiven
<1>3. rooms' = [i \in Index |-> IF Current(rooms[i], f) THEN Finished(rooms[i], f, result)
                                ELSE rooms[i]]
  BY DEF Finish, Index
<1>4. \A i \in Index : RoomOK(rooms[i], generation)
  BY <1>1 DEF TableInv, Index
<1>0. ASSUME NEW i \in Index, Current(rooms[i], f)
      PROVE  /\ RoomOK(rooms'[i], generation)
             /\ rooms'[i].id = rooms[i].id
             /\ rooms'[i].generation = rooms[i].generation
             /\ rooms'[i].pending = [rooms[i].pending EXCEPT ![f.provider] = FALSE]
  <2>1. PICK room : room = rooms[i]
    OBVIOUS
  <2>2. PICK gen \in Nat : gen = generation
    BY <1>1
  <2>3. RoomOK(room, gen) /\ Current(room, f)
    BY <1>0, <1>4, <2>1, <2>2
  <2>4. /\ RoomOK(Finished(room, f, result), gen)
        /\ Finished(room, f, result).id = room.id
        /\ Finished(room, f, result).generation = room.generation
        /\ Finished(room, f, result).pending = [room.pending EXCEPT ![f.provider] = FALSE]
    BY <2>3, FinishedOK
  <2>5. rooms'[i] = Finished(room, f, result)
    BY <1>0, <1>3, <2>1
  <2>6. QED
    BY <2>1, <2>2, <2>4, <2>5
<1>5. \A i \in Index : /\ RoomOK(rooms'[i], generation)
                       /\ rooms'[i].id = rooms[i].id
                       /\ rooms'[i].generation = rooms[i].generation
  <2> SUFFICES ASSUME NEW i \in Index
               PROVE  /\ RoomOK(rooms'[i], generation)
                      /\ rooms'[i].id = rooms[i].id
                      /\ rooms'[i].generation = rooms[i].generation
    OBVIOUS
  <2>1. CASE Current(rooms[i], f)
    BY <1>0, <2>1
  <2>2. CASE ~Current(rooms[i], f)
    BY <1>3, <1>4, <2>2
  <2>3. QED
    BY <2>1, <2>2
<1>6. \A i \in Index : rooms[i].id # None => PendingExactly(rooms'[i], fetches')
  <2> SUFFICES ASSUME NEW i \in Index, rooms[i].id # None,
                      NEW g \in Fetch, Current(rooms[i], g)
               PROVE  fetches'[g] = IF rooms'[i].pending[g.provider] THEN 1 ELSE 0
    BY <1>5 DEF PendingExactly, Current
  <2>1. /\ g.provider \in Providers /\ fetches[g] \in Nat
        /\ fetches[g] = IF rooms[i].pending[g.provider] THEN 1 ELSE 0
    BY <1>1 DEF TableInv, PendingExactly, Index, Fetch, FetchesGiven
  <2>2. rooms[i].pending \in [Providers -> BOOLEAN]
    BY <1>4 DEF RoomOK, Room
  <2>3. CASE g = f
    <3>1. fetches'[g] = 0
      BY <1>2, <2>1, <2>3
    <3>2. Current(rooms[i], f)
      BY <2>3
    <3>3. rooms'[i].pending = [rooms[i].pending EXCEPT ![f.provider] = FALSE]
      BY <1>0, <3>2
    <3>4. QED
      BY <2>1, <2>2, <2>3, <3>1, <3>3
  <2>4. CASE g # f
    <3>1. fetches'[g] = fetches[g]
      BY <1>2, <2>4
    <3>2. CASE ~Current(rooms[i], f)
      <4>1. rooms'[i] = rooms[i]
        BY <1>3, <3>2
      <4>2. QED
        BY <2>1, <3>1, <4>1
    <3>3. CASE Current(rooms[i], f)
      <4>1. g.provider # f.provider
        BY <2>4, <3>3, SameFetch DEF Current
      <4>2. rooms'[i].pending = [rooms[i].pending EXCEPT ![f.provider] = FALSE]
        BY <1>0, <3>3
      <4>3. rooms'[i].pending[g.provider] = rooms[i].pending[g.provider]
        BY <2>1, <2>2, <4>1, <4>2
      <4>4. QED
        BY <2>1, <3>1, <4>3
    <3>4. QED
      BY <3>2, <3>3
  <2>5. QED
    BY <2>3, <2>4
<1>7. TableInv(rooms', generation, fetches')
  <2>1. 0 \in Index
    BY DEF Index
  <2>2. rooms' \in [Index -> Room]
    BY <1>3, <1>5 DEF RoomOK
  <2>3. TableShape(rooms')
    BY <1>1, <1>5, <2>2 DEF TableInv, TableShape, Index
  <2>4. QED
    BY <1>1, <1>5, <1>6, <2>1, <2>3 DEF TableInv, Index
<1>8. FetchesGiven(generation, fetches')
  BY <1>1, <1>2 DEF FetchesGiven
<1>9. QED
  BY <1>7, <1>8 DEF IInv, OtherTypes, Finish

\* Resetting everything leaves the table in order: no fetch that runs is for
\* the new generation.
LEMMA ResetInv ==
  ASSUME IInv, ResetAll, fetches' = fetches
  PROVE  TableInv(rooms', generation', fetches') /\ FetchesGiven(generation', fetches')
<1>1. PICK gen \in 1 .. MaxGeneration : gen = generation + 1 /\ generation' = gen
  BY BoundsAssumption DEF ResetAll, IInv, OtherTypes
<1>2. gen \in Nat /\ generation \in Nat
  BY <1>1, BoundsAssumption DEF IInv, OtherTypes
<1>3. /\ rooms'[0] = CleanRoom(Global, gen, 0)
      /\ \A i \in Slots : rooms'[i] = EmptyRoom /\ i # 0
      /\ rooms' = [i \in Index |-> rooms'[i]]
  BY <1>1 DEF ResetAll, Slots, Index
<1>4. /\ RoomOK(rooms'[0], gen) /\ rooms'[0].id = Global /\ rooms'[0].generation = gen
      /\ \A p \in Providers : ~rooms'[0].pending[p]
  BY <1>3, CleanRoomOK
<1>5. RoomOK(EmptyRoom, gen) /\ EmptyRoom.id = None
  BY <1>2, EmptyRoomOK
<1>6. rooms' \in [Index -> Room]
  BY <1>3, <1>4, <1>5 DEF RoomOK, Index
<1>7. TableShape(rooms')
  BY <1>3, <1>4, <1>5, <1>6, ScopesAssumption DEF TableShape, Index
<1>8. PendingExactly(rooms'[0], fetches)
  <2> SUFFICES ASSUME NEW f \in Fetch, Current(rooms'[0], f)
               PROVE  fetches[f] = IF rooms'[0].pending[f.provider] THEN 1 ELSE 0
    BY DEF PendingExactly
  <2>1. f.generation > generation /\ f.provider \in Providers
    BY <1>1, <1>2, <1>4 DEF Current, Fetch
  <2>2. QED
    BY <1>4, <2>1 DEF IInv, FetchesGiven
<1>9. TableInv(rooms', gen, fetches)
  BY <1>2, <1>3, <1>4, <1>5, <1>7, <1>8 DEF TableInv
<1>10. FetchesGiven(gen, fetches)
  BY <1>1, <1>2, BoundsAssumption DEF IInv, FetchesGiven, Fetch
<1>11. QED
  BY <1>1, <1>9, <1>10

\* The rooms, pending marks and fetches agree always (IInv).
THEOREM Inductive == Spec => []IInv
<1>1. Init => IInv
  BY InitInv
<1>2. IInv /\ [Next]_vars => IInv'
  <2> SUFFICES ASSUME IInv, [Next]_vars
               PROVE  IInv'
    OBVIOUS
  <2>1. ASSUME NEW t \in Threads, EnsureGlobal(t)
        PROVE  IInv'
    BY <2>1, EnsureGlobalInv
  <2>2. ASSUME NEW t \in Threads, EnsureRoom(t)
        PROVE  IInv'
    BY <2>2, EnsureRoomInv
  <2>3. ASSUME NEW f \in Fetch, NEW result \in Result, Finish(f, result)
        PROVE  IInv'
    BY <2>3, FinishInv
  <2>4. ASSUME NEW t \in Receivers, NEW r \in RoomIds, Frame(t, r)
        PROVE  IInv'
    <3>1. OtherTypes'
      BY <2>4 DEF Frame, IInv, OtherTypes, Thread, Threads
    <3>2. QED
      BY <2>4, <3>1 DEF Frame, IInv
  <2>5. CASE Reload
    <3>1. generation' \in 0 .. MaxGeneration
      BY <2>5, BoundsAssumption DEF Reload, ResetAll, IInv, OtherTypes
    <3>2. OtherTypes'
      BY <2>5, <3>1 DEF Reload, IInv, OtherTypes, Thread, Threads
    <3>3. QED
      BY <2>5, <3>2, ResetInv DEF Reload, IInv
  <2>6. CASE ClearCache
    <3>1. generation' \in 0 .. MaxGeneration
      BY <2>6, BoundsAssumption DEF ClearCache, ResetAll, IInv, OtherTypes
    <3>2. OtherTypes'
      BY <2>6, <3>1 DEF ClearCache, IInv, OtherTypes
    <3>3. QED
      BY <2>6, <3>2, ResetInv DEF ClearCache, IInv
  <2>7. CASE Tick
    BY <2>7 DEF Tick, IInv, OtherTypes
  <2>8. CASE UNCHANGED vars
    BY <2>8 DEF vars, IInv, OtherTypes
  <2>9. ASSUME NEW i \in Slots, LocalMatches(i)
        PROVE  IInv'
    <3>1. rooms' = [rooms EXCEPT ![i].lastUsed = now]
          /\ UNCHANGED <<generation, lastRoom, lastSweep, now, fetches, thread>>
      BY <2>9 DEF LocalMatches
    <3>2. TableInv([rooms EXCEPT ![i].lastUsed = now], generation, fetches)
      BY TouchOK DEF IInv, OtherTypes
    <3>3. TableInv(rooms', generation', fetches')
      BY <3>1, <3>2
    <3>4. QED
      BY <3>1, <3>3 DEF IInv, OtherTypes
  <2>10. QED
    BY <2>1, <2>2, <2>3, <2>4, <2>5, <2>6, <2>7, <2>8, <2>9 DEF Next
<1>3. QED
  BY <1>1, <1>2, PTL DEF Spec

----------------------------------------------------------------------------
(* What the project checks of the emote sets                               *)

\* Every variable keeps its type, and no room is ever in two slots.
THEOREM TypeCorrect == Spec => []TypeOK
<1>1. IInv => TypeOK
  BY DEF IInv, TableInv, TableShape, FetchesGiven, OtherTypes, TypeOK
<1>2. QED
  BY <1>1, Inductive, PTL

\* A provider is pending exactly while its one fetch runs, through every
\* reload, clearing, expiry and eviction (finish_provider's "all exits").
THEOREM AlwaysPendingWhileFetching == Spec => []PendingWhileFetching
<1>1. IInv => PendingWhileFetching
  BY DEF IInv, TableInv, PendingWhileFetching
<1>2. QED
  BY <1>1, Inductive, PTL

\* A set never holds emotes of another room, of an earlier incarnation, or
\* from before the last reload.
THEOREM AlwaysSetsOwned == Spec => []SetsOwned
<1>1. IInv => SetsOwned
  <2> SUFFICES ASSUME IInv, NEW i \in Index, NEW f \in rooms[i].sets
               PROVE  Current(rooms[i], f) /\ f.generation >= rooms[0].generation
    BY DEF SetsOwned, Index
  <2>1. RoomOK(rooms[i], generation)
    BY DEF IInv, TableInv, Index
  <2>2. Current(rooms[i], f) /\ rooms[i].id # None
    BY <2>1 DEF RoomOK
  <2>3. QED
    BY <2>2 DEF IInv, TableInv, Index, Current
<1>2. QED
  BY <1>1, Inductive, PTL

\* A room with emotes loaded has a slot, a generation and no fetch of theirs.
LEMMA LoadedFacts ==
  ASSUME IInv, NEW i \in Index, NEW p \in Providers, rooms[i].loaded[p]
  PROVE  /\ rooms[i].id # None /\ ~rooms[i].pending[p]
         /\ rooms[i].generation \in 1 .. generation /\ generation \in Nat
<1>1. RoomOK(rooms[i], generation) /\ generation \in 0 .. MaxGeneration
  BY DEF IInv, TableInv, OtherTypes, Index
<1>2. QED
  BY <1>1, BoundsAssumption DEF RoomOK, Room

\* Marking changes neither what is loaded nor whose it is.
LEMMA MarkKeeps ==
  ASSUME NEW rs \in [Index -> Room], NEW i \in Index, FetchDue(rs, i), NEW j \in Index
  PROVE  /\ rooms'[j].generation = rs[j].generation
         /\ rooms'[j].loaded = rs[j].loaded
         /\ rooms'[j].sets = rs[j].sets
<1> DEFINE due == Due(rs[i])
           pending == [p \in Providers |-> rs[i].pending[p] \/ p \in due]
           attempted == [p \in Providers |-> IF p \in due THEN now ELSE rs[i].attempted[p]]
           m == [rs[i] EXCEPT !.pending = pending, !.attempted = attempted]
<1>1. \A k \in Index : rooms'[k] = IF k = i THEN m ELSE rs[k]
  BY DEF FetchDue
<1> HIDE DEF due, pending, attempted
<1>2. m.generation = rs[i].generation /\ m.loaded = rs[i].loaded /\ m.sets = rs[i].sets
  BY DEF Room
<1>3. QED
  BY <1>1, <1>2

\* The end of a fetch leaves the other providers' emotes alone.
LEMMA FinishedKeeps ==
  ASSUME NEW room \in Room, NEW f \in Fetch, NEW result,
         NEW p \in Providers, p # f.provider
  PROVE  /\ Finished(room, f, result).loaded[p] = room.loaded[p]
         /\ room.sets \subseteq Finished(room, f, result).sets
<1>1. Finished(room, f, result).loaded = [room.loaded EXCEPT ![f.provider] =
                                            result \in {"ready", "absent"}]
  BY DEF Finished, Room, Fetch
<1>2. Finished(room, f, result).sets =
        IF result = "ready" THEN room.sets \cup {f} ELSE room.sets
  BY DEF Finished, Room, Fetch
<1>3. QED
  BY <1>1, <1>2 DEF Room

\* A reset takes every generation in use away.
LEMMA ResetChanges ==
  ASSUME IInv, ResetAll, NEW i \in Index, rooms[i].generation \in 1 .. generation,
         generation \in Nat
  PROVE  rooms'[i].generation # rooms[i].generation
<1>1. /\ i = 0 => rooms'[i].generation = generation + 1
      /\ i # 0 => rooms'[i].generation = 0
  BY DEF ResetAll, Index, EmptyRoom, CleanRoom
<1>2. QED
  BY <1>1

\* What a step may not do to emotes that are loaded.
KeepsLoaded ==
    \A i \in Index, p \in Providers :
      rooms[i].loaded[p] /\ rooms'[i].generation = rooms[i].generation
      => rooms'[i].loaded[p] /\ rooms[i].sets \subseteq rooms'[i].sets

\* The sweep leaves a room as it is or empties its slot.
LEMMA SweptKeeps ==
  ASSUME IInv
  PROVE  /\ Swept \in [Index -> Room]
         /\ \A i \in Index : Swept[i] = rooms[i] \/ Swept[i].generation = 0
<1>1. Swept \in [Index -> Room]
  BY SweepOK DEF TableInv, TableShape, Index
<1>2. QED
  BY <1>1 DEF Swept, Index, EmptyRoom, CleanRoom

\* However often a set is fetched again, no late failure or stale response
\* takes back what it has loaded, while the room keeps its slot.
THEOREM AlwaysLoadedStays == Spec => LoadedStays
<1>1. IInv /\ [Next]_vars => KeepsLoaded
  <2> SUFFICES ASSUME IInv, [Next]_vars, NEW i \in Index, NEW p \in Providers,
                      rooms[i].loaded[p], rooms'[i].generation = rooms[i].generation
               PROVE  rooms'[i].loaded[p] /\ rooms[i].sets \subseteq rooms'[i].sets
    BY DEF KeepsLoaded
  <2>1. /\ rooms[i].id # None /\ ~rooms[i].pending[p]
        /\ rooms[i].generation \in 1 .. generation /\ generation \in Nat
    BY LoadedFacts
  <2>2. ASSUME NEW t \in Threads, EnsureGlobal(t)
        PROVE  rooms'[i].loaded[p] /\ rooms[i].sets \subseteq rooms'[i].sets
    <3>1. PICK rs \in [Index -> Room] : rs = Swept
      BY SweptKeeps
    <3>2. FetchDue(rs, 0) /\ 0 \in Index
      BY <2>2, <3>1 DEF EnsureGlobal, Index
    <3>3. /\ rooms'[i].generation = rs[i].generation
          /\ rooms'[i].loaded = rs[i].loaded /\ rooms'[i].sets = rs[i].sets
      BY <3>2, MarkKeeps
    <3>4. rs[i] = rooms[i]
      BY <2>1, <3>1, <3>3, SweptKeeps
    <3>5. QED
      BY <3>3, <3>4
  <2>3. ASSUME NEW t \in Threads, EnsureRoom(t)
        PROVE  rooms'[i].loaded[p] /\ rooms[i].sets \subseteq rooms'[i].sets
    <3>1. PICK rs \in [Index -> Room] : rs = Swept
      BY SweptKeeps
    <3>2. PICK k \in Slots :
            \/ FetchDue([rs EXCEPT ![k].lastUsed = now], k)
            \/ /\ FetchDue([rs EXCEPT ![k] = CleanRoom(thread[t].room, generation + 1, now)], k)
               /\ generation < MaxGeneration /\ thread[t].room \in RoomIds
      BY <2>3, <3>1 DEF EnsureRoom, IInv, OtherTypes
    <3>3. k \in Index /\ now \in Nat
      BY DEF Index, IInv, OtherTypes
    <3>4. CASE FetchDue([rs EXCEPT ![k].lastUsed = now], k)
      <4>1. PICK ts \in [Index -> Room] : ts = [rs EXCEPT ![k].lastUsed = now]
        BY <3>3 DEF Room
      <4>2. /\ ts[i].generation = rs[i].generation
            /\ ts[i].loaded = rs[i].loaded /\ ts[i].sets = rs[i].sets
        BY <3>3, <4>1 DEF Room
      <4>3. /\ rooms'[i].generation = ts[i].generation
            /\ rooms'[i].loaded = ts[i].loaded /\ rooms'[i].sets = ts[i].sets
        BY <3>3, <3>4, <4>1, MarkKeeps
      <4>4. rs[i] = rooms[i]
        BY <2>1, <3>1, <4>2, <4>3, SweptKeeps
      <4>5. QED
        BY <4>2, <4>3, <4>4
    <3>5. CASE /\ FetchDue([rs EXCEPT ![k] = CleanRoom(thread[t].room, generation + 1, now)], k)
               /\ generation < MaxGeneration /\ thread[t].room \in RoomIds
      <4>1. PICK room \in Room :
              room = CleanRoom(thread[t].room, generation + 1, now)
        <5>1. generation + 1 \in 1 .. MaxGeneration
          BY <2>1, <3>5, BoundsAssumption
        <5>2. QED
          BY <3>3, <3>5, <5>1, CleanRoomOK DEF RoomOK
      <4>2. PICK ts \in [Index -> Room] : ts = [rs EXCEPT ![k] = room]
        BY <3>3
      <4>3. /\ rooms'[i].generation = ts[i].generation
            /\ rooms'[i].loaded = ts[i].loaded /\ rooms'[i].sets = ts[i].sets
        BY <3>3, <3>5, <4>1, <4>2, MarkKeeps
      <4>4. i # k
        <5>1. room.generation = generation + 1
          BY <4>1 DEF CleanRoom
        <5>2. QED
          BY <2>1, <3>3, <4>2, <4>3, <5>1
      <4>5. ts[i] = rs[i]
        BY <4>2, <4>4
      <4>6. rs[i] = rooms[i]
        BY <2>1, <3>1, <4>3, <4>5, SweptKeeps
      <4>7. QED
        BY <4>3, <4>5, <4>6
    <3>6. QED
      BY <3>2, <3>4, <3>5
  <2>4. ASSUME NEW f \in Fetch, NEW result \in Result, Finish(f, result)
        PROVE  rooms'[i].loaded[p] /\ rooms[i].sets \subseteq rooms'[i].sets
    <3>1. CASE ~Current(rooms[i], f)
      BY <2>4, <3>1 DEF Finish, Index
    <3>2. CASE Current(rooms[i], f)
      <4>1. fetches[f] > 0 /\ rooms'[i] = Finished(rooms[i], f, result)
        BY <2>4, <3>2 DEF Finish, Index
      <4>2. p # f.provider
        BY <2>1, <3>2, <4>1 DEF IInv, TableInv, PendingExactly, Index
      <4>3. rooms[i] \in Room
        BY DEF IInv, TableInv, RoomOK, Index
      <4>4. QED
        BY <4>1, <4>2, <4>3, FinishedKeeps
    <3>3. QED
      BY <3>1, <3>2
  <2>5. CASE ResetAll
    BY <2>1, <2>5, ResetChanges
  <2>6. CASE UNCHANGED rooms
    BY <2>6
  <2>7. ASSUME NEW k \in Slots, LocalMatches(k)
        PROVE  rooms'[i].loaded[p] /\ rooms[i].sets \subseteq rooms'[i].sets
    <3>1. rooms[i] \in Room /\ rooms \in [Index -> Room]
      BY DEF IInv, TableInv, TableShape, Index
    <3>2. rooms'[i].loaded = rooms[i].loaded /\ rooms'[i].sets = rooms[i].sets
      BY <2>7, <3>1 DEF LocalMatches, Room
    <3>3. QED
      BY <3>2
  <2>8. QED
    BY <2>2, <2>3, <2>4, <2>5, <2>6, <2>7
       DEF Next, Reload, ClearCache, Frame, Tick, vars
<1>2. KeepsLoaded => [\A i \in Slots \cup {0}, p \in Providers :
         rooms[i].loaded[p] /\ rooms'[i].generation = rooms[i].generation
         => /\ rooms'[i].loaded[p]
            /\ rooms[i].sets \subseteq rooms'[i].sets]_vars
  BY DEF KeepsLoaded, Index
<1>3. QED
  BY <1>1, <1>2, Inductive, PTL DEF Spec, LoadedStays

-----------------------------------------------------------------------------
\* What a step may not do to a room that has a slot.
Evicts(i) ==
    rooms[i].id # None /\ rooms'[i].generation # rooms[i].generation
    => \/ rooms'[0].generation # rooms[0].generation
       \/ now - rooms[i].lastUsed > RoomIdle
       \/ \A j \in Slots : /\ rooms[j].id # None
                           /\ rooms[i].lastUsed <= rooms[j].lastUsed

\* The sweep empties the slot of an idle room only.
LEMMA SweptIdle ==
  ASSUME NEW i \in Slots, rooms[i].id # None
  PROVE  Swept[i] = rooms[i] \/ (Swept[i].id = None /\ now - rooms[i].lastUsed > RoomIdle)
BY DEF Swept, EmptyRoom, CleanRoom

\* A room that finds the table full takes the slot used longest ago.
LEMMA RoomEvicts ==
  ASSUME IInv, NEW t \in Threads, EnsureRoom(t), NEW i \in Slots
  PROVE  Evicts(i)
<1>1. PICK rs \in [Index -> Room] : rs = Swept
  BY SweptKeeps
<1>2. SUFFICES ASSUME rooms[i].id # None, rooms'[i].generation # rooms[i].generation,
                      rs[i] = rooms[i]
               PROVE  \A j \in Slots : /\ rooms[j].id # None
                                       /\ rooms[i].lastUsed <= rooms[j].lastUsed
  BY <1>1, SweptIdle DEF Evicts
<1>3. PICK r \in RoomIds : r = thread[t].room
  BY DEF EnsureRoom, IInv, OtherTypes
<1>4. PICK k \in Slots :
        /\ RoomSlot(rs, r, k)
        /\ IF rs[k].id = r
           THEN FetchDue([rs EXCEPT ![k].lastUsed = now], k)
           ELSE /\ generation < MaxGeneration
                /\ FetchDue([rs EXCEPT ![k] = CleanRoom(r, generation + 1, now)], k)
  BY <1>1, <1>3, Zenon DEF EnsureRoom
<1>5. /\ i \in Index /\ k \in Index /\ now \in Nat /\ generation \in Nat
      /\ r \in RoomIds /\ \A j \in Slots : j \in Index
  BY BoundsAssumption DEF Index, IInv, OtherTypes
<1>6. i = k /\ rs[k].id # r
  <2>1. CASE rs[k].id = r
    <3>1. PICK ts \in [Index -> Room] : ts = [rs EXCEPT ![k].lastUsed = now]
      BY <1>5 DEF Room
    <3>2. ts[i].generation = rs[i].generation
      BY <1>5, <3>1 DEF Room
    <3>3. rooms'[i].generation = ts[i].generation
      BY <1>4, <1>5, <2>1, <3>1, MarkKeeps
    <3>4. QED
      BY <1>2, <3>2, <3>3
  <2>2. CASE rs[k].id # r
    <3>1. PICK room \in Room : room = CleanRoom(r, generation + 1, now)
      <4>1. generation + 1 \in 1 .. MaxGeneration
        BY <1>4, <1>5, <2>2, BoundsAssumption
      <4>2. QED
        BY <1>5, <4>1, CleanRoomOK DEF RoomOK
    <3>2. PICK ts \in [Index -> Room] : ts = [rs EXCEPT ![k] = room]
      BY <1>5
    <3>3. rooms'[i].generation = ts[i].generation
      BY <1>4, <1>5, <2>2, <3>1, <3>2, MarkKeeps
    <3>4. i = k
      BY <1>2, <1>5, <3>2, <3>3
    <3>5. QED
      BY <2>2, <3>4
  <2>3. QED
    BY <2>1, <2>2
<1>7. \A j \in Slots : rs[j].id # None => rs[j] = rooms[j]
  <2>1. \A j \in Slots : rs[j] = rooms[j] \/ rs[j] = EmptyRoom
    BY <1>1 DEF Swept
  <2>2. QED
    BY <2>1 DEF EmptyRoom, CleanRoom
<1>8. /\ \A j \in Slots : rs[j].id # None
      /\ \A j \in Slots : \/ rs[i].lastUsed < rs[j].lastUsed
                          \/ rs[i].lastUsed = rs[j].lastUsed /\ i <= j
  BY <1>2, <1>4, <1>6 DEF RoomSlot
<1>9. \A j \in Slots : rooms[j].lastUsed \in Nat
  BY <1>1, <1>5, <1>7, <1>8 DEF Room
<1>10. QED
  BY <1>7, <1>8, <1>9

\* Between buttons, a room loses its slot to its own idleness, or to a room
\* that finds the table full, and then it was the one used longest ago.
THEOREM AlwaysEvictsIdleOrOldest == Spec => EvictsIdleOrOldest
<1>1. IInv /\ [Next]_vars => \A i \in Slots : Evicts(i)
  <2> SUFFICES ASSUME IInv, [Next]_vars, NEW i \in Slots PROVE Evicts(i)
    OBVIOUS
  <2>0. /\ i \in Index /\ 0 \in Index /\ i # 0 /\ rooms \in [Index -> Room]
        /\ \A j \in Index : RoomOK(rooms[j], generation)
        /\ generation \in Nat /\ now \in Nat
    BY BoundsAssumption DEF Index, Slots, IInv, TableInv, TableShape, OtherTypes
  <2>1. ASSUME NEW t \in Threads, EnsureGlobal(t)
        PROVE  Evicts(i)
    <3>1. PICK rs \in [Index -> Room] : rs = Swept
      BY SweptKeeps
    <3>2. FetchDue(rs, 0)
      BY <2>1, <3>1 DEF EnsureGlobal
    <3>3. rooms'[i].generation = rs[i].generation
      BY <2>0, <3>2, MarkKeeps
    <3>4. QED
      BY <3>1, <3>3, SweptIdle DEF Evicts
  <2>2. ASSUME NEW t \in Threads, EnsureRoom(t)
        PROVE  Evicts(i)
    BY <2>2, RoomEvicts
  <2>3. ASSUME NEW f \in Fetch, NEW result \in Result, Finish(f, result)
        PROVE  Evicts(i)
    <3>1. CASE ~Current(rooms[i], f)
      BY <2>0, <2>3, <3>1 DEF Finish, Index, Evicts
    <3>2. CASE Current(rooms[i], f)
      <4>1. rooms'[i] = Finished(rooms[i], f, result)
        BY <2>0, <2>3, <3>2 DEF Finish, Index
      <4>2. Finished(rooms[i], f, result).generation = rooms[i].generation
        BY <2>0, <3>2, FinishedOK
      <4>3. QED
        BY <4>1, <4>2 DEF Evicts
    <3>3. QED
      BY <3>1, <3>2
  <2>4. CASE ResetAll
    <3>1. rooms'[0].generation = generation + 1
      BY <2>4 DEF ResetAll, CleanRoom
    <3>2. rooms[0].generation <= generation /\ rooms[0].generation \in Nat
      BY <2>0, BoundsAssumption DEF RoomOK, Room
    <3>3. QED
      BY <2>0, <3>1, <3>2 DEF Evicts
  <2>5. CASE UNCHANGED rooms
    BY <2>5 DEF Evicts
  <2>6. ASSUME NEW k \in Slots, LocalMatches(k)
        PROVE  Evicts(i)
    <3>1. rooms' = [rooms EXCEPT ![k].lastUsed = now]
      BY <2>6 DEF LocalMatches
    <3>2. rooms'[i].generation = rooms[i].generation
      BY <2>0, <3>1 DEF Room
    <3>3. QED
      BY <3>2 DEF Evicts
  <2>7. QED
    BY <2>1, <2>2, <2>3, <2>4, <2>5, <2>6
       DEF Next, vars, Frame, Reload, ClearCache, Tick
<1>2. QED
  BY <1>1, Inductive, PTL DEF Spec, EvictsIdleOrOldest, Evicts

============================================================================
