-------------------------- MODULE RouteSlotsProofs --------------------------
(***************************************************************************)
(* The array of routes and the ring of retired ones, for any numbers of    *)
(* slots, contexts and channels and any playlists: each loop is given its  *)
(* trace first, then what it leaves is read off the trace.                 *)
(***************************************************************************)
EXTENDS RouteSlots, Loops, FiniteSetTheorems, SequenceTheorems

Entry == [url : Urls \cup {None}, slot : 0 .. MaxStreams, generation : Nat, lastSeen : Nat]

\* Every reason but "stale_generation".
Reasons == {"none", "route_capacity", "route_reassigned", "master_refresh",
            "stream_expired", "stream_replaced"}
Retirement == [url : Urls \cup {None}, generation : Nat, reason : Reasons]
Ring == 0 .. RetiredRoutes - 1
Table == [slots : [Index -> Entry], retired : [Ring -> Retirement],
          next : 0 .. CounterSize - 1]

Held(table) == {k \in Index : Holds(table, k)}

----------------------------------------------------------------------------
(* One retirement                                                          *)

\* The small values are of their types.
LEMMA EmptyRouteOK == EmptyRoute \in Entry /\ EmptyRoute.url = None /\ NoRetired \in Retirement
BY TablesAssumption DEF EmptyRoute, Entry, NoRetired, Retirement, Reasons

\* retire_route_locked empties the slot, if it holds a route, and no other.
LEMMA RetireRouteOK ==
    ASSUME NEW T \in Table, NEW k \in Index, NEW reason \in Reasons
    PROVE  /\ RetireRoute(T, k, reason) \in Table
           /\ \A j \in Index : RetireRoute(T, k, reason).slots[j] =
                IF j = k /\ Holds(T, k) THEN EmptyRoute ELSE T.slots[j]
<1>1. CASE ~Holds(T, k)
  BY <1>1 DEF RetireRoute
<1>2. CASE Holds(T, k)
  <2> DEFINE at == T.next % RetiredRoutes
             mark == [url |-> T.slots[k].url, generation |-> T.slots[k].generation,
                      reason |-> reason]
             next == (T.next + 1) % CounterSize
  <2>1. T.next \in Int /\ T.next + 1 \in Int
    BY RetiredRoutesAssumption DEF Table
  <2>2. at \in Ring /\ next \in 0 .. CounterSize - 1
    BY <2>1, RetiredRoutesAssumption, Remainder DEF Ring
  <2>3. mark \in Retirement
    BY DEF Table, Entry, Retirement
  <2> HIDE DEF at, mark, next
  <2>4. RetireRoute(T, k, reason) = [slots |-> [T.slots EXCEPT ![k] = EmptyRoute],
                                     retired |-> [T.retired EXCEPT ![at] = mark],
                                     next |-> next]
    BY <1>2 DEF RetireRoute, at, mark, next
  <2>5. [T.slots EXCEPT ![k] = EmptyRoute] \in [Index -> Entry]
    BY EmptyRouteOK DEF Table
  <2>6. [T.retired EXCEPT ![at] = mark] \in [Ring -> Retirement]
    BY <2>2, <2>3 DEF Table
  <2>7. \A j \in Index : [T.slots EXCEPT ![k] = EmptyRoute][j] =
                           IF j = k THEN EmptyRoute ELSE T.slots[j]
    BY DEF Table
  <2> QED
    BY <1>2, <2>2, <2>4, <2>5, <2>6, <2>7 DEF Table
<1> QED
  BY <1>1, <1>2

\* The URL u, which had a route of generation g, still has it, or is among the
\* last c that were retired since the ring was at n.
Explained(u, g, table, n, c) ==
    \/ \E k \in Index : table.slots[k].url = u /\ table.slots[k].generation = g
    \/ \E d \in 0 .. c - 1 : /\ table.retired[(n + d) % RetiredRoutes].url = u
                             /\ table.retired[(n + d) % RetiredRoutes].generation = g

\* The table came from an old one with c retirements, of no more than the
\* budget allows; and as long as they fit the ring, it explains what is gone.
Tracks(old, table, c, budget) ==
    /\ c \in Nat
    /\ table.next = (old.next + c) % CounterSize
    /\ c + Cardinality(Held(table)) <= budget
    /\ c <= RetiredRoutes =>
         \A k \in Index : Holds(old, k) =>
           Explained(old.slots[k].url, old.slots[k].generation, table, old.next, c)

\* A table holds at most as many routes as it has slots.
LEMMA HeldFinite ==
    ASSUME NEW T \in Table
    PROVE  IsFiniteSet(Held(T)) /\ Cardinality(Held(T)) \in Nat /\ Cardinality(Held(T)) <= MaxRoutes
<1>1. MaxRoutes \in Nat /\ IsFiniteSet(Index) /\ Cardinality(Index) = MaxRoutes
  BY TablesAssumption, FS_Interval DEF Index
<1>2. Held(T) \subseteq Index
  BY DEF Held
<1> QED
  BY <1>1, <1>2, FS_Subset, FS_CardinalityType

\* A retirement is counted, and what it takes is found in the ring: the mark goes
\* to the place after the last, and overwrites none of the last RetiredRoutes.
LEMMA RetireRouteTracks ==
    ASSUME NEW old \in Table, NEW T \in Table, NEW k \in Index, NEW reason \in Reasons,
           NEW budget \in Nat, NEW c, Tracks(old, T, c, budget)
    PROVE  \E d : Tracks(old, RetireRoute(T, k, reason), d, budget)
<1> DEFINE U == RetireRoute(T, k, reason)
<1>1. CASE ~Holds(T, k)
  BY <1>1 DEF RetireRoute
<1>2. CASE Holds(T, k)
  <2> DEFINE at == T.next % RetiredRoutes
             n == old.next
  <2>1. /\ U.slots = [T.slots EXCEPT ![k] = EmptyRoute]
        /\ U.next = (T.next + 1) % CounterSize
        /\ U.retired = [T.retired EXCEPT ![at] = [url |-> T.slots[k].url,
                          generation |-> T.slots[k].generation, reason |-> reason]]
    BY <1>2 DEF RetireRoute
  <2>2. n \in Int /\ T.next \in Int /\ c \in Nat /\ n + c \in Int
    BY RetiredRoutesAssumption DEF Table, Tracks
  <2>3. U.next = (n + (c + 1)) % CounterSize
    <3>1. T.next = (n + c) % CounterSize
      BY DEF Tracks
    <3>2. (((n + c) % CounterSize) + 1) % CounterSize = ((n + c) + 1) % CounterSize
      BY <2>2, RetiredRoutesAssumption, RemainderNext
    <3>3. (n + c) + 1 = n + (c + 1)
      BY <2>2
    <3> QED
      BY <2>1, <3>1, <3>2, <3>3
  <2>4. at = (n + c) % RetiredRoutes
    <3>1. T.next = (n + c) % CounterSize
      BY DEF Tracks
    <3>2. ((n + c) % CounterSize) % RetiredRoutes = (n + c) % RetiredRoutes
      BY <2>2, RetiredRoutesAssumption, RemainderOfRemainder
    <3> QED
      BY <3>1, <3>2
  <2>5. (c + 1) + Cardinality(Held(U)) <= budget
    <3>1. Held(U) = Held(T) \ {k}
      BY RetireRouteOK, EmptyRouteOK DEF Held, Holds
    <3>2. k \in Held(T)
      BY <1>2 DEF Held
    <3>3. Cardinality(Held(T) \ {k}) = Cardinality(Held(T)) - 1
      BY <3>2, HeldFinite, FS_RemoveElement
    <3> QED
      BY <2>2, <3>1, <3>3, HeldFinite DEF Tracks
  <2>6. ASSUME c + 1 <= RetiredRoutes, NEW j \in Index, Holds(old, j)
        PROVE  Explained(old.slots[j].url, old.slots[j].generation, U, n, c + 1)
    <3> DEFINE u == old.slots[j].url
               g == old.slots[j].generation
    <3>1. Explained(u, g, T, n, c)
      BY <2>2, <2>6, RetiredRoutesAssumption DEF Tracks
    <3>2. u # None
      BY <2>6 DEF Holds
    <3>3. at \in Ring /\ DOMAIN T.retired = Ring /\ DOMAIN T.slots = Index
      BY <2>2, RetiredRoutesAssumption, Remainder DEF Ring, Table
    <3> SUFFICES Explained(u, g, U, n, c + 1)
      OBVIOUS
    <3> HIDE DEF u, g, n, at, U
    <3>4. CASE \E i \in Index : T.slots[i].url = u /\ T.slots[i].generation = g
      <4>1. PICK i \in Index : T.slots[i].url = u /\ T.slots[i].generation = g
        BY <3>4
      <4>2. CASE i = k
        <5>1. U.retired[at].url = u /\ U.retired[at].generation = g
          BY <2>1, <3>3, <4>1, <4>2
        <5>2. c \in 0 .. (c + 1) - 1
          BY <2>2
        <5> QED
          BY <2>4, <5>1, <5>2 DEF Explained
      <4>3. CASE i # k
        <5>1. U.slots[i] = T.slots[i]
          BY <2>1, <3>3, <4>3
        <5> QED
          BY <4>1, <5>1 DEF Explained
      <4> QED
        BY <4>2, <4>3
    <3>5. CASE \E d \in 0 .. c - 1 : /\ T.retired[(n + d) % RetiredRoutes].url = u
                                     /\ T.retired[(n + d) % RetiredRoutes].generation = g
      <4>1. PICK d \in 0 .. c - 1 : /\ T.retired[(n + d) % RetiredRoutes].url = u
                                    /\ T.retired[(n + d) % RetiredRoutes].generation = g
        BY <3>5
      <4>2. d \in Int /\ n + d \in Int /\ n + d < n + c /\ (n + c) - (n + d) < RetiredRoutes
            /\ d \in 0 .. (c + 1) - 1
        BY <2>2, <2>6, RetiredRoutesAssumption
      <4>3. (n + d) % RetiredRoutes # (n + c) % RetiredRoutes
        BY <2>2, <4>2, RetiredRoutesAssumption, RemaindersDiffer
      <4>4. (n + d) % RetiredRoutes \in Ring
        BY <4>2, RetiredRoutesAssumption, Remainder DEF Ring
      <4>5. U.retired[(n + d) % RetiredRoutes] = T.retired[(n + d) % RetiredRoutes]
        BY <2>1, <2>4, <3>3, <4>3, <4>4
      <4> QED
        BY <4>1, <4>2, <4>5 DEF Explained
    <3> QED
      BY <3>1, <3>4, <3>5 DEF Explained
  <2>7. c + 1 \in Nat
    BY <2>2
  <2>8. Tracks(old, U, c + 1, budget)
    BY <2>3, <2>5, <2>6, <2>7 DEF Tracks
  <2> QED
    BY <2>8
<1> QED
  BY <1>1, <1>2

----------------------------------------------------------------------------
(* A pass over the array                                                   *)

\* The table before, between and after the turns of the loop.
Retiring(T, ks, reason, f) ==
    /\ f \in [0 .. MaxRoutes -> Table]
    /\ f[0] = T
    /\ \A k \in Index : f[k] = IF k \in ks THEN RetireRoute(f[k - 1], k, reason)
                              ELSE f[k - 1]
    /\ RetireRoutes(T, ks, reason) = f[MaxRoutes]

\* The loop that retires the routes of some slots has a trace; for the reason
\* "stale_generation" only as long as there are none.
LEMMA RetireRoutesTrace ==
    ASSUME NEW T \in Table, NEW ks, NEW reason, reason \in Reasons \/ ks = {}
    PROVE  \E f : Retiring(T, ks, reason, f)
<1> DEFINE Step(v, k) == IF k \in ks THEN RetireRoute(v, k, reason) ELSE v
           step == [p \in (1 .. MaxRoutes) \X Table |-> Step(p[2], p[1])]
<1>1. MaxRoutes \in Nat
  BY TablesAssumption
<1>2. \A k \in 1 .. MaxRoutes, v \in Table : Step(v, k) \in Table
  BY RetireRouteOK DEF Index
<1> HIDE DEF Step
<1>3. step \in Steps(MaxRoutes, Table)
  BY <1>2 DEF Steps
<1>4. \A k \in 1 .. MaxRoutes, v \in Table : step[<<k, v>>] = Step(v, k)
  OBVIOUS
<1> HIDE DEF step
<1>5. PICK f : f \in Traces(MaxRoutes, Table, T, step)
  BY <1>1, <1>3, LoopExists
<1>6. /\ f \in [0 .. MaxRoutes -> Table] /\ f[0] = T
      /\ \A k \in 1 .. MaxRoutes : f[k] = step[<<k, f[k - 1]>>]
  BY <1>5 DEF Traces, Trace
<1>7. \A k \in 1 .. MaxRoutes : f[k] = Step(f[k - 1], k)
  <2> TAKE k \in 1 .. MaxRoutes
  <2>1. f[k - 1] \in Table
    BY <1>1, <1>6
  <2> QED
    BY <1>4, <1>6, <2>1
<1>8. \A k \in 0 .. MaxRoutes : f[k] = IF k = 0 THEN T ELSE Step(f[k - 1], k)
  BY <1>1, <1>6, <1>7
<1>9. f = [k \in 0 .. MaxRoutes |-> IF k = 0 THEN T ELSE Step(f[k - 1], k)]
  BY <1>6, <1>8
<1> DEFINE after[k \in 0 .. MaxRoutes] == IF k = 0 THEN T ELSE Step(after[k - 1], k)
<1>10. after = [k \in 0 .. MaxRoutes |-> IF k = 0 THEN T ELSE Step(after[k - 1], k)]
  BY <1>9, Zenon
<1>11. RetireRoutes(T, ks, reason) = after[MaxRoutes]
  BY Zenon DEF RetireRoutes, Step
<1> HIDE DEF after
<1>12. \A k \in 0 .. MaxRoutes : after[k] = IF k = 0 THEN T ELSE Step(after[k - 1], k)
  BY <1>10
<1> DEFINE Same == {k \in 0 .. MaxRoutes : after[k] = f[k]}
<1>13. 0 \in Same
  BY <1>1, <1>6, <1>12
<1>14. ASSUME NEW k \in 0 .. MaxRoutes - 1, k \in Same PROVE k + 1 \in Same
  <2>1. k + 1 \in 1 .. MaxRoutes /\ k + 1 \in 0 .. MaxRoutes /\ (k + 1) - 1 = k /\ k + 1 # 0
    BY <1>1
  <2>2. after[k + 1] = Step(after[k], k + 1)
    BY <1>12, <2>1
  <2>3. f[k + 1] = Step(f[k], k + 1)
    BY <1>7, <2>1
  <2> QED
    BY <1>14, <2>1, <2>2, <2>3
<1> HIDE DEF Same
<1>15. \A k \in 0 .. MaxRoutes : k \in Same
  BY <1>1, <1>13, <1>14, UpTo
<1>16. after[MaxRoutes] = f[MaxRoutes]
  BY <1>1, <1>15 DEF Same
<1>17. Retiring(T, ks, reason, f)
  BY <1>6, <1>7, <1>11, <1>16 DEF Index, Step, Retiring
<1> QED
  BY <1>17

\* It empties those of the slots that hold a route.
LEMMA RetireRoutesOK ==
    ASSUME NEW T \in Table, NEW ks, NEW reason \in Reasons
    PROVE  /\ RetireRoutes(T, ks, reason) \in Table
           /\ \A j \in Index : RetireRoutes(T, ks, reason).slots[j] =
                IF j \in ks /\ Holds(T, j) THEN EmptyRoute ELSE T.slots[j]
<1>a. PICK f : Retiring(T, ks, reason, f)
  BY RetireRoutesTrace
<1>1. /\ f \in [0 .. MaxRoutes -> Table] /\ f[0] = T
      /\ \A k \in Index : f[k] = IF k \in ks THEN RetireRoute(f[k - 1], k, reason)
                                ELSE f[k - 1]
      /\ RetireRoutes(T, ks, reason) = f[MaxRoutes]
  BY <1>a DEF Retiring
<1>2. MaxRoutes \in Nat
  BY TablesAssumption
<1> DEFINE Left(m, j) == IF j \in ks /\ j <= m /\ Holds(T, j) THEN EmptyRoute ELSE T.slots[j]
           S == {m \in 0 .. MaxRoutes : \A j \in Index : f[m].slots[j] = Left(m, j)}
<1>3. 0 \in S
  BY <1>1, <1>2 DEF Index
<1>4. ASSUME NEW m \in 0 .. MaxRoutes - 1, m \in S PROVE m + 1 \in S
  <2>1. m + 1 \in Index /\ m + 1 \in 0 .. MaxRoutes /\ (m + 1) - 1 = m /\ f[m] \in Table
    BY <1>1, <1>2 DEF Index
  <2>2. ASSUME NEW j \in Index PROVE f[m + 1].slots[j] = Left(m + 1, j)
    <3>1. f[m].slots[j] = Left(m, j) /\ f[m].slots[m + 1] = Left(m, m + 1)
      BY <1>4, <2>1
    <3>2. ~(m + 1 <= m) /\ j \in Int /\ m \in Int
      BY <2>1 DEF Index
    <3>3. Holds(f[m], m + 1) <=> Holds(T, m + 1)
      BY <3>1, <3>2 DEF Holds
    <3>4. CASE m + 1 \in ks
      <4>1. f[m + 1] = RetireRoute(f[m], m + 1, reason)
        BY <1>1, <2>1, <3>4
      <4>2. f[m + 1].slots[j] = IF j = m + 1 /\ Holds(f[m], m + 1) THEN EmptyRoute ELSE f[m].slots[j]
        BY <2>1, <4>1, RetireRouteOK
      <4>3. CASE j = m + 1
        BY <3>1, <3>2, <3>3, <3>4, <4>2, <4>3
      <4>4. CASE j # m + 1
        <5>1. j <= m <=> j <= m + 1
          BY <3>2, <4>4
        <5> QED
          BY <3>1, <4>2, <4>4, <5>1
      <4> QED
        BY <4>3, <4>4
    <3>5. CASE m + 1 \notin ks
      <4>1. f[m + 1] = f[m]
        BY <1>1, <2>1, <3>5
      <4>2. j \in ks => (j <= m <=> j <= m + 1)
        BY <3>2, <3>5
      <4> QED
        BY <3>1, <4>1, <4>2
    <3> QED
      BY <3>4, <3>5
  <2> QED
    BY <2>1, <2>2
<1> HIDE DEF S
<1>5. \A m \in 0 .. MaxRoutes : m \in S
  BY <1>2, <1>3, <1>4, UpTo
<1>6. \A j \in Index : j <= MaxRoutes
  BY <1>2 DEF Index
<1> QED
  BY <1>1, <1>2, <1>5, <1>6 DEF S

\* The retirements and the routes left are within the budget, and what is gone
\* is explained.
Tracked(old, table, budget) == \E c : Tracks(old, table, c, budget)

\* It tracks what it retires.
LEMMA RetireRoutesTracked ==
    ASSUME NEW old \in Table, NEW T \in Table, NEW ks, NEW reason \in Reasons,
           NEW budget \in Nat, Tracked(old, T, budget)
    PROVE  Tracked(old, RetireRoutes(T, ks, reason), budget)
<1>a. PICK f : Retiring(T, ks, reason, f)
  BY RetireRoutesTrace
<1>1. /\ f \in [0 .. MaxRoutes -> Table] /\ f[0] = T
      /\ \A k \in Index : f[k] = IF k \in ks THEN RetireRoute(f[k - 1], k, reason)
                                ELSE f[k - 1]
      /\ RetireRoutes(T, ks, reason) = f[MaxRoutes]
  BY <1>a DEF Retiring
<1>2. MaxRoutes \in Nat
  BY TablesAssumption
<1> DEFINE S == {m \in 0 .. MaxRoutes : Tracked(old, f[m], budget)}
<1>3. 0 \in S
  BY <1>1, <1>2
<1>4. ASSUME NEW m \in 0 .. MaxRoutes - 1, m \in S PROVE m + 1 \in S
  <2>1. m + 1 \in Index /\ m + 1 \in 0 .. MaxRoutes /\ (m + 1) - 1 = m /\ f[m] \in Table
    BY <1>1, <1>2 DEF Index
  <2>2. Tracked(old, f[m], budget)
    BY <1>4
  <2>3. Tracked(old, RetireRoute(f[m], m + 1, reason), budget)
    BY <2>1, <2>2, RetireRouteTracks DEF Tracked
  <2>4. f[m + 1] \in {f[m], RetireRoute(f[m], m + 1, reason)}
    BY <1>1, <2>1
  <2> QED
    BY <2>1, <2>2, <2>3, <2>4
<1> HIDE DEF S
<1>5. \A m \in 0 .. MaxRoutes : m \in S
  BY <1>2, <1>3, <1>4, UpTo
<1> QED
  BY <1>1, <1>2, <1>5 DEF S

\* clear_routes_for_stream_locked empties the slots of the context's routes.
LEMMA ClearRoutesOK ==
    ASSUME NEW T \in Table, NEW i, NEW reason \in Reasons
    PROVE  /\ ClearRoutesForStream(T, i, reason) \in Table
           /\ \A j \in Index : ClearRoutesForStream(T, i, reason).slots[j] =
                IF Holds(T, j) /\ T.slots[j].slot = i THEN EmptyRoute ELSE T.slots[j]
           /\ \A old \in Table, budget \in Nat : Tracked(old, T, budget)
                => Tracked(old, ClearRoutesForStream(T, i, reason), budget)
<1> DEFINE ks == {k \in Index : Holds(T, k) /\ T.slots[k].slot = i}
<1>1. ClearRoutesForStream(T, i, reason) = RetireRoutes(T, ks, reason)
  BY DEF ClearRoutesForStream
<1>2. \A j \in Index : j \in ks <=> Holds(T, j) /\ T.slots[j].slot = i
  OBVIOUS
<1> HIDE DEF ks
<1>3. /\ RetireRoutes(T, ks, reason) \in Table
      /\ \A j \in Index : RetireRoutes(T, ks, reason).slots[j] =
           IF j \in ks /\ Holds(T, j) THEN EmptyRoute ELSE T.slots[j]
  BY RetireRoutesOK
<1>4. ASSUME NEW old \in Table, NEW budget \in Nat, Tracked(old, T, budget)
      PROVE  Tracked(old, RetireRoutes(T, ks, reason), budget)
  BY <1>4, RetireRoutesTracked
<1> QED
  BY <1>1, <1>2, <1>3, <1>4

----------------------------------------------------------------------------
(* A pass over the contexts                                                *)

\* The routes before, between and after the contexts prune_streams_locked visits.
Pruning(T, f) ==
    /\ f \in [0 .. MaxStreams -> Table]
    /\ f[0] = T
    /\ \A i \in 1 .. MaxStreams :
         f[i] = IF RouteTable!Expired(i)
                THEN ClearRoutesForStream(f[i - 1], i, "stream_expired") ELSE f[i - 1]
    /\ PruneRoutes(T) = f[MaxStreams]

\* The loop that prunes has a trace.
LEMMA PruneRoutesTrace ==
    ASSUME NEW T \in Table
    PROVE  \E f : Pruning(T, f)
<1> DEFINE n == MaxStreams
           Step(v, i) == IF RouteTable!Expired(i)
                         THEN ClearRoutesForStream(v, i, "stream_expired") ELSE v
           step == [p \in (1 .. n) \X Table |-> Step(p[2], p[1])]
<1>1. n \in Nat
  BY TablesAssumption
<1>2. \A k \in 1 .. n, v \in Table : Step(v, k) \in Table
  <2>1. "stream_expired" \in Reasons
    BY DEF Reasons
  <2> QED
    BY <2>1, ClearRoutesOK
<1> HIDE DEF Step, n
<1>3. step \in Steps(n, Table)
  BY <1>2 DEF Steps
<1>4. \A k \in 1 .. n, v \in Table : step[<<k, v>>] = Step(v, k)
  OBVIOUS
<1> HIDE DEF step
<1>5. PICK f : f \in Traces(n, Table, T, step)
  BY <1>1, <1>3, LoopExists
<1>6. f \in [0 .. n -> Table] /\ f[0] = T /\ \A k \in 1 .. n : f[k] = step[<<k, f[k - 1]>>]
  BY <1>5 DEF Traces, Trace
<1>7. \A k \in 1 .. n : f[k] = Step(f[k - 1], k)
  <2> TAKE k \in 1 .. n
  <2>1. f[k - 1] \in Table
    BY <1>1, <1>6
  <2> QED
    BY <1>4, <1>6, <2>1
<1>8. \A k \in 0 .. n : f[k] = IF k = 0 THEN T ELSE Step(f[k - 1], k)
  BY <1>1, <1>6, <1>7
<1>9. f = [k \in 0 .. n |-> IF k = 0 THEN T ELSE Step(f[k - 1], k)]
  BY <1>6, <1>8
<1> DEFINE after[k \in 0 .. n] == IF k = 0 THEN T ELSE Step(after[k - 1], k)
<1>10. after = [k \in 0 .. n |-> IF k = 0 THEN T ELSE Step(after[k - 1], k)]
  BY <1>9, Zenon
<1>11. PruneRoutes(T) = after[n]
  BY Zenon DEF PruneRoutes, Step, n
<1> HIDE DEF after
<1>12. \A k \in 0 .. n : after[k] = IF k = 0 THEN T ELSE Step(after[k - 1], k)
  BY <1>10
<1> DEFINE Same == {k \in 0 .. n : after[k] = f[k]}
<1>13. 0 \in Same
  BY <1>1, <1>6, <1>12
<1>14. ASSUME NEW k \in 0 .. n - 1, k \in Same PROVE k + 1 \in Same
  <2>1. k + 1 \in 1 .. n /\ k + 1 \in 0 .. n /\ (k + 1) - 1 = k /\ k + 1 # 0
    BY <1>1
  <2>2. after[k + 1] = Step(after[k], k + 1)
    BY <1>12, <2>1
  <2>3. f[k + 1] = Step(f[k], k + 1)
    BY <1>7, <2>1
  <2> QED
    BY <1>14, <2>1, <2>2, <2>3
<1> HIDE DEF Same
<1>15. \A k \in 0 .. n : k \in Same
  BY <1>1, <1>13, <1>14, UpTo
<1>16. after[n] = f[n]
  BY <1>1, <1>15 DEF Same
<1>17. Pruning(T, f)
  BY <1>6, <1>7, <1>11, <1>16 DEF Pruning, Step, n
<1> QED
  BY <1>17

\* prune_streams_locked empties the slots of the routes whose context expired.
LEMMA PruneRoutesOK ==
    ASSUME NEW T \in Table
    PROVE  /\ PruneRoutes(T) \in Table
           /\ \A j \in Index : PruneRoutes(T).slots[j] =
                IF /\ Holds(T, j) /\ T.slots[j].slot \in 1 .. MaxStreams
                   /\ RouteTable!Expired(T.slots[j].slot)
                THEN EmptyRoute ELSE T.slots[j]
           /\ \A old \in Table, budget \in Nat : Tracked(old, T, budget)
                => Tracked(old, PruneRoutes(T), budget)
<1>1. PICK f : Pruning(T, f)
  BY PruneRoutesTrace
<1>2. /\ f \in [0 .. MaxStreams -> Table] /\ f[0] = T
      /\ \A i \in 1 .. MaxStreams :
           f[i] = IF RouteTable!Expired(i)
                  THEN ClearRoutesForStream(f[i - 1], i, "stream_expired") ELSE f[i - 1]
      /\ PruneRoutes(T) = f[MaxStreams]
  BY <1>1 DEF Pruning
<1>3. MaxStreams \in Nat /\ "stream_expired" \in Reasons
  BY TablesAssumption DEF Reasons
<1> DEFINE Gone(m, j) == /\ Holds(T, j)
                         /\ T.slots[j].slot \in 1 .. m
                         /\ RouteTable!Expired(T.slots[j].slot)
           Left(m, j) == IF Gone(m, j) THEN EmptyRoute ELSE T.slots[j]
           Good(m) == /\ \A j \in Index : f[m].slots[j] = Left(m, j)
                      /\ \A old \in Table, budget \in Nat :
                           Tracked(old, T, budget) => Tracked(old, f[m], budget)
           S == {m \in 0 .. MaxStreams : Good(m)}
<1>4. 0 \in S
  BY <1>2, <1>3
<1>5. ASSUME NEW m \in 0 .. MaxStreams - 1, m \in S PROVE m + 1 \in S
  <2>1. m + 1 \in 1 .. MaxStreams /\ m + 1 \in 0 .. MaxStreams /\ (m + 1) - 1 = m /\ f[m] \in Table
    BY <1>2, <1>3
  <2>2. Good(m)
    BY <1>5
  <2>3. \A j \in Index : T.slots[j].slot \in 0 .. MaxStreams
    BY DEF Table, Entry
  <2>4. \A s \in 0 .. MaxStreams : s \in 1 .. m + 1 <=> s \in 1 .. m \/ s = m + 1
    BY <2>1
  <2>5. CASE ~RouteTable!Expired(m + 1)
    <3>1. f[m + 1] = f[m]
      BY <1>2, <2>1, <2>5
    <3>2. \A j \in Index : Gone(m + 1, j) <=> Gone(m, j)
      BY <2>3, <2>4, <2>5
    <3> QED
      BY <2>1, <2>2, <3>1, <3>2
  <2>6. CASE RouteTable!Expired(m + 1)
    <3>1. f[m + 1] = ClearRoutesForStream(f[m], m + 1, "stream_expired")
      BY <1>2, <2>1, <2>6
    <3>2. \A j \in Index : f[m + 1].slots[j] =
            IF Holds(f[m], j) /\ f[m].slots[j].slot = m + 1 THEN EmptyRoute ELSE f[m].slots[j]
      BY <1>3, <2>1, <3>1, ClearRoutesOK
    <3>3. ASSUME NEW j \in Index PROVE f[m + 1].slots[j] = Left(m + 1, j)
      <4>1. Gone(m + 1, j) <=> Gone(m, j) \/ (Holds(T, j) /\ T.slots[j].slot = m + 1)
        BY <2>3, <2>4, <2>6
      <4> HIDE DEF Gone
      <4>2. CASE Gone(m, j)
        <5>1. f[m].slots[j] = EmptyRoute
          BY <2>2, <4>2
        <5>2. ~Holds(f[m], j)
          BY <5>1, EmptyRouteOK DEF Holds
        <5> QED
          BY <3>2, <4>1, <4>2, <5>1, <5>2
      <4>3. CASE ~Gone(m, j)
        <5>1. f[m].slots[j] = T.slots[j]
          BY <2>2, <4>3
        <5>2. Holds(f[m], j) <=> Holds(T, j)
          BY <5>1 DEF Holds
        <5> QED
          BY <3>2, <4>1, <4>3, <5>1, <5>2
      <4> QED
        BY <4>2, <4>3
    <3>4. ASSUME NEW old \in Table, NEW budget \in Nat, Tracked(old, T, budget)
          PROVE  Tracked(old, f[m + 1], budget)
      BY <1>3, <2>1, <2>2, <3>1, <3>4, ClearRoutesOK
    <3> QED
      BY <2>1, <3>3, <3>4
  <2> QED
    BY <2>5, <2>6
<1> HIDE DEF S
<1>6. \A m \in 0 .. MaxStreams : m \in S
  BY <1>3, <1>4, <1>5, UpTo
<1>7. Good(MaxStreams)
  BY <1>3, <1>6 DEF S
<1> QED
  BY <1>2, <1>3, <1>7

----------------------------------------------------------------------------
(* A URL is entered                                                        *)

\* A set of slots that is not empty has a first.
LEMMA FirstOK ==
    ASSUME NEW S \in SUBSET Index, S # {}
    PROVE  First(S) \in S /\ \A j \in S : First(S) <= j
<1>1. S \in SUBSET Nat
  BY TablesAssumption DEF Index
<1>2. \E k \in S : \A j \in S : k <= j
  BY <1>1, Least
<1> QED
  BY <1>2 DEF First

\* The slot taken holds the URL, or is empty, or was seen before every other; and
\* only when no slot holds the URL, or none is empty.
LEMMA RouteIndexOK ==
    ASSUME NEW T \in Table, NEW u \in Urls
    PROVE  /\ RouteIndex(T, u) \in Index
           /\ \/ T.slots[RouteIndex(T, u)].url = u
              \/ /\ \A j \in Index : T.slots[j].url # u
                 /\ ~Holds(T, RouteIndex(T, u))
              \/ /\ \A j \in Index : T.slots[j].url # u /\ Holds(T, j)
                 /\ \A j \in Index : T.slots[RouteIndex(T, u)].lastSeen <= T.slots[j].lastSeen
<1> DEFINE same == {k \in Index : T.slots[k].url = u}
           empty == {k \in Index : ~Holds(T, k)}
           oldest == {k \in Index : \A j \in Index : T.slots[k].lastSeen <= T.slots[j].lastSeen}
           candidates == IF same # {} THEN same ELSE IF empty # {} THEN empty ELSE oldest
<1>1. RouteIndex(T, u) = First(candidates)
  BY DEF RouteIndex
<1>2. oldest # {}
  <2> DEFINE times == {T.slots[k].lastSeen : k \in Index}
  <2>1. \A k \in Index : T.slots[k].lastSeen \in Nat
    BY DEF Table, Entry
  <2>2. 1 \in Index
    BY TablesAssumption DEF Index
  <2>3. times \in SUBSET Nat /\ times # {}
    BY <2>1, <2>2
  <2> HIDE DEF times
  <2>4. PICK t \in times : \A s \in times : t <= s
    BY <2>3, Least
  <2> USE DEF times
  <2>5. PICK k \in Index : t = T.slots[k].lastSeen
    BY <2>4
  <2>6. \A j \in Index : T.slots[k].lastSeen <= T.slots[j].lastSeen
    BY <2>4, <2>5
  <2> QED
    BY <2>6
<1>3. candidates \in SUBSET Index /\ candidates # {}
  BY <1>2
<1> HIDE DEF candidates
<1>4. First(candidates) \in candidates
  BY <1>3, FirstOK
<1>5. candidates = IF same # {} THEN same ELSE IF empty # {} THEN empty ELSE oldest
  BY DEF candidates
<1>6. CASE same # {}
  BY <1>1, <1>4, <1>5, <1>6
<1>7. CASE same = {} /\ empty # {}
  BY <1>1, <1>4, <1>5, <1>7
<1>8. CASE same = {} /\ empty = {}
  BY <1>1, <1>4, <1>5, <1>8
<1> QED
  BY <1>6, <1>7, <1>8

\* add_variant_route_locked fills the slot it takes and leaves the others.
LEMMA AddVariantRouteOK ==
    ASSUME NEW T \in Table, NEW i \in 1 .. MaxStreams, NEW g \in Nat, NEW u \in Urls, now \in Nat
    PROVE  /\ AddVariantRoute(T, i, g, u) \in Table
           /\ \A j \in Index : AddVariantRoute(T, i, g, u).slots[j] =
                IF j = RouteIndex(T, u)
                THEN [url |-> u, slot |-> i, generation |-> g, lastSeen |-> now]
                ELSE T.slots[j]
           /\ \A old \in Table, budget \in Nat : Tracked(old, T, budget)
                => Tracked(old, AddVariantRoute(T, i, g, u), budget + 1)
<1> DEFINE k == RouteIndex(T, u)
           entry == [url |-> u, slot |-> i, generation |-> g, lastSeen |-> now]
           U == AddVariantRoute(T, i, g, u)
<1>1. k \in Index /\ entry \in Entry /\ u # None
  BY RouteIndexOK, TablesAssumption DEF Entry
<1>2. PICK C \in Table :
        /\ U = [C EXCEPT !.slots[k] = entry]
        /\ \A j \in Index : j # k => C.slots[j] = T.slots[j]
        /\ ~Holds(C, k) \/ (C.slots[k].url = u /\ C.slots[k].generation = g)
        /\ \A old \in Table, budget \in Nat : Tracked(old, T, budget) => Tracked(old, C, budget)
  <2>1. CASE T.slots[k].url # u
    <3> DEFINE C == RetireRoute(T, k, "route_capacity")
    <3>1. "route_capacity" \in Reasons
      BY DEF Reasons
    <3>2. C \in Table /\ ~Holds(C, k) /\ \A j \in Index : j # k => C.slots[j] = T.slots[j]
      BY <1>1, <3>1, RetireRouteOK, EmptyRouteOK DEF Holds
    <3>3. \A old \in Table, budget \in Nat : Tracked(old, T, budget) => Tracked(old, C, budget)
      BY <1>1, <3>1, RetireRouteTracks DEF Tracked
    <3>4. U = [C EXCEPT !.slots[k] = entry]
      BY <2>1 DEF AddVariantRoute
    <3> HIDE DEF C, U, k, entry
    <3> QED
      BY <3>2, <3>3, <3>4
  <2>2. CASE T.slots[k].url = u /\ T.slots[k].generation # g
    <3> DEFINE C == RetireRoute(T, k, "route_reassigned")
    <3>1. "route_reassigned" \in Reasons
      BY DEF Reasons
    <3>2. C \in Table /\ ~Holds(C, k) /\ \A j \in Index : j # k => C.slots[j] = T.slots[j]
      BY <1>1, <3>1, RetireRouteOK, EmptyRouteOK DEF Holds
    <3>3. \A old \in Table, budget \in Nat : Tracked(old, T, budget) => Tracked(old, C, budget)
      BY <1>1, <3>1, RetireRouteTracks DEF Tracked
    <3>4. U = [C EXCEPT !.slots[k] = entry]
      BY <2>2 DEF AddVariantRoute
    <3> HIDE DEF C, U, k, entry
    <3> QED
      BY <3>2, <3>3, <3>4
  <2>3. CASE T.slots[k].url = u /\ T.slots[k].generation = g
    <3>1. U = [T EXCEPT !.slots[k] = entry]
      BY <2>3 DEF AddVariantRoute
    <3> HIDE DEF U, k, entry
    <3> QED
      BY <2>3, <3>1
  <2> QED
    BY <2>1, <2>2, <2>3
<1> HIDE DEF U, k, entry
<1>3. /\ U.slots = [C.slots EXCEPT ![k] = entry] /\ U.retired = C.retired /\ U.next = C.next
      /\ U = [slots |-> U.slots, retired |-> U.retired, next |-> U.next]
  BY <1>2 DEF Table
<1>4. \A j \in Index : U.slots[j] = IF j = k THEN entry ELSE C.slots[j]
  BY <1>1, <1>2, <1>3 DEF Table
<1>5. U.slots \in [Index -> Entry]
  BY <1>1, <1>2, <1>3 DEF Table
<1>6. U \in Table
  BY <1>2, <1>3, <1>5 DEF Table
<1>7. ASSUME NEW old \in Table, NEW budget \in Nat, Tracked(old, T, budget)
      PROVE  Tracked(old, U, budget + 1)
  <2>1. PICK c : Tracks(old, C, c, budget)
    BY <1>2, <1>7 DEF Tracked
  <2>2. entry.url = u /\ (C.slots[k].url = u /\ C.slots[k].generation = g => entry.generation = g)
    BY DEF entry
  <2>3. Held(U) \subseteq Held(C) \cup {k}
    BY <1>4 DEF Held, Holds
  <2>4. Cardinality(Held(U)) <= Cardinality(Held(C)) + 1
    <3>1. IsFiniteSet(Held(C)) /\ IsFiniteSet({k}) /\ Cardinality({k}) = 1
          /\ Cardinality(Held(C)) \in Nat /\ Cardinality(Held(U)) \in Nat
      BY <1>2, <1>6, HeldFinite, FS_Singleton
    <3>2. IsFiniteSet(Held(C) \cup {k})
          /\ Cardinality(Held(C) \cup {k}) <= Cardinality(Held(C)) + 1
      <4>1. Cardinality(Held(C) \cup {k}) = Cardinality(Held(C))
            \/ Cardinality(Held(C) \cup {k}) = Cardinality(Held(C)) + 1
        BY <3>1, FS_AddElement
      <4> QED
        BY <3>1, <4>1, FS_AddElement
    <3>3. Cardinality(Held(U)) <= Cardinality(Held(C) \cup {k})
      BY <2>3, <3>2, FS_Subset
    <3>4. Cardinality(Held(C) \cup {k}) \in Nat
      BY <3>2, FS_CardinalityType
    <3> QED
      BY <3>1, <3>2, <3>3, <3>4
  <2>5. ASSUME c <= RetiredRoutes, NEW j \in Index, Holds(old, j)
        PROVE  Explained(old.slots[j].url, old.slots[j].generation, U, old.next, c)
    <3> DEFINE v == old.slots[j].url  h == old.slots[j].generation
    <3>1. Explained(v, h, C, old.next, c)
      BY <2>1, <2>5 DEF Tracks
    <3>2. v # None
      BY <2>5 DEF Holds
    <3> SUFFICES Explained(v, h, U, old.next, c)
      OBVIOUS
    <3> HIDE DEF v, h
    <3>3. CASE \E m \in Index : C.slots[m].url = v /\ C.slots[m].generation = h
      <4>1. PICK m \in Index : C.slots[m].url = v /\ C.slots[m].generation = h
        BY <3>3
      <4>2. U.slots[m].url = v /\ U.slots[m].generation = h
        <5>1. CASE m = k
          <6>1. Holds(C, k)
            BY <3>2, <4>1, <5>1 DEF Holds
          <6>2. v = u /\ h = g
            BY <1>2, <4>1, <5>1, <6>1
          <6>3. entry.url = u /\ entry.generation = g
            BY DEF entry
          <6> QED
            BY <1>4, <4>1, <5>1, <6>2, <6>3
        <5>2. CASE m # k
          BY <1>4, <4>1, <5>2
        <5> QED
          BY <5>1, <5>2
      <4> QED
        BY <4>1, <4>2 DEF Explained
    <3>4. CASE \E d \in 0 .. c - 1 :
                 /\ C.retired[(old.next + d) % RetiredRoutes].url = v
                 /\ C.retired[(old.next + d) % RetiredRoutes].generation = h
      BY <1>3, <3>4 DEF Explained
    <3> QED
      BY <3>1, <3>3, <3>4 DEF Explained
  <2>6. c + Cardinality(Held(U)) <= budget + 1
    <3>1. Cardinality(Held(C)) \in Nat /\ Cardinality(Held(U)) \in Nat
      BY <1>2, <1>6, HeldFinite
    <3> QED
      BY <2>1, <2>4, <3>1 DEF Tracks
  <2>7. Tracks(old, U, c, budget + 1)
    BY <1>3, <2>1, <2>5, <2>6 DEF Tracks
  <2> QED
    BY <2>7 DEF Tracked
<1>8. \A j \in Index : U.slots[j] = IF j = k THEN entry ELSE T.slots[j]
  BY <1>2, <1>4
<1>9. ASSUME NEW old \in Table, NEW budget \in Nat
      PROVE  Tracked(old, T, budget) => Tracked(old, U, budget + 1)
  BY <1>7
<1> USE DEF U, k, entry
<1>10. U \in Table
  BY <1>6
<1> QED
  BY <1>8, <1>9, <1>10

----------------------------------------------------------------------------
(* The lines of a playlist                                                 *)

\* The table before, between and after the lines of a playlist.
Registering(T, i, g, lines, f) ==
    /\ f \in [0 .. Len(lines) -> Table]
    /\ f[0] = ClearRoutesForStream(T, i, "master_refresh")
    /\ \A n \in 1 .. Len(lines) : f[n] = AddVariantRoute(f[n - 1], i, g, lines[n])
    /\ RegisterVariantRoutes(T, i, g, lines) = f[Len(lines)]

\* The loop over the lines has a trace.
LEMMA RegisterTrace ==
    ASSUME NEW T \in Table, NEW i \in 1 .. MaxStreams, NEW g \in Nat,
           NEW lines \in Seq(Urls), now \in Nat
    PROVE  \E f : Registering(T, i, g, lines, f)
<1> DEFINE n == Len(lines)
           a == ClearRoutesForStream(T, i, "master_refresh")
           Step(v, k) == AddVariantRoute(v, i, g, lines[k])
           step == [p \in (1 .. n) \X Table |-> Step(p[2], p[1])]
<1>1. n \in Nat
  OBVIOUS
<1>2. \A k \in 1 .. n, v \in Table : Step(v, k) \in Table
  <2> TAKE k \in 1 .. n, v \in Table
  <2>1. lines[k] \in Urls
    OBVIOUS
  <2> QED
    BY <2>1, AddVariantRouteOK
<1>a. a \in Table
  BY ClearRoutesOK DEF Reasons
<1> HIDE DEF Step, n, a
<1>3. step \in Steps(n, Table)
  BY <1>2 DEF Steps
<1>4. \A k \in 1 .. n, v \in Table : step[<<k, v>>] = Step(v, k)
  OBVIOUS
<1> HIDE DEF step
<1>5. PICK f : f \in Traces(n, Table, a, step)
  BY <1>1, <1>3, <1>a, LoopExists
<1>6. f \in [0 .. n -> Table] /\ f[0] = a /\ \A k \in 1 .. n : f[k] = step[<<k, f[k - 1]>>]
  BY <1>5 DEF Traces, Trace
<1>7. \A k \in 1 .. n : f[k] = Step(f[k - 1], k)
  <2> TAKE k \in 1 .. n
  <2>1. f[k - 1] \in Table
    BY <1>1, <1>6
  <2> QED
    BY <1>4, <1>6, <2>1
<1>8. \A k \in 0 .. n : f[k] = IF k = 0 THEN a ELSE Step(f[k - 1], k)
  BY <1>1, <1>6, <1>7
<1>9. f = [k \in 0 .. n |-> IF k = 0 THEN a ELSE Step(f[k - 1], k)]
  BY <1>6, <1>8
<1> DEFINE after[k \in 0 .. n] == IF k = 0 THEN a ELSE Step(after[k - 1], k)
<1>10. after = [k \in 0 .. n |-> IF k = 0 THEN a ELSE Step(after[k - 1], k)]
  BY <1>9, Zenon
<1>11. RegisterVariantRoutes(T, i, g, lines) = after[n]
  BY Zenon DEF RegisterVariantRoutes, Step, n, a
<1> HIDE DEF after
<1>12. \A k \in 0 .. n : after[k] = IF k = 0 THEN a ELSE Step(after[k - 1], k)
  BY <1>10
<1> DEFINE Same == {k \in 0 .. n : after[k] = f[k]}
<1>13. 0 \in Same
  BY <1>1, <1>6, <1>12
<1>14. ASSUME NEW k \in 0 .. n - 1, k \in Same PROVE k + 1 \in Same
  <2>1. k + 1 \in 1 .. n /\ k + 1 \in 0 .. n /\ (k + 1) - 1 = k /\ k + 1 # 0
    BY <1>1
  <2>2. after[k + 1] = Step(after[k], k + 1)
    BY <1>12, <2>1
  <2>3. f[k + 1] = Step(f[k], k + 1)
    BY <1>7, <2>1
  <2> QED
    BY <1>14, <2>1, <2>2, <2>3
<1> HIDE DEF Same
<1>15. \A k \in 0 .. n : k \in Same
  BY <1>1, <1>13, <1>14, UpTo
<1>16. after[n] = f[n]
  BY <1>1, <1>15 DEF Same
<1>17. Registering(T, i, g, lines, f)
  BY <1>6, <1>7, <1>11, <1>16 DEF Registering, Step, n, a
<1> QED
  BY <1>17

\* No URL is in two slots.
Distinct(table) ==
    \A j, k \in Index : Holds(table, j) /\ table.slots[j].url = table.slots[k].url => j = k

\* No route was seen after now.
PastSeen(table) ==
    \A k \in Index : Holds(table, k) => table.slots[k].lastSeen <= now

\* The URLs a table holds.
UrlsOf(table) == {table.slots[k].url : k \in Held(table)}

\* When each URL was seen, in a table whose listed URLs were entered now.
SeenAt(C, listed, t) ==
    [u \in Urls |->
       IF u \in listed THEN t
       ELSE IF u \in UrlsOf(C)
            THEN C.slots[CHOOSE k \in Index : C.slots[k].url = u].lastSeen ELSE 0]

\* What the table T is after the listed URLs were entered, for context i and
\* generation g, in the table C: a slot has the new entry or the one it had, and
\* a URL is missing only if the table is full of URLs seen no earlier.
Entered(C, T, i, g, listed) ==
    /\ Distinct(T)
    /\ \A k \in Index : Holds(T, k) =>
         IF T.slots[k].url \in listed
         THEN T.slots[k] = [url |-> T.slots[k].url, slot |-> i, generation |-> g, lastSeen |-> now]
         ELSE T.slots[k] = C.slots[k]
    /\ \A w \in UrlsOf(C) \cup listed : w \notin UrlsOf(T) =>
         /\ \A k \in Index : Holds(T, k)
         /\ \A k \in Index : SeenAt(C, listed, now)[w] <= T.slots[k].lastSeen

\* In a table without duplicates a URL was seen when its slot says.
LEMMA SeenAtOK ==
    ASSUME NEW C \in Table, Distinct(C), NEW listed, NEW k \in Index, Holds(C, k),
           C.slots[k].url \notin listed, NEW t
    PROVE  SeenAt(C, listed, t)[C.slots[k].url] = C.slots[k].lastSeen
<1> DEFINE u == C.slots[k].url
           m == CHOOSE j \in Index : C.slots[j].url = u
<1>1. u \in Urls /\ u \in UrlsOf(C)
  BY DEF Table, Entry, Holds, UrlsOf, Held
<1>2. m \in Index /\ C.slots[m].url = u
  OBVIOUS
<1>3. m = k
  <2> HIDE DEF m
  <2> QED
    BY <1>2 DEF Distinct
<1>4. SeenAt(C, listed, t)[u] = C.slots[m].lastSeen
  BY <1>1 DEF SeenAt
<1> QED
  BY <1>3, <1>4

\* No URL was seen after now.
LEMMA SeenAtBound ==
    ASSUME NEW C \in Table, NEW listed, NEW w \in Urls, now \in Nat,
           PastSeen(C)
    PROVE  SeenAt(C, listed, now)[w] \in Nat /\ SeenAt(C, listed, now)[w] <= now
<1>1. CASE w \in listed
  BY <1>1 DEF SeenAt
<1>2. CASE w \notin listed /\ w \in UrlsOf(C)
  <2> DEFINE m == CHOOSE j \in Index : C.slots[j].url = w
  <2>1. \E j \in Index : C.slots[j].url = w
    BY <1>2 DEF UrlsOf, Held
  <2>2. m \in Index /\ C.slots[m].url = w
    BY <2>1
  <2>3. SeenAt(C, listed, now)[w] = C.slots[m].lastSeen
    BY <1>2 DEF SeenAt
  <2> HIDE DEF m
  <2>4. C.slots[m].lastSeen \in Nat
    BY <2>2 DEF Table, Entry
  <2>5. Holds(C, m)
    BY <2>2, TablesAssumption DEF Holds
  <2> QED
    BY <2>2, <2>3, <2>4, <2>5 DEF PastSeen
<1>3. CASE w \notin listed /\ w \notin UrlsOf(C)
  BY <1>3 DEF SeenAt
<1> QED
  BY <1>1, <1>2, <1>3

\* A line more: what holds of the table after some lines holds after the next.
LEMMA EnteredNext ==
    ASSUME NEW C \in Table, Distinct(C), NEW T \in Table, NEW i \in 1 .. MaxStreams, NEW g \in Nat,
           NEW listed \in SUBSET Urls, NEW u \in Urls, now \in Nat,
           PastSeen(C), Entered(C, T, i, g, listed)
    PROVE  Entered(C, AddVariantRoute(T, i, g, u), i, g, listed \cup {u})
<1> DEFINE U == AddVariantRoute(T, i, g, u)
           at == RouteIndex(T, u)
           entry == [url |-> u, slot |-> i, generation |-> g, lastSeen |-> now]
           more == listed \cup {u}
<1>1. /\ U \in Table
      /\ \A k \in Index : U.slots[k] = IF k = at THEN entry ELSE T.slots[k]
  BY AddVariantRouteOK
<1>2. /\ at \in Index
      /\ \/ T.slots[at].url = u
         \/ (\A k \in Index : T.slots[k].url # u) /\ ~Holds(T, at)
         \/ /\ \A k \in Index : T.slots[k].url # u /\ Holds(T, k)
            /\ \A k \in Index : T.slots[at].lastSeen <= T.slots[k].lastSeen
  BY RouteIndexOK
<1>3. entry.url = u /\ entry.lastSeen = now /\ u # None
  BY TablesAssumption
<1> HIDE DEF U, at
<1>4. \A k \in Index : k # at => T.slots[k].url # u
  <2> SUFFICES ASSUME NEW k \in Index, k # at, T.slots[k].url = u PROVE FALSE
    OBVIOUS
  <2>1. T.slots[at].url = u
    BY <1>2
  <2>2. Holds(T, k)
    BY <1>3 DEF Holds
  <2>3. k = at
    BY <1>2, <2>1, <2>2 DEF Entered, Distinct
  <2> QED
    BY <2>3
<1>5. Distinct(U)
  <2> SUFFICES ASSUME NEW j \in Index, NEW k \in Index, Holds(U, j),
                      U.slots[j].url = U.slots[k].url
               PROVE  j = k
    BY DEF Distinct
  <2>1. CASE j # at /\ k # at
    <3>1. Holds(T, j) /\ T.slots[j].url = T.slots[k].url
      BY <1>1, <2>1 DEF Holds
    <3> QED
      BY <3>1 DEF Entered, Distinct
  <2>2. CASE j = at \/ k = at
    BY <1>1, <1>3, <1>4, <2>2
  <2> QED
    BY <2>1, <2>2
<1>6. ASSUME NEW k \in Index, Holds(U, k)
      PROVE  IF U.slots[k].url \in more
             THEN U.slots[k] = [url |-> U.slots[k].url, slot |-> i, generation |-> g, lastSeen |-> now]
             ELSE U.slots[k] = C.slots[k]
  <2>1. CASE k = at
    <3>1. U.slots[k] = entry /\ U.slots[k].url \in more
      BY <1>1, <1>3, <2>1
    <3> QED
      BY <1>3, <3>1
  <2>2. CASE k # at
    <3>1. U.slots[k] = T.slots[k] /\ T.slots[k].url # u
      BY <1>1, <1>4, <2>2
    <3>2. Holds(T, k)
      BY <1>6, <3>1 DEF Holds
    <3>3. T.slots[k].url \in more <=> T.slots[k].url \in listed
      BY <3>1
    <3> QED
      BY <3>1, <3>2, <3>3 DEF Entered
  <2> QED
    BY <2>1, <2>2
<1>7. ASSUME NEW w \in UrlsOf(C) \cup more, w \notin UrlsOf(U)
      PROVE  /\ \A k \in Index : Holds(U, k)
             /\ \A k \in Index : SeenAt(C, more, now)[w] <= U.slots[k].lastSeen
  <2>1. u \in UrlsOf(U)
    BY <1>1, <1>2, <1>3 DEF UrlsOf, Held, Holds
  <2>2. w # u /\ w \in UrlsOf(C) \cup listed /\ w \in Urls
    <3>1. UrlsOf(C) \subseteq Urls
      BY DEF UrlsOf, Held, Holds, Table, Entry
    <3> QED
      BY <1>7, <2>1, <3>1
  <2>3. SeenAt(C, more, now)[w] = SeenAt(C, listed, now)[w]
    BY <2>2 DEF SeenAt
  <2>4. SeenAt(C, listed, now)[w] <= now
    BY <2>2, SeenAtBound
  <2>5. ASSUME /\ \A k \in Index : Holds(T, k)
               /\ \A k \in Index : k # at => SeenAt(C, listed, now)[w] <= T.slots[k].lastSeen,
               NEW k \in Index
        PROVE  Holds(U, k) /\ SeenAt(C, more, now)[w] <= U.slots[k].lastSeen
    <3>1. CASE k = at
      BY <1>1, <1>3, <2>3, <2>4, <3>1 DEF Holds
    <3>2. CASE k # at
      BY <1>1, <2>3, <2>5, <3>2 DEF Holds
    <3> QED
      BY <3>1, <3>2
  <2>6. CASE w \notin UrlsOf(T)
    BY <2>2, <2>5, <2>6 DEF Entered
  <2>7. CASE w \in UrlsOf(T)
    <3>1. PICK m \in Index : Holds(T, m) /\ w = T.slots[m].url
      BY <2>7 DEF UrlsOf, Held
    <3>2. m = at
      <4> SUFFICES ASSUME m # at PROVE FALSE
        OBVIOUS
      <4>1. U.slots[m] = T.slots[m]
        BY <1>1
      <4> QED
        BY <1>7, <3>1, <4>1 DEF UrlsOf, Held, Holds
    <3>3. /\ \A k \in Index : Holds(T, k)
          /\ \A k \in Index : T.slots[at].lastSeen <= T.slots[k].lastSeen
      BY <1>2, <2>2, <3>1, <3>2
    <3>4. SeenAt(C, listed, now)[w] = T.slots[at].lastSeen
      <4>1. CASE w \in listed
        <5>1. T.slots[at].lastSeen = now
          <6>1. T.slots[at].url \in listed /\ Holds(T, at)
            BY <3>1, <3>2, <4>1
          <6>2. T.slots[at] = [url |-> T.slots[at].url, slot |-> i, generation |-> g, lastSeen |-> now]
            BY <1>2, <6>1 DEF Entered
          <6> QED
            BY <6>2
        <5> QED
          BY <2>2, <4>1, <5>1 DEF SeenAt
      <4>2. CASE w \notin listed
        <5>1. T.slots[at] = C.slots[at]
          BY <3>1, <3>2, <4>2 DEF Entered
        <5>2. Holds(C, at) /\ C.slots[at].url = w
          BY <3>1, <3>2, <5>1 DEF Holds
        <5>3. SeenAt(C, listed, now)[C.slots[at].url] = C.slots[at].lastSeen
          BY <1>2, <4>2, <5>2, SeenAtOK
        <5> QED
          BY <5>1, <5>2, <5>3
      <4> QED
        BY <4>1, <4>2
    <3> QED
      BY <2>5, <3>3, <3>4
  <2> QED
    BY <2>6, <2>7
<1>8. Entered(C, U, i, g, more)
  BY <1>5, <1>6, <1>7 DEF Entered
<1> QED
  BY <1>8 DEF U

\* register_variant_routes_locked enters every listed URL.
LEMMA RegisterOK ==
    ASSUME NEW T \in Table, Distinct(T), NEW i \in 1 .. MaxStreams, NEW g \in Nat,
           NEW lines \in Seq(Urls), now \in Nat, PastSeen(T)
    PROVE  /\ RegisterVariantRoutes(T, i, g, lines) \in Table
           /\ Entered(ClearRoutesForStream(T, i, "master_refresh"),
                      RegisterVariantRoutes(T, i, g, lines), i, g, Range(lines))
           /\ \A old \in Table, budget \in Nat : Tracked(old, T, budget)
                => Tracked(old, RegisterVariantRoutes(T, i, g, lines), budget + Len(lines))
<1> DEFINE n == Len(lines)
           C == ClearRoutesForStream(T, i, "master_refresh")
           Listed(m) == {lines[l] : l \in 1 .. m}
<1>1. PICK f : Registering(T, i, g, lines, f)
  BY RegisterTrace
<1>2. /\ f \in [0 .. n -> Table] /\ f[0] = C
      /\ \A m \in 1 .. n : f[m] = AddVariantRoute(f[m - 1], i, g, lines[m])
      /\ RegisterVariantRoutes(T, i, g, lines) = f[n]
  BY <1>1 DEF Registering
<1>3. "master_refresh" \in Reasons
  BY DEF Reasons
<1>4. /\ C \in Table
      /\ \A j \in Index : C.slots[j] =
           IF Holds(T, j) /\ T.slots[j].slot = i THEN EmptyRoute ELSE T.slots[j]
      /\ \A old \in Table, budget \in Nat : Tracked(old, T, budget) => Tracked(old, C, budget)
  BY <1>3, ClearRoutesOK
<1>5. Distinct(C) /\ PastSeen(C)
  <2>1. \A j \in Index : C.slots[j] \in {EmptyRoute, T.slots[j]}
    BY <1>4
  <2>2. EmptyRoute.url = None /\ EmptyRoute.lastSeen = 0
    BY DEF EmptyRoute
  <2> QED
    BY <2>1, <2>2 DEF Distinct, Holds, PastSeen
<1>6. n \in Nat /\ \A m \in 1 .. n : lines[m] \in Urls
  OBVIOUS
<1> HIDE DEF C, n
<1> DEFINE Good(m) == /\ Entered(C, f[m], i, g, Listed(m))
                      /\ \A old \in Table, budget, b \in Nat :
                           b = budget + m /\ Tracked(old, T, budget) => Tracked(old, f[m], b)
           S == {m \in 0 .. n : Good(m)}
<1>7. 0 \in S
  <2>1. Listed(0) = {}
    OBVIOUS
  <2>2. Entered(C, C, i, g, {})
    BY <1>5 DEF Entered
  <2>3. \A old \in Table, budget, b \in Nat :
          b = budget + 0 /\ Tracked(old, T, budget) => Tracked(old, C, b)
    BY <1>4
  <2> QED
    BY <1>2, <1>6, <2>1, <2>2, <2>3
<1>8. ASSUME NEW m \in 0 .. n - 1, m \in S PROVE m + 1 \in S
  <2>1. m + 1 \in 1 .. n /\ m + 1 \in 0 .. n /\ (m + 1) - 1 = m /\ m \in Nat
    BY <1>6
  <2> DEFINE u == lines[m + 1]
  <2>2. f[m] \in Table /\ u \in Urls /\ f[m + 1] = AddVariantRoute(f[m], i, g, u)
    BY <1>2, <1>6, <2>1
  <2>3. Listed(m + 1) = Listed(m) \cup {u} /\ Listed(m) \in SUBSET Urls
    BY <1>6, <2>1
  <2>4. Good(m)
    BY <1>8
  <2> HIDE DEF u, Listed
  <2>5. Entered(C, f[m + 1], i, g, Listed(m + 1))
    BY <1>4, <1>5, <2>2, <2>3, <2>4, EnteredNext
  <2>6. ASSUME NEW old \in Table, NEW budget \in Nat, NEW b \in Nat,
               b = budget + (m + 1), Tracked(old, T, budget)
        PROVE  Tracked(old, f[m + 1], b)
    <3> DEFINE a == budget + m
    <3>1. a \in Nat /\ b = a + 1
      BY <2>1, <2>6
    <3>2. Tracked(old, f[m], a)
      BY <2>4, <2>6, <3>1
    <3> HIDE DEF a
    <3>3. Tracked(old, f[m + 1], a + 1)
      <4>1. \A o \in Table, c \in Nat :
              Tracked(o, f[m], c) => Tracked(o, AddVariantRoute(f[m], i, g, u), c + 1)
        BY <2>2, AddVariantRouteOK
      <4>2. Tracked(old, AddVariantRoute(f[m], i, g, u), a + 1)
        BY <3>1, <3>2, <4>1
      <4> QED
        BY <2>2, <4>2
    <3> QED
      BY <3>1, <3>3
  <2> QED
    BY <2>1, <2>5, <2>6
<1> HIDE DEF S
<1>9. \A m \in 0 .. n : m \in S
  BY <1>6, <1>7, <1>8, UpTo
<1>10. n \in S
  BY <1>6, <1>9
<1>11. Listed(n) = Range(lines)
  BY DEF n, Range
<1>12. f[n] \in Table
  BY <1>2, <1>6
<1>13. Entered(C, f[n], i, g, Range(lines))
  BY <1>10, <1>11 DEF S
<1>14. ASSUME NEW old \in Table, NEW budget \in Nat, Tracked(old, T, budget)
       PROVE  Tracked(old, f[n], budget + n)
  <2>1. budget + n \in Nat
    BY <1>6
  <2> QED
    BY <1>10, <1>14, <2>1 DEF S
<1> QED
  BY <1>2, <1>12, <1>13, <1>14 DEF C, n

\* A table without duplicates holds as many URLs as slots are taken.
LEMMA UrlsCounted ==
    ASSUME NEW T \in Table, Distinct(T)
    PROVE  /\ IsFiniteSet(UrlsOf(T)) /\ Cardinality(UrlsOf(T)) = Cardinality(Held(T))
           /\ UrlsOf(T) \in SUBSET Urls
           /\ Cardinality(UrlsOf(T)) \in Nat /\ Cardinality(UrlsOf(T)) <= MaxRoutes
           /\ (\A k \in Index : Holds(T, k)) => Cardinality(UrlsOf(T)) = MaxRoutes
<1> DEFINE f == [k \in Held(T) |-> T.slots[k].url]
<1>1. f \in Bijection(Held(T), UrlsOf(T))
  <2>1. \A j, k \in Held(T) : f[j] = f[k] => j = k
    BY DEF Held, Distinct
  <2> QED
    BY <2>1 DEF UrlsOf, Bijection, Injection, Surjection, IsInjective
<1>2. ExistsBijection(Held(T), UrlsOf(T))
  BY <1>1 DEF ExistsBijection
<1>3. /\ IsFiniteSet(Held(T)) /\ Cardinality(Held(T)) \in Nat
      /\ Cardinality(Held(T)) <= MaxRoutes
  BY HeldFinite
<1>4. IsFiniteSet(UrlsOf(T)) /\ Cardinality(UrlsOf(T)) = Cardinality(Held(T))
  BY <1>2, <1>3, FS_Bijection
<1>5. UrlsOf(T) \in SUBSET Urls
  BY DEF UrlsOf, Held, Holds, Table, Entry
<1>6. ASSUME \A k \in Index : Holds(T, k) PROVE Cardinality(Held(T)) = MaxRoutes
  <2>1. Held(T) = Index
    BY <1>6 DEF Held
  <2> QED
    BY <2>1, TablesAssumption, FS_Interval DEF Index
<1> QED
  BY <1>3, <1>4, <1>5, <1>6

----------------------------------------------------------------------------
(* The invariant                                                           *)

\* Every route is the route of a context in use, of the generation it has.
Matched(table) ==
    \A k \in Index : Holds(table, k) =>
      RouteTable!StreamRefMatches([slot |-> table.slots[k].slot,
                                   generation |-> table.slots[k].generation])

TypeOK == /\ Tables \in Table
          /\ streams \in [1 .. MaxStreams -> RouteTable!Stream]
          /\ nextGeneration \in Nat /\ now \in Nat

Inv == /\ TypeOK
       /\ Distinct(Tables)
       /\ Matched(Tables)
       /\ PastSeen(Tables)

\* What a playlist leaves: in C the routes of the contexts that go are taken out,
\* and the lines are entered in C to give T.
Recorded(channel, lines, i, C, T) ==
    /\ Tables' = T
    /\ \A j \in Index : Holds(C, j) <=> /\ Holds(Tables, j)
                                        /\ slots[j].slot \in RouteTable!Survivors \ {i}
    /\ \A j \in Index : Holds(C, j) => C.slots[j] = slots[j]
    /\ Entered(C, T, i, RouteTable!RecordedStream(channel, Range(lines), i).generation, Range(lines))
    /\ Tracked(Tables, T, MaxRoutes + Len(lines))

\* Nothing is retired at first.
LEMMA TrackedAtFirst ==
    ASSUME NEW T \in Table
    PROVE  Tracked(T, T, MaxRoutes)
<1>1. T.next \in 0 .. CounterSize - 1 /\ CounterSize \in Nat \ {0} /\ T.next \in Int
  BY RetiredRoutesAssumption DEF Table
<1> DEFINE r == T.next  zero == 0
<1>2. r = CounterSize * zero + r /\ zero \in Int /\ zero \in Nat
  BY <1>1
<1>3. zero + Cardinality(Held(T)) <= MaxRoutes
  BY HeldFinite
<1> HIDE DEF zero
<1>4. r % CounterSize = r
  BY <1>1, <1>2, RemainderIs
<1>5. T.next = (T.next + zero) % CounterSize
  BY <1>1, <1>4 DEF zero
<1>6. \A k \in Index : Holds(T, k) =>
        Explained(T.slots[k].url, T.slots[k].generation, T, T.next, zero)
  BY DEF Explained
<1>7. Tracks(T, T, zero, MaxRoutes)
  BY <1>2, <1>3, <1>5, <1>6 DEF Tracks
<1> QED
  BY <1>7 DEF Tracked

\* The context recorded for a channel, and the streams after it.
LEMMA UpdateStreamMasterOK ==
    ASSUME TypeOK, NEW channel \in Channels, NEW listing \in SUBSET Urls,
           NEW i \in 1 .. MaxStreams, RouteTable!UpdateStreamMaster(channel, listing, i)
    PROVE  /\ RouteTable!RecordedStream(channel, listing, i).generation \in Nat
           /\ streams' \in [1 .. MaxStreams -> RouteTable!Stream]
           /\ nextGeneration' \in Nat
           /\ streams'[i].active
           /\ streams'[i].generation = RouteTable!RecordedStream(channel, listing, i).generation
           /\ \A j \in RouteTable!Survivors \ {i} : streams'[j] = streams[j]
<1> DEFINE new == RouteTable!RecordedStream(channel, listing, i)
           held == i \in RouteTable!Holders(channel)
<1>1. /\ streams \in [1 .. MaxStreams -> RouteTable!Stream]
      /\ nextGeneration \in Nat /\ now \in Nat /\ channel # None
  BY TablesAssumption DEF TypeOK
<1>2. RouteTable!NoBackup \in RouteTable!Backup /\ RouteTable!EmptyStream \in RouteTable!Stream
  BY DEF RouteTable!NoBackup, RouteTable!EmptyStream, RouteTable!Stream, RouteTable!Backup
<1>3. held => /\ streams[i].active
              /\ new = [streams[i] EXCEPT !.manifest = listing, !.backup = RouteTable!NoBackup,
                                          !.backupCreated = 0, !.lastSeen = now]
  BY DEF RouteTable!Holders, RouteTable!Survivors, RouteTable!RecordedStream
<1>4. ~held => new = [RouteTable!EmptyStream EXCEPT
                        !.active = TRUE, !.channel = channel,
                        !.generation = nextGeneration, !.manifest = listing,
                        !.backup = RouteTable!NoBackup, !.backupCreated = 0, !.lastSeen = now]
  BY DEF RouteTable!RecordedStream
<1> HIDE DEF new, held
<1>5. new \in RouteTable!Stream /\ new.active
  <2>1. CASE held
    <3> DEFINE old == streams[i]
    <3>1. old \in RouteTable!Stream /\ old.active
      BY <1>1, <1>3, <2>1
    <3>2. new = [old EXCEPT !.manifest = listing, !.backup = RouteTable!NoBackup,
                            !.backupCreated = 0, !.lastSeen = now]
      BY <1>3, <2>1
    <3> HIDE DEF old
    <3> QED
      BY <1>1, <1>2, <3>1, <3>2 DEF RouteTable!Stream
  <2>2. CASE ~held
    <3> DEFINE empty == RouteTable!EmptyStream
    <3>1. empty \in RouteTable!Stream
      BY <1>2
    <3>2. new = [empty EXCEPT !.active = TRUE, !.channel = channel,
                        !.generation = nextGeneration, !.manifest = listing,
                        !.backup = RouteTable!NoBackup, !.backupCreated = 0, !.lastSeen = now]
      BY <1>4, <2>2
    <3> HIDE DEF empty
    <3> QED
      BY <1>1, <1>2, <3>1, <3>2 DEF RouteTable!Stream
  <2> QED
    BY <2>1, <2>2
<1>6. /\ streams' = [j \in 1 .. MaxStreams |->
                       IF j = i THEN new
                       ELSE IF RouteTable!Expired(j) THEN RouteTable!EmptyStream ELSE streams[j]]
      /\ nextGeneration' = IF held THEN nextGeneration ELSE nextGeneration + 1
  BY DEF RouteTable!UpdateStreamMaster, RouteTable!Slot, new, held
<1>7. \A j \in RouteTable!Survivors : j \in 1 .. MaxStreams /\ ~RouteTable!Expired(j)
  BY DEF RouteTable!Survivors, RouteTable!Slot
<1>8. streams' \in [1 .. MaxStreams -> RouteTable!Stream]
  BY <1>1, <1>2, <1>5, <1>6
<1>9. new.generation \in Nat
  BY <1>5 DEF RouteTable!Stream
<1> QED
  BY <1>1, <1>5, <1>6, <1>7, <1>8, <1>9 DEF new

\* The master branch of process_manifest, taken apart.
LEMMA MasterPlaylistRecords ==
    ASSUME Inv, NEW channel \in Channels, NEW lines \in Playlists[channel],
           MasterPlaylist(channel, lines)
    PROVE  \E i \in 1 .. MaxStreams, C \in Table, T \in Table :
             /\ RouteTable!SlotFor(channel, i)
             /\ i \in RouteTable!Holders(channel) \/ nextGeneration <= MaxGeneration
             /\ RouteTable!UpdateStreamMaster(channel, Range(lines), i)
             /\ now' = now
             /\ Recorded(channel, lines, i, C, T)
<1>1. PICK i \in 1 .. MaxStreams :
        LET held == i \in RouteTable!Holders(channel)
            recorded == RouteTable!RecordedStream(channel, Range(lines), i)
            pruned == PruneRoutes(Tables)
            freed == IF i \in RouteTable!Survivors /\ ~held
                     THEN ClearRoutesForStream(pruned, i, "stream_replaced") ELSE pruned
        IN /\ RouteTable!SlotFor(channel, i)
           /\ held \/ nextGeneration <= MaxGeneration
           /\ RouteTable!UpdateStreamMaster(channel, Range(lines), i)
           /\ TablesBecome(RegisterVariantRoutes(freed, i, recorded.generation, lines))
           /\ now' = now
  BY DEF MasterPlaylist
<1> DEFINE g == RouteTable!RecordedStream(channel, Range(lines), i).generation
           P == PruneRoutes(Tables)
           F == IF i \in RouteTable!Survivors /\ i \notin RouteTable!Holders(channel)
                THEN ClearRoutesForStream(P, i, "stream_replaced") ELSE P
           C == ClearRoutesForStream(F, i, "master_refresh")
           T == RegisterVariantRoutes(F, i, g, lines)
<1>2. lines \in Seq(Urls) /\ Range(lines) \in SUBSET Urls
  <2>1. lines \in Seq(Urls)
    BY PlaylistsAssumption
  <2> QED
    BY <2>1 DEF Range
<1>3. Tables \in Table /\ now \in Nat /\ g \in Nat
  BY <1>1, <1>2, UpdateStreamMasterOK DEF Inv, TypeOK
<1>4. \A k \in Index : Holds(Tables, k) =>
        /\ slots[k].slot \in 1 .. MaxStreams
        /\ RouteTable!Expired(slots[k].slot) <=> slots[k].slot \notin RouteTable!Survivors
  BY DEF Inv, Matched, Tables, RouteTable!StreamRefMatches, RouteTable!Survivors, RouteTable!Slot
<1>5. /\ P \in Table
      /\ \A j \in Index : P.slots[j] =
           IF Holds(Tables, j) /\ slots[j].slot \notin RouteTable!Survivors
           THEN EmptyRoute ELSE slots[j]
      /\ Tracked(Tables, P, MaxRoutes)
  <2>1. MaxRoutes \in Nat /\ Tables.slots = slots
    BY TablesAssumption DEF Tables
  <2>2. P \in Table /\ Tracked(Tables, P, MaxRoutes)
    BY <1>3, <2>1, TrackedAtFirst, PruneRoutesOK
  <2>3. \A j \in Index : P.slots[j] =
          IF /\ Holds(Tables, j) /\ Tables.slots[j].slot \in 1 .. MaxStreams
             /\ RouteTable!Expired(Tables.slots[j].slot)
          THEN EmptyRoute ELSE Tables.slots[j]
    BY <1>3, PruneRoutesOK
  <2> QED
    BY <1>4, <2>1, <2>2, <2>3
<1> HIDE DEF g, P
<1>6. /\ F \in Table
      /\ \A j \in Index : \/ F.slots[j] = P.slots[j]
                          \/ F.slots[j] = EmptyRoute /\ P.slots[j].slot = i
      /\ Tracked(Tables, F, MaxRoutes)
  <2>1. "stream_replaced" \in Reasons /\ MaxRoutes \in Nat
    BY TablesAssumption DEF Reasons
  <2> QED
    BY <1>3, <1>5, <2>1, ClearRoutesOK
<1> HIDE DEF F
<1>7. /\ C \in Table
      /\ \A j \in Index : C.slots[j] =
           IF Holds(F, j) /\ F.slots[j].slot = i THEN EmptyRoute ELSE F.slots[j]
  <2>1. "master_refresh" \in Reasons
    BY DEF Reasons
  <2> QED
    BY <1>6, <2>1, ClearRoutesOK
<1>8. /\ \A j \in Index : Holds(C, j) <=> /\ Holds(Tables, j)
                                          /\ slots[j].slot \in RouteTable!Survivors \ {i}
      /\ \A j \in Index : Holds(C, j) => C.slots[j] = slots[j]
  <2> SUFFICES ASSUME NEW j \in Index
               PROVE  /\ Holds(C, j) <=> /\ Holds(Tables, j)
                                         /\ slots[j].slot \in RouteTable!Survivors \ {i}
                      /\ Holds(C, j) => C.slots[j] = slots[j]
    OBVIOUS
  <2>1. EmptyRoute.url = None /\ Tables.slots = slots
    BY DEF EmptyRoute, Tables
  <2> HIDE DEF C
  <2>2. CASE Holds(Tables, j) /\ slots[j].slot \in RouteTable!Survivors \ {i}
    BY <1>5, <1>6, <1>7, <2>1, <2>2 DEF Holds
  <2>3. CASE ~(Holds(Tables, j) /\ slots[j].slot \in RouteTable!Survivors \ {i})
    BY <1>5, <1>6, <1>7, <2>1, <2>3 DEF Holds
  <2> QED
    BY <2>2, <2>3
<1>9. Distinct(F) /\ PastSeen(F)
  <2>1. \A j \in Index : F.slots[j] \in {EmptyRoute, slots[j]}
    BY <1>5, <1>6
  <2>2. EmptyRoute.url = None /\ EmptyRoute.lastSeen = 0
    BY DEF EmptyRoute
  <2> QED
    BY <1>3, <2>1, <2>2 DEF Inv, Distinct, Holds, PastSeen, Tables
<1>10. /\ T \in Table /\ Entered(C, T, i, g, Range(lines))
       /\ Tracked(Tables, T, MaxRoutes + Len(lines))
  <2>1. MaxRoutes \in Nat
    BY TablesAssumption
  <2>2. /\ T \in Table /\ Entered(C, T, i, g, Range(lines))
        /\ \A old \in Table, budget \in Nat : Tracked(old, F, budget)
             => Tracked(old, T, budget + Len(lines))
    BY <1>2, <1>3, <1>6, <1>9, RegisterOK
  <2> QED
    BY <1>3, <1>6, <2>1, <2>2
<1>11. Tables' = T
  <2>1. TablesBecome(T)
    BY <1>1 DEF T, F, P, g
  <2>2. T = [slots |-> T.slots, retired |-> T.retired, next |-> T.next]
    BY <1>10 DEF Table
  <2> QED
    BY <2>1, <2>2 DEF TablesBecome, Tables
<1> HIDE DEF C, T
<1>12. Recorded(channel, lines, i, C, T)
  BY <1>8, <1>10, <1>11 DEF Recorded, g
<1> QED
  BY <1>1, <1>7, <1>10, <1>12

\* Retiring no slots leaves the tables alone, whatever the reason.
LEMMA RetireNone ==
    ASSUME NEW T \in Table, NEW reason
    PROVE  RetireRoutes(T, {}, reason) = T
<1>1. PICK f : Retiring(T, {}, reason, f)
  BY RetireRoutesTrace
<1>2. /\ f[0] = T
      /\ \A k \in Index : f[k] = f[k - 1]
      /\ RetireRoutes(T, {}, reason) = f[MaxRoutes]
  BY <1>1 DEF Retiring
<1>3. MaxRoutes \in Nat
  BY TablesAssumption
<1> DEFINE S == {m \in 0 .. MaxRoutes : f[m] = T}
<1>4. 0 \in S
  BY <1>2, <1>3
<1>5. ASSUME NEW m \in 0 .. MaxRoutes - 1, m \in S PROVE m + 1 \in S
  <2>1. m + 1 \in Index /\ m + 1 \in 0 .. MaxRoutes /\ (m + 1) - 1 = m
    BY <1>3 DEF Index
  <2> QED
    BY <1>2, <1>5, <2>1
<1> HIDE DEF S
<1>6. \A m \in 0 .. MaxRoutes : m \in S
  BY <1>3, <1>4, <1>5, UpTo
<1> QED
  BY <1>2, <1>3, <1>6 DEF S

\* The lookup that finds a live route touches its slot and retires nothing.
LEMMA RouteHitTouches ==
    ASSUME Inv, NEW u \in Urls, RouteHit(u)
    PROVE  \E k \in Index :
             /\ Holds(Tables, k) /\ slots[k].url = u
             /\ RouteTable!StreamRefMatches([slot |-> slots[k].slot,
                                             generation |-> slots[k].generation])
             /\ slots' = [slots EXCEPT ![k].lastSeen = now]
             /\ retired' = retired /\ nextRetired' = nextRetired
             /\ streams' = [streams EXCEPT ![slots[k].slot].lastSeen = now]
             /\ nextGeneration' = nextGeneration /\ now' = now
<1> DEFINE k == First(Live(u))
           before == {j \in SlotsOf(u) : j < k}
<1>1. /\ Live(u) # {}
      /\ TablesBecome([RetireRoutes(Tables, before, "stale_generation") EXCEPT !.slots[k].lastSeen = now])
      /\ streams' = [streams EXCEPT ![slots[k].slot].lastSeen = now]
      /\ nextGeneration' = nextGeneration /\ now' = now
  BY DEF RouteHit
<1>2. Live(u) \in SUBSET Index /\ Live(u) \subseteq SlotsOf(u)
  BY DEF Live, SlotsOf
<1>3. k \in Live(u) /\ k \in Index /\ slots[k].url = u
  BY <1>1, <1>2, FirstOK DEF SlotsOf
<1>4. RouteTable!StreamRefMatches([slot |-> slots[k].slot, generation |-> slots[k].generation])
  BY <1>3 DEF Live
<1> HIDE DEF k
<1>5. Holds(Tables, k)
  BY <1>3, TablesAssumption DEF Holds, Tables
<1>6. before = {}
  <2> SUFFICES ASSUME NEW j \in SlotsOf(u), j < k PROVE FALSE
    OBVIOUS
  <2>1. j \in Index /\ slots[j].url = slots[k].url
    BY <1>3 DEF SlotsOf
  <2>2. k = j
    BY <1>3, <1>5, <2>1 DEF Inv, Distinct, Tables
  <2>3. k \in Int
    BY <1>3 DEF Index
  <2> QED
    BY <2>2, <2>3
<1>7. Tables \in Table
  BY DEF Inv, TypeOK
<1>8. RetireRoutes(Tables, before, "stale_generation") = Tables
  BY <1>6, <1>7, RetireNone
<1> HIDE DEF before
<1>9. TablesBecome([Tables EXCEPT !.slots[k].lastSeen = now])
  BY <1>1, <1>8
<1>10. /\ slots' = [slots EXCEPT ![k].lastSeen = now]
       /\ retired' = retired /\ nextRetired' = nextRetired
  BY <1>9 DEF TablesBecome, Tables
<1> QED
  BY <1>1, <1>3, <1>4, <1>5, <1>10

\* The lookup that finds none leaves everything alone.
LEMMA RouteMissKeeps ==
    ASSUME Inv, NEW u \in Urls, RouteMiss(u)
    PROVE  SlotsOf(u) = {} /\ UNCHANGED vars
<1>1. SlotsOf(u) = {}
  <2> SUFFICES ASSUME NEW k \in SlotsOf(u) PROVE FALSE
    OBVIOUS
  <2>1. k \in Index /\ Holds(Tables, k)
    BY TablesAssumption DEF SlotsOf, Holds, Tables
  <2>2. k \in Live(u)
    BY <2>1 DEF Live, Inv, Matched, Tables
  <2> QED
    BY <2>2 DEF RouteMiss
<1>2. RetireRoutes(Tables, SlotsOf(u), "stale_generation") = Tables
  BY <1>1, RetireNone DEF Inv, TypeOK
<1>3. TablesBecome(Tables)
  BY <1>2 DEF RouteMiss
<1> QED
  BY <1>1, <1>3 DEF RouteMiss, vars, TablesBecome, Tables

\* The invariant holds at first.
LEMMA InvInit == Init => Inv
<1> SUFFICES ASSUME Init PROVE Inv
  OBVIOUS
<1>1. \A k \in Index : slots[k] = EmptyRoute /\ ~Holds(Tables, k)
  BY EmptyRouteOK DEF Init, Holds, Tables
<1>2. Tables \in Table
  <2>1. 0 \in 0 .. CounterSize - 1
    BY RetiredRoutesAssumption
  <2> QED
    BY <2>1, EmptyRouteOK DEF Init, Tables, Table, Ring
<1>3. streams \in [1 .. MaxStreams -> RouteTable!Stream]
  <2>1. RouteTable!NoBackup \in RouteTable!Backup /\ RouteTable!EmptyStream \in RouteTable!Stream
    BY DEF RouteTable!NoBackup, RouteTable!EmptyStream, RouteTable!Stream, RouteTable!Backup
  <2> QED
    BY <2>1 DEF Init
<1>4. TypeOK
  BY <1>2, <1>3 DEF Init, TypeOK
<1> QED
  BY <1>1, <1>4 DEF Inv, Distinct, Matched, PastSeen

\* A playlist keeps it: the routes that stay are of contexts that stay, and the
\* new ones are of the context recorded.
LEMMA InvMasterPlaylist ==
    ASSUME Inv, NEW channel \in Channels, NEW lines \in Playlists[channel],
           MasterPlaylist(channel, lines)
    PROVE  Inv'
<1>1. PICK i \in 1 .. MaxStreams, C \in Table, T \in Table :
        /\ RouteTable!UpdateStreamMaster(channel, Range(lines), i)
        /\ now' = now
        /\ Recorded(channel, lines, i, C, T)
  BY MasterPlaylistRecords
<1> DEFINE g == RouteTable!RecordedStream(channel, Range(lines), i).generation
<1>2. Range(lines) \in SUBSET Urls
  <2>1. lines \in Seq(Urls)
    BY PlaylistsAssumption
  <2> QED
    BY <2>1 DEF Range
<1>3. /\ g \in Nat
      /\ streams' \in [1 .. MaxStreams -> RouteTable!Stream]
      /\ nextGeneration' \in Nat
      /\ streams'[i].active
      /\ streams'[i].generation = g
      /\ \A j \in RouteTable!Survivors \ {i} : streams'[j] = streams[j]
  BY <1>1, <1>2, UpdateStreamMasterOK DEF Inv
<1>4. /\ Tables' = T /\ slots' = T.slots
      /\ \A j \in Index : Holds(C, j) <=> /\ Holds(Tables, j)
                                          /\ slots[j].slot \in RouteTable!Survivors \ {i}
      /\ \A j \in Index : Holds(C, j) => C.slots[j] = slots[j]
      /\ Entered(C, T, i, g, Range(lines))
  <2>1. Tables' = T
    BY <1>1 DEF Recorded
  <2> QED
    BY <1>1, <2>1 DEF Recorded, Tables
<1> HIDE DEF g
<1>5. TypeOK'
  BY <1>1, <1>3, <1>4 DEF TypeOK, Inv
<1>6. Distinct(T) /\ Distinct(Tables)'
  <2>1. Distinct(T)
    BY <1>4 DEF Entered
  <2> QED
    BY <1>4, <2>1 DEF Distinct, Holds, Index
<1>7. ASSUME NEW k \in Index, Holds(T, k)
      PROVE  /\ T.slots[k].slot \in 1 .. MaxStreams
             /\ streams'[T.slots[k].slot].active
             /\ streams'[T.slots[k].slot].generation = T.slots[k].generation
             /\ T.slots[k].lastSeen <= now
  <2>1. CASE T.slots[k].url \in Range(lines)
    <3>1. T.slots[k] = [url |-> T.slots[k].url, slot |-> i, generation |-> g, lastSeen |-> now]
      BY <1>4, <1>7, <2>1 DEF Entered
    <3>2. T.slots[k].slot = i /\ T.slots[k].generation = g /\ T.slots[k].lastSeen = now
      BY <3>1
    <3> QED
      BY <1>3, <3>2 DEF Inv, TypeOK
  <2>2. CASE T.slots[k].url \notin Range(lines)
    <3>1. T.slots[k] = C.slots[k]
      BY <1>4, <1>7, <2>2 DEF Entered
    <3>2. Holds(C, k)
      BY <1>7, <3>1 DEF Holds
    <3>3. T.slots[k] = slots[k] /\ Holds(Tables, k) /\ slots[k].slot \in RouteTable!Survivors \ {i}
      BY <1>4, <3>1, <3>2
    <3>4. /\ slots[k].slot \in 1 .. MaxStreams
          /\ streams[slots[k].slot].active
          /\ streams[slots[k].slot].generation = slots[k].generation
      BY <3>3 DEF Inv, Matched, Tables, RouteTable!StreamRefMatches, RouteTable!Slot
    <3>5. streams'[slots[k].slot] = streams[slots[k].slot] /\ slots[k].lastSeen <= now
      BY <1>3, <3>3 DEF Inv, PastSeen, Tables
    <3> QED
      BY <3>3, <3>4, <3>5
  <2> QED
    BY <2>1, <2>2
<1>8. Matched(Tables)'
  <2>1. \A k \in Index : Holds(Tables, k)' => Holds(T, k)
    BY <1>4 DEF Holds
  <2> QED
    BY <1>4, <1>7, <2>1 DEF Matched, RouteTable!StreamRefMatches, RouteTable!Slot, Index
<1>9. PastSeen(Tables)'
  <2>1. \A k \in Index : Holds(Tables, k)' => Holds(T, k)
    BY <1>4 DEF Holds
  <2> QED
    BY <1>1, <1>4, <1>7, <2>1 DEF PastSeen, Index
<1> QED
  BY <1>5, <1>6, <1>8, <1>9 DEF Inv

\* A lookup that hits keeps it: a slot and its context are touched.
LEMMA InvRouteHit ==
    ASSUME Inv, NEW u \in Urls, RouteHit(u)
    PROVE  Inv'
<1>1. PICK k \in Index :
        /\ Holds(Tables, k) /\ slots[k].url = u
        /\ RouteTable!StreamRefMatches([slot |-> slots[k].slot, generation |-> slots[k].generation])
        /\ slots' = [slots EXCEPT ![k].lastSeen = now]
        /\ retired' = retired /\ nextRetired' = nextRetired
        /\ streams' = [streams EXCEPT ![slots[k].slot].lastSeen = now]
        /\ nextGeneration' = nextGeneration /\ now' = now
  BY RouteHitTouches
<1> DEFINE i == slots[k].slot
           T == Tables'
<1>2. /\ slots \in [Index -> Entry] /\ retired \in [Ring -> Retirement]
      /\ nextRetired \in 0 .. CounterSize - 1
      /\ streams \in [1 .. MaxStreams -> RouteTable!Stream]
      /\ nextGeneration \in Nat /\ now \in Nat
  BY DEF Inv, TypeOK, Tables, Table
<1>3. /\ slots' \in [Index -> Entry]
      /\ \A j \in Index : /\ slots'[j].url = slots[j].url
                          /\ slots'[j].slot = slots[j].slot
                          /\ slots'[j].generation = slots[j].generation
                          /\ slots'[j].lastSeen = IF j = k THEN now ELSE slots[j].lastSeen
  BY <1>1, <1>2 DEF Entry
<1>4. /\ streams' \in [1 .. MaxStreams -> RouteTable!Stream]
      /\ \A s \in 1 .. MaxStreams : /\ streams'[s].active = streams[s].active
                                    /\ streams'[s].generation = streams[s].generation
  <2>1. i \in 1 .. MaxStreams
    BY <1>1 DEF RouteTable!StreamRefMatches, RouteTable!Slot
  <2> HIDE DEF i
  <2>2. streams' = [streams EXCEPT ![i].lastSeen = now]
    BY <1>1 DEF i
  <2> QED
    BY <1>2, <2>1, <2>2 DEF RouteTable!Stream
<1>5. TypeOK'
  BY <1>1, <1>2, <1>3, <1>4 DEF TypeOK, Tables, Table, Index, Ring
<1>6. Distinct(Tables)' /\ Matched(Tables)' /\ PastSeen(Tables)'
  <2>1. \A j \in Index : Holds(Tables, j)' <=> Holds(Tables, j)
    BY <1>3 DEF Holds, Tables
  <2>2. Distinct(Tables)'
    BY <1>3, <2>1 DEF Inv, Distinct, Tables, Index
  <2>3. Matched(Tables)'
    BY <1>3, <1>4, <2>1
       DEF Inv, Matched, Tables, Index, RouteTable!StreamRefMatches, RouteTable!Slot
  <2>4. PastSeen(Tables)'
    BY <1>1, <1>2, <1>3, <2>1 DEF Inv, PastSeen, Tables, Index
  <2> QED
    BY <2>2, <2>3, <2>4
<1> QED
  BY <1>5, <1>6 DEF Inv

\* Every step keeps the invariant.
LEMMA InvNext == Inv /\ [Next]_vars => Inv'
<1> SUFFICES ASSUME Inv, [Next]_vars PROVE Inv'
  OBVIOUS
<1>1. ASSUME UNCHANGED vars PROVE Inv'
  BY <1>1 DEF vars, Inv, TypeOK, Distinct, Matched, PastSeen, Holds, Tables,
              RouteTable!StreamRefMatches
<1>2. CASE Tick
  <2>1. Tables' = Tables /\ streams' = streams /\ nextGeneration' = nextGeneration /\ now' = now + 1
    BY <1>2 DEF Tick, Tables
  <2>2. Distinct(Tables)' /\ Matched(Tables)'
    BY <2>1 DEF Inv, Distinct, Matched, Holds, Tables, RouteTable!StreamRefMatches
  <2>3. TypeOK'
    BY <2>1 DEF Inv, TypeOK
  <2>4. PastSeen(Tables)'
    <3> SUFFICES ASSUME NEW k \in Index, Holds(Tables, k)' PROVE Tables'.slots[k].lastSeen <= now'
      BY DEF PastSeen
    <3>1. Holds(Tables, k) /\ Tables.slots[k].lastSeen \in Nat /\ now \in Nat
      BY <2>1 DEF Holds, Inv, TypeOK, Table, Entry
    <3> QED
      BY <2>1, <3>1 DEF Inv, PastSeen
  <2> QED
    BY <2>2, <2>3, <2>4 DEF Inv
<1>3. ASSUME NEW channel \in Channels, NEW lines \in Playlists[channel],
             MasterPlaylist(channel, lines)
      PROVE  Inv'
  BY <1>3, InvMasterPlaylist
<1>4. ASSUME NEW u \in Urls, RouteHit(u) PROVE Inv'
  BY <1>4, InvRouteHit
<1>5. ASSUME NEW u \in Urls, RouteMiss(u) PROVE Inv'
  BY <1>1, <1>5, RouteMissKeeps
<1> QED
  BY <1>1, <1>2, <1>3, <1>4, <1>5 DEF Next

\* The tables keep their types, no URL is in two slots, every route is the route of
\* a context in use, and none was seen in the future.
THEOREM AlwaysInv == Spec => []Inv
<1> QED
  BY InvInit, InvNext, PTL DEF Spec

\* No lookup ever passes a stale route: a URL has one slot, and the reason
\* "stale_generation" is never recorded.
THEOREM AlwaysLookupsFresh == Spec => []LookupsFresh
<1>1. Inv => LookupsFresh
  <2> SUFFICES ASSUME Inv PROVE LookupsFresh
    OBVIOUS
  <2>1. \A j, k \in Index : slots[j].url # None /\ slots[j].url = slots[k].url => j = k
    BY DEF Inv, Distinct, Holds, Tables
  <2>2. \A r \in DOMAIN retired : retired[r].reason # "stale_generation"
    BY DEF Inv, TypeOK, Tables, Table, Retirement, Reasons
  <2> QED
    BY <2>1, <2>2 DEF LookupsFresh
<1> QED
  BY <1>1, AlwaysInv, PTL

----------------------------------------------------------------------------
(* Lost routes                                                             *)

\* The distance the counter went, however often it wrapped, as long as it is less
\* than its range.
LEMMA CounterDistance ==
    ASSUME NEW n \in 0 .. CounterSize - 1, NEW c \in 0 .. CounterSize - 1
    PROVE  (((n + c) % CounterSize) - n) % CounterSize = c
<1> DEFINE m == CounterSize  x == n + c  y == (x % m) - n
<1>1. m \in Nat \ {0} /\ x \in Int /\ n \in Int /\ c \in Int
  BY RetiredRoutesAssumption
<1>2. x % m \in 0 .. m - 1
  BY <1>1, Remainder
<1>3. PICK q \in Int : x = m * q + (x % m)
  BY <1>1, Remainder
<1> DEFINE p == 0 - q
<1>4. y = m * p + c
  <2>1. m * p = 0 - m * q /\ m * q \in Int
    BY <1>1
  <2> QED
    BY <1>1, <1>2, <1>3, <2>1
<1>5. y \in Int /\ p \in Int
  BY <1>1, <1>2
<1>6. c \in 0 .. m - 1
  OBVIOUS
<1> HIDE DEF y, p, m
<1>7. y % m = c
  BY <1>1, <1>4, <1>5, <1>6, RemainderIs
<1> QED
  BY <1>7 DEF y, m

\* However many routes the lines of a playlist push out, each of them that is lost
\* is in the ring, as long as they fit it.
THEOREM AlwaysLostRoutesExplained == Spec => LostRoutesExplained
<1> DEFINE Explains ==
      (nextRetired' - nextRetired) % CounterSize <= RetiredRoutes =>
        \A j \in Index :
          slots[j].url # None /\ ~(\E k \in Index : slots'[k].url = slots[j].url)
          => \E r \in DOMAIN retired' :
               /\ retired'[r].url = slots[j].url
               /\ retired'[r].generation = slots[j].generation
<1>1. ASSUME \A k \in Index : slots'[k].url = slots[k].url PROVE Explains
  BY <1>1
<1>2. ASSUME Inv, NEW channel \in Channels, NEW lines \in Playlists[channel],
             MasterPlaylist(channel, lines)
      PROVE  Explains
  <2>1. PICK i \in 1 .. MaxStreams, C \in Table, T \in Table : Recorded(channel, lines, i, C, T)
    BY <1>2, MasterPlaylistRecords
  <2>2. Tables' = T /\ Tracked(Tables, T, MaxRoutes + Len(lines))
    BY <2>1 DEF Recorded
  <2>3. PICK c : Tracks(Tables, T, c, MaxRoutes + Len(lines))
    BY <2>2 DEF Tracked
  <2>4. Tables \in Table /\ nextRetired \in 0 .. CounterSize - 1
    BY <1>2 DEF Inv, TypeOK, Table, Tables
  <2>5. c \in 0 .. CounterSize - 1
    <3>1. lines \in Seq(Urls) /\ MaxRoutes + Len(lines) < CounterSize
      BY PlaylistsAssumption
    <3>2. /\ Len(lines) \in Nat /\ MaxRoutes \in Nat /\ CounterSize \in Nat
          /\ Cardinality(Held(T)) \in Nat
      BY <3>1, TablesAssumption, RetiredRoutesAssumption, HeldFinite
    <3>3. c \in Nat /\ c + Cardinality(Held(T)) <= MaxRoutes + Len(lines)
      BY <2>3 DEF Tracks
    <3> QED
      BY <3>1, <3>2, <3>3
  <2>6. /\ nextRetired' = (nextRetired + c) % CounterSize
        /\ slots' = T.slots /\ retired' = T.retired
        /\ Tables.slots = slots /\ Tables.next = nextRetired
    BY <2>2, <2>3 DEF Tracks, Tables
  <2>7. (nextRetired' - nextRetired) % CounterSize = c
    BY <2>4, <2>5, <2>6, CounterDistance
  <2> SUFFICES ASSUME c <= RetiredRoutes, NEW j \in Index, slots[j].url # None,
                      ~(\E k \in Index : slots'[k].url = slots[j].url)
               PROVE  \E r \in DOMAIN retired' :
                        /\ retired'[r].url = slots[j].url
                        /\ retired'[r].generation = slots[j].generation
    BY <2>7
  <2>8. Explained(slots[j].url, slots[j].generation, T, nextRetired, c)
    <3>1. Holds(Tables, j)
      BY <2>6 DEF Holds
    <3> QED
      BY <2>3, <2>6, <3>1 DEF Tracks
  <2>9. PICK d \in 0 .. c - 1 :
          /\ T.retired[(nextRetired + d) % RetiredRoutes].url = slots[j].url
          /\ T.retired[(nextRetired + d) % RetiredRoutes].generation = slots[j].generation
    BY <2>6, <2>8 DEF Explained
  <2>10. (nextRetired + d) % RetiredRoutes \in DOMAIN retired'
    <3>1. nextRetired + d \in Int
      BY <2>4, <2>5
    <3>2. (nextRetired + d) % RetiredRoutes \in Ring
      BY <3>1, RetiredRoutesAssumption, Remainder DEF Ring
    <3> QED
      BY <2>6, <3>2 DEF Table
  <2> QED
    BY <2>6, <2>9, <2>10
<1>3. ASSUME Inv, NEW u \in Urls, RouteHit(u) PROVE Explains
  <2>1. PICK k \in Index : slots' = [slots EXCEPT ![k].lastSeen = now]
    BY <1>3, RouteHitTouches
  <2>2. slots \in [Index -> Entry]
    BY <1>3 DEF Inv, TypeOK, Tables, Table
  <2>3. \A j \in Index : slots'[j].url = slots[j].url
    BY <2>1, <2>2 DEF Entry
  <2> QED
    BY <1>1, <2>3
<1>4. ASSUME Inv, NEW u \in Urls, RouteMiss(u) PROVE Explains
  BY <1>1, <1>4, RouteMissKeeps DEF vars
<1>5. ASSUME Tick \/ UNCHANGED vars PROVE Explains
  <2>1. slots' = slots
    BY <1>5 DEF Tick, vars
  <2> QED
    BY <1>1, <2>1
<1> HIDE DEF Explains
<1>6. Inv /\ [Next]_vars => [Explains]_vars
  BY <1>2, <1>3, <1>4, <1>5 DEF Next
<1> USE DEF Explains
<1> QED
  BY <1>6, AlwaysInv, PTL DEF Spec, LostRoutesExplained

----------------------------------------------------------------------------
(* The array implements the table of routes                                *)

\* A table as the function of URLs that ByUrl reads off the array.
AsFunction(table) ==
    [u \in Urls |->
       LET ks == {k \in Index : table.slots[k].url = u}
       IN IF ks = {} THEN [slot |-> 0, generation |-> 0, lastSeen |-> 0]
          ELSE LET route == table.slots[CHOOSE k \in ks : TRUE]
               IN [slot |-> route.slot, generation |-> route.generation,
                   lastSeen |-> route.lastSeen]]

\* Without duplicates it has the route of every URL held, and no other.
LEMMA AsFunctionOK ==
    ASSUME NEW T \in Table, Distinct(T)
    PROVE  /\ \A u \in Urls \ UrlsOf(T) : AsFunction(T)[u] = RouteTable!NoRoute
           /\ \A k \in Index : Holds(T, k) =>
                AsFunction(T)[T.slots[k].url] =
                  [slot |-> T.slots[k].slot, generation |-> T.slots[k].generation,
                   lastSeen |-> T.slots[k].lastSeen]
<1>1. ASSUME NEW u \in Urls \ UrlsOf(T) PROVE AsFunction(T)[u] = RouteTable!NoRoute
  <2>1. {k \in Index : T.slots[k].url = u} = {}
    <3> SUFFICES ASSUME NEW k \in Index, T.slots[k].url = u PROVE FALSE
      OBVIOUS
    <3>1. Holds(T, k)
      BY TablesAssumption DEF Holds
    <3> QED
      BY <1>1, <3>1 DEF UrlsOf, Held
  <2> QED
    BY <2>1 DEF AsFunction, RouteTable!NoRoute
<1>2. ASSUME NEW k \in Index, Holds(T, k)
      PROVE  AsFunction(T)[T.slots[k].url] =
               [slot |-> T.slots[k].slot, generation |-> T.slots[k].generation,
                lastSeen |-> T.slots[k].lastSeen]
  <2> DEFINE u == T.slots[k].url
             ks == {j \in Index : T.slots[j].url = u}
  <2>1. u \in Urls
    BY <1>2 DEF Table, Entry, Holds
  <2>2. ks = {k}
    BY <1>2 DEF Distinct
  <2>3. (CHOOSE j \in ks : TRUE) = k
    BY <2>2
  <2> QED
    BY <2>1, <2>2, <2>3 DEF AsFunction
<1> QED
  BY <1>1, <1>2

\* ByUrl now, and after a step.
LEMMA ByUrlNow ==
    /\ ByUrl = AsFunction(Tables)
    /\ \A T : slots' = T.slots => ByUrl' = AsFunction(T)
BY DEF ByUrl, SlotsOf, AsFunction, Tables, Index

\* StreamTable counts as this module does.
LEMMA SameCardinality == \A S : RouteTable!Cardinality(S) = Cardinality(S)
BY DEF RouteTable!Cardinality, Cardinality

\* The URLs a playlist keeps are those StreamTable allows it to keep, and their
\* routes the ones it gives them.
LEMMA RegisterRefines ==
    ASSUME Inv, NEW channel \in Channels, NEW lines \in Seq(Urls),
           NEW i \in 1 .. MaxStreams, NEW C \in Table, NEW T \in Table,
           Recorded(channel, lines, i, C, T)
    PROVE  RouteTable!RegisterVariantRoutes(Range(lines), i,
             RouteTable!RecordedStream(channel, Range(lines), i).generation)
<1> DEFINE listing == Range(lines)
           g == RouteTable!RecordedStream(channel, listing, i).generation
           seen == [u \in Urls |-> IF u \in listing THEN now ELSE ByUrl[u].lastSeen]
           kept == UrlsOf(T)
           wanted == RouteTable!SurvivingRoutes(i) \cup listing
<1>1. /\ slots' = T.slots
      /\ \A j \in Index : Holds(C, j) <=> /\ Holds(Tables, j)
                                          /\ slots[j].slot \in RouteTable!Survivors \ {i}
      /\ \A j \in Index : Holds(C, j) => C.slots[j] = slots[j]
      /\ Entered(C, T, i, g, listing)
  <2>1. Tables' = T
    BY DEF Recorded
  <2>2. slots' = T.slots
    BY <2>1 DEF Tables
  <2> QED
    BY <2>2 DEF Recorded
<1>2. listing \in SUBSET Urls
  BY DEF Range
<1> HIDE DEF g, listing
<1>3. Distinct(T) /\ Distinct(Tables) /\ Tables \in Table /\ Tables.slots = slots /\ Distinct(C)
  <2>1. Distinct(T) /\ Distinct(Tables) /\ Tables \in Table /\ Tables.slots = slots
    BY <1>1 DEF Inv, TypeOK, Tables, Entered
  <2>2. Distinct(C)
    <3> SUFFICES ASSUME NEW j \in Index, NEW k \in Index, Holds(C, j),
                        C.slots[j].url = C.slots[k].url
                 PROVE  j = k
      BY DEF Distinct
    <3>1. Holds(C, k)
      BY DEF Holds
    <3> QED
      BY <1>1, <2>1, <3>1 DEF Distinct
  <2> QED
    BY <2>1, <2>2
<1>4. /\ \A u \in Urls \ UrlsOf(Tables) : ByUrl[u] = RouteTable!NoRoute
      /\ \A k \in Index : Holds(Tables, k) =>
           ByUrl[slots[k].url] = [slot |-> slots[k].slot, generation |-> slots[k].generation,
                                  lastSeen |-> slots[k].lastSeen]
  BY <1>3, AsFunctionOK, ByUrlNow
<1>a. ASSUME NEW k \in Index, Holds(Tables, k)
      PROVE  /\ ByUrl[slots[k].url].slot = slots[k].slot
             /\ ByUrl[slots[k].url].lastSeen = slots[k].lastSeen
  <2> DEFINE r == [slot |-> slots[k].slot, generation |-> slots[k].generation,
                   lastSeen |-> slots[k].lastSeen]
  <2>1. ByUrl[slots[k].url] = r
    BY <1>4, <1>a
  <2>2. r.slot = slots[k].slot /\ r.lastSeen = slots[k].lastSeen
    OBVIOUS
  <2> HIDE DEF r
  <2> QED
    BY <2>1, <2>2
<1>5. \A k \in Index : Holds(Tables, k) => slots[k].slot # 0 /\ slots[k].url \in Urls
  <2>1. \A k \in Index : Holds(Tables, k) => slots[k].slot \in 1 .. MaxStreams
    BY DEF Inv, Matched, Tables, RouteTable!StreamRefMatches, RouteTable!Slot
  <2>2. 0 \notin 1 .. MaxStreams
    OBVIOUS
  <2> QED
    BY <1>3, <2>1, <2>2 DEF Table, Entry, Holds
<1>6. RouteTable!SurvivingRoutes(i) = UrlsOf(C)
  <2>1. ASSUME NEW u \in RouteTable!SurvivingRoutes(i) PROVE u \in UrlsOf(C)
    <3>1. u \in Urls /\ ByUrl[u].slot # 0 /\ ByUrl[u].slot \in RouteTable!Survivors \ {i}
      BY <2>1 DEF RouteTable!SurvivingRoutes, RouteTable!Routed
    <3>2. u \in UrlsOf(Tables)
      BY <1>4, <3>1 DEF RouteTable!NoRoute
    <3>3. PICK k \in Index : Holds(Tables, k) /\ u = slots[k].url
      BY <1>3, <3>2 DEF UrlsOf, Held
    <3>4. slots[k].slot \in RouteTable!Survivors \ {i}
      BY <1>a, <3>1, <3>3
    <3>5. Holds(C, k) /\ C.slots[k].url = u
      BY <1>1, <3>3, <3>4
    <3> QED
      BY <3>5 DEF UrlsOf, Held
  <2>2. ASSUME NEW u \in UrlsOf(C) PROVE u \in RouteTable!SurvivingRoutes(i)
    <3>1. PICK k \in Index : Holds(C, k) /\ u = C.slots[k].url
      BY <2>2 DEF UrlsOf, Held
    <3>2. Holds(Tables, k) /\ u = slots[k].url /\ slots[k].slot \in RouteTable!Survivors \ {i}
      BY <1>1, <3>1
    <3>3. ByUrl[u].slot = slots[k].slot
      BY <1>a, <3>2
    <3> QED
      BY <1>5, <3>2, <3>3 DEF RouteTable!SurvivingRoutes, RouteTable!Routed
  <2> QED
    BY <2>1, <2>2
<1>7. \A w \in wanted : seen[w] = SeenAt(C, listing, now)[w]
  <2> SUFFICES ASSUME NEW w \in wanted PROVE seen[w] = SeenAt(C, listing, now)[w]
    OBVIOUS
  <2>1. CASE w \in listing
    BY <1>2, <2>1 DEF SeenAt
  <2>2. CASE w \notin listing
    <3>1. w \in UrlsOf(C)
      BY <1>6, <2>2
    <3>2. PICK k \in Index : Holds(C, k) /\ w = C.slots[k].url
      BY <3>1 DEF UrlsOf, Held
    <3>3. Holds(Tables, k) /\ C.slots[k] = slots[k] /\ w \in Urls
      BY <1>1, <1>5, <3>2
    <3>4. SeenAt(C, listing, now)[w] = C.slots[k].lastSeen
      BY <1>3, <2>2, <3>2, SeenAtOK
    <3>5. ByUrl[w].lastSeen = slots[k].lastSeen
      BY <1>a, <3>2, <3>3
    <3> QED
      BY <2>2, <3>3, <3>4, <3>5
  <2> QED
    BY <2>1, <2>2
<1>8. \A k \in Index : Holds(T, k) =>
        T.slots[k].url \in wanted /\ seen[T.slots[k].url] = T.slots[k].lastSeen
  <2> SUFFICES ASSUME NEW k \in Index, Holds(T, k)
               PROVE  T.slots[k].url \in wanted /\ seen[T.slots[k].url] = T.slots[k].lastSeen
    OBVIOUS
  <2>1. CASE T.slots[k].url \in listing
    <3>1. T.slots[k] = [url |-> T.slots[k].url, slot |-> i, generation |-> g, lastSeen |-> now]
      BY <1>1, <2>1 DEF Entered
    <3>2. T.slots[k].lastSeen = now
      BY <3>1
    <3> QED
      BY <1>2, <2>1, <3>2
  <2>2. CASE T.slots[k].url \notin listing
    <3>1. T.slots[k] = C.slots[k]
      BY <1>1, <2>2 DEF Entered
    <3>2. Holds(C, k) /\ T.slots[k].url \in UrlsOf(C)
      BY <3>1 DEF Holds, UrlsOf, Held
    <3>3. SeenAt(C, listing, now)[T.slots[k].url] = T.slots[k].lastSeen
      BY <1>3, <2>2, <3>1, <3>2, SeenAtOK
    <3> QED
      BY <1>6, <1>7, <3>2, <3>3
  <2> QED
    BY <2>1, <2>2
<1>9. kept \subseteq wanted
  BY <1>8 DEF UrlsOf, Held
<1>10. /\ wanted \in SUBSET Urls /\ IsFiniteSet(wanted) /\ Cardinality(wanted) \in Nat
       /\ MaxRoutes \in Nat
  <2>1. wanted \in SUBSET Urls
    BY <1>2 DEF RouteTable!SurvivingRoutes
  <2> QED
    BY <2>1, TablesAssumption, FS_Subset, FS_CardinalityType
<1>11. /\ IsFiniteSet(kept) /\ Cardinality(kept) \in Nat /\ Cardinality(kept) <= MaxRoutes
       /\ (\A k \in Index : Holds(T, k)) => Cardinality(kept) = MaxRoutes
       /\ kept \in SUBSET Urls
  BY <1>3, UrlsCounted
<1>12. ASSUME NEW w \in wanted \ kept
       PROVE  /\ Cardinality(kept) = MaxRoutes
              /\ \A v \in kept : seen[w] <= seen[v]
  <2>1. /\ \A k \in Index : Holds(T, k)
        /\ \A k \in Index : SeenAt(C, listing, now)[w] <= T.slots[k].lastSeen
    BY <1>1, <1>6, <1>12 DEF Entered
  <2>2. ASSUME NEW v \in kept PROVE seen[w] <= seen[v]
    <3>1. PICK k \in Index : Holds(T, k) /\ v = T.slots[k].url
      BY <2>2 DEF UrlsOf, Held
    <3>2. seen[v] = T.slots[k].lastSeen /\ seen[w] = SeenAt(C, listing, now)[w]
      BY <1>7, <1>8, <3>1
    <3> HIDE DEF seen
    <3> QED
      BY <2>1, <3>2
  <2> QED
    BY <1>11, <2>1, <2>2
<1> HIDE DEF seen, kept, wanted
<1>13. Cardinality(wanted) <= MaxRoutes => kept = wanted
  <2> SUFFICES ASSUME Cardinality(wanted) <= MaxRoutes, kept # wanted PROVE FALSE
    OBVIOUS
  <2>1. PICK w \in wanted : w \notin kept
    BY <1>9
  <2>2. Cardinality(kept) = MaxRoutes
    BY <1>12, <2>1
  <2>3. Cardinality(kept) <= Cardinality(wanted) /\ Cardinality(wanted) # Cardinality(kept)
    BY <1>9, <1>10, FS_Subset
  <2> QED
    BY <1>10, <1>11, <2>2, <2>3
<1>14. Cardinality(wanted) > MaxRoutes =>
         /\ Cardinality(kept) = MaxRoutes
         /\ \A u \in wanted \ kept, v \in kept : seen[u] <= seen[v]
  <2> SUFFICES ASSUME Cardinality(wanted) > MaxRoutes
               PROVE  /\ Cardinality(kept) = MaxRoutes
                      /\ \A u \in wanted \ kept, v \in kept : seen[u] <= seen[v]
    OBVIOUS
  <2>1. kept # wanted
    BY <1>10, <1>11
  <2>2. PICK w \in wanted : w \notin kept
    BY <1>9, <2>1
  <2> QED
    BY <1>12, <2>2
<1>15. RouteTable!KeptRoutes(kept, wanted, seen)
  BY <1>9, <1>13, <1>14, SameCardinality DEF RouteTable!KeptRoutes
<1>16. ByUrl' = [u \in Urls |->
                   IF u \notin kept THEN RouteTable!NoRoute
                   ELSE IF u \in listing THEN [slot |-> i, generation |-> g, lastSeen |-> now]
                   ELSE ByUrl[u]]
  <2>1. ByUrl' = AsFunction(T)
    BY <1>1, ByUrlNow
  <2>2. ASSUME NEW u \in Urls
        PROVE  AsFunction(T)[u] = IF u \notin kept THEN RouteTable!NoRoute
                                  ELSE IF u \in listing THEN [slot |-> i, generation |-> g, lastSeen |-> now]
                                  ELSE ByUrl[u]
    <3>1. CASE u \notin kept
      BY <1>3, <3>1, AsFunctionOK DEF kept
    <3>2. CASE u \in kept
      <4>1. PICK k \in Index : Holds(T, k) /\ u = T.slots[k].url
        BY <3>2 DEF kept, UrlsOf, Held
      <4>2. AsFunction(T)[u] = [slot |-> T.slots[k].slot, generation |-> T.slots[k].generation,
                                lastSeen |-> T.slots[k].lastSeen]
        BY <1>3, <4>1, AsFunctionOK
      <4>3. CASE u \in listing
        <5>1. T.slots[k] = [url |-> T.slots[k].url, slot |-> i, generation |-> g, lastSeen |-> now]
          BY <1>1, <4>1, <4>3 DEF Entered
        <5>2. T.slots[k].slot = i /\ T.slots[k].generation = g /\ T.slots[k].lastSeen = now
          BY <5>1
        <5> QED
          BY <3>2, <4>2, <4>3, <5>2
      <4>4. CASE u \notin listing
        <5>1. T.slots[k] = C.slots[k]
          BY <1>1, <4>1, <4>4 DEF Entered
        <5>2. Holds(C, k)
          BY <4>1, <5>1 DEF Holds
        <5>3. T.slots[k] = slots[k] /\ Holds(Tables, k)
          BY <1>1, <5>1, <5>2
        <5> QED
          BY <1>4, <3>2, <4>1, <4>2, <4>4, <5>3
      <4> QED
        BY <4>3, <4>4
    <3> QED
      BY <3>1, <3>2
  <2>3. AsFunction(T) = [u \in Urls |-> AsFunction(T)[u]]
    BY DEF AsFunction
  <2> QED
    BY <2>1, <2>2, <2>3
<1> QED
  BY <1>11, <1>15, <1>16 DEF RouteTable!RegisterVariantRoutes, seen, wanted, listing, g

\* A lookup that hits touches the route StreamTable touches.
LEMMA RouteHitRefines ==
    ASSUME Inv, NEW u \in Urls, RouteHit(u)
    PROVE  RouteTable!StreamForVariant(u)
<1>1. PICK k \in Index :
        /\ Holds(Tables, k) /\ slots[k].url = u
        /\ RouteTable!StreamRefMatches([slot |-> slots[k].slot, generation |-> slots[k].generation])
        /\ slots' = [slots EXCEPT ![k].lastSeen = now]
        /\ streams' = [streams EXCEPT ![slots[k].slot].lastSeen = now]
        /\ nextGeneration' = nextGeneration /\ now' = now
  BY RouteHitTouches
<1> DEFINE T == [Tables EXCEPT !.slots = slots']
           entry == slots[k]
<1>2. Distinct(Tables) /\ Tables \in Table /\ slots \in [Index -> Entry] /\ now \in Nat
  BY DEF Inv, TypeOK, Tables, Table
<1>3. /\ slots' \in [Index -> Entry]
      /\ \A j \in Index : /\ slots'[j].url = slots[j].url
                          /\ slots'[j] = IF j = k THEN [entry EXCEPT !.lastSeen = now] ELSE slots[j]
  BY <1>1, <1>2 DEF Entry
<1>4. T \in Table /\ T.slots = slots' /\ Tables.slots = slots
  BY <1>2, <1>3 DEF Tables, Table
<1> HIDE DEF T
<1>5. \A j \in Index : Holds(T, j) <=> Holds(Tables, j)
  BY <1>3, <1>4 DEF Holds
<1>6. Distinct(T) /\ UrlsOf(T) = UrlsOf(Tables)
  BY <1>2, <1>3, <1>4, <1>5 DEF Distinct, UrlsOf, Held
<1>7. ByUrl = AsFunction(Tables) /\ ByUrl' = AsFunction(T)
  BY <1>4, ByUrlNow
<1>8. ByUrl[u] = [slot |-> entry.slot, generation |-> entry.generation, lastSeen |-> entry.lastSeen]
  BY <1>1, <1>2, <1>4, <1>7, AsFunctionOK
<1>9. /\ ByUrl[u].slot = entry.slot /\ ByUrl[u].generation = entry.generation
      /\ entry \in Entry
  BY <1>2, <1>8
<1>10. RouteTable!Routed(u) /\ RouteTable!StreamRefMatches(RouteTable!RouteRef(u))
  BY <1>1, <1>9 DEF RouteTable!Routed, RouteTable!RouteRef, RouteTable!StreamRefMatches, RouteTable!Slot
<1>11. ByUrl' = [ByUrl EXCEPT ![u].lastSeen = now]
  <2> DEFINE touched == [ByUrl EXCEPT ![u].lastSeen = now]
  <2>1. ASSUME NEW v \in Urls PROVE AsFunction(T)[v] = touched[v]
    <3>1. DOMAIN ByUrl = Urls
      BY DEF ByUrl
    <3>2. CASE v = u
      <4>1. AsFunction(T)[v] = [slot |-> T.slots[k].slot, generation |-> T.slots[k].generation,
                                lastSeen |-> T.slots[k].lastSeen]
        <5>1. Holds(T, k) /\ T.slots[k].url = v
          BY <1>1, <1>3, <1>4, <1>5, <3>2
        <5>2. AsFunction(T)[T.slots[k].url] =
                [slot |-> T.slots[k].slot, generation |-> T.slots[k].generation,
                 lastSeen |-> T.slots[k].lastSeen]
          BY <1>4, <1>6, <5>1, AsFunctionOK
        <5> QED
          BY <5>1, <5>2
      <4>2. /\ T.slots[k].slot = entry.slot /\ T.slots[k].generation = entry.generation
            /\ T.slots[k].lastSeen = now
        BY <1>3, <1>4, <1>9 DEF Entry
      <4>3. touched[v] = [ByUrl[u] EXCEPT !.lastSeen = now]
        BY <3>1, <3>2
      <4>4. [ByUrl[u] EXCEPT !.lastSeen = now] =
              [slot |-> entry.slot, generation |-> entry.generation, lastSeen |-> now]
        BY <1>8
      <4> QED
        BY <4>1, <4>2, <4>3, <4>4
    <3>3. CASE v # u
      <4>1. touched[v] = ByUrl[v]
        BY <3>1, <3>3
      <4> HIDE DEF touched
      <4>2. CASE v \notin UrlsOf(Tables)
        BY <1>2, <1>4, <1>6, <1>7, <4>1, <4>2, AsFunctionOK
      <4>3. CASE v \in UrlsOf(Tables)
        <5>1. PICK j \in Index : Holds(Tables, j) /\ v = slots[j].url
          BY <1>4, <4>3 DEF UrlsOf, Held
        <5>2. j # k /\ T.slots[j] = slots[j] /\ Holds(T, j)
          BY <1>1, <1>3, <1>4, <1>5, <3>3, <5>1
        <5>3. AsFunction(T)[T.slots[j].url] =
                [slot |-> T.slots[j].slot, generation |-> T.slots[j].generation,
                 lastSeen |-> T.slots[j].lastSeen]
          BY <1>4, <1>6, <5>2, AsFunctionOK
        <5>4. AsFunction(Tables)[slots[j].url] =
                [slot |-> slots[j].slot, generation |-> slots[j].generation,
                 lastSeen |-> slots[j].lastSeen]
          BY <1>2, <1>4, <5>1, AsFunctionOK
        <5>5. AsFunction(T)[v] = AsFunction(Tables)[v]
          <6> DEFINE r(x) == [slot |-> x.slot, generation |-> x.generation, lastSeen |-> x.lastSeen]
          <6>1. AsFunction(T)[T.slots[j].url] = r(T.slots[j])
            BY <5>3
          <6>2. AsFunction(Tables)[slots[j].url] = r(slots[j])
            BY <5>4
          <6> HIDE DEF r
          <6> QED
            BY <5>1, <5>2, <6>1, <6>2
        <5> QED
          BY <1>7, <4>1, <5>5
      <4> QED
        BY <4>2, <4>3
    <3> QED
      BY <3>2, <3>3
  <2>2. AsFunction(T) = [v \in Urls |-> AsFunction(T)[v]]
    BY DEF AsFunction
  <2>3. touched = [v \in Urls |-> touched[v]]
    BY DEF ByUrl
  <2> QED
    BY <1>7, <2>1, <2>2, <2>3
<1>12. streams' = [streams EXCEPT ![ByUrl[u].slot].lastSeen = now]
  BY <1>1, <1>9
<1> QED
  BY <1>1, <1>10, <1>11, <1>12 DEF RouteTable!StreamForVariant

\* A lookup that misses has no route to retire there either.
LEMMA RouteMissRefines ==
    ASSUME Inv, NEW u \in Urls, RouteMiss(u)
    PROVE  RouteTable!NoStreamForVariant(u)
<1>1. SlotsOf(u) = {} /\ UNCHANGED vars
  BY RouteMissKeeps
<1>2. ByUrl' = ByUrl
  BY <1>1, ByUrlNow DEF vars, Tables
<1>3. ByUrl[u] = RouteTable!NoRoute
  BY <1>1 DEF ByUrl, RouteTable!NoRoute
<1>4. ~RouteTable!Routed(u)
  BY <1>3 DEF RouteTable!Routed, RouteTable!NoRoute
<1>5. ByUrl = [ByUrl EXCEPT ![u] = RouteTable!NoRoute]
  BY <1>3 DEF ByUrl
<1> QED
  BY <1>1, <1>2, <1>4, <1>5 DEF RouteTable!NoStreamForVariant, vars

\* What the scans of the array leave is what StreamTable says they leave, for
\* any number of slots and contexts and any playlists.
THEOREM AlwaysImplementsStreamTable == Spec => ImplementsStreamTable
<1>1. Init => RouteTable!TableInit
  <2> SUFFICES ASSUME Init PROVE RouteTable!TableInit
    OBVIOUS
  <2>1. ByUrl = [u \in Urls |-> RouteTable!NoRoute]
    <3>1. \A u \in Urls : SlotsOf(u) = {}
      BY TablesAssumption DEF Init, SlotsOf, EmptyRoute
    <3> QED
      BY <3>1 DEF ByUrl, RouteTable!NoRoute
  <2> QED
    BY <2>1 DEF Init, RouteTable!TableInit, RouteTable!Slot
<1>2. ASSUME Inv, [Next]_vars PROVE [RouteTable!TableNext]_(RouteTable!tableVars)
  <2>1. CASE UNCHANGED vars
    <3>1. ByUrl' = ByUrl
      BY <2>1, ByUrlNow DEF vars, Tables
    <3> QED
      BY <2>1, <3>1 DEF vars, RouteTable!tableVars
  <2>2. CASE Tick
    <3>1. ByUrl' = ByUrl
      BY <2>2, ByUrlNow DEF Tick, Tables
    <3> QED
      BY <2>2, <3>1 DEF Tick, RouteTable!Tick, RouteTable!TableNext
  <2>3. ASSUME NEW channel \in Channels, NEW lines \in Playlists[channel],
               MasterPlaylist(channel, lines)
        PROVE  RouteTable!TableNext
    <3>1. PICK i \in 1 .. MaxStreams, C \in Table, T \in Table :
            /\ RouteTable!SlotFor(channel, i)
            /\ i \in RouteTable!Holders(channel) \/ nextGeneration <= MaxGeneration
            /\ RouteTable!UpdateStreamMaster(channel, Range(lines), i)
            /\ now' = now
            /\ Recorded(channel, lines, i, C, T)
      BY <1>2, <2>3, MasterPlaylistRecords
    <3>2. RouteTable!RegisterVariantRoutes(Range(lines), i,
            RouteTable!RecordedStream(channel, Range(lines), i).generation)
      <4>1. lines \in Seq(Urls)
        BY PlaylistsAssumption
      <4> QED
        BY <1>2, <3>1, <4>1, RegisterRefines
    <3>3. RouteTable!MasterPlaylist(channel, Range(lines))
      BY <3>1, <3>2 DEF RouteTable!MasterPlaylist, RouteTable!Slot
    <3>4. Range(lines) \in {Range(l) : l \in Playlists[channel]}
      OBVIOUS
    <3> QED
      BY <3>3, <3>4 DEF RouteTable!TableNext
  <2>4. ASSUME NEW u \in Urls, RouteHit(u) PROVE RouteTable!TableNext
    BY <1>2, <2>4, RouteHitRefines DEF RouteTable!TableNext
  <2>5. ASSUME NEW u \in Urls, RouteMiss(u) PROVE RouteTable!TableNext
    BY <1>2, <2>5, RouteMissRefines DEF RouteTable!TableNext
  <2> QED
    BY <1>2, <2>1, <2>2, <2>3, <2>4, <2>5 DEF Next
<1> QED
  BY <1>1, <1>2, AlwaysInv, PTL DEF Spec, ImplementsStreamTable, RouteTable!TableSpec

=============================================================================
