--------------------------- MODULE VaftFetchProofs ---------------------------
(***************************************************************************)
(* Ownership in VaftFetch, for any number of threads, channels, contexts   *)
(* and routes.  First the tables: each critical section of g_lock keeps    *)
(* TableInv, and lets no reference given out before match again, or match  *)
(* a context of another channel (TableStep).  Then the threads: IInv is    *)
(* inductive, and with it a reference that has stopped matching never      *)
(* matches again; a context in use is evicted only as the least recently   *)
(* seen; and the threads implement PlaylistService.                        *)
(***************************************************************************)
EXTENDS VaftFetch, FiniteSetTheorems, TLAPS

----------------------------------------------------------------------------
(* The tables of StreamTable                                               *)

\* A reference given out before the step still matches after it only if it
\* matched before, and then its context has the channel it had.
RefsKept ==
    /\ nextGeneration' >= nextGeneration
    /\ \A ref \in Ref :
         ref.generation \in 1 .. nextGeneration - 1 /\ StreamRefMatches(ref)' =>
           /\ StreamRefMatches(ref)
           /\ streams'[ref.slot].channel = streams[ref.slot].channel

\* A slot changes generation only to 0 or to one never given out.
GenerationsNew ==
    \A i \in Slot : streams'[i].generation
                      \in {streams[i].generation, 0, nextGeneration}

TableStep == TableInv' /\ RefsKept /\ GenerationsNew

\* The empty tables satisfy the invariant.
LEMMA TableInitInv == TableInit => TableInv
<1> SUFFICES ASSUME TableInit PROVE TableInv
  OBVIOUS
<1>1. {u \in Urls : routes[u].slot # 0} = {}
  BY DEF TableInit, NoRoute
<1>2. TableTypeOK
  <2>1. Cardinality({u \in Urls : routes[u].slot # 0}) <= MaxRoutes
    BY <1>1, FS_EmptySet, BoundsAssumption
  <2>2. EmptyStream \in Stream
    BY DEF EmptyStream, Stream, NoBackup, Backup
  <2>3. QED
    BY <2>1, <2>2 DEF TableInit, TableTypeOK, NoRoute, Route
<1>3. GenerationsGiven
  BY DEF TableInit, GenerationsGiven, EmptyStream
<1>4. RoutesOwned
  BY DEF TableInit, RoutesOwned, Routed, NoRoute
<1>5. ContextsOwned
  BY DEF TableInit, ContextsOwned, EmptyStream
<1>6. QED
  BY <1>2, <1>3, <1>4, <1>5 DEF TableInv

\* A write to a context keeps the invariant if it leaves alone what
\* identifies the context and puts only its own channel's content there.
LEMMA WriteStreamStep ==
  ASSUME TableInv, NEW ref \in Ref, NEW stream, WriteStream(ref, stream),
         StreamRefMatches(ref) =>
           /\ stream \in Stream
           /\ stream.active
           /\ stream.generation = streams[ref.slot].generation
           /\ stream.channel = streams[ref.slot].channel
           /\ stream.manifest = streams[ref.slot].manifest
           /\ stream.backup.channel \in {None, stream.channel}
           /\ \A p \in Player : stream.masters[p] \in {None, stream.channel}
  PROVE  TableStep
<1> USE DEF TableInv
<1>1. CASE ~StreamRefMatches(ref)
  <2>1. UNCHANGED <<streams, routes, nextGeneration, now>>
    BY <1>1 DEF WriteStream
  <2>2. TableInv'
    BY <2>1 DEF TableTypeOK, GenerationsGiven, RoutesOwned, ContextsOwned,
                StreamRefMatches, RouteRef, Routed
  <2>3. RefsKept /\ GenerationsNew
    BY <2>1 DEF RefsKept, GenerationsNew, StreamRefMatches, TableTypeOK
  <2>4. QED
    BY <2>2, <2>3 DEF TableStep
<1>2. CASE StreamRefMatches(ref)
  <2> DEFINE i == ref.slot
  <2>1. i \in Slot /\ streams[i].active /\ streams \in [Slot -> Stream]
    BY <1>2 DEF StreamRefMatches, TableTypeOK
  <2>2. /\ streams' = [streams EXCEPT ![i] = stream]
        /\ UNCHANGED <<routes, nextGeneration, now>>
    BY <1>2 DEF WriteStream
  <2>3. /\ streams'[i] = stream
        /\ \A j \in Slot : j # i => streams'[j] = streams[j]
    BY <2>1, <2>2
  <2>4. \A j \in Slot : /\ streams'[j].active = streams[j].active
                        /\ streams'[j].generation = streams[j].generation
                        /\ streams'[j].channel = streams[j].channel
                        /\ streams'[j].manifest = streams[j].manifest
    BY <1>2, <2>1, <2>3 DEF Stream
  <2>5. TableTypeOK'
    BY <1>2, <2>1, <2>2 DEF TableTypeOK
  <2>6. GenerationsGiven'
    BY <2>2, <2>4 DEF GenerationsGiven
  <2>7. RoutesOwned'
    BY <2>2, <2>4 DEF RoutesOwned, StreamRefMatches, RouteRef, Routed
  <2>8. ContextsOwned'
    BY <1>2, <2>1, <2>3, <2>4 DEF ContextsOwned
  <2>9. RefsKept /\ GenerationsNew
    BY <2>2, <2>4 DEF RefsKept, GenerationsNew, StreamRefMatches, TableTypeOK
  <2>10. QED
    BY <2>5, <2>6, <2>7, <2>8, <2>9 DEF TableStep
<1>3. QED
  BY <1>1, <1>2

\* The four writes of the fetches are such writes: to a matching context each
\* puts content of that context's channel, or takes content away.
LEMMA MatchedStream ==
  ASSUME TableInv, NEW ref \in Ref
  PROVE  StreamRefMatches(ref) =>
           /\ streams[ref.slot] \in Stream /\ streams[ref.slot].active
           /\ streams[ref.slot].backup.channel \in {None, streams[ref.slot].channel}
           /\ \A p \in Player : streams[ref.slot].masters[p]
                                  \in {None, streams[ref.slot].channel}
BY DEF TableInv, TableTypeOK, ContextsOwned, StreamRefMatches

\* clear_active_backup keeps routes, owners and channels.
LEMMA ClearActiveBackupStep ==
  ASSUME TableInv, NEW ref \in Ref, ClearActiveBackup(ref)
  PROVE  TableStep
<1>1. NoBackup \in Backup
  BY DEF NoBackup, Backup
<1>2. QED
  BY <1>1, MatchedStream, WriteStreamStep DEF ClearActiveBackup, Stream, NoBackup

\* So does clear_backup_master.
LEMMA ClearBackupMasterStep ==
  ASSUME TableInv, NEW ref \in Ref, NEW p \in Player, ClearBackupMaster(ref, p)
  PROVE  TableStep
BY MatchedStream, WriteStreamStep DEF ClearBackupMaster, Stream

\* So does storing a master of the channel the reference is for.
LEMMA StoreBackupMasterStep ==
  ASSUME TableInv, NEW ref \in Ref, NEW p \in Player, NEW channel,
         StreamRefMatches(ref) => channel = streams[ref.slot].channel,
         StoreBackupMaster(ref, p, channel)
  PROVE  TableStep
BY MatchedStream, WriteStreamStep DEF StoreBackupMaster, Stream

\* So does storing a clean variant of that channel.
LEMMA PublishBackupStep ==
  ASSUME TableInv, NEW ref \in Ref, NEW channel,
         NEW rendition \in Renditions \cup {None},
         StreamRefMatches(ref) => channel = streams[ref.slot].channel,
         PublishBackup(ref, [channel |-> channel, rendition |-> rendition])
  PROVE  TableStep
<1> DEFINE backup == [channel |-> channel, rendition |-> rendition]
<1>1. now \in Nat
  BY DEF TableInv, TableTypeOK
<1>2. StreamRefMatches(ref) => backup \in Backup
  BY MatchedStream DEF Backup, Stream
<1>3. QED
  BY <1>1, <1>2, MatchedStream, WriteStreamStep DEF PublishBackup, Stream

\* A lookup only moves the times a route and its context were last seen.
LEMMA LookupStep ==
  ASSUME TableInv, NEW u \in Urls, StreamForVariant(u) \/ NoStreamForVariant(u)
  PROVE  TableStep
<1> USE DEF TableInv
<1>1. CASE StreamForVariant(u)
  <2> DEFINE i == routes[u].slot
  <2>1. /\ i \in Slot /\ streams \in [Slot -> Stream]
        /\ routes \in [Urls -> Route] /\ now \in Nat
        /\ routes' = [routes EXCEPT ![u].lastSeen = now]
        /\ streams' = [streams EXCEPT ![i].lastSeen = now]
        /\ UNCHANGED <<nextGeneration, now>>
    BY <1>1 DEF StreamForVariant, StreamRefMatches, RouteRef, TableTypeOK
  <2>2. \A j \in Slot : /\ streams'[j].active = streams[j].active
                        /\ streams'[j].generation = streams[j].generation
                        /\ streams'[j].channel = streams[j].channel
                        /\ streams'[j].manifest = streams[j].manifest
                        /\ streams'[j].backup = streams[j].backup
                        /\ streams'[j].masters = streams[j].masters
    BY <2>1 DEF Stream
  <2>3. \A v \in Urls : /\ routes'[v].slot = routes[v].slot
                        /\ routes'[v].generation = routes[v].generation
    BY <2>1 DEF Route
  <2>4. TableTypeOK'
    <3>1. {v \in Urls : routes'[v].slot # 0} = {v \in Urls : routes[v].slot # 0}
      BY <2>3
    <3>2. streams' \in [Slot -> Stream] /\ routes' \in [Urls -> Route]
      BY <2>1 DEF Stream, Route
    <3>3. QED
      BY <2>1, <3>1, <3>2 DEF TableTypeOK
  <2>5. GenerationsGiven' /\ RoutesOwned' /\ ContextsOwned'
    BY <2>1, <2>2, <2>3
       DEF GenerationsGiven, RoutesOwned, ContextsOwned, StreamRefMatches,
           RouteRef, Routed
  <2>6. RefsKept /\ GenerationsNew
    BY <2>1, <2>2 DEF RefsKept, GenerationsNew, StreamRefMatches, TableTypeOK
  <2>7. QED
    BY <2>4, <2>5, <2>6 DEF TableStep
<1>2. CASE NoStreamForVariant(u)
  <2>1. /\ routes \in [Urls -> Route]
        /\ ~Routed(u)
        /\ routes' = [routes EXCEPT ![u] = NoRoute]
        /\ UNCHANGED <<streams, nextGeneration, now>>
    BY <1>2 DEF NoStreamForVariant, RoutesOwned, TableTypeOK
  <2>2. \A v \in Urls : /\ v # u => routes'[v] = routes[v]
                        /\ Routed(v)' <=> Routed(v)
    BY <2>1 DEF Routed, NoRoute
  <2>3. TableTypeOK'
    <3>1. {v \in Urls : routes'[v].slot # 0} = {v \in Urls : routes[v].slot # 0}
      BY <2>2 DEF Routed
    <3>2. routes' \in [Urls -> Route]
      BY <2>1 DEF NoRoute, Route
    <3>3. QED
      BY <2>1, <3>1, <3>2 DEF TableTypeOK
  <2>4. GenerationsGiven' /\ RoutesOwned' /\ ContextsOwned'
    BY <2>1, <2>2
       DEF GenerationsGiven, RoutesOwned, ContextsOwned, StreamRefMatches, RouteRef
  <2>5. RefsKept /\ GenerationsNew
    BY <2>1 DEF RefsKept, GenerationsNew, StreamRefMatches, TableTypeOK
  <2>6. QED
    BY <2>3, <2>4, <2>5 DEF TableStep
<1>3. QED
  BY <1>1, <1>2

\* Time alone changes nothing but the clock.
LEMMA TickStep ==
  ASSUME TableInv, Tick
  PROVE  TableStep
<1>1. UNCHANGED <<streams, routes, nextGeneration>> /\ now' \in Nat
  BY DEF Tick, TableInv, TableTypeOK
<1>2. TableInv'
  BY <1>1 DEF TableInv, TableTypeOK, GenerationsGiven, RoutesOwned,
              ContextsOwned, StreamRefMatches, RouteRef, Routed
<1>3. RefsKept /\ GenerationsNew
  BY <1>1 DEF RefsKept, GenerationsNew, StreamRefMatches, TableInv, TableTypeOK
<1>4. QED
  BY <1>2, <1>3 DEF TableStep

\* add_variant_route_locked never fills more than the array.
LEMMA KeptRoutesBound ==
  ASSUME NEW wanted \in SUBSET Urls, NEW kept, NEW seen,
         KeptRoutes(kept, wanted, seen)
  PROVE  kept \subseteq wanted /\ Cardinality(kept) <= MaxRoutes
<1>1. IsFiniteSet(wanted)
  BY UrlsAssumption, FS_Subset
<1>2. Cardinality(wanted) \in Nat
  BY <1>1, FS_CardinalityType
<1>3. CASE Cardinality(wanted) <= MaxRoutes
  BY <1>3 DEF KeptRoutes
<1>4. CASE Cardinality(wanted) > MaxRoutes
  BY <1>4, BoundsAssumption DEF KeptRoutes
<1>5. QED
  BY <1>2, <1>3, <1>4, BoundsAssumption

\* The arrival of a master playlist: contexts are pruned, replaced or
\* refreshed and the routes registered anew, in one step.
LEMMA MasterPlaylistStep ==
  ASSUME TableInv, NEW channel \in Channels, NEW listing \in Listings[channel],
         MasterPlaylist(channel, listing)
  PROVE  TableStep
<1> USE DEF TableInv
<1>1. PICK i \in Slot :
        /\ SlotFor(channel, i)
        /\ UpdateStreamMaster(channel, listing, i)
        /\ RegisterVariantRoutes(listing, i,
                                 RecordedStream(channel, listing, i).generation)
        /\ now' = now
  BY DEF MasterPlaylist
<1> DEFINE new == RecordedStream(channel, listing, i)
           held == i \in Holders(channel)
<1>2. /\ listing \in SUBSET Urls /\ channel # None
      /\ streams \in [Slot -> Stream] /\ routes \in [Urls -> Route]
      /\ nextGeneration \in Nat /\ nextGeneration >= 1 /\ now \in Nat
  BY ListingsAssumption, ChannelsAssumption DEF TableTypeOK, GenerationsGiven
<1>3. /\ NoBackup \in Backup /\ EmptyStream \in Stream
      /\ ~EmptyStream.active /\ EmptyStream.generation = 0
      /\ \A p \in Player : EmptyStream.masters[p] = None
  BY DEF NoBackup, EmptyStream, Stream, Backup
<1>4. held => /\ streams[i].active
              /\ streams[i].channel = channel
              /\ new = [streams[i] EXCEPT !.manifest = listing, !.backup = NoBackup,
                                          !.backupCreated = 0, !.lastSeen = now]
  BY DEF Holders, Survivors, RecordedStream
<1>5. ~held => new = [EmptyStream EXCEPT
                        !.active = TRUE, !.channel = channel,
                        !.generation = nextGeneration, !.manifest = listing,
                        !.backup = NoBackup, !.backupCreated = 0, !.lastSeen = now]
  BY DEF RecordedStream
<1> HIDE DEF new, held
<1>6. /\ new \in Stream /\ new.active
      /\ new.channel = channel /\ new.manifest = listing
      /\ new.backup = NoBackup
      /\ new.generation = IF held THEN streams[i].generation ELSE nextGeneration
      /\ \A p \in Player : new.masters[p] \in {None, channel}
  <2>1. CASE held
    BY <1>2, <1>3, <1>4, <2>1 DEF Stream, ContextsOwned
  <2>2. CASE ~held
    BY <1>2, <1>3, <1>5, <2>2 DEF Stream
  <2>3. QED
    BY <2>1, <2>2
<1>7. /\ streams' = [j \in Slot |-> IF j = i THEN new
                                   ELSE IF Expired(j) THEN EmptyStream ELSE streams[j]]
      /\ nextGeneration' = IF held THEN nextGeneration ELSE nextGeneration + 1
  BY <1>1 DEF UpdateStreamMaster, new, held
<1>8. /\ streams'[i] = new
      /\ \A j \in Slot : j # i => \/ streams'[j] = EmptyStream /\ j \notin Survivors
                                 \/ streams'[j] = streams[j]
      /\ streams' \in [Slot -> Stream]
      /\ nextGeneration' \in Nat /\ nextGeneration' >= nextGeneration
  <2>1. \A j \in Slot : Expired(j) => j \notin Survivors
    BY DEF Survivors
  <2>2. QED
    BY <1>2, <1>3, <1>6, <1>7, <2>1
<1>9. PICK kept \in SUBSET Urls :
        /\ kept \subseteq SurvivingRoutes(i) \cup listing
        /\ Cardinality(kept) <= MaxRoutes
        /\ routes' = [u \in Urls |->
                        IF u \notin kept THEN NoRoute
                        ELSE IF u \in listing
                        THEN [slot |-> i, generation |-> new.generation, lastSeen |-> now]
                        ELSE routes[u]]
  <2>1. SurvivingRoutes(i) \cup listing \in SUBSET Urls
    BY <1>2 DEF SurvivingRoutes
  <2> DEFINE seen == [u \in Urls |-> IF u \in listing THEN now ELSE routes[u].lastSeen]
  <2>2. PICK kept \in SUBSET Urls :
          /\ KeptRoutes(kept, SurvivingRoutes(i) \cup listing, seen)
          /\ routes' = [u \in Urls |->
                          IF u \notin kept THEN NoRoute
                          ELSE IF u \in listing
                          THEN [slot |-> i, generation |-> new.generation,
                                lastSeen |-> now]
                          ELSE routes[u]]
    BY <1>1, Zenon DEF RegisterVariantRoutes, new
  <2> HIDE DEF seen
  <2>3. kept \subseteq SurvivingRoutes(i) \cup listing /\ Cardinality(kept) <= MaxRoutes
    BY <2>1, <2>2, KeptRoutesBound
  <2>4. QED
    BY <2>2, <2>3
<1>10. \A u \in Urls :
         /\ u \notin kept => routes'[u] = NoRoute
         /\ u \in kept /\ u \in listing =>
              routes'[u] = [slot |-> i, generation |-> new.generation, lastSeen |-> now]
         /\ u \in kept /\ u \notin listing =>
              /\ routes'[u] = routes[u]
              /\ Routed(u) /\ routes[u].slot \in Survivors \ {i}
  BY <1>9 DEF SurvivingRoutes
<1>11. TableTypeOK'
  <2>1. routes' \in [Urls -> Route]
    BY <1>2, <1>6, <1>9 DEF Route, NoRoute, Stream
  <2>2. {u \in Urls : routes'[u].slot # 0} = kept
    BY <1>10 DEF NoRoute, Routed, Slot
  <2>3. QED
    BY <1>1, <1>2, <1>8, <1>9, <2>1, <2>2 DEF TableTypeOK
<1>12. GenerationsGiven'
  <2>1. ASSUME NEW j \in Slot
        PROVE  /\ streams'[j].generation < nextGeneration'
               /\ streams'[j].active => streams'[j].generation >= 1
                                        /\ streams'[j].channel # None
               /\ ~streams'[j].active => streams'[j].generation = 0
    <3>1. CASE j = i
      BY <1>2, <1>4, <1>6, <1>7, <1>8, <3>1 DEF GenerationsGiven, Stream
    <3>2. CASE j # i /\ streams'[j] = EmptyStream
      BY <1>2, <1>3, <1>8, <3>2
    <3>3. CASE j # i /\ streams'[j] = streams[j]
      BY <1>2, <1>8, <3>3 DEF GenerationsGiven, Stream
    <3>4. QED
      BY <1>8, <3>1, <3>2, <3>3
  <2>2. QED
    BY <1>2, <1>8, <2>1 DEF GenerationsGiven
<1>13. RoutesOwned'
  <2>1. ASSUME NEW u \in Urls, Routed(u)'
        PROVE  StreamRefMatches(RouteRef(u))' /\ u \in streams'[routes'[u].slot].manifest
    <3>1. u \in kept
      BY <1>10, <2>1 DEF Routed, NoRoute
    <3>2. CASE u \in listing
      BY <1>6, <1>8, <1>10, <3>1, <3>2 DEF StreamRefMatches, RouteRef
    <3>3. CASE u \notin listing
      <4>1. routes'[u] = routes[u] /\ Routed(u) /\ routes[u].slot \in Survivors \ {i}
        BY <1>10, <3>1, <3>3
      <4>2. streams'[routes[u].slot] = streams[routes[u].slot]
        BY <1>8, <4>1 DEF Survivors
      <4>3. QED
        BY <4>1, <4>2 DEF RoutesOwned, StreamRefMatches, RouteRef
    <3>4. QED
      BY <3>2, <3>3
  <2>2. QED
    BY <2>1 DEF RoutesOwned
<1>14. ContextsOwned'
  <2>1. ASSUME NEW j \in Slot, j # i, streams'[j].active
        PROVE  streams'[j] = streams[j] /\ j \in Survivors
    <3>1. streams'[j] = streams[j]
      BY <1>3, <1>8, <2>1
    <3>2. CASE Expired(j)
      BY <1>3, <1>7, <2>1, <3>2
    <3>3. CASE ~Expired(j)
      BY <2>1, <3>1, <3>3 DEF Survivors
    <3>4. QED
      BY <3>1, <3>2, <3>3
  <2>2. ASSUME NEW j \in Slot, j # i, streams'[j].active
        PROVE  streams'[j].channel # channel
    <3>1. SUFFICES ASSUME streams[j].channel = channel
                   PROVE  FALSE
      BY <2>1, <2>2
    <3>2. j \in Holders(channel)
      BY <2>1, <2>2, <3>1 DEF Holders
    <3>3. held
      BY <1>1, <3>2 DEF SlotFor, held
    <3>4. QED
      BY <1>4, <2>1, <2>2, <3>1, <3>3 DEF ContextsOwned
  <2>3. QED
    BY <1>6, <1>8, <2>1, <2>2 DEF ContextsOwned, NoBackup
<1>15. RefsKept
  <2>1. ASSUME NEW ref \in Ref, ref.generation \in 1 .. nextGeneration - 1,
               StreamRefMatches(ref)'
        PROVE  /\ StreamRefMatches(ref)
               /\ streams'[ref.slot].channel = streams[ref.slot].channel
    <3>1. CASE ref.slot = i
      BY <1>2, <1>4, <1>6, <1>8, <2>1, <3>1 DEF StreamRefMatches, Ref
    <3>2. CASE ref.slot # i
      BY <1>3, <1>8, <2>1, <3>2 DEF StreamRefMatches
    <3>3. QED
      BY <3>1, <3>2
  <2>2. QED
    BY <1>8, <2>1 DEF RefsKept
<1>16. GenerationsNew
  BY <1>3, <1>6, <1>8 DEF GenerationsNew
<1>17. QED
  BY <1>11, <1>12, <1>13, <1>14, <1>15, <1>16 DEF TableStep

----------------------------------------------------------------------------
(* The threads                                                             *)

\* The part of IInv that is about one worker.
WorkerInv(w) ==
    /\ worker[w] \in Worker
    /\ worker[w].ref.generation < nextGeneration
    /\ worker[w].ref.slot # 0 => worker[w].ref.generation >= 1
    /\ StreamRefMatches(worker[w].ref)
         => streams[worker[w].ref.slot].channel = worker[w].channel
    /\ worker[w].pc # "idle" => worker[w].url \in Urls
    /\ worker[w].pc \in {"master", "variant"} => worker[w].player \in Player
    /\ worker[w].pc = "cached" => worker[w].backup.channel = worker[w].channel
    /\ worker[w].pc = "variant" => worker[w].master = worker[w].channel
    /\ worker[w].pc = "done" => worker[w].answer.channel = worker[w].channel

\* IInv is the invariant of the tables and that of each worker.
LEMMA IInvSplit ==
  ASSUME worker = [w \in Workers |-> worker[w]]
  PROVE  IInv <=> TableInv /\ \A w \in Workers : WorkerInv(w)
BY DEF IInv, TypeOK, TableInv, RefsGiven, RefsOwned, HeldOwned, AnswersOwned, WorkerInv

\* An idle worker satisfies its part, as do the small values it is made of.
LEMMA IdleWorkerFacts ==
  /\ IdleWorker \in Worker
  /\ IdleWorker.pc = "idle" /\ IdleWorker.ref = NoRef
  /\ NoRef \in Ref /\ NoBackup \in Backup /\ NoAnswer \in Answer
BY BoundsAssumption
   DEF IdleWorker, Worker, Pc, NoRef, Ref, NoBackup, Backup, NoAnswer, Answer, Kind

\* What a worker holds between two critical sections is its own channel's.
HeldBy(local) ==
    /\ local.pc # "idle" => local.url \in Urls
    /\ local.pc \in {"master", "variant"} => local.player \in Player
    /\ local.pc = "cached" => local.backup.channel = local.channel
    /\ local.pc = "variant" => local.master = local.channel
    /\ local.pc = "done" => local.answer.channel = local.channel

\* A reference given out goes on meaning the channel it meant.
LEMMA RefChannelKept ==
  ASSUME TableStep, nextGeneration \in Nat, nextGeneration' \in Nat,
         NEW ref \in Ref, NEW channel,
         ref.generation < nextGeneration,
         ref.slot # 0 => ref.generation >= 1,
         StreamRefMatches(ref) => streams[ref.slot].channel = channel
  PROVE  /\ ref.generation < nextGeneration'
         /\ StreamRefMatches(ref)' => streams'[ref.slot].channel = channel
<1>1. nextGeneration' >= nextGeneration /\ ref.generation \in Nat
  BY DEF TableStep, RefsKept, Ref
<1>2. SUFFICES ASSUME StreamRefMatches(ref)'
               PROVE  streams'[ref.slot].channel = channel
  BY <1>1
<1>3. ref.slot # 0
  BY <1>2 DEF StreamRefMatches, Slot
<1>4. ref.generation \in 1 .. nextGeneration - 1
  BY <1>1, <1>3
<1>5. QED
  BY <1>2, <1>4 DEF TableStep, RefsKept

\* A worker moves while the tables take a step: what is left to show is that
\* its new reference and what it now holds belong together.
LEMMA WorkerAdvance ==
  ASSUME IInv, TableStep, NEW w \in Workers, NEW local \in Worker,
         worker' = [worker EXCEPT ![w] = local],
         HeldBy(local),
         \/ local.ref = worker[w].ref /\ local.channel = worker[w].channel
         \/ local.ref = NoRef
         \/ /\ StreamRefMatches(local.ref)
            /\ streams[local.ref.slot].channel = local.channel
  PROVE  IInv'
<1>1. /\ worker \in [Workers -> Worker] /\ TableInv /\ TableInv'
      /\ nextGeneration \in Nat /\ nextGeneration >= 1 /\ nextGeneration' \in Nat
      /\ \A v \in Workers : WorkerInv(v)
  BY IInvSplit DEF IInv, TypeOK, TableInv, TableTypeOK, GenerationsGiven, TableStep
<1>2. worker' \in [Workers -> Worker]
  BY <1>1
<1>3. ASSUME NEW v \in Workers
      PROVE  /\ worker'[v].ref.generation < nextGeneration
             /\ worker'[v].ref.slot # 0 => worker'[v].ref.generation >= 1
             /\ StreamRefMatches(worker'[v].ref)
                  => streams[worker'[v].ref.slot].channel = worker'[v].channel
             /\ HeldBy(worker'[v])
  <2>1. CASE v # w \/ (local.ref = worker[w].ref /\ local.channel = worker[w].channel)
    BY <1>1, <2>1 DEF WorkerInv, HeldBy
  <2>2. CASE v = w /\ local.ref = NoRef
    BY <1>1, <2>2 DEF NoRef, StreamRefMatches, Slot
  <2>3. CASE v = w /\ StreamRefMatches(local.ref)
               /\ streams[local.ref.slot].channel = local.channel
    <3>1. GenerationsGiven
      BY <1>1 DEF TableInv
    <3>2. QED
      BY <1>1, <2>3, <3>1 DEF GenerationsGiven, StreamRefMatches
  <2>4. QED
    BY <2>1, <2>2, <2>3
<1>4. ASSUME NEW v \in Workers
      PROVE  WorkerInv(v)'
  <2>1. worker'[v] \in Worker /\ worker'[v].ref \in Ref
    BY <1>2 DEF Worker
  <2>2. /\ worker'[v].ref.generation < nextGeneration'
        /\ StreamRefMatches(worker[v].ref)'
             => streams'[worker'[v].ref.slot].channel = worker'[v].channel
    BY <1>1, <1>3, <2>1, RefChannelKept DEF StreamRefMatches
  <2>3. QED
    BY <1>3, <2>1, <2>2 DEF WorkerInv, HeldBy
<1>5. QED
  BY <1>1, <1>2, <1>4 DEF IInv, TypeOK, TableInv, RefsGiven, RefsOwned, HeldOwned,
                          AnswersOwned, WorkerInv

\* A step that leaves the tables alone is a step of them.
LEMMA UnchangedStep ==
  ASSUME TableInv, UNCHANGED tableVars
  PROVE  TableStep
<1>1. TableInv'
  BY DEF tableVars, TableInv, TableTypeOK, GenerationsGiven, RoutesOwned,
         ContextsOwned, StreamRefMatches, RouteRef, Routed
<1>2. RefsKept /\ GenerationsNew
  BY DEF tableVars, RefsKept, GenerationsNew, StreamRefMatches, TableInv, TableTypeOK
<1>3. QED
  BY <1>1, <1>2 DEF TableStep

\* Answering with the content of the worker's channel.
LEMMA AnsweredStep ==
  ASSUME IInv, TableStep, NEW w \in Workers, worker[w].pc # "idle",
         NEW kind \in Kind, NEW rendition \in Renditions \cup {None},
         NEW ads \in BOOLEAN, NEW channel, channel = worker[w].channel,
         Answered(w, kind, channel, rendition, ads)
  PROVE  IInv'
<1> DEFINE local == [IdleWorker EXCEPT
                       !.pc = "done", !.url = worker[w].url, !.ref = worker[w].ref,
                       !.channel = worker[w].channel,
                       !.answer = [kind |-> kind, channel |-> channel,
                                   rendition |-> rendition, ads |-> ads]]
<1>1. worker[w] \in Worker /\ worker[w].url \in Urls
  BY DEF IInv, TypeOK, HeldOwned
<1>2. IdleWorker \in Worker
  BY IdleWorkerFacts
<1>3. [kind |-> kind, channel |-> channel, rendition |-> rendition, ads |-> ads] \in Answer
  BY <1>1 DEF Answer, Worker
<1>4. local \in Worker
  BY <1>1, <1>2, <1>3 DEF Worker, Pc
<1>5. /\ local.pc = "done" /\ local.url = worker[w].url /\ local.ref = worker[w].ref
      /\ local.channel = worker[w].channel /\ local.answer.channel = worker[w].channel
  BY <1>2 DEF Worker
<1>6. HeldBy(local)
  BY <1>1, <1>5 DEF HeldBy
<1>7. worker' = [worker EXCEPT ![w] = local]
  BY DEF Answered
<1> HIDE DEF local
<1>8. QED
  BY <1>4, <1>5, <1>6, <1>7, WorkerAdvance

\* The snapshot: a mapped playlist takes its reference and channel from the
\* context the route names, an unmapped one takes none.
LEMMA SnapshotStep ==
  ASSUME IInv, NEW w \in Workers, NEW u \in Urls, NEW ads \in BOOLEAN,
         VariantMapped(w, u, ads) \/ VariantUnmapped(w, u, ads)
  PROVE  IInv' /\ TableStep
<1>1. TableInv /\ TableStep
  BY LookupStep DEF IInv, VariantMapped, VariantUnmapped
<1>2. /\ worker \in [Workers -> Worker] /\ streams \in [Slot -> Stream]
      /\ routes \in [Urls -> Route]
  BY DEF IInv, TypeOK, TableTypeOK
<1>3. IdleWorker \in Worker /\ NoBackup \in Backup
  BY IdleWorkerFacts
<1>4. CASE VariantMapped(w, u, ads)
  <2> DEFINE stream == streams[routes[u].slot]
             pc == IF ~ads THEN "clean"
                   ELSE IF BackupUsable(stream) THEN "cached" ELSE "load"
             backup == IF ads /\ BackupUsable(stream) THEN stream.backup ELSE NoBackup
             local == [IdleWorker EXCEPT !.pc = pc, !.url = u, !.ref = RouteRef(u),
                                         !.channel = stream.channel, !.backup = backup]
  <2>1. StreamRefMatches(RouteRef(u)) /\ worker' = [worker EXCEPT ![w] = local]
    BY <1>4 DEF VariantMapped, StreamForVariant
  <2>2. stream \in Stream /\ stream.active /\ RouteRef(u) \in Ref
    BY <1>2, <2>1 DEF StreamRefMatches, RouteRef, Ref, Route
  <2>3. pc = "cached" => backup.channel = stream.channel
    <3>1. SUFFICES ASSUME ads, BackupUsable(stream)
                   PROVE  stream.backup.channel = stream.channel
      OBVIOUS
    <3>2. routes[u].slot \in Slot /\ ContextsOwned
      BY <2>1, <1>1 DEF StreamRefMatches, RouteRef, TableInv
    <3>3. stream.backup.channel \in {None, stream.channel}
      BY <2>2, <3>2 DEF ContextsOwned
    <3>4. stream.backup.channel # None
      BY <3>1 DEF BackupUsable
    <3>5. QED
      BY <3>3, <3>4
  <2>4. pc \in {"clean", "cached", "load"} /\ backup \in Backup
    BY <1>3, <2>2 DEF Stream
  <2> HIDE DEF pc, backup
  <2>5. local \in Worker
    BY <1>3, <2>2, <2>4 DEF Worker, Pc, Stream
  <2>6. /\ local.pc = pc /\ local.url = u /\ local.ref = RouteRef(u)
        /\ local.channel = stream.channel /\ local.backup = backup
    BY <1>3 DEF Worker
  <2>7. HeldBy(local)
    BY <2>3, <2>4, <2>6 DEF HeldBy
  <2>8. StreamRefMatches(local.ref) /\ streams[local.ref.slot].channel = local.channel
    BY <2>1, <2>6 DEF RouteRef
  <2> HIDE DEF local
  <2>9. QED
    BY <1>1, <2>1, <2>5, <2>7, <2>8, WorkerAdvance
<1>5. CASE VariantUnmapped(w, u, ads)
  <2> DEFINE answer == [kind |-> "passthrough", channel |-> None,
                        rendition |-> RenditionOf[u], ads |-> ads]
             local == [IdleWorker EXCEPT !.pc = "done", !.url = u, !.answer = answer]
  <2>1. worker' = [worker EXCEPT ![w] = local]
    BY <1>5 DEF VariantUnmapped
  <2>2. answer \in Answer
    BY RenditionOfAssumption DEF Answer, Kind
  <2>3. local \in Worker
    BY <1>3, <2>2 DEF Worker, Pc
  <2>4. /\ local.pc = "done" /\ local.url = u /\ local.ref = NoRef
        /\ local.channel = None /\ local.answer.channel = None
    BY DEF IdleWorker
  <2>5. HeldBy(local)
    BY <2>4 DEF HeldBy
  <2> HIDE DEF local
  <2>6. QED
    BY <1>1, <2>1, <2>3, <2>4, <2>5, WorkerAdvance
<1>6. QED
  BY <1>4, <1>5

\* One critical section of a worker that holds a playlist.
LEMMA WorkStep ==
  ASSUME IInv, NEW w \in Workers, Work(w)
  PROVE  IInv' /\ TableStep
<1> DEFINE me == worker[w]
<1>1. /\ TableInv /\ worker \in [Workers -> Worker] /\ me \in Worker
      /\ me.ref \in Ref /\ me.channel \in Channels \cup {None}
      /\ me.player \in 1 .. Players + 1
  BY DEF IInv, TypeOK, Worker
<1>2. /\ StreamRefMatches(me.ref) => streams[me.ref.slot].channel = me.channel
      /\ HeldBy(me)
  BY DEF IInv, RefsOwned, HeldOwned, AnswersOwned, HeldBy
<1>3. StreamRefMatches(me.ref) => me.channel \in Channels
  BY <1>1, <1>2 DEF TableInv, TableTypeOK, GenerationsGiven, StreamRefMatches, Stream
<1>4. me.pc # "idle" => RenditionOf[me.url] \in Renditions
  BY <1>2, RenditionOfAssumption DEF HeldBy
<1>5. IdleWorker \in Worker /\ IdleWorker.pc = "idle" /\ IdleWorker.ref = NoRef
      /\ NoBackup \in Backup
  BY IdleWorkerFacts
<1>6. UNCHANGED tableVars => TableStep
  BY <1>1, UnchangedStep
<1>7. 1 \in Player /\ Players \in Nat \ {0}
  BY BoundsAssumption DEF Player
<1>8. CASE CleanOriginal(w)
  <2>1. TableStep
    BY <1>1, <1>2, <1>3, <1>8, ClearActiveBackupStep DEF CleanOriginal
  <2>2. QED
    BY <1>1, <1>4, <1>8, <2>1, AnsweredStep DEF CleanOriginal, Kind
<1>9. CASE CachedClean(w)
  <2>1. me.backup.channel = me.channel /\ me.backup.rendition \in Renditions \cup {None}
    BY <1>1, <1>2, <1>9 DEF CachedClean, HeldBy, Worker, Backup
  <2>2. QED
    BY <1>6, <1>9, <2>1, AnsweredStep DEF CachedClean, Kind
<1>10. CASE CachedHasAds(w) \/ CachedFails(w)
  <2> DEFINE local == [me EXCEPT !.pc = "load", !.backup = NoBackup]
  <2>1. TableStep
    BY <1>1, <1>2, <1>3, <1>6, <1>10, ClearActiveBackupStep
       DEF CachedHasAds, CachedFails
  <2>2. worker' = [worker EXCEPT ![w] = local] /\ me.pc = "cached"
    BY <1>1, <1>10 DEF CachedHasAds, CachedFails, Worker
  <2>3. local \in Worker /\ local.ref = me.ref /\ local.channel = me.channel
    BY <1>1, <1>5 DEF Worker, Pc
  <2>4. HeldBy(local)
    BY <1>1, <1>2, <2>2 DEF HeldBy, Worker
  <2>5. QED
    BY <2>1, <2>2, <2>3, <2>4, WorkerAdvance
<1>11. CASE LoadBackupMaster(w)
  <2> DEFINE cached == StreamRefMatches(me.ref)
                         /\ streams[me.ref.slot].masters[me.player] # None
             pc == IF cached THEN "variant" ELSE "master"
             master == IF cached THEN streams[me.ref.slot].masters[me.player] ELSE None
             local == [me EXCEPT !.pc = pc, !.wasCached = cached, !.master = master]
  <2>1. TableStep /\ me.pc = "load" /\ me.player \in Player
    BY <1>6, <1>11 DEF LoadBackupMaster
  <2>2. worker' = [worker EXCEPT ![w] = local]
    BY <1>1, <1>11 DEF LoadBackupMaster, Worker
  <2>3. cached => master = me.channel
    BY <1>1, <1>2, <2>1 DEF TableInv, ContextsOwned, StreamRefMatches
  <2>4. /\ cached \in BOOLEAN /\ pc \in {"variant", "master"}
        /\ (pc = "variant" <=> cached)
        /\ master \in Channels \cup {None}
    BY <1>1, <2>3
  <2> HIDE DEF cached, pc, master
  <2>5. /\ local \in Worker /\ local.ref = me.ref /\ local.channel = me.channel
        /\ local.pc = pc /\ local.player = me.player /\ local.url = me.url
        /\ local.master = master
    BY <1>1, <2>4 DEF Worker, Pc
  <2>6. HeldBy(local)
    BY <1>2, <2>1, <2>3, <2>4, <2>5 DEF HeldBy
  <2> HIDE DEF local
  <2>7. QED
    BY <2>1, <2>2, <2>5, <2>6, WorkerAdvance
<1>12. ASSUME NEW fits \in BOOLEAN, MasterFetched(w, fits)
       PROVE  IInv' /\ TableStep
  <2> DEFINE local == [me EXCEPT !.pc = "variant", !.master = me.channel]
  <2>1. me.pc = "master" /\ me.player \in Player
    BY <1>2, <1>12 DEF MasterFetched, HeldBy
  <2>2. TableStep
    BY <1>1, <1>2, <1>3, <1>6, <1>12, <2>1, StoreBackupMasterStep DEF MasterFetched
  <2>3. worker' = [worker EXCEPT ![w] = local]
    BY <1>1, <1>12 DEF MasterFetched, Worker
  <2>4. /\ local \in Worker /\ local.ref = me.ref /\ local.channel = me.channel
        /\ HeldBy(local)
    BY <1>1, <1>2, <2>1 DEF Worker, Pc, HeldBy
  <2>5. QED
    BY <2>2, <2>3, <2>4, WorkerAdvance
<1>13. me.player \in Player =>
         /\ NextPlayer(w) \in Worker /\ NextPlayer(w).pc = "load"
         /\ NextPlayer(w).ref = me.ref /\ NextPlayer(w).channel = me.channel
         /\ NextPlayer(w).url = me.url
  <2>1. SUFFICES ASSUME me.player \in Player
                 PROVE  /\ NextPlayer(w) \in Worker /\ NextPlayer(w).pc = "load"
                        /\ NextPlayer(w).ref = me.ref
                        /\ NextPlayer(w).channel = me.channel
                        /\ NextPlayer(w).url = me.url
    OBVIOUS
  <2> DEFINE next == me.player + 1
  <2>2. next \in 1 .. Players + 1
    BY <1>7, <2>1 DEF Player
  <2>3. NextPlayer(w) = [me EXCEPT !.pc = "load", !.player = next, !.attempt = 1,
                                   !.wasCached = FALSE, !.master = None]
    BY <1>1 DEF NextPlayer, Worker
  <2> HIDE DEF next
  <2>4. QED
    BY <1>1, <2>2, <2>3 DEF Worker, Pc
<1>14. CASE MasterFails(w)
  <2>1. /\ TableStep /\ me.pc = "master" /\ me.player \in Player
        /\ worker' = [worker EXCEPT ![w] = NextPlayer(w)]
    BY <1>2, <1>6, <1>14 DEF MasterFails, HeldBy
  <2>2. HeldBy(NextPlayer(w))
    BY <1>2, <1>13, <2>1 DEF HeldBy
  <2>3. QED
    BY <1>13, <2>1, <2>2, WorkerAdvance
<1>15. CASE AlternateClean(w)
  <2>1. me.pc = "variant" /\ me.master = me.channel
    BY <1>2, <1>15 DEF AlternateClean, HeldBy
  <2>2. /\ PublishBackup(me.ref, [channel |-> me.channel,
                                  rendition |-> RenditionOf[me.url]])
        /\ Answered(w, "alternate", me.channel, RenditionOf[me.url], FALSE)
    BY <1>15, <2>1 DEF AlternateClean
  <2>3. TableStep
    BY <1>1, <1>2, <1>3, <1>4, <2>1, <2>2, PublishBackupStep
  <2>4. QED
    BY <1>1, <1>4, <2>1, <2>2, <2>3, AnsweredStep DEF Kind
<1>16. ASSUME NEW arrived \in BOOLEAN, AlternateUnusable(w, arrived)
       PROVE  IInv' /\ TableStep
  <2> DEFINE fallback == me.fallback \/ (arrived /\ me.player \in {1, Players})
             again == [me EXCEPT !.pc = "load", !.attempt = 2, !.wasCached = FALSE,
                                 !.master = None, !.fallback = fallback]
             on == [NextPlayer(w) EXCEPT !.fallback = fallback]
             local == IF me.wasCached /\ me.attempt = 1 THEN again ELSE on
  <2>1. me.pc = "variant" /\ me.player \in Player /\ me.url \in Urls
    BY <1>2, <1>16 DEF AlternateUnusable, HeldBy
  <2>2. TableStep
    BY <1>1, <1>2, <1>3, <1>16, <2>1, ClearBackupMasterStep DEF AlternateUnusable
  <2>3. worker' = [worker EXCEPT ![w] = local]
    BY <1>16 DEF AlternateUnusable
  <2>4. fallback \in BOOLEAN
    BY <1>1 DEF Worker
  <2> HIDE DEF fallback
  <2>5. /\ again \in Worker /\ again.pc = "load" /\ again.ref = me.ref
        /\ again.channel = me.channel /\ again.url = me.url
    BY <1>1, <2>4 DEF Worker, Pc
  <2>6. /\ on \in Worker /\ on.pc = "load" /\ on.ref = me.ref
        /\ on.channel = me.channel /\ on.url = me.url
    BY <1>13, <2>1, <2>4 DEF Worker
  <2> HIDE DEF again, on
  <2>7. /\ local \in Worker /\ local.pc = "load" /\ local.ref = me.ref
        /\ local.channel = me.channel /\ local.url = me.url
    BY <2>5, <2>6
  <2>8. HeldBy(local)
    BY <2>1, <2>7 DEF HeldBy
  <2> HIDE DEF local
  <2>9. QED
    BY <2>2, <2>3, <2>7, <2>8, WorkerAdvance
<1>17. CASE AlternatesExhausted(w)
  <2> DEFINE kind == IF me.fallback THEN "fallback" ELSE "suppressed"
  <2>1. /\ TableStep /\ kind \in Kind /\ me.pc # "idle"
        /\ Answered(w, kind, me.channel, RenditionOf[me.url], TRUE)
    BY <1>6, <1>17 DEF AlternatesExhausted, Kind
  <2> HIDE DEF kind
  <2>2. QED
    BY <1>4, <2>1, AnsweredStep
<1>18. CASE Deliver(w)
  <2>1. TableStep /\ worker' = [worker EXCEPT ![w] = IdleWorker]
    BY <1>6, <1>18 DEF Deliver
  <2>2. HeldBy(IdleWorker)
    BY <1>5 DEF HeldBy
  <2>3. QED
    BY <1>5, <2>1, <2>2, WorkerAdvance
<1>19. QED
  BY <1>8, <1>9, <1>10, <1>11, <1>12, <1>14, <1>15, <1>16, <1>17, <1>18 DEF Work

\* IInv holds initially.
LEMMA InitInv == Init => IInv
<1> SUFFICES ASSUME Init PROVE IInv
  OBVIOUS
<1>1. TableInv
  BY TableInitInv DEF Init
<1>2. worker = [w \in Workers |-> IdleWorker]
  BY DEF Init
<1>3. \A w \in Workers : /\ worker[w] \in Worker /\ worker[w].pc = "idle"
                         /\ worker[w].ref.slot = 0 /\ worker[w].ref.generation = 0
  BY <1>2, IdleWorkerFacts DEF NoRef
<1>4. TypeOK /\ HeldOwned /\ AnswersOwned
  BY <1>1, <1>2, <1>3 DEF TypeOK, TableInv, HeldOwned, AnswersOwned
<1>5. RefsGiven /\ RefsOwned
  BY <1>1, <1>3 DEF TableInv, GenerationsGiven, TableTypeOK, RefsGiven, RefsOwned,
                    StreamRefMatches, Slot
<1>6. QED
  BY <1>1, <1>4, <1>5 DEF IInv

\* A step of the environment moves the tables and no worker.
LEMMA EnvironmentStep ==
  ASSUME IInv, Environment
  PROVE  IInv' /\ TableStep
<1>1. TableInv /\ UNCHANGED worker /\ worker \in [Workers -> Worker]
  BY DEF IInv, TypeOK, Environment
<1>2. TableStep
  BY <1>1, TickStep, MasterPlaylistStep DEF Environment
<1>3. ASSUME NEW w \in Workers
      PROVE  IInv'
  <2>1. worker' = [worker EXCEPT ![w] = worker[w]] /\ worker[w] \in Worker
    BY <1>1
  <2>2. HeldBy(worker[w])
    BY DEF IInv, HeldOwned, AnswersOwned, HeldBy
  <2>3. QED
    BY <1>2, <2>1, <2>2, WorkerAdvance
<1>4. CASE Workers = {}
  BY <1>1, <1>2, <1>4 DEF IInv, TypeOK, TableStep, TableInv, RefsGiven, RefsOwned,
                          HeldOwned, AnswersOwned
<1>5. QED
  BY <1>2, <1>3, <1>4

\* Every step is a step of the tables and keeps IInv.
LEMMA NextStep ==
  ASSUME IInv, [Next]_vars
  PROVE  IInv' /\ TableStep
<1>1. CASE Environment
  BY <1>1, EnvironmentStep
<1>2. ASSUME NEW w \in Workers, NEW u \in Urls, NEW ads \in BOOLEAN,
             VariantMapped(w, u, ads) \/ VariantUnmapped(w, u, ads)
      PROVE  IInv' /\ TableStep
  BY <1>2, SnapshotStep
<1>3. ASSUME NEW w \in Workers, Work(w)
      PROVE  IInv' /\ TableStep
  BY <1>3, WorkStep
<1>4. CASE UNCHANGED vars
  <2>1. UNCHANGED tableVars /\ UNCHANGED worker /\ TableInv
    BY <1>4 DEF vars, tableVars, IInv
  <2>2. TableStep
    BY <2>1, UnchangedStep
  <2>3. IInv'
    BY <1>4, <2>2 DEF vars, IInv, TypeOK, TableStep, TableInv, RefsGiven, RefsOwned,
                      HeldOwned, AnswersOwned, StreamRefMatches
  <2>4. QED
    BY <2>2, <2>3
<1>5. QED
  BY <1>1, <1>2, <1>3, <1>4 DEF Next

\* The invariant of the whole module: types, owned routes, owned contexts and
\* owned workers, whatever the interleaving of lookups, refreshes, evictions
\* and late answers.
THEOREM Inductive == Spec => []IInv
<1>1. Init => IInv
  BY InitInv
<1>2. IInv /\ [Next]_vars => IInv'
  BY NextStep
<1>3. QED
  BY <1>1, <1>2, PTL DEF Spec

\* Contexts, routes and workers keep their types, and the route table its size.
THEOREM TypeCorrect == Spec => []TypeOK
BY Inductive, PTL DEF IInv

\* No route survives its context, no late answer writes another channel's
\* content into a context, no viewer of one channel is answered with another's,
\* and no reference a worker holds comes to mean another channel.
THEOREM AlwaysOwned == Spec => []Owned
<1>1. IInv => RoutesOwned /\ ContextsOwned
  BY DEF IInv, TableInv
<1>2. IInv => AnswersOwned /\ RefsOwned
  BY DEF IInv
<1>3. IInv => Owned
  BY <1>1, <1>2 DEF Owned
<1>4. QED
  BY <1>3, Inductive, PTL

\* A reference that has stopped matching never matches again.
THEOREM NeverReused == Spec => StaleForever
<1>1. ASSUME IInv, [Next]_vars, NEW w \in Workers,
             worker'[w].ref = worker[w].ref, worker[w].ref.slot \in Slot,
             streams[worker[w].ref.slot].generation # worker[w].ref.generation
      PROVE  streams'[worker[w].ref.slot].generation # worker[w].ref.generation
  <2>1. GenerationsNew
    BY <1>1, NextStep DEF TableStep
  <2>2. /\ worker[w].ref.generation < nextGeneration
        /\ worker[w].ref.generation >= 1
        /\ worker[w].ref.generation \in Nat /\ nextGeneration \in Nat
    BY <1>1 DEF IInv, RefsGiven, Slot, TypeOK, TableTypeOK, Worker, Ref
  <2>3. QED
    BY <1>1, <2>1, <2>2 DEF GenerationsNew
<1>2. IInv /\ [Next]_vars =>
        \A w \in Workers :
          LET ref == worker[w].ref
          IN worker'[w].ref = ref /\ ref.slot \in Slot
               /\ streams[ref.slot].generation # ref.generation
             => streams'[ref.slot].generation # ref.generation
  BY <1>1
<1>3. QED
  BY <1>2, Inductive, PTL DEF Spec, StaleForever

-----------------------------------------------------------------------------
\* Of the steps that touch the contexts, only the arrival of a master playlist
\* gives a slot another generation.
LEMMA WriteKeepsGeneration ==
  ASSUME TableInv, NEW ref \in Ref, NEW stream, WriteStream(ref, stream),
         StreamRefMatches(ref) => stream.generation = streams[ref.slot].generation
  PROVE  \A i \in Slot : streams'[i].generation = streams[i].generation
BY DEF WriteStream, TableInv, TableTypeOK

\* A worker's step gives no slot to another incarnation.
LEMMA WorkerKeepsGeneration ==
  ASSUME IInv, NEW w \in Workers,
         \/ \E u \in Urls, ads \in BOOLEAN : VariantMapped(w, u, ads) \/ VariantUnmapped(w, u, ads)
         \/ Work(w)
  PROVE  \A i \in Slot : streams'[i].generation = streams[i].generation
<1> DEFINE ref == worker[w].ref
           Same == \A i \in Slot : streams'[i].generation = streams[i].generation
<1>1. /\ TableInv /\ ref \in Ref /\ streams \in [Slot -> Stream]
      /\ StreamRefMatches(ref) => streams[ref.slot] \in Stream
  BY DEF IInv, TypeOK, Worker, TableInv, TableTypeOK, StreamRefMatches
<1>2. ASSUME NEW u \in Urls, NEW ads \in BOOLEAN,
             VariantMapped(w, u, ads) \/ VariantUnmapped(w, u, ads)
      PROVE  Same
  <2>1. CASE StreamForVariant(u)
    BY <1>1, <2>1 DEF StreamForVariant, Stream
  <2>2. CASE NoStreamForVariant(u)
    BY <2>2 DEF NoStreamForVariant
  <2>3. QED
    BY <1>2, <2>1, <2>2 DEF VariantMapped, VariantUnmapped
<1>3. CASE UNCHANGED tableVars
  BY <1>3 DEF tableVars
<1>4. CASE ClearActiveBackup(ref)
  BY <1>1, <1>4, WriteKeepsGeneration DEF ClearActiveBackup, Stream
<1>5. CASE StoreBackupMaster(ref, worker[w].player, worker[w].channel)
  BY <1>1, <1>5, WriteKeepsGeneration DEF StoreBackupMaster, Stream
<1>6. CASE ClearBackupMaster(ref, worker[w].player)
  BY <1>1, <1>6, WriteKeepsGeneration DEF ClearBackupMaster, Stream
<1>7. CASE PublishBackup(ref, [channel |-> worker[w].master,
                               rendition |-> RenditionOf[worker[w].url]])
  <2>1. PICK b : b = [channel |-> worker[w].master, rendition |-> RenditionOf[worker[w].url]]
    OBVIOUS
  <2>2. PublishBackup(ref, b)
    BY <1>7, <2>1
  <2>3. QED
    BY <1>1, <2>2, WriteKeepsGeneration DEF PublishBackup, Stream
<1>8. CASE CleanOriginal(w) \/ CachedHasAds(w)
  BY <1>4, <1>8 DEF CleanOriginal, CachedHasAds
<1>9. CASE CachedClean(w) \/ CachedFails(w) \/ MasterFails(w) \/ AlternatesExhausted(w)
             \/ Deliver(w)
  BY <1>3, <1>9 DEF CachedClean, CachedFails, MasterFails, AlternatesExhausted, Deliver
<1>10. CASE LoadBackupMaster(w)
  BY <1>3, <1>10 DEF LoadBackupMaster
<1>11. ASSUME NEW fits \in BOOLEAN, MasterFetched(w, fits)
       PROVE  Same
  BY <1>3, <1>5, <1>11 DEF MasterFetched
<1>12. CASE AlternateClean(w)
  BY <1>7, <1>12 DEF AlternateClean
<1>13. ASSUME NEW arrived \in BOOLEAN, AlternateUnusable(w, arrived)
       PROVE  Same
  BY <1>6, <1>13 DEF AlternateUnusable
<1>14. QED
  BY <1>2, <1>8, <1>9, <1>10, <1>11, <1>12, <1>13 DEF Work

\* The master playlist clears a context that expired, or replaces one: that of
\* a slot it was free to take, or of the one seen least recently.
LEMMA MasterEvicts ==
  ASSUME TableInv, NEW channel \in Channels, NEW listing \in Listings[channel],
         MasterPlaylist(channel, listing), NEW i \in Slot,
         streams[i].active, streams'[i].generation # streams[i].generation
  PROVE  \/ now - streams[i].lastSeen > StreamTtl
         \/ \A j \in Slot : /\ streams[j].active
                            /\ now - streams[j].lastSeen <= StreamTtl
                            /\ streams[i].lastSeen <= streams[j].lastSeen
<1>1. PICK s \in Slot : SlotFor(channel, s) /\ UpdateStreamMaster(channel, listing, s)
  BY DEF MasterPlaylist
<1>2. /\ streams'[i] = IF i = s THEN RecordedStream(channel, listing, s)
                       ELSE IF Expired(i) THEN EmptyStream ELSE streams[i]
      /\ now \in Nat /\ StreamTtl \in Nat /\ \A j \in Slot : streams[j].lastSeen \in Nat
  BY <1>1, BoundsAssumption DEF UpdateStreamMaster, TableInv, TableTypeOK, Stream
<1>3. SUFFICES ASSUME ~Expired(i)
               PROVE  \A j \in Slot : /\ streams[j].active
                                      /\ now - streams[j].lastSeen <= StreamTtl
                                      /\ streams[i].lastSeen <= streams[j].lastSeen
  BY DEF Expired
<1>4. i = s /\ i \in Survivors
  BY <1>2, <1>3 DEF Survivors
<1>5. s \notin Holders(channel)
  <2>1. SUFFICES ASSUME s \in Holders(channel) PROVE FALSE
    OBVIOUS
  <2>2. RecordedStream(channel, listing, s).generation = streams[s].generation
    BY <2>1 DEF RecordedStream, TableInv, TableTypeOK, Stream
  <2>3. QED
    BY <1>2, <1>4, <2>2
<1>6. /\ Survivors = Slot
      /\ \A j \in Slot : \/ streams[s].lastSeen < streams[j].lastSeen
                         \/ streams[s].lastSeen = streams[j].lastSeen /\ s <= j
  BY <1>1, <1>4, <1>5 DEF SlotFor
<1>7. QED
  BY <1>2, <1>4, <1>6 DEF Survivors, Expired

\* A context that is still in use is given up only to a new channel that found
\* the table full, and then it was the one seen least recently.
THEOREM AlwaysEvictsLeastRecent == Spec => EvictsLeastRecent
<1> DEFINE Evicts ==
      \A i \in Slot :
         streams[i].active /\ streams'[i].generation # streams[i].generation
         => \/ now - streams[i].lastSeen > StreamTtl
            \/ \A j \in Slot : /\ streams[j].active
                               /\ now - streams[j].lastSeen <= StreamTtl
                               /\ streams[i].lastSeen <= streams[j].lastSeen
<1>1. IInv /\ [Next]_vars => [Evicts]_vars
  <2> SUFFICES ASSUME IInv, [Next]_vars PROVE Evicts
    OBVIOUS
  <2>1. CASE UNCHANGED vars \/ Tick
    BY <2>1 DEF vars, tableVars, Tick
  <2>2. ASSUME NEW channel \in Channels, NEW listing \in Listings[channel],
               MasterPlaylist(channel, listing)
        PROVE  Evicts
    BY <2>2, MasterEvicts DEF IInv
  <2>3. ASSUME NEW w \in Workers,
               \/ \E u \in Urls, ads \in BOOLEAN :
                    VariantMapped(w, u, ads) \/ VariantUnmapped(w, u, ads)
               \/ Work(w)
        PROVE  Evicts
    BY <2>3, WorkerKeepsGeneration
  <2> HIDE DEF Evicts
  <2>4. QED
    BY <2>1, <2>2, <2>3 DEF Next, Environment
<1>2. QED
  BY <1>1, Inductive, PTL DEF Spec, EvictsLeastRecent

-----------------------------------------------------------------------------
(* VaftFetch implements PlaylistService: every step of a thread or of the   *)
(* tables is a step of the service or leaves it alone.                      *)

\* A route that is left alone goes on naming a context of its channel.
LEMMA OwnerKept ==
  ASSUME TableInv, TableStep, NEW u \in Urls, RouteRef(u)' = RouteRef(u)
  PROVE  OwnerOf(u)' = OwnerOf(u)
<1>1. routes'[u].slot = routes[u].slot
  BY DEF RouteRef
<1>2. CASE ~Routed(u)
  BY <1>1, <1>2 DEF OwnerOf, Routed
<1>3. CASE Routed(u)
  <2>1. /\ RouteRef(u) \in Ref
        /\ StreamRefMatches(RouteRef(u))
        /\ StreamRefMatches(RouteRef(u))'
    BY <1>1, <1>3 DEF TableInv, TableTypeOK, RoutesOwned, TableStep, Routed, RouteRef, Ref, Route
  <2>2. RouteRef(u).generation \in 1 .. nextGeneration - 1
    BY <2>1 DEF TableInv, TableTypeOK, GenerationsGiven, StreamRefMatches, RouteRef, Ref
  <2>3. StreamRefMatches(RouteRef(u)) /\ RouteRef(u).slot = routes[u].slot
    BY <2>1 DEF RouteRef
  <2> DEFINE ref == RouteRef(u)
  <2>4. streams'[ref.slot].channel = streams[ref.slot].channel
    <3>1. /\ ref.slot \in Slot /\ streams'[ref.slot].active
          /\ streams'[ref.slot].generation = ref.generation
      BY <2>1 DEF StreamRefMatches, RouteRef
    <3>2. QED
      BY <2>1, <2>2, <3>1 DEF TableStep, RefsKept, StreamRefMatches
  <2>5. QED
    BY <1>1, <1>3, <2>3, <2>4 DEF OwnerOf, Routed
<1>4. QED
  BY <1>2, <1>3

\* A step that leaves the routes alone leaves every owner alone.
LEMMA OwnersKept ==
  ASSUME TableInv, TableStep, routes' = routes
  PROVE  [u \in Urls |-> OwnerOf(u)]' = [u \in Urls |-> OwnerOf(u)]
BY OwnerKept DEF RouteRef

\* Every owner is a channel.
LEMMA OwnerType ==
  ASSUME TableInv, NEW u \in Urls
  PROVE  OwnerOf(u) \in Channels \cup {None}
BY DEF TableInv, TableTypeOK, RoutesOwned, Routed, RouteRef, StreamRefMatches, Stream, OwnerOf

\* A master playlist is an announcement of its channel.
LEMMA MasterAnnounces ==
  ASSUME IInv, NEW channel \in Channels, NEW listing \in Listings[channel],
         MasterPlaylist(channel, listing), UNCHANGED worker
  PROVE  Service!Announce(channel, listing)
<1>1. TableInv /\ TableStep /\ TableInv' /\ listing \subseteq Urls
  BY MasterPlaylistStep, ListingsAssumption DEF IInv, TableStep
<1>2. PICK i \in Slot : /\ SlotFor(channel, i)
                        /\ UpdateStreamMaster(channel, listing, i)
                        /\ RegisterVariantRoutes(listing, i,
                              RecordedStream(channel, listing, i).generation)
  BY DEF MasterPlaylist
<1> DEFINE generation == RecordedStream(channel, listing, i).generation
           seen == [u \in Urls |-> IF u \in listing THEN now ELSE routes[u].lastSeen]
<1>3. PICK kept \in SUBSET Urls :
        /\ KeptRoutes(kept, SurvivingRoutes(i) \cup listing, seen)
        /\ routes' = [u \in Urls |->
                        IF u \notin kept THEN NoRoute
                        ELSE IF u \in listing
                        THEN [slot |-> i, generation |-> generation, lastSeen |-> now]
                        ELSE routes[u]]
  BY <1>2, Zenon DEF RegisterVariantRoutes
<1>4. kept \subseteq SurvivingRoutes(i) \cup listing
  BY <1>3 DEF KeptRoutes
<1>5. streams'[i].channel = channel
  <2> DEFINE fresh == [EmptyStream EXCEPT !.active = TRUE, !.channel = channel,
                                          !.generation = nextGeneration]
             base == IF i \in Holders(channel) THEN streams[i] ELSE fresh
  <2>1. streams[i] \in Stream
    BY <1>1 DEF TableInv, TableTypeOK
  <2>2. EmptyStream \in Stream
    BY BoundsAssumption DEF EmptyStream, Stream, NoBackup, Backup
  <2>3. nextGeneration \in Nat
    BY <1>1 DEF TableInv, TableTypeOK
  <2>4. fresh \in Stream /\ fresh.channel = channel
    BY <2>2, <2>3 DEF Stream
  <2> HIDE DEF fresh
  <2>5. base \in Stream /\ base.channel = channel
    BY <2>1, <2>4 DEF Holders
  <2>6. streams'[i] = [base EXCEPT !.manifest = listing, !.backup = NoBackup,
                                   !.backupCreated = 0, !.lastSeen = now]
    BY <1>2 DEF UpdateStreamMaster, RecordedStream, fresh
  <2> HIDE DEF base
  <2>7. QED
    BY <2>5, <2>6 DEF Stream
<1> HIDE DEF generation, seen
<1>6. ASSUME NEW u \in listing
      PROVE  OwnerOf(u)' \in {channel, None}
  <2>1. u \in Urls
    BY <1>1
  <2>2. routes'[u] = NoRoute \/ routes'[u].slot = i
    BY <1>3, <2>1
  <2>3. QED
    BY <1>5, <2>2 DEF OwnerOf, Routed, NoRoute
<1>7. ASSUME NEW u \in Urls \ listing
      PROVE  OwnerOf(u)' \in {OwnerOf(u), None} \ {channel}
  <2>1. None # channel
    BY ChannelsAssumption
  <2>2. CASE u \notin kept
    BY <1>3, <2>1, <2>2 DEF OwnerOf, Routed, NoRoute
  <2>3. CASE u \in kept
    <3>1. routes'[u] = routes[u] /\ u \in SurvivingRoutes(i)
      BY <1>3, <1>4, <2>3
    <3>2. OwnerOf(u)' = OwnerOf(u)
      BY <1>1, <3>1, OwnerKept DEF RouteRef
    <3>3. Routed(u) /\ routes[u].slot \in Survivors /\ routes[u].slot # i
      BY <3>1 DEF SurvivingRoutes
    <3>4. ASSUME OwnerOf(u) = channel PROVE FALSE
      <4>1. routes[u].slot \in Holders(channel)
        BY <3>3, <3>4 DEF OwnerOf, Holders
      <4>2. i \in Holders(channel)
        BY <1>2, <4>1 DEF SlotFor
      <4>3. /\ i \in Slot /\ streams[i].active /\ streams[i].channel = channel
            /\ routes[u].slot \in Slot /\ streams[routes[u].slot].active
            /\ streams[routes[u].slot].channel = channel
        BY <4>1, <4>2 DEF Holders, Survivors
      <4>4. QED
        BY <1>1, <3>3, <4>3 DEF TableInv, ContextsOwned
    <3>5. QED
      BY <3>2, <3>4
  <2>4. QED
    BY <2>2, <2>3
<1>8. ASSUME NEW u \in Urls PROVE OwnerOf(u)' \in Channels \cup {None}
  BY <1>1, OwnerType DEF TableInv, TableTypeOK, RoutesOwned, Routed, RouteRef,
                         StreamRefMatches, Stream, OwnerOf
<1>9. [w \in Workers |-> RequestOf(w)]' = [w \in Workers |-> RequestOf(w)]
  BY DEF RequestOf
<1>10. QED
  BY <1>1, <1>6, <1>7, <1>8, <1>9 DEF Service!Announce

\* The snapshot is the moment a playlist is asked for.
LEMMA SnapshotAsks ==
  ASSUME IInv, NEW w \in Workers, NEW u \in Urls, NEW ads \in BOOLEAN,
         VariantMapped(w, u, ads) \/ VariantUnmapped(w, u, ads)
  PROVE  Service!Ask(w, u, ads)
<1>1. TableInv /\ TableStep /\ worker \in [Workers -> Worker] /\ routes \in [Urls -> Route]
  BY SnapshotStep DEF IInv, TypeOK, TableTypeOK
<1>2. IdleWorker.pc = "idle" /\ IdleWorker \in Worker
  BY IdleWorkerFacts
<1>3. [v \in Urls |-> OwnerOf(v)]' = [v \in Urls |-> OwnerOf(v)]
  <2>1. SUFFICES ASSUME NEW v \in Urls PROVE OwnerOf(v)' = OwnerOf(v)
    OBVIOUS
  <2>2. CASE VariantMapped(w, u, ads)
    <3>1. RouteRef(v)' = RouteRef(v)
      BY <1>1, <2>2 DEF VariantMapped, StreamForVariant, RouteRef, Route
    <3>2. QED
      BY <1>1, <3>1, OwnerKept
  <2>3. CASE VariantUnmapped(w, u, ads)
    <3>1. ~Routed(u) /\ routes' = [routes EXCEPT ![u] = NoRoute]
      BY <1>1, <2>3 DEF VariantUnmapped, NoStreamForVariant, TableInv, RoutesOwned
    <3>2. CASE v = u
      BY <1>1, <3>1, <3>2 DEF OwnerOf, Routed, NoRoute
    <3>3. CASE v # u
      BY <1>1, <3>1, <3>3, OwnerKept DEF RouteRef
    <3>4. QED
      BY <3>2, <3>3
  <2>4. QED
    BY <2>2, <2>3
<1>4. worker[w].pc = "idle" /\ RequestOf(w).state = "none"
  BY DEF VariantMapped, VariantUnmapped, RequestOf
<1>5. \A v \in Workers : v # w => RequestOf(v)' = RequestOf(v)
  BY <1>1 DEF VariantMapped, VariantUnmapped, RequestOf
<1>6. RequestOf(w)' = [state |-> IF OwnerOf(u) = None THEN "answered" ELSE "asked",
                       channel |-> OwnerOf(u), ads |-> ads]
  <2>1. CASE VariantMapped(w, u, ads)
    <3> DEFINE stream == streams[routes[u].slot]
               pc == IF ~ads THEN "clean"
                     ELSE IF BackupUsable(stream) THEN "cached" ELSE "load"
    <3>1. worker'[w].pc = pc /\ worker'[w].channel = stream.channel
      BY <1>1, <1>2, <2>1 DEF VariantMapped, Worker
    <3>2. OwnerOf(u) = stream.channel /\ stream.channel # None
      BY <1>1, <2>1 DEF VariantMapped, StreamForVariant, OwnerOf, StreamRefMatches, RouteRef,
                        TableInv, GenerationsGiven
    <3>3. /\ pc \in {"clean", "cached", "load"}
          /\ ads <=> pc # "clean"
      OBVIOUS
    <3> HIDE DEF pc, stream
    <3>4. (pc \notin {"idle", "clean"}) = ads
      BY <3>3
    <3>5. QED
      BY <3>1, <3>2, <3>3, <3>4 DEF RequestOf
  <2>2. CASE VariantUnmapped(w, u, ads)
    <3>1. /\ worker'[w].pc = "done" /\ worker'[w].answer.channel = None
          /\ worker'[w].answer.ads = ads
      BY <1>1, <1>2, <2>2 DEF VariantUnmapped, Worker, IdleWorker
    <3>2. ~Routed(u)
      BY <1>1, <2>2 DEF VariantUnmapped, NoStreamForVariant, TableInv, RoutesOwned
    <3>3. QED
      BY <3>1, <3>2 DEF RequestOf, OwnerOf
  <2>3. QED
    BY <2>1, <2>2
<1>7. [v \in Workers |-> RequestOf(v)]'
        = [[v \in Workers |-> RequestOf(v)] EXCEPT ![w] = RequestOf(w)']
  BY <1>5
<1>8. QED
  BY <1>3, <1>4, <1>6, <1>7 DEF Service!Ask

\* A worker that is not done yet is asked, with its own channel.
LEMMA AskedRequest ==
  ASSUME NEW w \in Workers, worker[w].pc \in Pc \ {"idle", "done"}
  PROVE  RequestOf(w) = [state |-> "asked", channel |-> worker[w].channel,
                         ads |-> worker[w].pc # "clean"]
BY DEF RequestOf, Pc

\* Answering is an answer of the service.
LEMMA AnsweredAnswers ==
  ASSUME IInv, TableStep, UNCHANGED routes, NEW w \in Workers,
         worker[w].pc \in Pc \ {"idle", "done"},
         NEW kind, NEW rendition, NEW ads \in BOOLEAN,
         NEW channel, channel = worker[w].channel,
         ads => worker[w].pc # "clean",
         Answered(w, kind, channel, rendition, ads)
  PROVE  Service!Answer(w, ads)
<1>1. TableInv /\ worker \in [Workers -> Worker] /\ IdleWorker \in Worker
  BY IdleWorkerFacts DEF IInv, TypeOK
<1>2. RequestOf(w) = [state |-> "asked", channel |-> worker[w].channel,
                      ads |-> worker[w].pc # "clean"]
  BY AskedRequest
<1>3. /\ worker'[w].pc = "done" /\ worker'[w].answer.channel = channel
      /\ worker'[w].answer.ads = ads
  BY <1>1 DEF Answered, Worker
<1>4. RequestOf(w)' = [state |-> "answered", channel |-> channel, ads |-> ads]
  BY <1>3 DEF RequestOf
<1>5. \A v \in Workers : v # w => RequestOf(v)' = RequestOf(v)
  BY <1>1 DEF Answered, RequestOf
<1> DEFINE request == [v \in Workers |-> RequestOf(v)]
<1>6. request[w].channel = channel
  BY <1>2
<1>7. request' = [request EXCEPT ![w] = RequestOf(w)']
  BY <1>5
<1>8. request' = [request EXCEPT ![w] = [state |-> "answered",
                                         channel |-> request[w].channel, ads |-> ads]]
  BY <1>4, <1>6, <1>7
<1>9. [u \in Urls |-> OwnerOf(u)]' = [u \in Urls |-> OwnerOf(u)]
  BY <1>1, OwnersKept
<1>10. request[w].state = "asked" /\ (ads => request[w].ads)
  BY <1>2
<1>11. QED
  BY <1>8, <1>9, <1>10 DEF Service!Answer

\* A step on the way to the answer is none of the service.
LEMMA OnTheWay ==
  ASSUME IInv, TableStep, UNCHANGED routes, NEW w \in Workers, NEW local,
         worker' = [worker EXCEPT ![w] = local],
         worker[w].pc \in Pc \ {"idle", "clean", "done"},
         local.pc \in Pc \ {"idle", "clean", "done"},
         local.channel = worker[w].channel
  PROVE  UNCHANGED <<[u \in Urls |-> OwnerOf(u)], [v \in Workers |-> RequestOf(v)]>>
<1>1. TableInv /\ worker \in [Workers -> Worker]
  BY DEF IInv, TypeOK
<1>2. worker'[w] = local /\ \A v \in Workers : v # w => worker'[v] = worker[v]
  BY <1>1
<1>3. ASSUME NEW v \in Workers PROVE RequestOf(v)' = RequestOf(v)
  BY <1>2 DEF RequestOf, Pc
<1>4. QED
  BY <1>1, <1>3, OwnersKept

\* Each section of a worker that holds a playlist answers it, takes the
\* answer, or is none of the service.
LEMMA WorkServes ==
  ASSUME IInv, NEW w \in Workers, Work(w)
  PROVE  \/ \E ads \in BOOLEAN : Service!Answer(w, ads)
         \/ Service!Take(w)
         \/ UNCHANGED <<[u \in Urls |-> OwnerOf(u)], [v \in Workers |-> RequestOf(v)]>>
<1> DEFINE me == worker[w]
           asked == Pc \ {"idle", "clean", "done"}
<1>1. /\ TableInv /\ TableStep /\ worker \in [Workers -> Worker] /\ me \in Worker
      /\ IdleWorker \in Worker /\ IdleWorker.pc = "idle"
  BY WorkStep, IdleWorkerFacts DEF IInv, TypeOK
<1>2. CASE CleanOriginal(w)
  <2>1. UNCHANGED routes /\ me.pc = "clean"
    BY <1>2 DEF CleanOriginal, ClearActiveBackup, WriteStream
  <2>2. Service!Answer(w, FALSE)
    BY <1>1, <1>2, <2>1, AnsweredAnswers DEF CleanOriginal, Pc
  <2>3. QED
    BY <2>2
<1>3. CASE CachedClean(w)
  <2>1. UNCHANGED routes /\ me.pc = "cached" /\ me.backup.channel = me.channel
    BY <1>3 DEF CachedClean, tableVars, IInv, HeldOwned
  <2>2. Service!Answer(w, FALSE)
    BY <1>1, <1>3, <2>1, AnsweredAnswers DEF CachedClean, Pc
  <2>3. QED
    BY <2>2
<1>4. CASE CachedHasAds(w) \/ CachedFails(w)
  <2> DEFINE local == [me EXCEPT !.pc = "load", !.backup = NoBackup]
  <2>1. UNCHANGED routes /\ me.pc \in asked /\ worker' = [worker EXCEPT ![w] = local]
    BY <1>1, <1>4
       DEF CachedHasAds, CachedFails, ClearActiveBackup, WriteStream, tableVars, Pc, Worker
  <2>2. local.pc \in asked /\ local.channel = me.channel
    BY <1>1 DEF Worker, Pc
  <2>3. QED
    BY <1>1, <2>1, <2>2, OnTheWay
<1>5. CASE LoadBackupMaster(w)
  <2> DEFINE local == worker'[w]
  <2>1. UNCHANGED routes /\ me.pc \in asked /\ worker' = [worker EXCEPT ![w] = local]
    BY <1>1, <1>5 DEF LoadBackupMaster, tableVars, Pc, Worker
  <2>2. local.pc \in {"variant", "master"} /\ local.channel = me.channel
    BY <1>1, <1>5 DEF LoadBackupMaster, Worker
  <2>3. local.pc \in asked
    BY <2>2 DEF Pc
  <2> HIDE DEF local
  <2>4. QED
    BY <1>1, <2>1, <2>2, <2>3, OnTheWay
<1>6. ASSUME NEW fits \in BOOLEAN, MasterFetched(w, fits)
      PROVE  UNCHANGED <<[u \in Urls |-> OwnerOf(u)], [v \in Workers |-> RequestOf(v)]>>
  <2> DEFINE local == [me EXCEPT !.pc = "variant", !.master = me.channel]
  <2>1. UNCHANGED routes /\ me.pc \in asked /\ worker' = [worker EXCEPT ![w] = local]
    BY <1>1, <1>6 DEF MasterFetched, StoreBackupMaster, WriteStream, tableVars, Pc, Worker
  <2>2. local.pc \in asked /\ local.channel = me.channel
    BY <1>1 DEF Worker, Pc
  <2>3. QED
    BY <1>1, <2>1, <2>2, OnTheWay
<1>7. NextPlayer(w).pc = "load" /\ NextPlayer(w).channel = me.channel
  BY <1>1 DEF NextPlayer, Worker
<1>8. CASE MasterFails(w)
  <2>1. UNCHANGED routes /\ me.pc \in asked /\ worker' = [worker EXCEPT ![w] = NextPlayer(w)]
    BY <1>1, <1>8 DEF MasterFails, tableVars, Pc
  <2>2. NextPlayer(w).pc \in asked
    BY <1>7 DEF Pc
  <2>3. QED
    BY <1>1, <1>7, <2>1, <2>2, OnTheWay
<1>9. CASE AlternateClean(w)
  <2>1. UNCHANGED routes /\ me.pc = "variant" /\ me.master = me.channel
    BY <1>9 DEF AlternateClean, PublishBackup, WriteStream, IInv, HeldOwned
  <2>2. Answered(w, "alternate", me.channel, RenditionOf[me.url], FALSE)
    BY <1>9, <2>1 DEF AlternateClean
  <2>3. Service!Answer(w, FALSE)
    BY <1>1, <2>1, <2>2, AnsweredAnswers DEF Pc
  <2>4. QED
    BY <2>3
<1>10. ASSUME NEW arrived \in BOOLEAN, AlternateUnusable(w, arrived)
       PROVE  UNCHANGED <<[u \in Urls |-> OwnerOf(u)], [v \in Workers |-> RequestOf(v)]>>
  <2> DEFINE local == worker'[w]
             fallback == me.fallback \/ (arrived /\ me.player \in {1, Players})
  <2>1. UNCHANGED routes /\ me.pc \in asked
    BY <1>10 DEF AlternateUnusable, ClearBackupMaster, WriteStream, Pc
  <2>2. worker' = [worker EXCEPT ![w] =
                     IF me.wasCached /\ me.attempt = 1
                     THEN [me EXCEPT !.pc = "load", !.attempt = 2, !.wasCached = FALSE,
                                     !.master = None, !.fallback = fallback]
                     ELSE [NextPlayer(w) EXCEPT !.fallback = fallback]]
    BY <1>10 DEF AlternateUnusable
  <2>3. NextPlayer(w) = [me EXCEPT !.pc = "load", !.player = @ + 1, !.attempt = 1,
                                   !.wasCached = FALSE, !.master = None]
    BY DEF NextPlayer
  <2> HIDE DEF fallback
  <2>4. local.pc = "load" /\ local.channel = me.channel
    BY <1>1, <2>2, <2>3 DEF Worker
  <2>5. worker' = [worker EXCEPT ![w] = local]
    BY <1>1, <2>2
  <2> HIDE DEF local
  <2>6. local.pc \in asked
    BY <2>4 DEF Pc
  <2>7. QED
    BY <1>1, <2>1, <2>4, <2>5, <2>6, OnTheWay
<1>11. CASE AlternatesExhausted(w)
  <2>1. UNCHANGED routes /\ me.pc = "load"
    BY <1>11 DEF AlternatesExhausted, tableVars
  <2> DEFINE kind == IF me.fallback THEN "fallback" ELSE "suppressed"
  <2>2. Answered(w, kind, me.channel, RenditionOf[me.url], TRUE)
    BY <1>11 DEF AlternatesExhausted
  <2> HIDE DEF kind
  <2>3. Service!Answer(w, TRUE)
    BY <1>1, <2>1, <2>2, AnsweredAnswers DEF Pc
  <2>4. QED
    BY <2>3
<1>12. CASE Deliver(w)
  <2>1. [u \in Urls |-> OwnerOf(u)]' = [u \in Urls |-> OwnerOf(u)]
    BY <1>1, <1>12, OwnersKept DEF Deliver, tableVars
  <2>2. RequestOf(w).state = "answered"
    BY <1>12 DEF Deliver, RequestOf
  <2>3. worker'[w] = IdleWorker /\ \A v \in Workers : v # w => worker'[v] = worker[v]
    BY <1>1, <1>12 DEF Deliver
  <2>4. RequestOf(w)' = Service!NoRequest
    <3>1. worker'[w].pc = "idle" /\ worker'[w].channel = None
      BY <2>3 DEF IdleWorker
    <3>2. (worker'[w].pc \notin {"idle", "clean"}) = FALSE
      BY <3>1
    <3>3. QED
      BY <3>1, <3>2 DEF RequestOf, Service!NoRequest
  <2>5. \A v \in Workers : v # w => RequestOf(v)' = RequestOf(v)
    BY <2>3 DEF RequestOf
  <2>6. QED
    BY <2>1, <2>2, <2>4, <2>5 DEF Service!Take
<1>13. QED
  BY <1>2, <1>3, <1>4, <1>5, <1>6, <1>8, <1>9, <1>10, <1>11, <1>12 DEF Work

\* The service starts where the tables do.
LEMMA InitServes == Init => Service!Init
<1> SUFFICES ASSUME Init PROVE Service!Init
  OBVIOUS
<1>1. \A u \in Urls : OwnerOf(u) = None
  BY DEF Init, TableInit, OwnerOf, Routed, NoRoute
<1>2. \A w \in Workers : RequestOf(w) = Service!NoRequest
  BY DEF Init, RequestOf, IdleWorker, Service!NoRequest
<1>3. QED
  BY <1>1, <1>2 DEF Service!Init

\* Every step maps to a step of the service or leaves it alone.
LEMMA NextServes ==
  ASSUME IInv, [Next]_vars
  PROVE  [Service!Next]_(Service!serviceVars)
<1>1. CASE Environment
  <2>1. CASE Tick /\ UNCHANGED worker
    <3>1. TableInv /\ TableStep /\ UNCHANGED routes
      BY <2>1, TickStep DEF IInv, Tick
    <3>2. [w \in Workers |-> RequestOf(w)]' = [w \in Workers |-> RequestOf(w)]
      BY <2>1 DEF RequestOf
    <3>3. QED
      BY <3>1, <3>2, OwnersKept DEF Service!serviceVars
  <2>2. ASSUME NEW channel \in Channels, NEW listing \in Listings[channel],
               MasterPlaylist(channel, listing), UNCHANGED worker
        PROVE  Service!Next
    BY <2>2, MasterAnnounces DEF Service!Next
  <2>3. QED
    BY <1>1, <2>1, <2>2 DEF Environment
<1>2. ASSUME NEW w \in Workers, NEW u \in Urls, NEW ads \in BOOLEAN,
             VariantMapped(w, u, ads) \/ VariantUnmapped(w, u, ads)
      PROVE  Service!Next
  BY <1>2, SnapshotAsks DEF Service!Next
<1>3. ASSUME NEW w \in Workers, Work(w)
      PROVE  [Service!Next]_(Service!serviceVars)
  BY <1>3, WorkServes DEF Service!Next, Service!serviceVars
<1>4. CASE UNCHANGED vars
  BY <1>4 DEF vars, OwnerOf, Routed, RequestOf, Service!serviceVars
<1>5. QED
  BY <1>1, <1>2, <1>3, <1>4 DEF Next

\* The threads implement the service, for any number of threads, channels,
\* contexts and routes.
THEOREM Implements == Spec => ImplementsService
<1>1. Init => Service!Init
  BY InitServes
<1>2. IInv /\ [Next]_vars => [Service!Next]_(Service!serviceVars)
  BY NextServes
<1>3. QED
  BY <1>1, <1>2, Inductive, PTL DEF Spec, ImplementsService, Service!Spec

============================================================================
