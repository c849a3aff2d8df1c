--------------------------- MODULE ServicesProofs ---------------------------
(***************************************************************************)
(* The services around the players, for any sizes: the promises of a       *)
(* protocol instance to its client, those of the log and of the privacy    *)
(* labels, the set of a room whatever the order of arrival, and what is    *)
(* kept of a chat message when emotes are put into it.                     *)
(***************************************************************************)
EXTENDS UrlProtocol, DiagnosticLog, PrivacyLabels, LocalMessages, EmoteNames, Loops,
        SequenceTheorems, FiniteSetTheorems, TLAPS

-----------------------------------------------------------------------------
(* UrlProtocol.  Its promises are about one instance at a time, so the      *)
(* invariant is too: LoadOK says what may be true of it between two steps.  *)

Orders == {<<>>, <<"fail">>, <<"response">>, <<"response", "data">>,
           <<"response", "finish">>, <<"response", "data", "finish">>}

\* Whoever delivers holds the monitor, nothing is delivered before or twice,
\* and the position inside protocol_deliver tells which callbacks were made.
Delivering(r) == r.start = "delivering" \/ r.completion = "delivering"

LoadOK(r) ==
    /\ r.at = "out" <=> ~Delivering(r)
    /\ r.start # "done" => r.completion = "none"
    /\ r.start \in {"new", "synthetic", "preparing"} => r.callbacks = <<>>
    /\ r.completion \in {"network", "queued", "processing", "ready"} => r.callbacks = <<>>
    /\ r.at \in {"entered", "fail", "response"} => r.callbacks = <<>>
    /\ r.at \in {"responded", "data"} => r.callbacks = <<"response">>
    /\ r.at = "loaded" => r.callbacks = <<"response", "data">>
    /\ r.at = "finish" => r.callbacks \in {<<"response">>, <<"response", "data">>}
    /\ r.callbacks \in Orders
    /\ r.at \in Callback => ~r.stopped
    /\ r.completion = "network" => r.task \/ r.cancelled
    /\ r.task => ~r.stopped /\ r.completion \in Completion \ {"none", "done"}

LoadsOK == load \in [Loads -> Load] /\ \A l \in Loads : LoadOK(load[l])

\* One instance moves.
LEMMA LoadAdvance ==
  ASSUME LoadsOK, NEW l \in Loads, NEW r \in Load, LoadOK(r),
         load' = [load EXCEPT ![l] = r]
  PROVE  LoadsOK'
BY DEF LoadsOK, LoadOK, Delivering

\* Appending to a sequence of one or two elements.
LEMMA AppendToOne ==
  ASSUME NEW S, NEW a \in S, NEW b \in S
  PROVE  Append(<<a>>, b) = <<a, b>>
<1> DEFINE s == Append(<<a>>, b)
           t == <<a, b>>
<1>1. <<a>> \in Seq(S) /\ Len(<<a>>) = 1 /\ <<a>>[1] = a
  OBVIOUS
<1>2. s \in Seq(S) /\ Len(s) = 2 /\ s[1] = <<a>>[1] /\ s[2] = b
  BY <1>1, AppendProperties
<1>3. t \in Seq(S) /\ Len(t) = 2 /\ t[1] = a /\ t[2] = b
  OBVIOUS
<1> HIDE DEF s, t
<1>4. \A n \in 1 .. Len(s) : s[n] = t[n]
  BY <1>1, <1>2, <1>3
<1>5. s = t
  BY <1>2, <1>3, <1>4, SeqEqual
<1>6. QED
  BY <1>5 DEF s, t

\* Appending, for the callbacks of a delivery.
LEMMA AppendToTwo ==
  ASSUME NEW S, NEW a \in S, NEW b \in S, NEW c \in S
  PROVE  Append(<<a, b>>, c) = <<a, b, c>>
<1> DEFINE s == Append(<<a, b>>, c)
           t == <<a, b, c>>
<1>1. /\ <<a, b>> \in Seq(S) /\ Len(<<a, b>>) = 2
      /\ <<a, b>>[1] = a /\ <<a, b>>[2] = b
  OBVIOUS
<1>2. /\ s \in Seq(S) /\ Len(s) = 3
      /\ s[1] = <<a, b>>[1] /\ s[2] = <<a, b>>[2] /\ s[3] = c
  BY <1>1, AppendProperties
<1>3. t \in Seq(S) /\ Len(t) = 3 /\ t[1] = a /\ t[2] = b /\ t[3] = c
  OBVIOUS
<1> HIDE DEF s, t
<1>4. \A n \in 1 .. Len(s) : s[n] = t[n]
  BY <1>1, <1>2, <1>3
<1>5. s = t
  BY <1>2, <1>3, <1>4, SeqEqual
<1>6. QED
  BY <1>5 DEF s, t

\* What the steps of a delivery append.
LEMMA AppendCallback ==
  /\ Append(<<>>, "fail") = <<"fail">>
  /\ Append(<<>>, "response") = <<"response">>
  /\ Append(<<"response">>, "data") = <<"response", "data">>
  /\ Append(<<"response">>, "finish") = <<"response", "finish">>
  /\ Append(<<"response", "data">>, "finish") = <<"response", "data", "finish">>
<1>1. Append(<<>>, "fail") = <<"fail">> /\ Append(<<>>, "response") = <<"response">>
  OBVIOUS
<1>2. \A a, b, c \in Callback : /\ Append(<<a>>, b) = <<a, b>>
                                /\ Append(<<a, b>>, c) = <<a, b, c>>
  BY AppendToOne, AppendToTwo
<1>3. "response" \in Callback /\ "data" \in Callback /\ "finish" \in Callback
  BY DEF Callback
<1>4. QED
  BY <1>1, <1>2, <1>3

\* The steps that start a load or hand it from one thread to the next.
LEMMA HandOver ==
  ASSUME LoadsOK, NEW l \in Loads,
         \/ StartSynthetic(l) \/ StartNetwork(l)
         \/ \E created \in BOOLEAN : CreateTask(l, created)
         \/ \E reply \in Reply : Respond(l, reply)
         \/ Complete(l) \/ Processed(l) \/ EnterSynthetic(l) \/ EnterCompletion(l)
  PROVE  LoadsOK' /\ load'[l].callbacks = load[l].callbacks
<1> DEFINE r == load'[l]
<1>1. load \in [Loads -> Load] /\ load[l] \in Load /\ LoadOK(load[l])
  BY DEF LoadsOK
<1>2. load' = [load EXCEPT ![l] = r]
  BY <1>1 DEF StartSynthetic, StartNetwork, CreateTask, Respond, Complete, Processed,
              EnterSynthetic, EnterCompletion
<1>3. CASE StartSynthetic(l)
  <2>1. r = [load[l] EXCEPT !.start = "synthetic", !.reply = "body"] /\ load[l].start = "new"
    BY <1>1, <1>3 DEF StartSynthetic
  <2>2. r \in Load /\ LoadOK(r) /\ r.callbacks = load[l].callbacks
    BY <1>1, <2>1 DEF Load, Start, Reply, LoadOK, Delivering
  <2>3. QED
    BY <1>2, <2>2, LoadAdvance
<1>4. CASE StartNetwork(l)
  BY <1>1, <1>2, <1>4, LoadAdvance DEF StartNetwork, Load, Start, LoadOK, Delivering
<1>5. ASSUME NEW created \in BOOLEAN, CreateTask(l, created)
      PROVE  LoadsOK' /\ r.callbacks = load[l].callbacks
  <2>1. load[l].start = "preparing" /\ load[l].at = "out"
    BY <1>5 DEF CreateTask, Free
  <2>2. CASE load[l].stopped
    BY <1>1, <1>2, <1>5, <2>1, <2>2, LoadAdvance
       DEF CreateTask, Load, Start, LoadOK, Delivering
  <2>3. CASE ~load[l].stopped /\ created
    BY <1>1, <1>2, <1>5, <2>1, <2>3, LoadAdvance
       DEF CreateTask, Load, Start, Completion, LoadOK, Delivering
  <2>4. CASE ~load[l].stopped /\ ~created
    BY <1>1, <1>2, <1>5, <2>1, <2>4, LoadAdvance
       DEF CreateTask, Load, Start, At, Reply, Callback, LoadOK, Delivering
  <2>5. QED
    BY <2>2, <2>3, <2>4
<1>6. ASSUME NEW reply \in Reply, Respond(l, reply)
      PROVE  LoadsOK' /\ r.callbacks = load[l].callbacks
  <2>1. /\ r = [load[l] EXCEPT !.completion = "queued", !.reply = reply]
        /\ load[l].completion = "network"
    BY <1>1, <1>6 DEF Respond
  <2>2. r \in Load /\ LoadOK(r) /\ r.callbacks = load[l].callbacks
    BY <1>1, <2>1 DEF Load, Completion, LoadOK, Delivering
  <2>3. QED
    BY <1>2, <2>2, LoadAdvance
<1>7. CASE Complete(l)
  BY <1>1, <1>2, <1>7, LoadAdvance DEF Complete, Load, Completion, LoadOK, Delivering
<1>8. CASE Processed(l)
  BY <1>1, <1>2, <1>8, LoadAdvance DEF Processed, Load, Completion, LoadOK, Delivering
<1>9. CASE EnterSynthetic(l)
  BY <1>1, <1>2, <1>9, LoadAdvance
     DEF EnterSynthetic, Free, Load, Start, At, Callback, LoadOK, Delivering
<1>10. CASE EnterCompletion(l)
  BY <1>1, <1>2, <1>10, LoadAdvance
     DEF EnterCompletion, Free, Load, Completion, At, Callback, LoadOK, Delivering
<1>11. QED
  BY <1>3, <1>4, <1>5, <1>6, <1>7, <1>8, <1>9, <1>10

\* The steps of a delivery.  A callback is made only of a load that is not
\* stopped: nobody can stop it between Judge and Call.
LEMMA DeliveryStep ==
  ASSUME LoadsOK, NEW l \in Loads, Judge(l) \/ Call(l) \/ Leave(l)
  PROVE  LoadsOK' /\ (load[l].stopped => load'[l].callbacks = load[l].callbacks)
<1> DEFINE r == load'[l]
<1>1. load \in [Loads -> Load] /\ load[l] \in Load /\ LoadOK(load[l])
  BY DEF LoadsOK
<1>2. load' = [load EXCEPT ![l] = r]
  BY <1>1 DEF Judge, Call, Leave
<1>3. CASE Judge(l)
  <2> DEFINE stage == IF load[l].stopped THEN "leave"
                   ELSE IF load[l].at = "entered"
                   THEN IF load[l].reply = "error" THEN "fail" ELSE "response"
                   ELSE IF load[l].at = "responded" /\ load[l].reply = "body" THEN "data"
                   ELSE "finish"
  <2>1. r = [load[l] EXCEPT !.at = stage] /\ load[l].at \in {"entered", "responded", "loaded"}
    BY <1>1, <1>3 DEF Judge
  <2>2. /\ stage \in {"leave", "fail", "response", "data", "finish"}
        /\ stage # "leave" => ~load[l].stopped
        /\ stage \in {"fail", "response"} => load[l].at = "entered"
        /\ stage = "data" => load[l].at = "responded"
        /\ stage = "finish" => load[l].at \in {"responded", "loaded"}
    BY <2>1
  <2> HIDE DEF stage
  <2>3. r \in Load /\ LoadOK(r) /\ r.callbacks = load[l].callbacks
    BY <1>1, <2>1, <2>2 DEF Load, At, Callback, LoadOK, Delivering
  <2>4. QED
    BY <1>2, <2>3, LoadAdvance
<1>4. CASE Call(l)
  <2> DEFINE stage == IF load[l].at = "response" THEN "responded"
                   ELSE IF load[l].at = "data" THEN "loaded" ELSE "leave"
             callbacks == Append(load[l].callbacks, load[l].at)
  <2>1. /\ r = [load[l] EXCEPT !.callbacks = callbacks, !.at = stage]
        /\ load[l].at \in Callback /\ ~load[l].stopped
    BY <1>1, <1>4 DEF Call, LoadOK
  <2>2. /\ load[l].at = "fail" => callbacks = <<"fail">> /\ stage = "leave"
        /\ load[l].at = "response" => callbacks = <<"response">> /\ stage = "responded"
        /\ load[l].at = "data" => callbacks = <<"response", "data">> /\ stage = "loaded"
        /\ load[l].at = "finish" =>
             callbacks \in {<<"response", "finish">>, <<"response", "data", "finish">>}
               /\ stage = "leave"
    BY <1>1, <2>1, AppendCallback DEF LoadOK, Callback
  <2>3. callbacks \in Seq(Callback)
    BY <1>1, <2>1 DEF Load
  <2>4. callbacks \in Orders
    BY <2>1, <2>2 DEF Orders, Callback
  <2>5. stage \in {"responded", "loaded", "leave"}
    OBVIOUS
  <2>6. /\ stage = "responded" => callbacks = <<"response">>
        /\ stage = "loaded" => callbacks = <<"response", "data">>
    BY <2>1, <2>2 DEF Callback
  <2> HIDE DEF stage, callbacks
  <2>7. r \in Load
    BY <1>1, <2>1, <2>3, <2>5 DEF Load, At
  <2>8. /\ r.at = stage /\ r.callbacks = callbacks /\ r.start = load[l].start
        /\ r.completion = load[l].completion /\ r.stopped = load[l].stopped
        /\ r.task = load[l].task /\ r.cancelled = load[l].cancelled
    BY <1>1, <2>1 DEF Load
  <2>9. load[l].at # "out"
    BY <2>1 DEF Callback
  <2>10. LoadOK(r)
    BY <1>1, <2>4, <2>5, <2>6, <2>8, <2>9 DEF LoadOK, Delivering, Callback
  <2>11. QED
    BY <1>2, <2>1, <2>7, <2>10, LoadAdvance
<1>5. CASE Leave(l)
  <2> DEFINE completion == IF load[l].completion = "delivering" THEN "done"
                           ELSE load[l].completion
  <2>1. /\ r = [load[l] EXCEPT !.at = "out", !.task = FALSE, !.start = "done",
                               !.completion = completion]
        /\ load[l].at = "leave"
    BY <1>1, <1>5 DEF Leave
  <2>2. completion \in Completion \ {"delivering"}
    BY <1>1 DEF Load, Completion
  <2>3. completion \in {"none", "done"}
    BY <1>1, <2>1 DEF LoadOK, Delivering
  <2> HIDE DEF completion
  <2>4. r \in Load /\ LoadOK(r) /\ r.callbacks = load[l].callbacks
    BY <1>1, <2>1, <2>2, <2>3 DEF Load, At, Start, Callback, LoadOK, Delivering
  <2>5. QED
    BY <1>2, <2>4, LoadAdvance
<1>6. QED
  BY <1>3, <1>4, <1>5

\* A stop finds the monitor free, or comes from inside a callback.
LEMMA StopStep ==
  ASSUME LoadsOK, NEW l \in Loads, Stop(l)
  PROVE  LoadsOK' /\ load'[l].callbacks = load[l].callbacks
<1> DEFINE r == [load[l] EXCEPT !.stopped = TRUE, !.task = FALSE,
                                !.cancelled = load[l].cancelled \/ load[l].task]
<1>1. load \in [Loads -> Load] /\ load[l] \in Load /\ LoadOK(load[l])
  BY DEF LoadsOK
<1>2. load' = [load EXCEPT ![l] = r] /\ load[l].at \notin Callback
  BY <1>1 DEF Stop, MayStop, Free, Callback
<1>3. r \in Load
  BY <1>1 DEF Load
<1>4. LoadOK(r) /\ r.callbacks = load[l].callbacks
  BY <1>1, <1>2 DEF Load, LoadOK, Delivering
<1> HIDE DEF r
<1>5. QED
  BY <1>1, <1>2, <1>3, <1>4, LoadAdvance

\* LoadsOK is inductive, and no step gives a stopped load a callback.
LEMMA LoadsStep ==
  ASSUME LoadsOK, [Next]_vars
  PROVE  /\ LoadsOK'
         /\ \A l \in Loads : load[l].stopped => load'[l].callbacks = load[l].callbacks
<1>1. ASSUME NEW l \in Loads, StartSynthetic(l) \/ StartNetwork(l) \/ Stop(l) \/ Advance(l)
      PROVE  LoadsOK' /\ (load[l].stopped => load'[l].callbacks = load[l].callbacks)
  BY <1>1, HandOver, DeliveryStep, StopStep DEF Advance
<1>2. ASSUME NEW l \in Loads, StartSynthetic(l) \/ StartNetwork(l) \/ Stop(l) \/ Advance(l)
      PROVE  \A m \in Loads : m # l => load'[m] = load[m]
  BY <1>2 DEF LoadsOK, Advance, StartSynthetic, StartNetwork, CreateTask, Respond, Complete,
              Processed, EnterSynthetic, EnterCompletion, Judge, Call, Leave, Stop
<1>3. CASE UNCHANGED vars
  BY <1>3 DEF vars, LoadsOK
<1>4. QED
  BY <1>1, <1>2, <1>3 DEF Next

\* The invariant holds of every reachable state.
LEMMA LoadsAlwaysOK == Spec => []LoadsOK
<1>1. Init => LoadsOK
  <2> SUFFICES ASSUME Init PROVE LoadsOK
    OBVIOUS
  <2> DEFINE r == [start |-> "new", completion |-> "none", reply |-> "error",
                   stopped |-> FALSE, task |-> FALSE, cancelled |-> FALSE,
                   at |-> "out", callbacks |-> <<>>]
  <2>1. load = [l \in Loads |-> r]
    BY DEF Init
  <2>2. <<>> \in Seq(Callback) /\ <<>> \in Orders
    BY DEF Orders
  <2>3. r \in Load
    BY <2>2 DEF Load, Start, Completion, Reply, At
  <2>4. LoadOK(r)
    BY <2>2 DEF LoadOK, Delivering, Callback
  <2>5. QED
    BY <2>1, <2>3, <2>4 DEF LoadsOK
<1>2. LoadsOK /\ [Next]_vars => LoadsOK'
  BY LoadsStep
<1>3. QED
  BY <1>1, <1>2, PTL DEF Spec

\* A load that is stopped, from whatever thread and at whatever moment,
\* calls its client no more.
THEOREM AlwaysQuiet == Spec => QuietAfterStop
<1>1. LoadsOK /\ [Next]_vars =>
        \A l \in Loads : load[l].stopped => load'[l].callbacks = load[l].callbacks
  BY LoadsStep
<1>2. QED
  BY <1>1, LoadsAlwaysOK, PTL DEF Spec, QuietAfterStop

\* A client sees one delivery, in order.
THEOREM AlwaysInOrder == Spec => []CallbacksInOrder
<1>1. LoadsOK => CallbacksInOrder
  BY DEF LoadsOK, LoadOK, Orders, CallbacksInOrder
<1>2. QED
  BY <1>1, LoadsAlwaysOK, PTL

\* No task runs on for a load that was stopped, and a load at rest holds none.
THEOREM AlwaysAccounted == Spec => []TaskAccounted
<1>1. LoadsOK => StoppedCancelled
  BY DEF LoadsOK, LoadOK, StoppedCancelled
<1>2. LoadsOK => TaskReleased
  BY DEF LoadsOK, LoadOK, TaskReleased, Completion
<1>3. LoadsOK => TaskAccounted
  BY <1>1, <1>2 DEF TaskAccounted
<1>4. QED
  BY <1>3, LoadsAlwaysOK, PTL

Waiting == {"queued", "processing", "ready", "delivering"}

\* The part of TypeOK that is about the queue.
QueueOK ==
    /\ queue \in Seq(Loads) /\ IsInjective(queue)
    /\ Range(queue) = {l \in Loads : load[l].completion \in Waiting}
    /\ \A n \in DOMAIN queue : load[queue[n]].completion # "queued" => n = 1

\* A load that has got past the start of protocol_complete is the first.
LEMMA RunningIsFirst ==
  ASSUME QueueOK, NEW l \in Loads, load[l].completion \in Waiting \ {"queued"}
  PROVE  queue # <<>> /\ queue[1] = l
<1>1. l \in Range(queue)
  BY DEF QueueOK
<1>2. PICK n \in DOMAIN queue : queue[n] = l
  BY <1>1 DEF Range
<1>3. n = 1
  BY <1>2 DEF QueueOK
<1>4. QED
  BY <1>2, <1>3 DEF QueueOK

\* A step that leaves the queue alone, and lets none past but the first.
LEMMA SameQueue ==
  ASSUME QueueOK, NEW l \in Loads, queue' = queue,
         \A m \in Loads : m # l => load'[m] = load[m],
         load'[l].completion \in Waiting <=> load[l].completion \in Waiting,
         load'[l].completion # load[l].completion =>
            load'[l].completion \notin Waiting \/ queue[1] = l
  PROVE  QueueOK'
<1>1. Range(queue)' = Range(queue)
  BY DEF Range
<1>2. \A m \in Loads : load'[m].completion \in Waiting <=> load[m].completion \in Waiting
  OBVIOUS
<1>3. ASSUME NEW n \in DOMAIN queue, load'[queue[n]].completion # "queued"
      PROVE  n = 1
  <2>1. queue[n] \in Loads /\ queue[n] \in Range(queue)
    BY DEF QueueOK, Range
  <2>2. CASE load'[queue[n]].completion = load[queue[n]].completion
    BY <1>3, <2>2 DEF QueueOK
  <2>3. CASE load'[queue[n]].completion # load[queue[n]].completion
    <3>1. queue[n] = l
      BY <2>1, <2>3
    <3>2. load[l].completion \in Waiting
      BY <2>1, <3>1 DEF QueueOK
    <3>3. queue[1] = l /\ 1 \in DOMAIN queue
      BY <2>3, <3>1, <3>2 DEF QueueOK
    <3>4. QED
      BY <3>1, <3>3 DEF QueueOK, IsInjective
  <2>4. QED
    BY <2>2, <2>3
<1>4. QED
  BY <1>1, <1>2, <1>3 DEF QueueOK

\* A completion comes to the end of the queue.
LEMMA JoinQueue ==
  ASSUME QueueOK, NEW l \in Loads, load[l].completion = "network",
         load'[l].completion = "queued", \A m \in Loads : m # l => load'[m] = load[m],
         queue' = Append(queue, l)
  PROVE  QueueOK'
<1>1. /\ queue \in Seq(Loads) /\ queue' \in Seq(Loads) /\ Len(queue') = Len(queue) + 1
      /\ \A n \in 1 .. Len(queue) : queue'[n] = queue[n]
      /\ queue'[Len(queue) + 1] = l
  BY AppendProperties DEF QueueOK
<1>2. l \notin Range(queue)
  BY DEF QueueOK, Waiting
<1>3. DOMAIN queue = 1 .. Len(queue) /\ DOMAIN queue' = 1 .. Len(queue) + 1
      /\ Len(queue) \in Nat
  BY <1>1
<1>4. \A n \in 1 .. Len(queue) : queue[n] # l /\ queue[n] \in Loads
  BY <1>1, <1>2, <1>3 DEF Range
<1>5. ASSUME NEW n \in DOMAIN queue', NEW m \in DOMAIN queue', queue'[n] = queue'[m]
      PROVE  n = m
  <2>1. /\ n \in 1 .. Len(queue) \/ n = Len(queue) + 1
        /\ m \in 1 .. Len(queue) \/ m = Len(queue) + 1
    BY <1>3
  <2>2. CASE n \in 1 .. Len(queue) /\ m \in 1 .. Len(queue)
    BY <1>1, <1>3, <1>5, <2>2 DEF QueueOK, IsInjective
  <2>3. QED
    BY <1>1, <1>4, <1>5, <2>1, <2>2
<1>6. Range(queue') = Range(queue) \cup {l}
  BY <1>1, <1>3 DEF Range
<1>7. \A m \in Loads : load'[m].completion \in Waiting <=>
                         load[m].completion \in Waiting \/ m = l
  BY DEF Waiting
<1>8. Range(queue') = {m \in Loads : load'[m].completion \in Waiting}
  BY <1>6, <1>7 DEF QueueOK
<1>9. \A n \in DOMAIN queue' : load'[queue'[n]].completion # "queued" => n = 1
  BY <1>1, <1>3, <1>4 DEF QueueOK
<1>10. IsInjective(queue')
  BY <1>5 DEF IsInjective
<1>11. QED
  BY <1>1, <1>8, <1>9, <1>10 DEF QueueOK, Range, IsInjective

\* The first completion returns; the others are all still queued.
LEMMA LeaveQueue ==
  ASSUME QueueOK, NEW l \in Loads, queue # <<>>, queue[1] = l,
         load'[l].completion = "done", \A m \in Loads : m # l => load'[m] = load[m],
         queue' = Tail(queue)
  PROVE  QueueOK'
<1>1. /\ queue \in Seq(Loads) /\ queue' \in Seq(Loads) /\ Len(queue') = Len(queue) - 1
      /\ \A n \in 1 .. Len(queue) - 1 : queue'[n] = queue[n + 1]
  BY HeadTailProperties DEF QueueOK
<1>2. /\ DOMAIN queue = 1 .. Len(queue) /\ DOMAIN queue' = 1 .. Len(queue) - 1
      /\ Len(queue) \in Nat /\ 1 \in DOMAIN queue
  BY <1>1
<1>3. \A n \in DOMAIN queue' : /\ n + 1 \in DOMAIN queue /\ n + 1 # 1
                               /\ queue'[n] = queue[n + 1] /\ queue'[n] # l
  BY <1>1, <1>2 DEF QueueOK, IsInjective
<1>4. \A n, m \in DOMAIN queue' : queue'[n] = queue'[m] => n = m
  BY <1>2, <1>3 DEF QueueOK, IsInjective
<1>5. ASSUME NEW m \in Loads
      PROVE  m \in Range(queue') <=> m \in Range(queue) /\ m # l
  <2>1. m \in Range(queue') => m \in Range(queue) /\ m # l
    BY <1>3 DEF Range
  <2>2. ASSUME m \in Range(queue), m # l
        PROVE  m \in Range(queue')
    <3>1. PICK n \in DOMAIN queue : queue[n] = m
      BY <2>2 DEF Range
    <3>2. n - 1 \in DOMAIN queue' /\ queue'[n - 1] = m
      BY <1>1, <1>2, <2>2, <3>1
    <3>3. QED
      BY <3>2 DEF Range
  <2>3. QED
    BY <2>1, <2>2
<1>6. Range(queue') \subseteq Loads
  BY <1>1 DEF Range
<1>7. \A m \in Loads : load'[m].completion \in Waiting <=>
                         load[m].completion \in Waiting /\ m # l
  BY DEF Waiting
<1>8. Range(queue') = {m \in Loads : load'[m].completion \in Waiting}
  BY <1>5, <1>6, <1>7 DEF QueueOK
<1>9. \A n \in DOMAIN queue' : load'[queue'[n]].completion = "queued"
  <2>1. SUFFICES ASSUME NEW n \in DOMAIN queue'
                 PROVE  load'[queue'[n]].completion = "queued"
    OBVIOUS
  <2>2. queue'[n] = queue[n + 1] /\ queue'[n] # l /\ queue'[n] \in Loads
    BY <1>1, <1>3
  <2>3. QED
    BY <1>3, <2>2 DEF QueueOK
<1>10. IsInjective(queue')
  BY <1>4 DEF IsInjective
<1>11. QED
  BY <1>1, <1>8, <1>9, <1>10 DEF QueueOK, Range, IsInjective

\* What one load's step does to the queue.
LEMMA QueueStep ==
  ASSUME LoadsOK, QueueOK, NEW l \in Loads,
         StartSynthetic(l) \/ StartNetwork(l) \/ Stop(l) \/ Advance(l)
  PROVE  QueueOK'
<1>1. /\ load \in [Loads -> Load] /\ load[l] \in Load /\ LoadOK(load[l])
      /\ \A m \in Loads : m # l => load'[m] = load[m]
  BY DEF LoadsOK, Advance, StartSynthetic, StartNetwork, CreateTask, Respond, Complete,
         Processed, EnterSynthetic, EnterCompletion, Judge, Call, Leave, Stop
<1>2. CASE StartSynthetic(l) \/ StartNetwork(l) \/ Stop(l) \/ EnterSynthetic(l)
             \/ Judge(l) \/ Call(l)
  <2>1. queue' = queue /\ load'[l].completion = load[l].completion
    BY <1>1, <1>2 DEF Load, StartSynthetic, StartNetwork, Stop, EnterSynthetic, Judge, Call
  <2>2. QED
    BY <1>1, <2>1, SameQueue
<1>3. ASSUME NEW created \in BOOLEAN, CreateTask(l, created)
      PROVE  QueueOK'
  <2>1. queue' = queue /\ load[l].completion = "none"
    BY <1>1, <1>3 DEF CreateTask, LoadOK
  <2>2. load'[l].completion \in {"none", "network"}
    BY <1>1, <1>3, <2>1 DEF CreateTask, Load
  <2>3. QED
    BY <1>1, <2>1, <2>2, SameQueue DEF Waiting
<1>4. ASSUME NEW reply \in Reply, Respond(l, reply)
      PROVE  QueueOK'
  <2>1. /\ load[l].completion = "network" /\ queue' = Append(queue, l)
        /\ load'[l].completion = "queued"
    BY <1>1, <1>4 DEF Respond, Load
  <2>2. QED
    BY <1>1, <2>1, JoinQueue
<1>5. CASE Complete(l)
  <2>1. /\ load[l].completion = "queued" /\ l = Head(queue)
        /\ load'[l].completion = IF load[l].stopped THEN "done" ELSE "processing"
        /\ queue' = IF load[l].stopped THEN Tail(queue) ELSE queue
    BY <1>1, <1>5 DEF Complete, Load
  <2>2. l \in Range(queue)
    BY <2>1 DEF QueueOK, Waiting
  <2>3. queue # <<>> /\ queue[1] = l
    BY <2>1, <2>2 DEF Range, QueueOK
  <2>4. CASE load[l].stopped
    BY <1>1, <2>1, <2>3, <2>4, LeaveQueue
  <2>5. CASE ~load[l].stopped
    BY <1>1, <2>1, <2>3, <2>5, SameQueue DEF Waiting
  <2>6. QED
    BY <2>4, <2>5
<1>6. CASE Processed(l) \/ EnterCompletion(l)
  <2>1. /\ queue' = queue /\ load[l].completion \in Waiting \ {"queued"}
        /\ load'[l].completion \in Waiting
    BY <1>1, <1>6 DEF Processed, EnterCompletion, Waiting, Load
  <2>2. QED
    BY <1>1, <2>1, RunningIsFirst, SameQueue
<1>7. CASE Leave(l)
  <2>1. CASE load[l].completion = "delivering"
    <3>1. load'[l].completion = "done" /\ queue' = Tail(queue)
      BY <1>1, <1>7, <2>1 DEF Leave, Load
    <3>2. queue # <<>> /\ queue[1] = l
      BY <2>1, RunningIsFirst DEF Waiting
    <3>3. QED
      BY <1>1, <3>1, <3>2, LeaveQueue
  <2>2. CASE load[l].completion # "delivering"
    <3>1. load'[l].completion = load[l].completion /\ queue' = queue
      BY <1>1, <1>7, <2>2 DEF Leave, Load
    <3>2. QED
      BY <1>1, <3>1, SameQueue
  <2>3. QED
    BY <2>1, <2>2
<1>8. QED
  BY <1>2, <1>3, <1>4, <1>5, <1>6, <1>7 DEF Advance

\* The delegate queue: it holds the loads whose completion has not returned,
\* each once, and only the first of them is past protocol_complete's start.
THEOREM TypeCorrect == Spec => []TypeOK
<1>1. Init => QueueOK
  <2> SUFFICES ASSUME Init PROVE QueueOK
    OBVIOUS
  <2>1. queue = <<>> /\ \A l \in Loads : load[l].completion \notin Waiting
    BY DEF Init, Waiting
  <2>2. queue \in Seq(Loads) /\ DOMAIN queue = {}
    BY <2>1
  <2>3. Range(queue) = {}
    BY <2>2 DEF Range
  <2>4. QED
    BY <2>1, <2>2, <2>3 DEF QueueOK, IsInjective
<1>2. QueueOK /\ LoadsOK /\ [Next]_vars => QueueOK'
  <2> SUFFICES ASSUME QueueOK, LoadsOK, [Next]_vars PROVE QueueOK'
    OBVIOUS
  <2>1. CASE UNCHANGED vars
    BY <2>1 DEF vars, QueueOK, Range, IsInjective
  <2>2. QED
    BY <2>1, QueueStep DEF Next
<1>3. QueueOK /\ LoadsOK => TypeOK
  BY DEF QueueOK, LoadsOK, TypeOK, Waiting
<1>4. QED
  BY <1>1, <1>2, <1>3, LoadsAlwaysOK, PTL DEF Spec

-----------------------------------------------------------------------------
(* DiagnosticLog                                                           *)

Line == [launch : Nat, rotated : BOOLEAN]
Place == {"idle", "first", "second", "ready", "full", "empty", "append"}
Report == [made : {"no", "copied", "shown"}, events : Nat, log : Seq(Line),
           unread : BOOLEAN, unwritten : Nat, uncleared : BOOLEAN]
Busy == {"ready", "full", "empty", "append"}
Inside == {"full", "empty", "append"}

LogTypeOK ==
    /\ enabled \in BOOLEAN /\ uncleared \in BOOLEAN
    /\ file \in [lines : Seq(Line), size : Nat]
    /\ events \in Nat /\ unwritten \in Nat /\ launch \in Nat
    /\ at \in [Writers -> Place]
    /\ size \in [Writers -> Nat] /\ lateLines \in [Writers -> Nat]
    /\ holder \in Writers \cup {NoThread}
    /\ report \in Report

\* Whoever is writing has the lock and a formatted line; a file that has just
\* been truncated is empty, and one that is appended to is not full.
Held == \A t \in Writers : at[t] \in Inside <=> holder = t
Formatted == \A t \in Writers : at[t] \in Busy => size[t] \in LineSizes
Room == \A t \in Writers : /\ at[t] = "append" => file.size < LogLimit
                           /\ at[t] = "empty" => file = EmptyFile

\* A thread writes at most the line it had begun, and then tests the switch.
Late == ~enabled => \A t \in Writers : IF at[t] \in Busy THEN lateLines[t] = 0
                                       ELSE lateLines[t] <= 1

\* The file has no line of a launch to come.
Past == \A i \in DOMAIN file.lines : file.lines[i].launch <= launch

\* The count agrees with the file at any moment, counting the line that is
\* being written.
Pending == IF holder = NoThread THEN 0 ELSE 1
Emptied == StartedOver(file.lines) \/ \E t \in Writers : at[t] = "empty"
Counted ==
    ~uncleared =>
        LET seen == Cardinality(Of(file.lines, launch)) + unwritten + Pending
        IN  IF Emptied THEN events >= seen ELSE events = seen

\* A report agrees with itself from the moment it is copied.
Fits(r) ==
    ~r.uncleared =>
        LET seen == Cardinality(Of(r.log, launch)) + r.unwritten
        IN  /\ r.events >= seen
            /\ r.events > seen => StartedOver(r.log) \/ r.unread
Reported == report.made # "no" => Fits(report)

IInv == /\ LogTypeOK /\ Held /\ Formatted /\ Room /\ Late /\ Past
        /\ Counted /\ Reported

-----------------------------------------------------------------------------
\* The lines of a launch, counted.
LEMMA OfFinite ==
  ASSUME NEW s \in Seq(Line), NEW n \in Nat
  PROVE  IsFiniteSet(Of(s, n)) /\ Cardinality(Of(s, n)) \in Nat
<1>1. IsFiniteSet(1 .. Len(s)) /\ Of(s, n) \subseteq 1 .. Len(s)
  BY FS_Interval DEF Of
<1>2. IsFiniteSet(Of(s, n))
  BY <1>1, FS_Subset
<1>3. QED
  BY <1>2, FS_CardinalityType

\* Appending a line counts it, unless it is the mark of a new start.
LEMMA OfAppend ==
  ASSUME NEW s \in Seq(Line), NEW n \in Nat, NEW x \in Line, x.launch = n
  PROVE  Cardinality(Of(Append(s, x), n)) =
           Cardinality(Of(s, n)) + (IF x.rotated THEN 0 ELSE 1)
<1> DEFINE a == Append(s, x)
<1>1. /\ a \in Seq(Line) /\ Len(a) = Len(s) + 1 /\ a[Len(s) + 1] = x
      /\ \A i \in 1 .. Len(s) : a[i] = s[i]
  BY AppendProperties
<1>2. Len(s) \in Nat /\ DOMAIN s = 1 .. Len(s) /\ DOMAIN a = 1 .. Len(s) + 1
  BY <1>1
<1> HIDE DEF a
<1>3. CASE x.rotated
  <2>1. Of(a, n) = Of(s, n)
    BY <1>1, <1>2, <1>3 DEF Of
  <2>2. QED
    BY <1>3, <2>1, OfFinite DEF a
<1>4. CASE ~x.rotated
  <2>1. Of(a, n) = Of(s, n) \cup {Len(s) + 1}
    BY <1>1, <1>2, <1>4 DEF Of
  <2>2. Len(s) + 1 \notin Of(s, n)
    BY <1>2 DEF Of
  <2>3. Cardinality(Of(a, n)) = Cardinality(Of(s, n)) + 1
    BY <2>1, <2>2, OfFinite, FS_AddElement
  <2>4. QED
    BY <1>4, <2>3 DEF a
<1>5. QED
  BY <1>3, <1>4

\* What appending does to the other facts about the lines.
LEMMA AppendLines ==
  ASSUME NEW s \in Seq(Line), NEW x \in Line, x.launch = launch, launch \in Nat,
         \A i \in DOMAIN s : s[i].launch <= launch
  PROVE  /\ Append(s, x) \in Seq(Line)
         /\ \A i \in DOMAIN Append(s, x) : Append(s, x)[i].launch <= launch
         /\ StartedOver(Append(s, x)) <=> StartedOver(s) \/ x.rotated
<1> DEFINE a == Append(s, x)
<1>1. /\ a \in Seq(Line) /\ Len(a) = Len(s) + 1 /\ a[Len(s) + 1] = x
      /\ \A i \in 1 .. Len(s) : a[i] = s[i]
  BY AppendProperties
<1>2. Len(s) \in Nat /\ DOMAIN s = 1 .. Len(s) /\ DOMAIN a = 1 .. Len(s) + 1
  BY <1>1
<1> HIDE DEF a
<1>3. \A i \in DOMAIN a : a[i].launch <= launch
  BY <1>1, <1>2
<1>4. StartedOver(a) <=> StartedOver(s) \/ x.rotated
  BY <1>1, <1>2 DEF StartedOver
<1>5. QED
  BY <1>1, <1>3, <1>4 DEF a

\* An empty file has no lines.
LEMMA EmptyLines ==
  /\ EmptyFile \in [lines : Seq(Line), size : Nat]
  /\ EmptyFile.size = 0 /\ DOMAIN EmptyFile.lines = {}
  /\ ~StartedOver(EmptyFile.lines)
  /\ \A n : Cardinality(Of(EmptyFile.lines, n)) = 0
<1>1. <<>> \in Seq(Line) /\ DOMAIN <<>> = {}
  OBVIOUS
<1>2. EmptyFile.lines = <<>> /\ EmptyFile.size = 0
  BY DEF EmptyFile
<1>3. ~StartedOver(EmptyFile.lines) /\ \A n : Of(EmptyFile.lines, n) = {}
  BY <1>1, <1>2 DEF StartedOver, Of
<1>4. EmptyFile \in [lines : Seq(Line), size : Nat]
  BY <1>1 DEF EmptyFile
<1>5. QED
  BY <1>1, <1>2, <1>3, <1>4, FS_EmptySet

-----------------------------------------------------------------------------
\* The steps that touch neither the file nor the lock.
Talk(t) == Logs(t, "first") \/ Logs(t, "second") \/ TestFirst(t) \/ TestSecond(t)

\* What counts is unchanged when the file, the counts and the writers are.
LEMMA CountedSame ==
  ASSUME IInv, UNCHANGED <<file, events, unwritten, holder, launch, uncleared>>,
         \A t \in Writers : at'[t] = "empty" <=> at[t] = "empty"
  PROVE  Counted'
<1>1. Emptied' <=> Emptied
  BY DEF Emptied, StartedOver
<1>2. Pending' = Pending
  BY DEF Pending
<1>3. Of(file.lines, launch)' = Of(file.lines, launch)
  BY DEF Of
<1>4. QED
  BY <1>1, <1>2, <1>3 DEF IInv, Counted

\* A report is not touched by what happens to the log.
LEMMA ReportedSame ==
  ASSUME IInv, UNCHANGED <<report, launch>>
  PROVE  Reported'
BY DEF IInv, Reported, Fits, StartedOver, Of

\* A step of a thread that does not touch the log moves its own counter only.
LEMMA TalkStep ==
  ASSUME IInv, NEW t \in Writers, Talk(t)
  PROVE  IInv'
<1>1. /\ UNCHANGED <<file, events, unwritten, holder, launch, uncleared, report, enabled,
                     lateLines>>
      /\ at[t] \in {"idle", "first", "second"}
      /\ at' = [at EXCEPT ![t] = at'[t]]
      /\ at'[t] \in {"idle", "first", "second", "ready"}
      /\ at'[t] = "ready" => enabled
  BY DEF Talk, Logs, TestFirst, TestSecond, MayLog, Goes, Rest, IInv, LogTypeOK
<1>2. /\ size' = [size EXCEPT ![t] = size'[t]] /\ size'[t] \in Nat
      /\ at'[t] = "ready" => size'[t] \in LineSizes
  BY LogAssumption
     DEF Talk, Logs, TestFirst, TestSecond, Goes, Rest, IInv, LogTypeOK
<1>3. LogTypeOK'
  BY <1>1, <1>2 DEF IInv, LogTypeOK, Place
<1>4. Held' /\ Room'
  BY <1>1 DEF IInv, LogTypeOK, Held, Room, Inside
<1>5. Formatted' /\ Late' /\ Past'
  BY <1>1, <1>2 DEF IInv, LogTypeOK, Formatted, Late, Past, Busy
<1>6. Counted' /\ Reported'
  BY <1>1, CountedSame, ReportedSame DEF IInv, LogTypeOK
<1>7. QED
  BY <1>3, <1>4, <1>5, <1>6 DEF IInv

\* The line is counted, whether or not the file opens.
LEMMA CountStep ==
  ASSUME IInv, NEW t \in Writers, Count(t)
  PROVE  IInv'
<1>1. /\ UNCHANGED <<file, launch, uncleared, report, enabled, lateLines>>
      /\ at[t] = "ready" /\ holder = NoThread /\ events' = events + 1
  BY DEF Count, Rest
<1>2. \A u \in Writers : at[u] \notin Inside
  BY <1>1, LogAssumption DEF IInv, Held, Writers
<1>3. CASE /\ holder' = t /\ at' = [at EXCEPT ![t] = IF Full(file) THEN "full" ELSE "append"]
           /\ UNCHANGED <<unwritten, size>>
  <2>1. /\ at'[t] \in {"full", "append"}
        /\ at'[t] = "append" => file.size < LogLimit
        /\ \A u \in Writers : u # t => at'[u] = at[u]
    BY <1>3, LogAssumption DEF IInv, LogTypeOK, Full
  <2>2. LogTypeOK'
    BY <1>1, <1>3 DEF IInv, LogTypeOK, Place
  <2>3. Held' /\ Room' /\ Formatted' /\ Late' /\ Past'
    BY <1>1, <1>2, <1>3, <2>1 DEF IInv, Held, Room, Formatted, Late, Past, Busy, Inside
  <2>4. Emptied' <=> Emptied
    BY <1>1, <1>2, <2>1 DEF Emptied, StartedOver, Inside
  <2>5. Pending = 0 /\ Pending' = 1
    BY <1>1, <1>3, LogAssumption DEF Pending, Writers
  <2>6. Of(file.lines, launch)' = Of(file.lines, launch)
    BY <1>1 DEF Of
  <2>7. Cardinality(Of(file.lines, launch)) \in Nat
    BY OfFinite DEF IInv, LogTypeOK
  <2>8. Counted'
    BY <1>1, <1>3, <2>4, <2>5, <2>6, <2>7 DEF IInv, Counted, LogTypeOK
  <2>9. QED
    BY <1>1, <2>2, <2>3, <2>8, ReportedSame DEF IInv
<1>4. CASE /\ unwritten' = unwritten + 1 /\ at' = [at EXCEPT ![t] = "idle"]
           /\ size' = [size EXCEPT ![t] = 0] /\ UNCHANGED holder
  <2>1. LogTypeOK'
    BY <1>1, <1>4 DEF IInv, LogTypeOK, Place
  <2>2. Held' /\ Room' /\ Formatted' /\ Late' /\ Past'
    BY <1>1, <1>4 DEF IInv, LogTypeOK, Held, Room, Formatted, Late, Past, Busy, Inside
  <2>3. Emptied' <=> Emptied
    BY <1>1, <1>4 DEF IInv, LogTypeOK, Emptied, StartedOver
  <2>4. Pending' = Pending /\ Of(file.lines, launch)' = Of(file.lines, launch)
    BY <1>1, <1>4 DEF Pending, Of
  <2>5. Cardinality(Of(file.lines, launch)) \in Nat /\ Pending \in Nat
    BY OfFinite DEF IInv, LogTypeOK, Pending
  <2>6. Counted /\ events \in Nat /\ unwritten \in Nat
    BY DEF IInv, LogTypeOK
  <2>7. Cardinality(Of(file.lines, launch))' = Cardinality(Of(file.lines, launch))
    BY <2>4
  <2>8. Counted'
    BY <1>1, <1>4, <2>3, <2>4, <2>5, <2>6, <2>7 DEF Counted
  <2>9. QED
    BY <1>1, <2>1, <2>2, <2>8, ReportedSame DEF IInv
<1>5. QED
  BY <1>3, <1>4 DEF Count, Goes

\* A full file is emptied: what it held of this launch is no longer counted
\* on, and the count may be larger.
LEMMA TruncateStep ==
  ASSUME IInv, NEW t \in Writers, Truncate(t)
  PROVE  IInv'
<1>1. /\ UNCHANGED <<events, size, holder, unwritten, lateLines, launch, uncleared, report,
                     enabled>>
      /\ at[t] = "full" /\ at' = [at EXCEPT ![t] = "empty"] /\ file' = EmptyFile
      /\ at \in [Writers -> Place]
  BY DEF Truncate, Rest, Goes, IInv, LogTypeOK
<1>2. LogTypeOK'
  BY <1>1, EmptyLines DEF IInv, LogTypeOK, Place
<1>3. holder = t /\ \A u \in Writers : u # t => at[u] \notin Inside
  BY <1>1 DEF IInv, Held, Inside
<1>4. Held' /\ Formatted' /\ Late' /\ Past'
  BY <1>1, <1>3, EmptyLines DEF IInv, Held, Formatted, Late, Past, Busy, Inside
<1>5. Room'
  BY <1>1, <1>3 DEF Room, Inside
<1>6. /\ Emptied' /\ Pending' = 1 /\ Pending = 1
      /\ Cardinality(Of(file.lines, launch))' = 0
  BY <1>1, <1>3, EmptyLines, LogAssumption DEF Emptied, Pending, Writers
<1>7. Cardinality(Of(file.lines, launch)) \in Nat
  BY OfFinite DEF IInv, LogTypeOK
<1>8. Counted'
  BY <1>1, <1>6, <1>7 DEF IInv, Counted, LogTypeOK
<1>9. QED
  BY <1>1, <1>2, <1>4, <1>5, <1>8, ReportedSame DEF IInv

\* The mark of the new start is not a line that is counted.
LEMMA MarkStep ==
  ASSUME IInv, NEW t \in Writers, Mark(t)
  PROVE  IInv'
<1> DEFINE x == [launch |-> launch, rotated |-> TRUE]
<1>1. /\ UNCHANGED <<events, size, holder, unwritten, lateLines, launch, uncleared, report,
                     enabled>>
      /\ at[t] = "empty" /\ at' = [at EXCEPT ![t] = "append"]
      /\ file' = [lines |-> Append(file.lines, x), size |-> file.size + RotationSize]
      /\ at \in [Writers -> Place] /\ x \in Line /\ x.launch = launch /\ x.rotated
      /\ file.lines \in Seq(Line) /\ file.size \in Nat /\ launch \in Nat
  BY DEF Mark, Rest, Goes, IInv, LogTypeOK, Put, Line
<1> HIDE DEF x
<1>2. /\ Append(file.lines, x) \in Seq(Line)
      /\ \A i \in DOMAIN Append(file.lines, x) : Append(file.lines, x)[i].launch <= launch
      /\ StartedOver(Append(file.lines, x))
      /\ Cardinality(Of(Append(file.lines, x), launch)) = Cardinality(Of(file.lines, launch))
  <2>1. \A i \in DOMAIN file.lines : file.lines[i].launch <= launch
    BY DEF IInv, Past
  <2>2. Cardinality(Of(file.lines, launch)) \in Nat
    BY <1>1, OfFinite
  <2>3. PICK lines : lines = file.lines
    OBVIOUS
  <2>4. lines \in Seq(Line) /\ x \in Line /\ x.launch = launch /\ launch \in Nat /\ x.rotated
    BY <1>1, <2>3
  <2>5. /\ Append(lines, x) \in Seq(Line)
        /\ \A i \in DOMAIN Append(lines, x) : Append(lines, x)[i].launch <= launch
        /\ StartedOver(Append(lines, x))
    BY <2>1, <2>3, <2>4, AppendLines
  <2>6. Cardinality(Of(Append(lines, x), launch)) = Cardinality(Of(lines, launch)) + 0
    BY <2>4, OfAppend
  <2>7. QED
    BY <2>2, <2>3, <2>5, <2>6
<1>3. LogTypeOK'
  <2>1. file' \in [lines : Seq(Line), size : Nat]
    BY <1>1, <1>2, LogAssumption
  <2>2. QED
    BY <1>1, <2>1 DEF IInv, LogTypeOK, Place
<1>4. /\ holder = t /\ \A u \in Writers : u # t => at[u] \notin Inside
      /\ file.size = 0 /\ file'.size < LogLimit
  <2>1. file.size = 0
    BY <1>1, EmptyLines DEF IInv, Room
  <2>2. QED
    BY <1>1, <2>1, LogAssumption DEF IInv, Held, Inside
<1>5. Held' /\ Formatted' /\ Late'
  BY <1>1, <1>4 DEF IInv, Held, Formatted, Late, Busy, Inside
<1>6. Room' /\ Past'
  BY <1>1, <1>2, <1>4 DEF Room, Past, Inside
<1>7. Emptied /\ Emptied'
  BY <1>1, <1>2 DEF Emptied, StartedOver
<1>8. Pending' = Pending /\ Of(file.lines, launch)' = Of(Append(file.lines, x), launch)
  BY <1>1 DEF Pending, Of
<1>9. Counted'
  BY <1>1, <1>2, <1>7, <1>8 DEF IInv, Counted
<1>10. QED
  BY <1>1, <1>3, <1>5, <1>6, <1>9, ReportedSame DEF IInv

\* The line that was pending is in the file, and the lock is free.
LEMMA AppendStep ==
  ASSUME IInv, NEW t \in Writers, AppendLine(t)
  PROVE  IInv'
<1> DEFINE x == [launch |-> launch, rotated |-> FALSE]
<1>1. /\ UNCHANGED <<events, unwritten, launch, uncleared, report, enabled>>
      /\ at[t] = "append" /\ at' = [at EXCEPT ![t] = "idle"] /\ holder' = NoThread
      /\ file' = [lines |-> Append(file.lines, x), size |-> file.size + size[t]]
      /\ lateLines' = IF enabled THEN lateLines ELSE [lateLines EXCEPT ![t] = @ + 1]
      /\ size' = [size EXCEPT ![t] = 0]
      /\ at \in [Writers -> Place] /\ x \in Line /\ x.launch = launch /\ ~x.rotated
      /\ file.lines \in Seq(Line) /\ file.size \in Nat /\ launch \in Nat
      /\ size[t] \in Nat /\ lateLines \in [Writers -> Nat] /\ size \in [Writers -> Nat]
  BY DEF AppendLine, Rest, Goes, IInv, LogTypeOK, Put, Line
<1> HIDE DEF x
<1>2. /\ Append(file.lines, x) \in Seq(Line)
      /\ \A i \in DOMAIN Append(file.lines, x) : Append(file.lines, x)[i].launch <= launch
      /\ StartedOver(Append(file.lines, x)) <=> StartedOver(file.lines)
      /\ Cardinality(Of(Append(file.lines, x), launch)) = Cardinality(Of(file.lines, launch)) + 1
      /\ Cardinality(Of(file.lines, launch)) \in Nat
  <2>1. \A i \in DOMAIN file.lines : file.lines[i].launch <= launch
    BY DEF IInv, Past
  <2>2. QED
    BY <1>1, <2>1, AppendLines, OfAppend, OfFinite
<1>3. LogTypeOK'
  <2>1. file' \in [lines : Seq(Line), size : Nat]
    BY <1>1, <1>2
  <2>2. QED
    BY <1>1, <2>1 DEF IInv, LogTypeOK, Place
<1>4. holder = t /\ \A u \in Writers : u # t => at[u] \notin Inside
  BY <1>1 DEF IInv, Held, Inside
<1>5. Held' /\ Room' /\ Past'
  BY <1>1, <1>2, <1>4, LogAssumption DEF Held, Room, Past, Inside, Writers
<1>6. Formatted'
  BY <1>1 DEF IInv, Formatted, Busy
<1>7. Late'
  BY <1>1 DEF IInv, Late, Busy
<1>8. Emptied' <=> Emptied
  BY <1>1, <1>2, <1>4 DEF Emptied, StartedOver, Inside
<1>9. /\ Pending = 1 /\ Pending' = 0
      /\ Of(file.lines, launch)' = Of(Append(file.lines, x), launch)
  BY <1>1, <1>4, LogAssumption DEF Pending, Of, Writers
<1>10. Counted'
  BY <1>1, <1>2, <1>8, <1>9 DEF IInv, Counted, LogTypeOK
<1>11. QED
  BY <1>1, <1>3, <1>5, <1>6, <1>7, <1>10, ReportedSame DEF IInv

\* The switch: nobody has written since, and whoever is writing may end.
LEMMA SwitchStep ==
  ASSUME IInv, SwitchChanged
  PROVE  IInv'
<1>1. /\ UNCHANGED <<file, events, size, holder, report, launch, unwritten, uncleared>>
      /\ enabled' = ~enabled /\ lateLines' = Everywhere(0)
      /\ UserThread \in Writers /\ at[UserThread] = "idle"
      /\ at' = at \/ at' = [at EXCEPT ![UserThread] = "second"]
  BY DEF SwitchChanged, Goes, Writers
<1>2. LogTypeOK'
  BY <1>1 DEF IInv, LogTypeOK, Place, Everywhere
<1>3. Held' /\ Room' /\ Formatted' /\ Past'
  BY <1>1 DEF IInv, LogTypeOK, Held, Room, Formatted, Past, Busy, Inside
<1>4. Late'
  BY <1>1 DEF Late, Everywhere
<1>5. Counted'
  BY <1>1, CountedSame DEF IInv, LogTypeOK
<1>6. QED
  BY <1>1, <1>2, <1>3, <1>4, <1>5, ReportedSame DEF IInv

\* A clearing leaves an empty file and a count of 0, or the file as it was and
\* a count that no longer fits it.
LEMMA ClearStep ==
  ASSUME IInv, Clear
  PROVE  IInv'
<1>1. /\ UNCHANGED <<enabled, size, holder, report, launch, lateLines>>
      /\ UserThread \in Writers /\ at[UserThread] = "idle" /\ holder = NoThread
      /\ at' = [at EXCEPT ![UserThread] = "second"]
      /\ events' = 0 /\ unwritten' = 0
      /\ \/ file' = EmptyFile /\ uncleared' = FALSE
         \/ file' = file /\ uncleared' = TRUE
  BY DEF Clear, Goes, Writers
<1>2. LogTypeOK'
  BY <1>1, EmptyLines DEF IInv, LogTypeOK, Place
<1>3. \A t \in Writers : at[t] \notin Inside /\ at'[t] \notin Inside
  BY <1>1, LogAssumption DEF IInv, LogTypeOK, Held, Inside, Writers
<1>4. Held' /\ Room'
  BY <1>1, <1>3, LogAssumption DEF Held, Room, Inside, Writers
<1>5. Formatted' /\ Late'
  BY <1>1 DEF IInv, LogTypeOK, Formatted, Late, Busy
<1>6. Past'
  BY <1>1, EmptyLines DEF IInv, Past
<1>7. Counted'
  <2>1. CASE uncleared' = TRUE
    BY <2>1 DEF Counted
  <2>2. CASE file' = EmptyFile
    <3>1. ~Emptied'
      BY <1>1, <1>3, <2>2, EmptyLines DEF Emptied, StartedOver, Inside
    <3>2. Pending' = 0
      BY <1>1 DEF Pending
    <3>3. Of(file.lines, launch)' = Of(EmptyFile.lines, launch)
      BY <1>1, <2>2 DEF Of
    <3>4. Cardinality(Of(file.lines, launch))' = 0
      BY <3>3, EmptyLines
    <3>5. QED
      BY <1>1, <3>1, <3>2, <3>4 DEF Counted
  <2>3. QED
    BY <1>1, <2>1, <2>2
<1>8. QED
  BY <1>1, <1>2, <1>4, <1>5, <1>6, <1>7, ReportedSame DEF IInv

\* The report is copied under the lock, when no line is pending.
LEMMA ReportStep ==
  ASSUME IInv, CopyReport \/ MakeReport
  PROVE  IInv'
<1>1. UNCHANGED <<enabled, file, events, at, size, holder, launch, unwritten, uncleared,
                  lateLines>>
  BY DEF CopyReport, MakeReport
<1>2. Held' /\ Room' /\ Formatted' /\ Late' /\ Past' /\ Counted'
  BY <1>1, CountedSame DEF IInv, Held, Room, Formatted, Late, Past
<1>3. CASE CopyReport
  <2>1. /\ report'.made = "copied" /\ report'.events = events
        /\ report'.unwritten = unwritten /\ report'.uncleared = uncleared
        /\ report' \in Report /\ holder = NoThread
        /\ \/ report'.log = file.lines /\ ~report'.unread
           \/ report'.log = EmptyFile.lines /\ report'.unread
    <3>1. /\ file.lines \in Seq(Line) /\ EmptyFile.lines \in Seq(Line)
          /\ events \in Nat /\ unwritten \in Nat /\ uncleared \in BOOLEAN
      BY EmptyLines DEF IInv, LogTypeOK
    <3>2. /\ holder = NoThread
          /\ \/ report' = ReportOf(file.lines, FALSE)
             \/ report' = ReportOf(EmptyFile.lines, TRUE)
      BY <1>3 DEF CopyReport, EmptyFile
    <3>3. ASSUME NEW lines \in Seq(Line), NEW unread \in BOOLEAN,
                 report' = ReportOf(lines, unread)
          PROVE  /\ report'.made = "copied" /\ report'.events = events
                 /\ report'.unwritten = unwritten /\ report'.uncleared = uncleared
                 /\ report'.log = lines /\ report'.unread = unread
                 /\ report' \in Report
      BY <3>1, <3>3 DEF ReportOf, Report
    <3>4. QED
      BY <3>1, <3>2, <3>3
  <2>2. \A t \in Writers : at[t] # "empty"
    BY <2>1, LogAssumption DEF IInv, Held, Inside, Writers
  <2>3. Emptied <=> StartedOver(file.lines)
    BY <2>2 DEF Emptied
  <2>4. /\ Cardinality(Of(file.lines, launch)) \in Nat /\ unwritten \in Nat
        /\ events \in Nat /\ launch \in Nat
    BY OfFinite DEF IInv, LogTypeOK
  <2>5. Counted /\ Pending = 0
    BY <2>1 DEF IInv, Pending
  <2>6. ~uncleared =>
          /\ events >= Cardinality(Of(file.lines, launch)) + unwritten
          /\ events > Cardinality(Of(file.lines, launch)) + unwritten =>
               StartedOver(file.lines)
    BY <2>3, <2>4, <2>5 DEF Counted
  <2>7. Fits(report')
    <3>1. CASE report'.log = file.lines /\ ~report'.unread
      BY <2>1, <2>6, <3>1 DEF Fits
    <3>2. CASE report'.log = EmptyFile.lines /\ report'.unread
      <4>1. Cardinality(Of(report'.log, launch)) = 0
        BY <3>2, EmptyLines
      <4>2. ~uncleared => events >= unwritten
        BY <2>4, <2>6
      <4>3. QED
        BY <2>1, <2>4, <3>2, <4>1, <4>2 DEF Fits
    <3>3. QED
      BY <2>1, <3>1, <3>2
  <2>8. Reported'
    BY <1>1, <2>7 DEF Reported, Fits, StartedOver, Of
  <2>9. LogTypeOK'
    BY <1>1, <2>1 DEF IInv, LogTypeOK
  <2>10. QED
    BY <1>2, <2>8, <2>9 DEF IInv
<1>4. CASE MakeReport
  <2>1. /\ report' = [report EXCEPT !.made = "shown"] /\ report.made = "copied"
        /\ report \in Report
    BY <1>4 DEF MakeReport, ReportText, IInv, LogTypeOK
  <2>2. /\ report' \in Report /\ report'.made = "shown"
        /\ report'.events = report.events /\ report'.log = report.log
        /\ report'.unwritten = report.unwritten /\ report'.uncleared = report.uncleared
        /\ report'.unread = report.unread
    BY <2>1 DEF Report
  <2>3. Fits(report)
    BY <2>1 DEF IInv, Reported
  <2>4. Reported'
    BY <1>1, <2>2, <2>3 DEF Reported, Fits, StartedOver, Of
  <2>5. LogTypeOK'
    BY <1>1, <2>2 DEF IInv, LogTypeOK
  <2>6. QED
    BY <1>2, <2>4, <2>5 DEF IInv
<1>5. QED
  BY <1>3, <1>4

\* A new launch finds the file of the last, with no line of its own in it.
LEMMA KilledStep ==
  ASSUME IInv, Killed
  PROVE  IInv'
<1>1. /\ launch' = launch + 1 /\ at' = [Everywhere("idle") EXCEPT ![UserThread] = "second"]
      /\ size' = Everywhere(0) /\ events' = 0 /\ holder' = NoThread /\ report' = NoReport
      /\ unwritten' = 0 /\ uncleared' = FALSE /\ lateLines' = Everywhere(0)
      /\ UNCHANGED <<enabled, file>>
      /\ file.lines \in Seq(Line) /\ launch \in Nat
  BY DEF Killed, IInv, LogTypeOK
<1>2. at' \in [Writers -> {"idle", "second"}]
  BY <1>1 DEF Everywhere
<1>3. NoReport \in Report /\ NoReport.made = "no"
  BY DEF NoReport, Report
<1>4. LogTypeOK'
  <2>1. /\ size' \in [Writers -> Nat] /\ lateLines' \in [Writers -> Nat]
        /\ at' \in [Writers -> Place] /\ launch' \in Nat
    BY <1>1, <1>2 DEF Everywhere, Place
  <2>2. enabled \in BOOLEAN /\ file \in [lines : Seq(Line), size : Nat]
    BY DEF IInv, LogTypeOK
  <2>3. QED
    BY <1>1, <1>3, <2>1, <2>2 DEF LogTypeOK
<1>5. Held' /\ Room' /\ Formatted' /\ Late'
  BY <1>1, <1>2, LogAssumption
     DEF Held, Room, Formatted, Late, Busy, Inside, Everywhere, Writers
<1>6. \A i \in DOMAIN file.lines : file.lines[i].launch \in Nat /\ file.lines[i].launch <= launch
  <2>1. \A i \in DOMAIN file.lines : file.lines[i] \in Line
    BY <1>1
  <2>2. QED
    BY <2>1 DEF IInv, Past, Line
<1>7. Past' /\ Reported'
  BY <1>1, <1>3, <1>6 DEF Past, Reported
<1>8. ~Emptied' /\ Pending' = 0 /\ Of(file.lines, launch)' = {}
  BY <1>1, <1>2, <1>6 DEF Emptied, StartedOver, Pending, Of
<1>9. Cardinality(Of(file.lines, launch))' = 0
  BY <1>8, FS_EmptySet
<1>10. Counted'
  BY <1>1, <1>8, <1>9 DEF Counted
<1>11. QED
  BY <1>4, <1>5, <1>7, <1>10 DEF IInv

-----------------------------------------------------------------------------
\* The invariant holds of every reachable state.
LEMMA AlwaysIInv == LogSpec => []IInv
<1>1. LogInit => IInv
  <2> SUFFICES ASSUME LogInit PROVE IInv
    OBVIOUS
  <2>1. at \in [Writers -> {"idle", "second"}]
    BY DEF LogInit, Everywhere
  <2>2. NoReport \in Report /\ NoReport.made = "no"
    BY DEF NoReport, Report
  <2>3. LogTypeOK
    BY <2>1, <2>2, EmptyLines DEF LogInit, LogTypeOK, Place, Everywhere
  <2>4. Held /\ Room /\ Formatted /\ Late
    BY <2>1, LogAssumption
       DEF LogInit, Held, Room, Formatted, Late, Busy, Inside, Everywhere, Writers
  <2>5. Past /\ Reported
    BY <2>2, EmptyLines DEF LogInit, Past, Reported
  <2>6. ~Emptied /\ Pending = 0 /\ Cardinality(Of(file.lines, launch)) = 0
    BY <2>1, EmptyLines DEF LogInit, Emptied, Pending
  <2>7. Counted
    BY <2>6 DEF LogInit, Counted
  <2>8. QED
    BY <2>3, <2>4, <2>5, <2>7 DEF IInv
<1>2. IInv /\ [LogNext]_logVars => IInv'
  <2> SUFFICES ASSUME IInv, [LogNext]_logVars PROVE IInv'
    OBVIOUS
  <2>1. CASE UNCHANGED logVars
    BY <2>1 DEF logVars, IInv, LogTypeOK, Held, Formatted, Room, Late, Past, Counted,
                Emptied, Pending, Reported, Fits, StartedOver, Of
  <2>2. ASSUME NEW t \in Writers, Talk(t) \/ Write(t)
        PROVE  IInv'
    BY <2>2, TalkStep, CountStep, TruncateStep, MarkStep, AppendStep DEF Write
  <2>3. QED
    BY <2>1, <2>2, SwitchStep, ClearStep, ReportStep, KilledStep DEF LogNext, Talk
<1>3. QED
  BY <1>1, <1>2, PTL DEF LogSpec

\* No interleaving of writers, clearings and kills lets the file pass its limit
\* by a whole line.
THEOREM AlwaysBounded == LogSpec => []SizeBounded
<1> DEFINE Bounded == \A n \in LineSizes : (\A m \in LineSizes : m <= n) => file.size < LogLimit + n
<1>1. LogInit => Bounded
  BY LogAssumption, EmptyLines DEF LogInit
<1>2. Bounded /\ IInv /\ [LogNext]_logVars => Bounded'
  <2> SUFFICES ASSUME Bounded, IInv, [LogNext]_logVars PROVE Bounded'
    OBVIOUS
  <2> SUFFICES ASSUME NEW n \in LineSizes, \A m \in LineSizes : m <= n
               PROVE  file'.size < LogLimit + n
    OBVIOUS
  <2>1. file.size \in Nat /\ file.size < LogLimit + n /\ n \in Nat \ {0} /\ LogLimit \in Nat
    BY LogAssumption DEF IInv, LogTypeOK
  <2>2. CASE file' = file
    BY <2>1, <2>2
  <2>3. CASE file' = EmptyFile
    BY <2>1, <2>3, EmptyLines
  <2>4. ASSUME NEW t \in Writers, Mark(t)
        PROVE  file'.size < LogLimit + n
    <3>1. file.size = 0 /\ file'.size = file.size + RotationSize
      BY <2>4, EmptyLines DEF Mark, Put, IInv, Room
    <3>2. QED
      BY <2>1, <3>1, LogAssumption
  <2>5. ASSUME NEW t \in Writers, AppendLine(t)
        PROVE  file'.size < LogLimit + n
    <3>1. file'.size = file.size + size[t] /\ file.size < LogLimit /\ size[t] \in LineSizes
      BY <2>5 DEF AppendLine, Put, IInv, Room, Formatted, Busy
    <3>2. size[t] \in Nat /\ size[t] <= n
      BY <3>1, LogAssumption
    <3>3. QED
      BY <2>1, <3>1, <3>2
  <2>6. QED
    BY <2>2, <2>3, <2>4, <2>5
       DEF LogNext, logVars, Logs, TestFirst, TestSecond, Write, Count, Truncate,
           SwitchChanged, Clear, CopyReport, MakeReport, Killed
<1>3. Bounded => SizeBounded
  BY DEF SizeBounded
<1>4. QED
  BY <1>1, <1>2, <1>3, AlwaysIInv, PTL DEF LogSpec

\* A report counts no less than it shows, and more only if the log was started
\* over or could not be read: whatever the threads were doing when it was copied
\* and whatever has happened since.
THEOREM AlwaysAgrees == LogSpec => []ReportAgrees
<1>1. IInv => ReportAgrees
  BY DEF IInv, Reported, Fits, ReportAgrees
<1>2. QED
  BY <1>1, AlwaysIInv, PTL

\* After it was switched off, the log gets one line of each thread at most.
THEOREM AlwaysQuietWhenOff == LogSpec => []QuietWhenOff
<1>1. IInv => QuietWhenOff
  BY DEF IInv, LogTypeOK, Late, QuietWhenOff
<1>2. QED
  BY <1>1, AlwaysIInv, PTL

-----------------------------------------------------------------------------
(* EmoteNames.  The set after some offers, whatever their order, as far as  *)
(* it depends on them: Ranked.                                              *)

Item == [name : Names, provider : Providers]
Offer == Names \X Providers

\* Every item was offered, a name is in the set once, and from the best who
\* offered it; a name that was offered and is not in the set found it full of
\* items that are ranked no lower.
Ranked(set, offers) ==
    /\ set \in SUBSET Item /\ offers \in SUBSET Offer
    /\ IsFiniteSet(set) /\ Cardinality(set) <= MaxItems
    /\ \A x \in set : <<x.name, x.provider>> \in offers
    /\ \A x, y \in set : x.name = y.name => x = y
    /\ \A x \in set, o \in offers : o[1] = x.name => x.provider <= o[2]
    /\ \A o \in offers : (\A x \in set : x.name # o[1]) =>
          Cardinality(set) = MaxItems /\ \A x \in set : x.provider <= o[2]

\* Of the items ranked lower than a provider, if there are any, there is a
\* lowest and first one, and only one.
LEMMA VictimExists ==
    ASSUME NEW set \in SUBSET Item, IsFiniteSet(set), NEW p \in Providers,
           NEW x \in set, x.provider > p
    PROVE  \E v \in set : Victims(set, p) # {} /\ v \in Victims(set, p)
<1> DEFINE ranks == {y.provider : y \in set}
<1>1. ranks \in SUBSET Nat /\ ranks # {}
  BY NamesAssumption DEF Item
<1>2. IsFiniteSet(ranks)
  <2> DEFINE f == [y \in set |-> y.provider]
  <2>1. f \in Surjection(set, ranks)
    BY DEF Surjection
  <2> QED
    BY <2>1, FS_Surjection
<1> HIDE DEF ranks
<1>3. PICK r \in ranks : \A q \in ranks : q <= r
  BY <1>1, <1>2, Greatest
<1> DEFINE those == {n \in Names : \E y \in set : y.name = n /\ y.provider = r}
<1>4. those \in SUBSET Nat /\ those # {}
  <2>1. PICK y \in set : y.provider = r
    BY DEF ranks
  <2> QED
    BY <2>1, NamesAssumption DEF Item
<1>5. PICK n \in those : \A m \in those : n <= m
  BY <1>4, Least
<1>6. PICK v \in set : v.name = n /\ v.provider = r
  BY <1>5
<1>7. ASSUME NEW y \in set
      PROVE  v.provider > y.provider \/ (v.provider = y.provider /\ v.name <= y.name)
  <2>1. y.provider \in ranks /\ y.provider \in Nat /\ r \in Nat
    BY <1>1 DEF ranks
  <2>2. y.provider <= r
    BY <1>3, <2>1
  <2>3. CASE y.provider = r
    <3>1. y.name \in those
      BY <2>3 DEF Item
    <3> QED
      BY <1>5, <1>6, <2>3, <3>1
  <2>4. CASE y.provider # r
    BY <1>6, <2>1, <2>2, <2>4
  <2> QED
    BY <2>3, <2>4
<1>8. v.provider > p
  <2>1. x.provider \in Nat /\ v.provider \in Nat /\ p \in Nat
    BY NamesAssumption DEF Item
  <2> QED
    BY <1>7, <2>1
<1>9. v \in Victims(set, p)
  BY <1>7, <1>8 DEF Victims
<1> QED
  BY <1>9

\* Two items that give way to one offer are the same.
LEMMA VictimUnique ==
    ASSUME NEW set \in SUBSET Item, NEW p \in Providers,
           \A x, y \in set : x.name = y.name => x = y,
           NEW v \in Victims(set, p)
    PROVE  Victims(set, p) = {v} /\ v \in set /\ v.provider > p
           /\ \A y \in set : y.provider <= v.provider
<1>1. v \in set /\ v.provider > p
  BY DEF Victims
<1>2. \A y \in set : y.provider \in Nat /\ y.name \in Nat
  BY NamesAssumption DEF Item
<1>3. ASSUME NEW y \in set
      PROVE  v.provider > y.provider \/ (v.provider = y.provider /\ v.name <= y.name)
  BY DEF Victims
<1>4. ASSUME NEW w \in Victims(set, p) PROVE w = v
  <2>1. w \in set
    BY DEF Victims
  <2>2. w.provider > v.provider \/ (w.provider = v.provider /\ w.name <= v.name)
    BY <1>1 DEF Victims
  <2>3. w.name = v.name
    BY <1>1, <1>2, <1>3, <2>1, <2>2
  <2> QED
    BY <1>1, <2>1, <2>3
<1> QED
  BY <1>1, <1>2, <1>3, <1>4

\* One more offer.
LEMMA AddedRanked ==
    ASSUME NEW set, NEW offers, Ranked(set, offers), NEW n \in Names, NEW p \in Providers
    PROVE  Ranked(Added(set, MaxItems, [name |-> n, provider |-> p]), offers \cup {<<n, p>>})
<1> DEFINE e == [name |-> n, provider |-> p]
           more == offers \cup {<<n, p>>}
           gone == GiveWay(set, MaxItems, e)
           next == Added(set, MaxItems, e)
<1> SUFFICES Ranked(next, more)
  OBVIOUS
<1>1. /\ set \in SUBSET Item /\ offers \in SUBSET Offer /\ IsFiniteSet(set)
      /\ Cardinality(set) \in Nat /\ Cardinality(set) <= MaxItems
  BY FS_CardinalityType DEF Ranked
<1>2. \A x \in set : <<x.name, x.provider>> \in offers
  BY DEF Ranked
<1>n. (\A x \in set : x.provider \in Nat) /\ p \in Nat
  BY <1>1, NamesAssumption DEF Item
<1>3. \A x, y \in set : x.name = y.name => x = y
  BY DEF Ranked
<1>4. \A x \in set, o \in offers : o[1] = x.name => x.provider <= o[2]
  BY DEF Ranked
<1>5. \A o \in offers : (\A x \in set : x.name # o[1]) =>
         Cardinality(set) = MaxItems /\ \A x \in set : x.provider <= o[2]
  BY DEF Ranked
<1>6. e \in Item /\ e.name = n /\ e.provider = p /\ MaxItems \in Nat
  BY NamesAssumption, BoundsAssumption DEF Item
<1>7. more \in SUBSET Offer /\ <<n, p>> \in more /\ <<n, p>>[1] = n /\ <<n, p>>[2] = p
      /\ \A o \in more : o \in offers \/ (o[1] = n /\ o[2] = p)
  BY <1>1 DEF Offer
<1>8. \A o \in offers : o[2] \in Nat
  BY <1>1, NamesAssumption DEF Offer
<1> HIDE DEF e, more
<1>9. next = IF gone # {} \/ (FindWord(set, n) = {} /\ Cardinality(set) < MaxItems)
             THEN (set \ gone) \cup {e} ELSE set
  BY <1>6 DEF Added
<1>10. gone = IF FindWord(set, n) # {} THEN {x \in FindWord(set, n) : p < x.provider}
              ELSE IF Cardinality(set) >= MaxItems THEN Victims(set, p) ELSE {}
  BY <1>6 DEF GiveWay
<1> HIDE DEF gone, next
\* An item gives its place to e.
<1>11. ASSUME NEW v \in set, gone = {v}, p < v.provider,
              \A x \in set : x.name = n => x = v,
              \A o \in offers : o[1] = n => v.provider <= o[2],
              \/ v.name = n
              \/ (\A x \in set : x.provider <= v.provider) /\ Cardinality(set) = MaxItems
       PROVE  Ranked(next, more)
  <2>1. next = (set \ {v}) \cup {e}
    BY <1>9, <1>11
  <2>2. e \notin set \ {v}
    BY <1>6, <1>11
  <2>3. IsFiniteSet(next) /\ Cardinality(next) = Cardinality(set)
    <3>1. IsFiniteSet(set \ {v}) /\ Cardinality(set \ {v}) = Cardinality(set) - 1
      BY <1>1, <1>11, FS_RemoveElement
    <3>2. IsFiniteSet((set \ {v}) \cup {e})
          /\ Cardinality((set \ {v}) \cup {e}) = Cardinality(set \ {v}) + 1
      BY <2>2, <3>1, FS_AddElement
    <3> QED
      BY <1>1, <2>1, <3>1, <3>2
  <2>4. next \in SUBSET Item /\ e \in next /\ \A x \in next : x = e \/ (x \in set /\ x # v)
    BY <1>1, <1>6, <2>1
  <2>5. \A x \in next : <<x.name, x.provider>> \in more
    BY <1>2, <1>6, <1>7, <2>4 DEF more
  <2>6. \A x, y \in next : x.name = y.name => x = y
    BY <1>3, <1>6, <1>11, <2>4
  <2>7. \A x \in next, o \in more : o[1] = x.name => x.provider <= o[2]
    BY <1>n, <1>4, <1>6, <1>7, <1>8, <1>11, <2>4
  <2>8. ASSUME NEW o \in more, \A x \in next : x.name # o[1]
        PROVE  Cardinality(next) = MaxItems /\ \A x \in next : x.provider <= o[2]
    <3>1. o \in offers /\ o[1] # n /\ o[2] \in Nat
      BY <1>6, <1>7, <1>8, <2>4, <2>8
    <3>2. CASE o[1] = v.name
      <4>1. v.provider <= o[2]
        BY <1>4, <3>1, <3>2
      <4>2. (\A x \in set : x.provider <= v.provider) /\ Cardinality(set) = MaxItems
        BY <1>11, <3>1, <3>2
      <4> QED
        BY <1>n, <1>6, <1>11, <2>3, <2>4, <3>1, <4>1, <4>2
    <3>3. CASE o[1] # v.name
      <4>1. \A x \in set : x.name # o[1]
        BY <2>1, <2>8, <3>3
      <4>2. Cardinality(set) = MaxItems /\ \A x \in set : x.provider <= o[2]
        BY <1>5, <3>1, <4>1
      <4> QED
        BY <1>n, <1>6, <1>11, <2>3, <2>4, <3>1, <4>2
    <3> QED
      BY <3>2, <3>3
  <2> QED
    BY <1>1, <1>7, <2>3, <2>4, <2>5, <2>6, <2>7, <2>8 DEF Ranked
\* e stays out, ranked no better than one of its name or than all the others.
<1>12. ASSUME next = set,
              \A x \in set : x.name = n => x.provider <= p,
              (\A x \in set : x.name # n) =>
                 Cardinality(set) = MaxItems /\ \A x \in set : x.provider <= p
       PROVE  Ranked(next, more)
  <2>1. \A x \in set : <<x.name, x.provider>> \in more
    BY <1>2 DEF more
  <2>2. \A x \in set, o \in more : o[1] = x.name => x.provider <= o[2]
    BY <1>4, <1>7, <1>12
  <2>3. \A o \in more : (\A x \in set : x.name # o[1]) =>
           Cardinality(set) = MaxItems /\ \A x \in set : x.provider <= o[2]
    BY <1>5, <1>7, <1>12
  <2> QED
    BY <1>1, <1>3, <1>7, <1>12, <2>1, <2>2, <2>3 DEF Ranked
<1>13. CASE FindWord(set, n) # {}
  <2>1. PICK x \in set : x.name = n
    BY <1>13 DEF FindWord
  <2>2. FindWord(set, n) = {x}
    BY <1>3, <2>1 DEF FindWord
  <2>3. \A y \in set : y.name = n => y = x
    BY <1>3, <2>1
  <2>4. CASE p < x.provider
    <3>1. gone = {x}
      BY <1>10, <2>2, <2>4
    <3>2. \A o \in offers : o[1] = n => x.provider <= o[2]
      BY <1>4, <2>1
    <3> QED
      BY <1>11, <2>1, <2>3, <2>4, <3>1, <3>2
  <2>5. CASE ~(p < x.provider)
    <3>1. gone = {}
      BY <1>10, <2>2, <2>5
    <3>2. next = set
      BY <1>9, <1>13, <3>1
    <3>3. x.provider <= p
      BY <1>n, <2>1, <2>5
    <3> QED
      BY <1>12, <2>1, <2>3, <3>2, <3>3
  <2> QED
    BY <2>4, <2>5
<1>14. CASE FindWord(set, n) = {} /\ Cardinality(set) < MaxItems
  <2>1. \A x \in set : x.name # n
    BY <1>14 DEF FindWord
  <2>2. next = set \cup {e}
    <3>1. gone = {}
      BY <1>1, <1>6, <1>10, <1>14
    <3> QED
      BY <1>9, <1>14, <3>1
  <2>3. \A o \in offers : o[1] # n /\ \E x \in set : x.name = o[1]
    <3> TAKE o \in offers
    <3>1. \E x \in set : x.name = o[1]
      BY <1>1, <1>5, <1>6, <1>14
    <3> QED
      BY <2>1, <3>1
  <2>4. e \notin set
    BY <1>6, <2>1
  <2>5. IsFiniteSet(next) /\ Cardinality(next) <= MaxItems
    <3>1. IsFiniteSet(set \cup {e}) /\ Cardinality(set \cup {e}) = Cardinality(set) + 1
      BY <1>1, <2>4, FS_AddElement
    <3> QED
      BY <1>1, <1>6, <1>14, <2>2, <3>1
  <2>6. next \in SUBSET Item /\ \A x \in next : x = e \/ x \in set
    BY <1>1, <1>6, <2>2
  <2>7. \A x \in next : <<x.name, x.provider>> \in more
    BY <1>2, <1>6, <1>7, <2>6 DEF more
  <2>8. \A x, y \in next : x.name = y.name => x = y
    BY <1>3, <1>6, <2>1, <2>6
  <2>9. \A x \in next, o \in more : o[1] = x.name => x.provider <= o[2]
    BY <1>n, <1>4, <1>6, <1>7, <2>1, <2>3, <2>6
  <2>10. \A o \in more : \E x \in next : x.name = o[1]
    BY <1>6, <1>7, <2>2, <2>3
  <2> QED
    BY <1>7, <2>5, <2>6, <2>7, <2>8, <2>9, <2>10 DEF Ranked
<1>15. CASE FindWord(set, n) = {} /\ ~(Cardinality(set) < MaxItems)
  <2>1. \A x \in set : x.name # n
    BY <1>15 DEF FindWord
  <2>2. Cardinality(set) = MaxItems /\ gone = Victims(set, p)
    BY <1>1, <1>6, <1>10, <1>15
  <2>3. CASE \E x \in set : x.provider > p
    <3>1. PICK v \in set : v \in Victims(set, p)
      BY <1>1, <2>3, VictimExists
    <3>2. Victims(set, p) = {v} /\ v.provider > p /\ \A y \in set : y.provider <= v.provider
      BY <1>1, <1>3, <3>1, VictimUnique
    <3>3. \A o \in offers : o[1] = n => v.provider <= o[2]
      BY <1>5, <2>1
    <3>4. p < v.provider
      BY <1>n, <3>1, <3>2
    <3> QED
      BY <1>11, <2>1, <2>2, <3>2, <3>3, <3>4
  <2>4. CASE ~\E x \in set : x.provider > p
    <3>1. \A x \in set : x.provider <= p
      BY <1>n, <2>4
    <3>2. gone = {}
      BY <2>2, <2>4 DEF Victims
    <3>3. next = set
      BY <1>9, <1>15, <3>2
    <3>4. \A x \in set : x.name = n => x.provider <= p
      BY <2>1
    <3> QED
      BY <1>12, <2>2, <3>1, <3>3, <3>4
  <2> QED
    BY <2>3, <2>4
<1> QED
  BY <1>13, <1>14, <1>15

\* The set after the entries of a list.
Listed(set, seq, p) ==
    FoldLeft(LAMBDA v, n : Added(v, MaxItems, [name |-> n, provider |-> p]), set, seq)

\* The set before, between and after the entries of a list.
Parsing(set, seq, p, f) ==
    /\ f \in [0 .. Len(seq) -> SUBSET Item]
    /\ f[0] = set
    /\ \A k \in 1 .. Len(seq) :
         f[k] = Added(f[k - 1], MaxItems, [name |-> seq[k], provider |-> p])
    /\ Listed(set, seq, p) = f[Len(seq)]

\* The fold of a list has a trace.
LEMMA ParseTrace ==
    ASSUME NEW set \in SUBSET Item, NEW seq \in Seq(Names), NEW p \in Providers
    PROVE  \E f : Parsing(set, seq, p, f)
<1> DEFINE n == Len(seq)
           V == SUBSET Item
           Next1(v, x) == Added(v, MaxItems, [name |-> x, provider |-> p])
           step == [t \in (1 .. n) \X V |-> Next1(t[2], seq[t[1]])]
<1>1. n \in Nat /\ DOMAIN seq = 1 .. n /\ \A k \in 1 .. n : seq[k] \in Names
  OBVIOUS
<1>2. \A v \in V, k \in 1 .. n : Next1(v, seq[k]) \in V
  <2> TAKE v \in V, k \in 1 .. n
  <2> DEFINE e == [name |-> seq[k], provider |-> p]
  <2>1. e \in Item
    BY <1>1 DEF Item
  <2> HIDE DEF e
  <2>2. Added(v, MaxItems, e) \in V
    BY <2>1 DEF Added
  <2> QED
    BY <2>2 DEF e
<1> HIDE DEF n, V, Next1
<1>3. step \in Steps(n, V) /\ \A k \in 1 .. n, v \in V : step[<<k, v>>] = Next1(v, seq[k])
  BY <1>2 DEF Steps
<1> HIDE DEF step
<1>4. set \in V
  BY DEF V
<1>5. PICK g : g \in Folding(n, V, set, step)
  BY <1>1, <1>3, <1>4, FoldExists
<1>6. /\ g \in [SUBSET (1 .. n) -> V] /\ g[{}] = set
      /\ \A s \in SUBSET (1 .. n) : s # {} => g[s] = step[<<Max(s), g[s \ {Max(s)}]>>]
  BY <1>5 DEF Folding
<1>7. \A s \in SUBSET (1 .. n) :
        g[s] = IF s = {} THEN set ELSE Next1(g[s \ {Max(s)}], seq[Max(s)])
  <2> TAKE s \in SUBSET (1 .. n)
  <2>1. CASE s = {}
    BY <1>6, <2>1
  <2>2. CASE s # {}
    <3>1. Max(s) \in 1 .. n
      BY <1>1, <2>2, MaxOfIndexes
    <3>2. g[s \ {Max(s)}] \in V
      BY <1>6
    <3> QED
      BY <1>3, <1>6, <2>2, <3>1, <3>2
  <2> QED
    BY <2>1, <2>2
<1>8. g = [s \in SUBSET (1 .. n) |->
             IF s = {} THEN set ELSE Next1(g[s \ {Max(s)}], seq[Max(s)])]
  BY <1>6, <1>7
<1> DEFINE iter[s \in SUBSET (1 .. n)] ==
             IF s = {} THEN set ELSE Next1(iter[s \ {Max(s)}], seq[Max(s)])
<1>9. iter = [s \in SUBSET (1 .. n) |->
                IF s = {} THEN set ELSE Next1(iter[s \ {Max(s)}], seq[Max(s)])]
  BY <1>8, Zenon
<1>10. Listed(set, seq, p) = iter[1 .. n]
  BY <1>1, Zenon DEF Listed, FoldLeft, MapThenFoldSet, Next1
<1> HIDE DEF iter
<1>11. iter[{}] = set
  BY <1>9
<1>12. ASSUME NEW s \in SUBSET (1 .. n), s # {} /\ iter[s \ {Max(s)}] \in V
       PROVE  iter[s] = step[<<Max(s), iter[s \ {Max(s)}]>>]
  <2>1. Max(s) \in 1 .. n
    BY <1>1, <1>12, MaxOfIndexes
  <2>2. iter[s] = Next1(iter[s \ {Max(s)}], seq[Max(s)])
    BY <1>9, <1>12
  <2> QED
    BY <1>3, <1>12, <2>1, <2>2
<1> DEFINE f == [k \in 0 .. n |-> iter[1 .. k]]
<1>13. f \in Traces(n, V, set, step)
  BY <1>1, <1>3, <1>4, <1>11, <1>12, FoldTrace
<1>14. f[n] = iter[1 .. n]
  BY <1>1
<1> HIDE DEF f
<1>15. /\ f \in [0 .. n -> V] /\ f[0] = set
       /\ \A k \in 1 .. n : f[k] = step[<<k, f[k - 1]>>]
  BY <1>13 DEF Traces, Trace
<1>16. \A k \in 1 .. n : f[k] = Next1(f[k - 1], seq[k])
  <2> TAKE k \in 1 .. n
  <2>1. f[k - 1] \in V
    BY <1>1, <1>15
  <2> QED
    BY <1>3, <1>15, <2>1
<1>17. Parsing(set, seq, p, f)
  BY <1>10, <1>14, <1>15, <1>16 DEF Parsing, n, V, Next1
<1> QED
  BY <1>17

\* All offers of a list.
LEMMA ListRanked ==
    ASSUME NEW set, NEW offers, Ranked(set, offers), NEW seq \in Seq(Names), NEW p \in Providers
    PROVE  Ranked(Listed(set, seq, p), offers \cup {<<seq[i], p>> : i \in 1 .. Len(seq)})
<1>1. set \in SUBSET Item
  BY DEF Ranked
<1>2. PICK f : Parsing(set, seq, p, f)
  BY <1>1, ParseTrace
<1> DEFINE made(k) == offers \cup {<<seq[i], p>> : i \in 1 .. k}
           Right == {k \in 0 .. Len(seq) : Ranked(f[k], made(k))}
<1>3. Len(seq) \in Nat /\ \A k \in 1 .. Len(seq) : seq[k] \in Names
  OBVIOUS
<1>4. 0 \in Right
  <2>1. made(0) = offers
    OBVIOUS
  <2>2. f[0] = set /\ 0 \in 0 .. Len(seq)
    BY <1>2, <1>3 DEF Parsing
  <2> HIDE DEF made
  <2> QED
    BY <2>1, <2>2
<1>5. ASSUME NEW k \in 0 .. Len(seq) - 1, k \in Right PROVE k + 1 \in Right
  <2>1. k + 1 \in 1 .. Len(seq) /\ k + 1 \in 0 .. Len(seq) /\ (k + 1) - 1 = k
    BY <1>3
  <2>2. f[k + 1] = Added(f[k], MaxItems, [name |-> seq[k + 1], provider |-> p])
    BY <1>2, <2>1 DEF Parsing
  <2>3. made(k + 1) = made(k) \cup {<<seq[k + 1], p>>}
    <3>1. 1 .. k + 1 = (1 .. k) \cup {k + 1}
      BY <2>1
    <3> QED
      BY <3>1
  <2> HIDE DEF made
  <2>4. Ranked(f[k], made(k)) /\ seq[k + 1] \in Names
    BY <1>3, <1>5, <2>1
  <2>5. Ranked(f[k + 1], made(k + 1))
    BY <2>2, <2>3, <2>4, AddedRanked
  <2> QED
    BY <2>1, <2>5
<1> HIDE DEF Right
<1>6. \A k \in 0 .. Len(seq) : k \in Right
  BY <1>3, <1>4, <1>5, UpTo
<1>7. Ranked(f[Len(seq)], made(Len(seq)))
  <2>1. Len(seq) \in 0 .. Len(seq)
    BY <1>3
  <2> HIDE DEF made
  <2> QED
    BY <1>6, <2>1 DEF Right
<1> HIDE DEF made
<1>8. Listed(set, seq, p) = f[Len(seq)]
  BY <1>2 DEF Parsing
<1> QED
  BY <1>7, <1>8 DEF made

-----------------------------------------------------------------------------

\* Who has offered what.
Offered == UNION {{<<lists[q][i], q>> : i \in 1 .. Len(lists[q])} : q \in arrived}

NamesOK ==
    /\ lists \in [Providers -> Seq(Names)]
    /\ arrived \in SUBSET Providers
    /\ Ranked(items, Offered)

\* Every reachable set is ranked.
LEMMA NamesAlwaysOK == NamesSpec => []NamesOK
<1>1. NamesInit => NamesOK
  <2> SUFFICES ASSUME NamesInit PROVE NamesOK
    OBVIOUS
  <2>1. lists \in [Providers -> Seq(Names)]
    <3>1. BoundedSeq(Names, MaxEntries) \subseteq Seq(Names)
      <4> SUFFICES ASSUME NEW m \in 0 .. MaxEntries, NEW s \in [1 .. m -> Names]
                   PROVE  s \in Seq(Names)
        BY DEF BoundedSeq, SeqOf
      <4>1. m \in Nat
        BY BoundsAssumption
      <4> QED
        BY <4>1
    <3> QED
      BY <3>1 DEF NamesInit
  <2>2. Ranked({}, {})
    BY FS_EmptySet, BoundsAssumption DEF Ranked
  <2> QED
    BY <2>1, <2>2 DEF NamesOK, NamesInit, Offered
<1>2. NamesOK /\ [NamesNext]_namesVars => NamesOK'
  <2> SUFFICES ASSUME NamesOK, [NamesNext]_namesVars PROVE NamesOK'
    OBVIOUS
  <2>1. CASE UNCHANGED namesVars
    <3>1. Offered' = Offered
      BY <2>1 DEF namesVars, Offered
    <3> QED
      BY <2>1, <3>1 DEF NamesOK, namesVars, Ranked
  <2>2. ASSUME NEW p \in Providers, Parse(p) PROVE NamesOK'
    <3>1. lists[p] \in Seq(Names) /\ Ranked(items, Offered)
      BY DEF NamesOK
    <3> DEFINE more == {<<lists[p][i], p>> : i \in 1 .. Len(lists[p])}
    <3>2. Ranked(Listed(items, lists[p], p), Offered \cup more)
      BY <3>1, ListRanked
    <3>3. items' = Listed(items, lists[p], p)
      BY <2>2 DEF Parse, Listed
    <3>4. Offered' = Offered \cup more
      <4>1. arrived' = arrived \cup {p} /\ lists' = lists
        BY <2>2 DEF Parse
      <4> QED
        BY <4>1 DEF Offered
    <3> HIDE DEF more
    <3>5. Ranked(items', Offered')
      BY <3>2, <3>3, <3>4
    <3>6. Ranked(items, Offered)'
      BY <3>5 DEF Ranked
    <3> QED
      BY <2>2, <3>6 DEF NamesOK, Parse
  <2> QED
    BY <2>1, <2>2 DEF NamesNext
<1> QED
  BY <1>1, <1>2, PTL DEF NamesSpec

\* What a provider has offered, by the entries of its list.
LEMMA OffersOf ==
    ASSUME NamesOK, NEW q \in Providers
    PROVE  /\ IsFiniteSet(Offers(q))
           /\ \A n : n \in Offers(q) <=> <<n, q>> \in Offered
<1>1. lists[q] \in Seq(Names) /\ arrived \in SUBSET Providers
  BY DEF NamesOK
<1> DEFINE l == lists[q]
<1>2. Len(l) \in Nat /\ DOMAIN l = 1 .. Len(l)
  BY <1>1
<1>3. ToSet(l) = {l[i] : i \in 1 .. Len(l)}
  BY <1>2 DEF ToSet
<1>4. IsFiniteSet(ToSet(l))
  <2> DEFINE f == [i \in 1 .. Len(l) |-> l[i]]
  <2>1. f \in Surjection(1 .. Len(l), ToSet(l))
    BY <1>3 DEF Surjection
  <2>2. IsFiniteSet(1 .. Len(l))
    BY <1>2, FS_Interval
  <2> QED
    BY <2>1, <2>2, FS_Surjection
<1>5. IsFiniteSet(Offers(q))
  BY <1>4, FS_EmptySet DEF Offers
<1>6. ASSUME NEW n PROVE n \in Offers(q) <=> <<n, q>> \in Offered
  <2>1. n \in Offers(q) <=> q \in arrived /\ \E i \in 1 .. Len(l) : n = l[i]
    BY <1>3 DEF Offers
  <2>2. <<n, q>> \in Offered <=>
          \E r \in arrived : \E i \in 1 .. Len(lists[r]) : <<n, q>> = <<lists[r][i], r>>
    BY DEF Offered
  <2> QED
    BY <2>1, <2>2
<1> QED
  BY <1>5, <1>6

\* A ranked set gives its names, and its places, to the best.
LEMMA RankedDecides == NamesOK => RankDecides
<1> SUFFICES ASSUME NamesOK PROVE RankDecides
  OBVIOUS
<1>1. Ranked(items, Offered) /\ items \in SUBSET Item /\ IsFiniteSet(items)
  BY DEF NamesOK, Ranked
<1>2. Cardinality(items) \in Nat /\ Cardinality(items) <= MaxItems /\ MaxItems \in Nat
  BY <1>1, FS_CardinalityType, BoundsAssumption DEF Ranked
<1>3. \A x, y \in items : x.name = y.name => x = y
  BY <1>1 DEF Ranked
<1>4. ASSUME NEW x \in items, NEW q \in Providers, x.name \in Offers(q)
      PROVE  x.provider <= q
  <2>1. <<x.name, q>> \in Offered
    BY <1>4, OffersOf
  <2> QED
    BY <1>1, <2>1 DEF Ranked
<1>5. ASSUME NEW p \in Providers
      PROVE  LET kept == Cardinality({x \in items : x.provider <= p})
                 offered == Cardinality(OfferedBy(p))
             IN  kept = IF offered < MaxItems THEN offered ELSE MaxItems
  <2> DEFINE Kept == {x \in items : x.provider <= p}
             O == OfferedBy(p)
             K == {x.name : x \in Kept}
             better == {q \in Providers : q <= p}
             all == {Offers(q) : q \in better}
  <2>1. IsFiniteSet(Kept) /\ Kept \subseteq items
    BY <1>1, FS_Subset
  <2>2. IsFiniteSet(K) /\ Cardinality(K) = Cardinality(Kept)
    <3> DEFINE f == [x \in Kept |-> x.name]
    <3>1. f \in Bijection(Kept, K)
      BY <1>3 DEF Bijection, Injection, Surjection, IsInjective
    <3> QED
      BY <2>1, <3>1, FS_Bijection DEF ExistsBijection
  <2>3. IsFiniteSet(O)
    <3>1. p \in Nat /\ better \in SUBSET Nat /\ \A q \in better : q <= p
      BY NamesAssumption
    <3>2. IsFiniteSet(better)
      BY <3>1, FS_BoundedSetOfNaturals
    <3> DEFINE f == [q \in better |-> Offers(q)]
    <3>3. f \in Surjection(better, all)
      BY DEF Surjection
    <3>4. IsFiniteSet(all)
      BY <3>2, <3>3, FS_Surjection
    <3>5. \A s \in all : IsFiniteSet(s)
      BY OffersOf
    <3>6. IsFiniteSet(UNION all)
      BY <3>4, <3>5, FS_UNION
    <3> QED
      BY <3>6 DEF OfferedBy
  <2>4. \A n \in O : \E q \in Providers : q <= p /\ <<n, q>> \in Offered
    BY OffersOf DEF OfferedBy
  <2>5. K \subseteq O
    <3> SUFFICES ASSUME NEW x \in Kept PROVE x.name \in O
      OBVIOUS
    <3>1. <<x.name, x.provider>> \in Offered /\ x.provider \in Providers /\ x.provider <= p
      BY <1>1 DEF Ranked, Item
    <3>2. x.name \in Offers(x.provider)
      BY <3>1, OffersOf
    <3> QED
      BY <3>1, <3>2 DEF OfferedBy
  <2>6. Cardinality(O) \in Nat /\ Cardinality(K) \in Nat /\ Cardinality(K) <= Cardinality(O)
    BY <2>2, <2>3, <2>5, FS_CardinalityType, FS_Subset
  <2>7. Cardinality(Kept) <= MaxItems
    <3>1. Cardinality(Kept) <= Cardinality(items) /\ Cardinality(Kept) \in Nat
      BY <1>1, <2>1, FS_Subset, FS_CardinalityType
    <3> QED
      BY <1>2, <3>1
  <2> SUFFICES Cardinality(Kept) = IF Cardinality(O) < MaxItems THEN Cardinality(O)
                                   ELSE MaxItems
    OBVIOUS
  <2>8. CASE K = O
    <3> HIDE DEF Kept, O, K
    <3> QED
      BY <1>2, <2>2, <2>6, <2>7, <2>8
  <2>9. CASE K # O
    <3>1. PICK n \in O : n \notin K
      BY <2>5, <2>9
    <3>2. PICK q \in Providers : q <= p /\ <<n, q>> \in Offered
      BY <2>4
    <3>3. <<n, q>>[1] = n /\ <<n, q>>[2] = q /\ q \in Nat /\ p \in Nat
          /\ \A x \in items : x.provider \in Nat
      BY <1>1, NamesAssumption DEF Item
    <3>4. \A x \in items : x.name # n
      <4> SUFFICES ASSUME NEW x \in items, x.name = n PROVE FALSE
        OBVIOUS
      <4>1. x.provider <= q
        BY <1>1, <3>2, <3>3 DEF Ranked
      <4>2. x \in Kept
        BY <3>2, <3>3, <4>1
      <4> QED
        BY <3>1, <4>2
    <3>5. Cardinality(items) = MaxItems /\ \A x \in items : x.provider <= q
      BY <1>1, <3>2, <3>3, <3>4 DEF Ranked
    <3>6. Kept = items
      BY <3>2, <3>3, <3>5
    <3> HIDE DEF Kept, O, K
    <3> QED
      BY <1>2, <2>2, <2>6, <3>5, <3>6
  <2> QED
    BY <2>8, <2>9
<1> QED
  BY <1>3, <1>4, <1>5 DEF RankDecides, NameToBest, PlacesToBest

\* Rank decides who gets a name and who a place, whatever the lists, in
\* whatever order the providers answer (add_emote_locked).
THEOREM AlwaysRanked == NamesSpec => []RankDecides
<1>1. NamesOK => RankDecides
  BY RankedDecides
<1> QED
  BY <1>1, NamesAlwaysOK, PTL

-----------------------------------------------------------------------------
(* PrivacyLabels.  The table fills from its first slot, and then turns; how  *)
(* long it is to a slot's next turn and how many keys have found no label    *)
(* since its own was given make up a whole round.                            *)

LabelEntry == {e \in [held : SUBSET Keys, id : SUBSET Identifiers] :
                \/ e = Unused
                \/ \E k \in Keys, i \in Identifiers : e = [held |-> {k}, id |-> {i}]}

\* How many labels are given before it is the turn of slot s.
TurnsTo(s) == LET t == turn % LabelSlots IN IF s >= t THEN s - t ELSE s - t + LabelSlots

\* A slot whose key was followed by n others has its turn when a round is over.
Safe(s, n) ==
    /\ FreeSlots # {} => \A t \in LabelTable : t \notin FreeSlots => n + s >= t
    /\ FreeSlots = {} => n + TurnsTo(s) >= LabelSlots - 1

Kept(k, g, s) == labels[s] = [held |-> {k}, id |-> {g.id}] /\ Safe(s, g.others)

GivenOK(k, g) ==
    /\ g \in [id : Identifiers, others : Nat]
    /\ g.others < LabelSlots => \E s \in LabelTable : Kept(k, g, s)

TableOK ==
    /\ labels \in [LabelTable -> LabelEntry]
    /\ \A s, t \in LabelTable : s # t => /\ labels[s].held \cap labels[t].held = {}
                                         /\ labels[s].id \cap labels[t].id = {}
    /\ turn \in 0 .. CounterWrap - 1
    /\ FreeSlots # {} => turn = 0
    /\ \A s \in FreeSlots, t \in LabelTable : t \notin FreeSlots => t < s

LabelsOK == TableOK /\ \A k \in DOMAIN given : GivenOK(k, given[k])

\* The slot that is filled next, and the turn after.
LEMMA SlotFilled ==
    ASSUME TableOK, NEW s, s = SlotToFill.slot
    PROVE  /\ s \in LabelTable
           /\ FreeSlots # {} => /\ s \in FreeSlots /\ \A f \in FreeSlots : s <= f
                                /\ SlotToFill.turn = turn
           /\ FreeSlots = {} => /\ s = turn % LabelSlots
                                /\ SlotToFill.turn \in 0 .. CounterWrap - 1
                                /\ SlotToFill.turn % LabelSlots
                                     = IF s = LabelSlots - 1 THEN 0 ELSE s + 1
<1>1. CASE FreeSlots # {}
  <2>1. FreeSlots \in SUBSET Nat
    BY LabelsAssumption DEF FreeSlots, LabelTable
  <2>2. \E m \in FreeSlots : \A f \in FreeSlots : m <= f
    BY <1>1, <2>1, Least
  <2>3. SlotToFill.slot = CHOOSE m \in FreeSlots : \A f \in FreeSlots : m <= f
    BY <1>1 DEF SlotToFill
  <2>4. SlotToFill.turn = turn
    BY <1>1 DEF SlotToFill
  <2>5. s \in FreeSlots /\ \A f \in FreeSlots : s <= f
    BY <2>2, <2>3
  <2> QED
    BY <1>1, <2>4, <2>5 DEF FreeSlots
<1>2. CASE FreeSlots = {}
  <2> DEFINE L == LabelSlots
             C == CounterWrap
  <2>1. L \in Nat \ {0} /\ C \in Nat \ {0} /\ C % L = 0 /\ turn \in Int /\ turn + 1 \in Int
    BY LabelsAssumption DEF TableOK
  <2>2. s = turn % L /\ SlotToFill.turn = (turn + 1) % C
    BY <1>2 DEF SlotToFill
  <2> HIDE DEF L, C
  <2>3. s \in 0 .. L - 1 /\ (turn + 1) % C \in 0 .. C - 1
    BY <2>1, <2>2, Remainder
  <2>4. ((turn + 1) % C) % L = (turn + 1) % L
    BY <2>1, RemainderOfRemainder
  <2>5. (s + 1) % L = (turn + 1) % L
    BY <2>1, <2>2, RemainderNext
  <2>6. (s + 1) % L = IF s = L - 1 THEN 0 ELSE s + 1
    <3>1. CASE s = L - 1
      <4>1. s + 1 = L * 1 + 0 /\ 0 \in 0 .. L - 1 /\ s + 1 \in Int
        BY <2>1, <2>3, <3>1
      <4> QED
        BY <2>1, <3>1, <4>1, RemainderIs
    <3>2. CASE s # L - 1
      <4>1. s + 1 = L * 0 + (s + 1) /\ s + 1 \in 0 .. L - 1 /\ s + 1 \in Int
        BY <2>1, <2>3, <3>2
      <4> QED
        BY <2>1, <3>2, <4>1, RemainderIs
    <3> QED
      BY <3>1, <3>2
  <2> QED
    BY <1>2, <2>2, <2>3, <2>4, <2>5, <2>6 DEF L, C, LabelTable
<1> QED
  BY <1>1, <1>2

\* A key that gets no label may take a turn; one that does takes a slot.
LEMMA TableStep ==
    ASSUME TableOK, turn' = SlotToFill.turn, NEW s, s = SlotToFill.slot,
           NEW k \in Keys, Holding(k) = {},
           \/ labels' = labels
           \/ \E i \in FreshIdentifiers :
                labels' = [labels EXCEPT ![s] = [held |-> {k}, id |-> {i}]]
    PROVE  TableOK'
<1>1. /\ s \in LabelTable
      /\ FreeSlots # {} => /\ s \in FreeSlots /\ \A f \in FreeSlots : s <= f
                           /\ SlotToFill.turn = turn
      /\ FreeSlots = {} => SlotToFill.turn \in 0 .. CounterWrap - 1
  BY SlotFilled
<1>2. turn' \in 0 .. CounterWrap - 1 /\ (FreeSlots # {} => turn' = 0)
  BY <1>1 DEF TableOK
<1>3. CASE labels' = labels
  <2>1. FreeSlots' = FreeSlots
    BY <1>3 DEF FreeSlots
  <2> QED
    BY <1>2, <1>3, <2>1 DEF TableOK
<1>4. ASSUME NEW i \in FreshIdentifiers,
             labels' = [labels EXCEPT ![s] = [held |-> {k}, id |-> {i}]]
      PROVE  TableOK'
  <2> DEFINE e == [held |-> {k}, id |-> {i}]
  <2>1. e \in LabelEntry /\ e.held = {k} /\ e.id = {i}
    <3>1. i \in Identifiers
      BY DEF FreshIdentifiers
    <3>2. \E a \in Keys, b \in Identifiers : e = [held |-> {a}, id |-> {b}]
      BY <3>1
    <3>3. e.held = {k} /\ e.id = {i}
      OBVIOUS
    <3> HIDE DEF e
    <3>4. e \in [held : SUBSET Keys, id : SUBSET Identifiers]
      BY <3>1 DEF e
    <3> QED
      BY <3>2, <3>3, <3>4 DEF LabelEntry
  <2>2. \A t \in LabelTable : k \notin labels[t].held /\ i \notin labels[t].id
    BY DEF Holding, FreshIdentifiers
  <2> HIDE DEF e
  <2>3. /\ labels' = [labels EXCEPT ![s] = e]
        /\ labels \in [LabelTable -> LabelEntry]
    BY <1>4 DEF e, TableOK
  <2>4. labels' \in [LabelTable -> LabelEntry]
    BY <2>1, <2>3
  <2>5. labels'[s] = e /\ \A t \in LabelTable : t # s => labels'[t] = labels[t]
    BY <1>1, <2>3
  <2>6. FreeSlots' = FreeSlots \ {s}
    BY <2>1, <2>5 DEF FreeSlots
  <2>7. \A t, u \in LabelTable : t # u => /\ labels'[t].held \cap labels'[u].held = {}
                                         /\ labels'[t].id \cap labels'[u].id = {}
    <3> TAKE t, u \in LabelTable
    <3>1. CASE t = s /\ u # s
      BY <2>1, <2>2, <2>5, <3>1
    <3>2. CASE u = s /\ t # s
      BY <2>1, <2>2, <2>5, <3>2
    <3>3. CASE t # s /\ u # s
      BY <2>5, <3>3 DEF TableOK
    <3> QED
      BY <3>1, <3>2, <3>3
  <2>8. \A f \in FreeSlots', t \in LabelTable : t \notin FreeSlots' => t < f
    <3> TAKE f \in FreeSlots', t \in LabelTable
    <3>1. f \in FreeSlots /\ f # s /\ f \in Int /\ s \in Int
      BY <1>1, <2>6, LabelsAssumption DEF FreeSlots, LabelTable
    <3>2. s < f
      BY <1>1, <3>1
    <3> QED
      BY <2>6, <3>1, <3>2 DEF TableOK
  <2> QED
    BY <1>2, <2>4, <2>6, <2>7, <2>8 DEF TableOK
<1> QED
  BY <1>3, <1>4

\* A key with a label moves up one in its round.
LEMMA SafeStep ==
    ASSUME TableOK, turn' = SlotToFill.turn, NEW s, s = SlotToFill.slot,
           FreeSlots' = FreeSlots \/ FreeSlots' = FreeSlots \ {s},
           NEW r \in LabelTable, r \notin FreeSlots, NEW n \in Nat, n + 1 < LabelSlots,
           Safe(r, n)
    PROVE  r # s /\ Safe(r, n + 1)'
<1> DEFINE L == LabelSlots
<1>1. /\ s \in LabelTable
      /\ FreeSlots # {} => /\ s \in FreeSlots /\ \A f \in FreeSlots : s <= f
                           /\ SlotToFill.turn = turn
      /\ FreeSlots = {} => /\ s = turn % L
                           /\ SlotToFill.turn % L = IF s = L - 1 THEN 0 ELSE s + 1
  BY SlotFilled
<1>2. L \in Nat \ {0} /\ s \in 0 .. L - 1 /\ r \in 0 .. L - 1 /\ LabelTable = 0 .. L - 1
  BY <1>1, LabelsAssumption DEF LabelTable
<1>3. CASE FreeSlots # {}
  <2>1. r # s /\ turn' = 0 /\ \A t \in LabelTable : t \notin FreeSlots => n + r >= t
    BY <1>1, <1>3 DEF Safe, TableOK
  <2>2. n + 1 + r >= s
    <3>1. CASE s = 0
      BY <1>2, <3>1
    <3>2. CASE s # 0
      <4>1. s - 1 \in LabelTable
        BY <1>2, <3>2
      <4>2. s - 1 \notin FreeSlots
        BY <1>1, <1>2, <1>3
      <4>3. n + r >= s - 1
        BY <2>1, <4>1, <4>2
      <4> QED
        BY <1>2, <4>3
    <3> QED
      BY <3>1, <3>2
  <2>3. \A t \in LabelTable : t \notin FreeSlots' => n + 1 + r >= t
    <3> SUFFICES ASSUME NEW t \in LabelTable, t \notin FreeSlots' PROVE n + 1 + r >= t
      OBVIOUS
    <3>1. CASE t = s
      BY <2>2, <3>1
    <3>2. CASE t # s
      <4>1. t \notin FreeSlots
        BY <3>2
      <4>2. n + r >= t
        BY <2>1, <4>1
      <4> QED
        BY <1>2, <4>2
    <3> QED
      BY <3>1, <3>2
  <2>4. FreeSlots' = {} => n + 1 + TurnsTo(r)' >= L - 1
    <3> SUFFICES ASSUME FreeSlots' = {} PROVE n + 1 + TurnsTo(r)' >= L - 1
      OBVIOUS
    <3>1. n + 1 + r >= L - 1
      BY <1>2, <2>3
    <3>2. turn' % L = 0
      <4>1. 0 = L * 0 + 0 /\ 0 \in 0 .. L - 1
        BY <1>2
      <4> QED
        BY <1>2, <2>1, <4>1, RemainderIs
    <3>3. TurnsTo(r)' = r
      BY <1>2, <3>2 DEF TurnsTo
    <3> QED
      BY <3>1, <3>3
  <2>5. Safe(r, n + 1)'
    BY <2>3, <2>4 DEF Safe
  <2> QED
    BY <2>1, <2>5
<1>4. CASE FreeSlots = {}
  <2>1. FreeSlots' = {}
    BY <1>4
  <2>2. n + TurnsTo(r) >= L - 1
    BY <1>4 DEF Safe
  <2>3. TurnsTo(r) = IF r >= s THEN r - s ELSE r - s + L
    BY <1>1, <1>4 DEF TurnsTo
  <2> DEFINE u == IF s = L - 1 THEN 0 ELSE s + 1
  <2>4. TurnsTo(r)' = IF r >= u THEN r - u ELSE r - u + L
    BY <1>1, <1>4 DEF TurnsTo
  <2>5. r # s
    BY <1>2, <2>2, <2>3
  <2>6. n + 1 + TurnsTo(r)' >= L - 1
    BY <1>2, <2>2, <2>3, <2>4, <2>5
  <2>7. Safe(r, n + 1)'
    BY <2>1, <2>6 DEF Safe
  <2> QED
    BY <2>5, <2>7
<1> QED
  BY <1>3, <1>4

\* A key that has just got its label has the whole round before it.
LEMMA SafeNew ==
    ASSUME TableOK, turn' = SlotToFill.turn, NEW s, s = SlotToFill.slot,
           FreeSlots' = FreeSlots \ {s}
    PROVE  Safe(s, 0)'
<1> DEFINE L == LabelSlots
<1>1. /\ s \in LabelTable
      /\ FreeSlots # {} => /\ s \in FreeSlots /\ \A f \in FreeSlots : s <= f
                           /\ SlotToFill.turn = turn
      /\ FreeSlots = {} => /\ s = turn % L
                           /\ SlotToFill.turn % L = IF s = L - 1 THEN 0 ELSE s + 1
  BY SlotFilled
<1>2. L \in Nat \ {0} /\ s \in 0 .. L - 1 /\ LabelTable = 0 .. L - 1
  BY <1>1, LabelsAssumption DEF LabelTable
<1>3. CASE FreeSlots # {}
  <2>1. turn' = 0
    BY <1>1, <1>3 DEF TableOK
  <2>2. \A t \in LabelTable : t \notin FreeSlots' => 0 + s >= t
    <3> SUFFICES ASSUME NEW t \in LabelTable, t \notin FreeSlots' PROVE 0 + s >= t
      OBVIOUS
    <3>1. CASE t = s
      BY <1>2, <3>1
    <3>2. CASE t # s
      <4>1. t < s
        BY <1>1, <1>3, <3>2 DEF TableOK
      <4> QED
        BY <1>2, <4>1
    <3> QED
      BY <3>1, <3>2
  <2>3. FreeSlots' = {} => 0 + TurnsTo(s)' >= L - 1
    <3> SUFFICES ASSUME FreeSlots' = {} PROVE 0 + TurnsTo(s)' >= L - 1
      OBVIOUS
    <3>1. s >= L - 1
      BY <1>2, <2>2
    <3>2. turn' % L = 0
      <4>1. 0 = L * 0 + 0 /\ 0 \in 0 .. L - 1
        BY <1>2
      <4> QED
        BY <1>2, <2>1, <4>1, RemainderIs
    <3>3. TurnsTo(s)' = s
      BY <1>2, <3>2 DEF TurnsTo
    <3> QED
      BY <1>2, <3>1, <3>3
  <2> QED
    BY <2>2, <2>3 DEF Safe
<1>4. CASE FreeSlots = {}
  <2>1. FreeSlots' = {}
    BY <1>4
  <2> DEFINE u == IF s = L - 1 THEN 0 ELSE s + 1
  <2>2. TurnsTo(s)' = IF s >= u THEN s - u ELSE s - u + L
    BY <1>1, <1>4 DEF TurnsTo
  <2>3. 0 + TurnsTo(s)' >= L - 1
    BY <1>2, <2>2
  <2> QED
    BY <2>1, <2>3 DEF Safe
<1> QED
  BY <1>3, <1>4

\* The ghost of a key, when another has found no label.
LEMMA LaterOK ==
    ASSUME TableOK, NEW k, NEW j \in DOMAIN given, NEW g, g = given[j], GivenOK(j, g),
           NEW h, h = Later[j],
           turn' = SlotToFill.turn, NEW s, s = SlotToFill.slot, NEW e,
           \/ labels' = labels
           \/ e.held = {k} /\ labels' = [labels EXCEPT ![s] = e]
    PROVE  GivenOK(j, h)'
<1>1. g \in [id : Identifiers, others : Nat] /\ LabelSlots \in Nat
  BY LabelsAssumption DEF GivenOK
<1>2. h = [g EXCEPT !.others = IF g.others < LabelSlots THEN g.others + 1 ELSE LabelSlots]
  BY DEF Later
<1>3. h \in [id : Identifiers, others : Nat] /\ h.id = g.id
      /\ h.others = IF g.others < LabelSlots THEN g.others + 1 ELSE LabelSlots
  BY <1>1, <1>2
<1>4. s \in LabelTable /\ (FreeSlots # {} => s \in FreeSlots)
  BY SlotFilled
<1>5. labels \in [LabelTable -> LabelEntry]
  BY DEF TableOK
<1>6. FreeSlots' = FreeSlots \/ FreeSlots' = FreeSlots \ {s}
  <2>1. CASE labels' = labels
    BY <2>1 DEF FreeSlots
  <2>2. CASE e.held = {k} /\ labels' = [labels EXCEPT ![s] = e]
    <3>1. labels'[s] = e /\ \A t \in LabelTable : t # s => labels'[t] = labels[t]
      BY <1>4, <1>5, <2>2
    <3> QED
      BY <1>4, <2>2, <3>1 DEF FreeSlots
  <2> QED
    BY <2>1, <2>2
<1>7. ASSUME h.others < LabelSlots PROVE \E r \in LabelTable : Kept(j, h, r)'
  <2>1. g.others \in Nat /\ g.others < LabelSlots /\ h.others = g.others + 1
    BY <1>1, <1>3, <1>7
  <2>2. PICK r \in LabelTable : Kept(j, g, r)
    BY <2>1 DEF GivenOK
  <2>3. labels[r] = [held |-> {j}, id |-> {g.id}] /\ Safe(r, g.others)
    BY <2>2 DEF Kept
  <2>4. r \notin FreeSlots
    BY <2>3 DEF FreeSlots
  <2>5. r # s /\ Safe(r, g.others + 1)'
    BY <1>6, <1>7, <2>1, <2>3, <2>4, SafeStep
  <2>6. labels'[r] = labels[r]
    BY <1>4, <1>5, <2>5
  <2>7. Kept(j, h, r)'
    <3>1. Safe(r, h.others)'
      BY <2>1, <2>5
    <3> QED
      BY <1>3, <2>3, <2>6, <3>1 DEF Kept
  <2> QED
    BY <2>7
<1> QED
  BY <1>3, <1>7 DEF GivenOK

\* The empty table.
LEMMA EmptyTable ==
    ASSUME labels' = [s \in LabelTable |-> Unused], turn' = 0, given' = NoneGiven
    PROVE  LabelsOK'
<1>1. \A s \in LabelTable : labels'[s] = Unused
  OBVIOUS
<1>2. labels' \in [LabelTable -> LabelEntry]
  BY DEF LabelEntry, Unused
<1>3. FreeSlots' = LabelTable
  BY <1>1 DEF FreeSlots, Unused
<1>4. turn' \in 0 .. CounterWrap - 1
  BY LabelsAssumption
<1>5. TableOK'
  BY <1>1, <1>2, <1>3, <1>4 DEF TableOK, Unused
<1> QED
  BY <1>5 DEF LabelsOK, NoneGiven

\* Every reachable table is in order.
LEMMA LabelsAlwaysOK == LabelsSpec => []LabelsOK
<1>1. LabelsInit => LabelsOK
  <2> SUFFICES ASSUME LabelsInit PROVE LabelsOK
    OBVIOUS
  <2>1. \A s \in LabelTable : labels[s] = Unused
    BY DEF LabelsInit
  <2>2. labels \in [LabelTable -> LabelEntry]
    BY DEF LabelsInit, LabelEntry, Unused
  <2>3. FreeSlots = LabelTable
    BY <2>1 DEF FreeSlots, Unused
  <2>4. turn = 0 /\ turn \in 0 .. CounterWrap - 1
    BY LabelsAssumption DEF LabelsInit
  <2>5. TableOK
    BY <2>1, <2>2, <2>3, <2>4 DEF TableOK, Unused
  <2> QED
    BY <2>5 DEF LabelsOK, LabelsInit, NoneGiven
<1>2. LabelsOK /\ [LabelsNext]_labelVars => LabelsOK'
  <2> SUFFICES ASSUME LabelsOK, [LabelsNext]_labelVars PROVE LabelsOK'
    OBVIOUS
  <2>1. TableOK /\ \A j \in DOMAIN given : GivenOK(j, given[j])
    BY DEF LabelsOK
  <2>2. CASE UNCHANGED labelVars
    <3>1. labels' = labels /\ turn' = turn /\ given' = given
      BY <2>2 DEF labelVars
    <3>2. FreeSlots' = FreeSlots
      BY <3>1 DEF FreeSlots
    <3>3. TableOK'
      BY <2>1, <3>1, <3>2 DEF TableOK
    <3>4. \A j \in DOMAIN given : GivenOK(j, given[j])'
      BY <2>1, <3>1, <3>2 DEF GivenOK, Kept, Safe, TurnsTo
    <3> QED
      BY <3>1, <3>3, <3>4 DEF LabelsOK
  <2>3. ASSUME NEW k \in Keys, NewLabel(k) PROVE LabelsOK'
    <3>1. PICK s : s = SlotToFill.slot
      OBVIOUS
    <3>2. turn' = SlotToFill.turn /\ Holding(k) = {}
      BY <2>3 DEF NewLabel
    <3>3. DOMAIN Later = DOMAIN given
      BY DEF Later
    <3>4. CASE labels' = labels /\ given' = Later
      <4>1. TableOK'
        BY <2>1, <3>1, <3>2, <3>4, TableStep
      <4>2. ASSUME NEW j \in DOMAIN given PROVE GivenOK(j, given[j])'
        <5>1. PICK g, h : g = given[j] /\ h = Later[j]
          OBVIOUS
        <5>2. GivenOK(j, h)'
          BY <2>1, <3>1, <3>2, <3>4, <5>1, LaterOK
        <5>3. given'[j] = h
          BY <3>4, <5>1
        <5> QED
          BY <5>2, <5>3 DEF GivenOK
      <4> QED
        BY <3>3, <3>4, <4>1, <4>2 DEF LabelsOK
    <3>5. ASSUME NEW i \in FreshIdentifiers,
                 labels' = [labels EXCEPT ![s] = [held |-> {k}, id |-> {i}]],
                 given' = [j \in DOMAIN given \cup {k} |->
                             IF j = k THEN [id |-> i, others |-> 0] ELSE Later[j]]
          PROVE  LabelsOK'
      <4>1. TableOK'
        BY <2>1, <3>1, <3>2, <3>5, TableStep
      <4>2. ASSUME NEW j \in DOMAIN given, j # k PROVE GivenOK(j, given[j])'
        <5>1. PICK g, h : g = given[j] /\ h = Later[j]
          OBVIOUS
        <5>2. PICK e : e = [held |-> {k}, id |-> {i}]
          OBVIOUS
        <5>3. e.held = {k} /\ labels' = [labels EXCEPT ![s] = e]
          BY <3>5, <5>2
        <5>4. GivenOK(j, h)'
          BY <2>1, <3>1, <3>2, <5>1, <5>3, LaterOK
        <5>5. given'[j] = h
          BY <3>5, <4>2, <5>1
        <5> QED
          BY <5>4, <5>5 DEF GivenOK
      <4>3. GivenOK(k, given[k])'
        <5>1. PICK g : g = [id |-> i, others |-> 0]
          OBVIOUS
        <5>2. g.id = i /\ g.others = 0 /\ g \in [id : Identifiers, others : Nat]
          BY <5>1 DEF FreshIdentifiers
        <5>3. given'[k] = g
          BY <3>5, <5>1
        <5>4. s \in LabelTable /\ labels \in [LabelTable -> LabelEntry]
          BY <2>1, <3>1, SlotFilled DEF TableOK
        <5>5. /\ labels'[s] = [held |-> {k}, id |-> {i}]
              /\ \A t \in LabelTable : t # s => labels'[t] = labels[t]
          BY <3>5, <5>4
        <5>6. FreeSlots' = FreeSlots \ {s}
          <6>1. [held |-> {k}, id |-> {i}].held = {k}
            OBVIOUS
          <6> QED
            BY <5>5, <6>1 DEF FreeSlots
        <5>7. Safe(s, 0)'
          BY <2>1, <3>1, <3>2, <5>6, SafeNew
        <5>8. Kept(k, g, s)'
          <6>1. Safe(s, g.others)'
            BY <5>2, <5>7
          <6> QED
            BY <5>2, <5>5, <6>1 DEF Kept
        <5>9. GivenOK(k, g)'
          BY <5>2, <5>4, <5>8 DEF GivenOK
        <5> QED
          BY <5>3, <5>9 DEF GivenOK
      <4>4. DOMAIN given' = DOMAIN given \cup {k}
        BY <3>5
      <4>5. \A j \in DOMAIN given' : GivenOK(j, given[j])'
        BY <4>2, <4>3, <4>4
      <4> QED
        BY <4>1, <4>5 DEF LabelsOK
    <3> QED
      BY <2>3, <3>1, <3>4, <3>5 DEF NewLabel
  <2>4. CASE Restart
    BY <2>4, EmptyTable DEF Restart
  <2> QED
    BY <2>2, <2>3, <2>4 DEF LabelsNext, Labelled
<1> QED
  BY <1>1, <1>2, PTL DEF LabelsSpec

\* A label names one channel or playlist, and stays with it until as many others
\* as there are slots have found none (label of TASPrivacy.c): for any size of
\* the table and of the counter that turns it.
THEOREM AlwaysHeld == LabelsSpec => []LabelsHeld
<1>1. LabelsOK => LabelsHeld
  BY DEF LabelsOK, TableOK, GivenOK, Kept, LabelsHeld
<1> QED
  BY <1>1, LabelsAlwaysOK, PTL

-----------------------------------------------------------------------------
(* ChatFrames.  The scan of a text finds its words, each once and in order.  *)

Span == [first : Nat, last : Nat]

\* A longest stretch without a separator.
IsRun(body, Sep, r) ==
    /\ r \in Span /\ r.first <= r.last /\ r.last < Len(body)
    /\ \A p \in r.first .. r.last : body[p + 1] \notin Sep
    /\ r.first > 0 => body[r.first] \in Sep
    /\ r.last + 1 < Len(body) => body[r.last + 2] \in Sep

\* The words found so far.
Scanning(body, Sep, f) ==
    /\ f \in [0 .. Len(body) -> Seq(Span)]
    /\ f[0] = <<>>
    /\ \A k \in 1 .. Len(body) :
          f[k] = IF Within(body, Sep, k) /\ ~Within(body, Sep, k - 1)
                 THEN Append(f[k - 1], RunFrom(body, Sep, k)) ELSE f[k - 1]
    /\ RunsOf(body, Sep) = f[Len(body)]

\* A word that starts at a character ends at the first one that is followed by
\* a separator, or by nothing.
LEMMA RunEnds ==
    ASSUME NEW S, NEW body \in Seq(S), NEW Sep, NEW i \in 1 .. Len(body), Within(body, Sep, i)
    PROVE  \E j \in i .. Len(body) : /\ RunFrom(body, Sep, i) = [first |-> i - 1, last |-> j - 1]
                                     /\ ~Within(body, Sep, j + 1)
                                     /\ \A k \in i .. j : Within(body, Sep, k)
<1> DEFINE n == Len(body)
           Ends(j) == ~Within(body, Sep, j + 1) /\ \A k \in i .. j : Within(body, Sep, k)
           stops == {j \in i .. n : ~Within(body, Sep, j + 1)}
<1>1. n \in Nat /\ DOMAIN body = 1 .. n
  OBVIOUS
<1>2. stops \in SUBSET Nat /\ n \in stops
  BY <1>1 DEF Within
<1>3. PICK j \in stops : \A k \in stops : j <= k
  BY <1>2, Least
<1>4. ASSUME NEW k \in i .. j PROVE Within(body, Sep, k)
  <2>1. CASE k = i
    BY <2>1
  <2>2. CASE k # i
    <3>1. k - 1 \in i .. n /\ k - 1 < j /\ (k - 1) + 1 = k
      BY <1>1, <2>2
    <3>2. k - 1 \notin stops
      <4>1. j \in Nat /\ k - 1 \in Nat
        BY <1>1, <1>2, <1>3, <3>1
      <4> HIDE DEF stops
      <4> QED
        BY <1>3, <3>1, <4>1
    <3> QED
      BY <3>1, <3>2
  <2> QED
    BY <2>1, <2>2
<1>5. \E l \in i .. n : Ends(l)
  BY <1>3, <1>4
<1> DEFINE m == CHOOSE l \in i .. n : Ends(l)
<1>6. m \in i .. n /\ Ends(m)
  BY <1>5
<1>7. RunFrom(body, Sep, i) = [first |-> i - 1, last |-> m - 1]
  BY DEF RunFrom
<1> QED
  BY <1>6, <1>7

\* The scan has a trace.
LEMMA ScanTrace ==
    ASSUME NEW S, NEW body \in Seq(S), NEW Sep
    PROVE  \E f : Scanning(body, Sep, f)
<1> DEFINE n == Len(body)
           V == Seq(Span)
           seq == [i \in DOMAIN body |-> i]
           Next1(v, i) == IF Within(body, Sep, i) /\ ~Within(body, Sep, i - 1)
                          THEN Append(v, RunFrom(body, Sep, i)) ELSE v
           step == [t \in (1 .. n) \X V |-> Next1(t[2], seq[t[1]])]
<1>1. n \in Nat /\ DOMAIN body = 1 .. n /\ seq \in Seq(Nat) /\ Len(seq) = n
      /\ DOMAIN seq = 1 .. n /\ \A k \in 1 .. n : seq[k] = k
  OBVIOUS
<1>2. \A v \in V, k \in 1 .. n : Next1(v, seq[k]) \in V
  <2> TAKE v \in V, k \in 1 .. n
  <2>1. Within(body, Sep, k) => RunFrom(body, Sep, k) \in Span
    <3> SUFFICES ASSUME Within(body, Sep, k) PROVE RunFrom(body, Sep, k) \in Span
      OBVIOUS
    <3>1. PICK j \in k .. Len(body) : RunFrom(body, Sep, k) = [first |-> k - 1, last |-> j - 1]
      BY RunEnds
    <3>2. k - 1 \in Nat /\ j - 1 \in Nat
      BY <1>1
    <3> QED
      BY <3>1, <3>2 DEF Span
  <2>2. Within(body, Sep, k) => Append(v, RunFrom(body, Sep, k)) \in V
    BY <2>1, AppendProperties
  <2> QED
    BY <1>1, <2>2
<1> HIDE DEF n, V, Next1, seq
<1>3. step \in Steps(n, V) /\ \A k \in 1 .. n, v \in V : step[<<k, v>>] = Next1(v, seq[k])
  BY <1>2 DEF Steps
<1> HIDE DEF step
<1>4. <<>> \in V
  BY DEF V
<1>5. PICK g : g \in Folding(n, V, <<>>, step)
  BY <1>1, <1>3, <1>4, FoldExists
<1>6. /\ g \in [SUBSET (1 .. n) -> V] /\ g[{}] = <<>>
      /\ \A s \in SUBSET (1 .. n) : s # {} => g[s] = step[<<Max(s), g[s \ {Max(s)}]>>]
  BY <1>5 DEF Folding
<1>7. \A s \in SUBSET (1 .. n) :
        g[s] = IF s = {} THEN <<>> ELSE Next1(g[s \ {Max(s)}], seq[Max(s)])
  <2> TAKE s \in SUBSET (1 .. n)
  <2>1. CASE s = {}
    BY <1>6, <2>1
  <2>2. CASE s # {}
    <3>1. Max(s) \in 1 .. n
      BY <1>1, <2>2, MaxOfIndexes
    <3>2. g[s \ {Max(s)}] \in V
      BY <1>6
    <3> QED
      BY <1>3, <1>6, <2>2, <3>1, <3>2
  <2> QED
    BY <2>1, <2>2
<1>8. g = [s \in SUBSET (1 .. n) |->
             IF s = {} THEN <<>> ELSE Next1(g[s \ {Max(s)}], seq[Max(s)])]
  BY <1>6, <1>7
<1> DEFINE iter[s \in SUBSET (1 .. n)] ==
             IF s = {} THEN <<>> ELSE Next1(iter[s \ {Max(s)}], seq[Max(s)])
<1>9. iter = [s \in SUBSET (1 .. n) |->
                IF s = {} THEN <<>> ELSE Next1(iter[s \ {Max(s)}], seq[Max(s)])]
  BY <1>8, Zenon
<1>10. RunsOf(body, Sep) = iter[1 .. n]
  BY <1>1, Zenon DEF RunsOf, FoldLeft, MapThenFoldSet, Next1, seq
<1> HIDE DEF iter
<1>11. iter[{}] = <<>>
  BY <1>9
<1>12. ASSUME NEW s \in SUBSET (1 .. n), s # {} /\ iter[s \ {Max(s)}] \in V
       PROVE  iter[s] = step[<<Max(s), iter[s \ {Max(s)}]>>]
  <2>1. Max(s) \in 1 .. n
    BY <1>1, <1>12, MaxOfIndexes
  <2>2. iter[s] = Next1(iter[s \ {Max(s)}], seq[Max(s)])
    BY <1>9, <1>12
  <2> QED
    BY <1>3, <1>12, <2>1, <2>2
<1> DEFINE f == [k \in 0 .. n |-> iter[1 .. k]]
<1>13. f \in Traces(n, V, <<>>, step)
  BY <1>1, <1>3, <1>4, <1>11, <1>12, FoldTrace
<1>14. f[n] = iter[1 .. n]
  BY <1>1
<1> HIDE DEF f
<1>15. /\ f \in [0 .. n -> V] /\ f[0] = <<>>
       /\ \A k \in 1 .. n : f[k] = step[<<k, f[k - 1]>>]
  BY <1>13 DEF Traces, Trace
<1>16. \A k \in 1 .. n : f[k] = Next1(f[k - 1], k)
  <2> TAKE k \in 1 .. n
  <2>1. f[k - 1] \in V
    BY <1>1, <1>15
  <2> QED
    BY <1>1, <1>3, <1>15, <2>1
<1>17. Scanning(body, Sep, f)
  BY <1>10, <1>14, <1>15, <1>16 DEF Scanning, n, V, Next1
<1> QED
  BY <1>17

\* A word that starts at a character, in full.
LEMMA RunFromOK ==
    ASSUME NEW S, NEW body \in Seq(S), NEW Sep, NEW i \in 1 .. Len(body),
           Within(body, Sep, i), ~Within(body, Sep, i - 1)
    PROVE  IsRun(body, Sep, RunFrom(body, Sep, i)) /\ RunFrom(body, Sep, i).first = i - 1
<1>1. Len(body) \in Nat /\ DOMAIN body = 1 .. Len(body)
  OBVIOUS
<1>2. PICK j \in i .. Len(body) : /\ RunFrom(body, Sep, i) = [first |-> i - 1, last |-> j - 1]
                                  /\ ~Within(body, Sep, j + 1)
                                  /\ \A k \in i .. j : Within(body, Sep, k)
  BY RunEnds
<1> DEFINE r == RunFrom(body, Sep, i)
<1>3. i \in Nat /\ j \in Nat /\ i <= j /\ j <= Len(body) /\ 1 <= i
  BY <1>1, <1>2
<1>4. r \in Span /\ r.first = i - 1 /\ r.last = j - 1
  BY <1>2, <1>3 DEF Span
<1> HIDE DEF r
<1>5. ASSUME NEW p \in r.first .. r.last PROVE body[p + 1] \notin Sep
  <2>1. p + 1 \in i .. j
    BY <1>3, <1>4
  <2> QED
    BY <1>2, <2>1 DEF Within
<1>6. r.first > 0 => body[r.first] \in Sep
  BY <1>1, <1>3, <1>4 DEF Within
<1>7. r.last + 1 < Len(body) => body[r.last + 2] \in Sep
  <2> SUFFICES ASSUME r.last + 1 < Len(body) PROVE body[r.last + 2] \in Sep
    OBVIOUS
  <2>1. j + 1 \in DOMAIN body /\ r.last + 2 = j + 1
    BY <1>1, <1>3, <1>4
  <2> QED
    BY <1>2, <2>1 DEF Within
<1>8. r.first <= r.last /\ r.last < Len(body)
  BY <1>1, <1>3, <1>4
<1>9. IsRun(body, Sep, r) /\ r.first = i - 1
  BY <1>4, <1>5, <1>6, <1>7, <1>8 DEF IsRun
<1> QED
  BY <1>9 DEF r

\* Words that share a character are one.
LEMMA RunUnique ==
    ASSUME NEW S, NEW body \in Seq(S), NEW Sep, NEW r, NEW q,
           IsRun(body, Sep, r), IsRun(body, Sep, q),
           r.first <= q.last, q.first <= r.last
    PROVE  r = q
<1>1. /\ r \in Span /\ q \in Span
      /\ r.first \in Nat /\ r.last \in Nat /\ q.first \in Nat /\ q.last \in Nat
      /\ r.first <= r.last /\ q.first <= q.last
      /\ r.last < Len(body) /\ q.last < Len(body) /\ Len(body) \in Nat
  BY DEF IsRun, Span
<1>2. ~(r.first < q.first)
  <2> SUFFICES ASSUME r.first < q.first PROVE FALSE
    OBVIOUS
  <2>1. q.first - 1 \in r.first .. r.last /\ (q.first - 1) + 1 = q.first /\ q.first > 0
    BY <1>1
  <2> QED
    BY <2>1 DEF IsRun
<1>3. ~(q.first < r.first)
  <2> SUFFICES ASSUME q.first < r.first PROVE FALSE
    OBVIOUS
  <2>1. r.first - 1 \in q.first .. q.last /\ (r.first - 1) + 1 = r.first /\ r.first > 0
    BY <1>1
  <2> QED
    BY <2>1 DEF IsRun
<1>4. ~(r.last < q.last)
  <2> SUFFICES ASSUME r.last < q.last PROVE FALSE
    OBVIOUS
  <2>1. r.last + 1 \in q.first .. q.last /\ (r.last + 1) + 1 = r.last + 2 /\ r.last + 1 < Len(body)
    BY <1>1
  <2> QED
    BY <2>1 DEF IsRun
<1>5. ~(q.last < r.last)
  <2> SUFFICES ASSUME q.last < r.last PROVE FALSE
    OBVIOUS
  <2>1. q.last + 1 \in r.first .. r.last /\ (q.last + 1) + 1 = q.last + 2 /\ q.last + 1 < Len(body)
    BY <1>1
  <2> QED
    BY <2>1 DEF IsRun
<1>6. r.first = q.first /\ r.last = q.last
  BY <1>1, <1>2, <1>3, <1>4, <1>5
<1> QED
  BY <1>1, <1>6 DEF Span

\* The words of the first k characters, in order.
RunsUpTo(body, Sep, k, runs) ==
    /\ runs \in Seq(Span)
    /\ \A j \in 1 .. Len(runs) : IsRun(body, Sep, runs[j]) /\ runs[j].first < k
    /\ \A r : IsRun(body, Sep, r) /\ r.first < k => \E j \in 1 .. Len(runs) : runs[j] = r
    /\ \A i, j \in 1 .. Len(runs) : i < j => runs[i].last < runs[j].first

\* One more character, and the word it starts.
LEMMA RunsNext ==
    ASSUME NEW S, NEW body \in Seq(S), NEW Sep, NEW k \in 1 .. Len(body), NEW runs,
           RunsUpTo(body, Sep, k - 1, runs)
    PROVE  RunsUpTo(body, Sep, k, IF Within(body, Sep, k) /\ ~Within(body, Sep, k - 1)
                                  THEN Append(runs, RunFrom(body, Sep, k)) ELSE runs)
<1>1. Len(body) \in Nat /\ DOMAIN body = 1 .. Len(body) /\ k \in Nat /\ k >= 1 /\ k - 1 \in Nat
  OBVIOUS
<1>2. runs \in Seq(Span) /\ Len(runs) \in Nat
  BY DEF RunsUpTo
<1>3. ASSUME NEW r, IsRun(body, Sep, r)
      PROVE  r.first < k <=> (r.first < k - 1 \/ r.first = k - 1)
  BY <1>1, <1>3 DEF IsRun, Span
<1>4. CASE ~(Within(body, Sep, k) /\ ~Within(body, Sep, k - 1))
  <2>1. ASSUME NEW r, IsRun(body, Sep, r) PROVE r.first # k - 1
    <3> SUFFICES ASSUME r.first = k - 1 PROVE FALSE
      OBVIOUS
    <3>1. k - 1 \in r.first .. r.last /\ (k - 1) + 1 = k
      BY <1>1, <2>1 DEF IsRun, Span
    <3>2. body[k] \notin Sep /\ (k - 1 > 0 => body[k - 1] \in Sep)
      BY <2>1, <3>1 DEF IsRun
    <3> QED
      BY <1>1, <1>4, <3>2 DEF Within
  <2>2. RunsUpTo(body, Sep, k, runs)
    BY <1>2, <1>3, <2>1 DEF RunsUpTo
  <2> QED
    BY <1>4, <2>2
<1>5. CASE Within(body, Sep, k) /\ ~Within(body, Sep, k - 1)
  <2> DEFINE e == RunFrom(body, Sep, k)
             all == Append(runs, e)
  <2>1. IsRun(body, Sep, e) /\ e.first = k - 1
    BY <1>5, RunFromOK
  <2>2. e \in Span /\ e.first \in Nat /\ e.last \in Nat /\ e.first <= e.last
    BY <2>1 DEF IsRun, Span
  <2> HIDE DEF e
  <2>3. /\ all \in Seq(Span) /\ Len(all) = Len(runs) + 1 /\ all[Len(runs) + 1] = e
        /\ \A j \in 1 .. Len(runs) : all[j] = runs[j]
    BY <1>2, <2>2
  <2> HIDE DEF all
  <2>4. \A j \in 1 .. Len(all) : j = Len(runs) + 1 \/ j \in 1 .. Len(runs)
    BY <1>2, <2>3
  <2>5. ASSUME NEW j \in 1 .. Len(all) PROVE IsRun(body, Sep, all[j]) /\ all[j].first < k
    <3>1. CASE j = Len(runs) + 1
      BY <1>1, <2>1, <2>3, <3>1
    <3>2. CASE j \in 1 .. Len(runs)
      <4>1. IsRun(body, Sep, runs[j]) /\ runs[j].first < k - 1
        BY <3>2 DEF RunsUpTo
      <4> QED
        BY <1>3, <2>3, <3>2, <4>1
    <3> QED
      BY <2>4, <3>1, <3>2
  <2>6. ASSUME NEW r, IsRun(body, Sep, r), r.first < k
        PROVE  \E j \in 1 .. Len(all) : all[j] = r
    <3>1. CASE r.first < k - 1
      <4>1. PICK j \in 1 .. Len(runs) : runs[j] = r
        BY <2>6, <3>1 DEF RunsUpTo
      <4>2. j \in 1 .. Len(all)
        BY <1>2, <2>3
      <4> QED
        BY <2>3, <4>1, <4>2
    <3>2. CASE r.first = k - 1
      <4>1. r.first <= e.last /\ e.first <= r.last
        BY <1>1, <2>1, <2>2, <2>6, <3>2 DEF IsRun, Span
      <4>2. r = e
        BY <2>1, <2>6, <4>1, RunUnique
      <4>3. Len(runs) + 1 \in 1 .. Len(all)
        BY <1>2, <2>3
      <4> QED
        BY <2>3, <4>2, <4>3
    <3> QED
      BY <1>3, <2>6, <3>1, <3>2
  <2>7. ASSUME NEW i \in 1 .. Len(all), NEW j \in 1 .. Len(all), i < j
        PROVE  all[i].last < all[j].first
    <3>1. i \in 1 .. Len(runs)
      BY <1>2, <2>3, <2>7
    <3>2. CASE j \in 1 .. Len(runs)
      BY <2>3, <2>7, <3>1, <3>2 DEF RunsUpTo
    <3>3. CASE j = Len(runs) + 1
      <4> DEFINE r == runs[i]
      <4>1. IsRun(body, Sep, r) /\ r.first < k - 1
        BY <3>1 DEF RunsUpTo
      <4> HIDE DEF r
      <4>2. r.first \in Nat /\ r.last \in Nat
        BY <4>1 DEF IsRun, Span
      <4>3. CASE r.last < e.first
        BY <2>3, <3>1, <3>3, <4>3 DEF r
      <4>4. CASE ~(r.last < e.first)
        <5>1. e.first <= r.last /\ r.first <= e.last
          BY <1>1, <2>1, <2>2, <4>1, <4>2, <4>4
        <5>2. r = e
          BY <2>1, <4>1, <5>1, RunUnique
        <5> QED
          BY <1>1, <2>1, <4>1, <4>2, <5>2
      <4> QED
        BY <4>3, <4>4
    <3> QED
      BY <2>4, <3>2, <3>3
  <2>8. RunsUpTo(body, Sep, k, all)
    BY <2>3, <2>5, <2>6, <2>7 DEF RunsUpTo
  <2> QED
    BY <1>5, <2>8 DEF all, e
<1> QED
  BY <1>4, <1>5

\* The scan finds exactly the words, in order.
LEMMA RunsOK ==
    ASSUME NEW S, NEW body \in Seq(S), NEW Sep
    PROVE  RunsUpTo(body, Sep, Len(body), RunsOf(body, Sep))
<1>1. PICK f : Scanning(body, Sep, f)
  BY ScanTrace
<1>2. Len(body) \in Nat
  OBVIOUS
<1> DEFINE Right == {k \in 0 .. Len(body) : RunsUpTo(body, Sep, k, f[k])}
<1>3. 0 \in Right
  <2>1. f[0] = <<>> /\ <<>> \in Seq(Span) /\ Len(<<>>) = 0
    BY <1>1 DEF Scanning
  <2>2. \A r : IsRun(body, Sep, r) => ~(r.first < 0)
    BY DEF IsRun, Span
  <2>3. RunsUpTo(body, Sep, 0, f[0])
    BY <2>1, <2>2 DEF RunsUpTo
  <2> QED
    BY <1>2, <2>3
<1>4. ASSUME NEW k \in 0 .. Len(body) - 1, k \in Right PROVE k + 1 \in Right
  <2>1. k + 1 \in 1 .. Len(body) /\ k + 1 \in 0 .. Len(body) /\ (k + 1) - 1 = k
    BY <1>2
  <2>2. RunsUpTo(body, Sep, (k + 1) - 1, f[k])
    BY <1>4, <2>1
  <2>3. f[k + 1] = IF Within(body, Sep, k + 1) /\ ~Within(body, Sep, (k + 1) - 1)
                   THEN Append(f[k], RunFrom(body, Sep, k + 1)) ELSE f[k]
    BY <1>1, <2>1 DEF Scanning
  <2>4. RunsUpTo(body, Sep, k + 1, f[k + 1])
    BY <2>1, <2>2, <2>3, RunsNext
  <2> QED
    BY <2>1, <2>4
<1> HIDE DEF Right
<1>5. \A k \in 0 .. Len(body) : k \in Right
  BY <1>2, <1>3, <1>4, UpTo
<1>6. Len(body) \in 0 .. Len(body)
  BY <1>2
<1>7. RunsUpTo(body, Sep, Len(body), f[Len(body)])
  BY <1>5, <1>6 DEF Right
<1> QED
  BY <1>1, <1>7 DEF Scanning

\* A stretch without separators lies in a word.
LEMMA RunAround ==
    ASSUME NEW S, NEW body \in Seq(S), NEW Sep, NEW r \in Span,
           r.first <= r.last, r.last < Len(body),
           \A p \in r.first .. r.last : body[p + 1] \notin Sep
    PROVE  \E w : IsRun(body, Sep, w) /\ w.first <= r.first /\ r.last <= w.last
<1>1. /\ Len(body) \in Nat /\ DOMAIN body = 1 .. Len(body)
      /\ r.first \in Nat /\ r.last \in Nat
  BY DEF Span
<1> DEFINE from == {i \in 0 .. r.first : \A p \in i .. r.first : body[p + 1] \notin Sep}
<1>2. from \in SUBSET Nat /\ r.first \in from
  BY <1>1
<1>3. PICK i \in from : \A k \in from : i <= k
  BY <1>2, Least
<1>4. i \in 0 .. r.first /\ i \in Nat /\ \A p \in i .. r.first : body[p + 1] \notin Sep
  BY <1>1, <1>3
<1>5. \A p \in i .. r.last : body[p + 1] \notin Sep
  <2> TAKE p \in i .. r.last
  <2>1. p \in i .. r.first \/ p \in r.first .. r.last
    BY <1>1, <1>4
  <2> QED
    BY <1>4, <2>1
<1>6. i > 0 => body[i] \in Sep
  <2> SUFFICES ASSUME i > 0, body[i] \notin Sep PROVE FALSE
    OBVIOUS
  <2>1. i - 1 \in 0 .. r.first
    BY <1>1, <1>4
  <2>2. ASSUME NEW p \in i - 1 .. r.first PROVE body[p + 1] \notin Sep
    <3>1. p + 1 = i \/ p \in i .. r.first
      BY <1>1, <1>4
    <3> QED
      BY <1>4, <3>1
  <2>3. i - 1 \in from
    BY <2>1, <2>2
  <2> HIDE DEF from
  <2> QED
    BY <1>3, <1>4, <2>3
<1> HIDE DEF from
<1>7. i + 1 \in 1 .. Len(body) /\ (i + 1) - 1 = i /\ i \in i .. r.last
  BY <1>1, <1>4
<1>8. Within(body, Sep, i + 1) /\ ~Within(body, Sep, (i + 1) - 1)
  <2>1. i + 1 \in DOMAIN body /\ body[i + 1] \notin Sep
    BY <1>1, <1>5, <1>7
  <2>2. i \in DOMAIN body => body[i] \in Sep
    BY <1>1, <1>4, <1>6
  <2> QED
    BY <1>7, <2>1, <2>2 DEF Within
<1>9. PICK w : w = RunFrom(body, Sep, i + 1)
  OBVIOUS
<1>10. IsRun(body, Sep, w) /\ w.first = i
  BY <1>7, <1>8, <1>9, RunFromOK
<1>11. r.last <= w.last
  <2> SUFFICES ASSUME ~(r.last <= w.last) PROVE FALSE
    OBVIOUS
  <2>1. w.last \in Nat /\ w.first <= w.last
    BY <1>10 DEF IsRun, Span
  <2>2. w.last + 1 \in i .. r.last /\ (w.last + 1) + 1 = w.last + 2 /\ w.last + 1 < Len(body)
    BY <1>1, <1>4, <1>10, <2>1
  <2>3. body[w.last + 2] \in Sep
    BY <1>10, <2>2 DEF IsRun
  <2> QED
    BY <1>5, <2>2, <2>3
<1> QED
  BY <1>1, <1>4, <1>10, <1>11

\* What makes a stretch of a word its code.
CodeOf(known, body, w, r) ==
    /\ Bytes(Text(body, w)) <= MaxWord
    /\ Known(known, Text(body, r))
    /\ \/ r = w
       \/ /\ ~Known(known, Text(body, w))
          /\ body[r.first + 1] \notin Marks /\ body[r.last + 1] \notin Marks
          /\ \A k \in (w.first .. w.last) \ (r.first .. r.last) : body[k + 1] \in Marks

\* IsCode looks at the word its stretch lies in.
LEMMA IsCodeInWord ==
    ASSUME NEW S, NEW body \in Seq(S), NEW known, NEW w, IsRun(body, Blanks, w),
           NEW r \in Span, w.first <= r.first, r.first <= r.last, r.last <= w.last
    PROVE  IsCode(known, body, r) <=> CodeOf(known, body, w, r)
<1>1. /\ Len(body) \in Nat /\ r.first \in Nat /\ r.last \in Nat
      /\ w \in Span /\ w.first \in Nat /\ w.last \in Nat /\ w.last < Len(body)
      /\ w.last <= Len(body) - 1
  BY DEF IsRun, Span
<1> DEFINE outside(i) == body[i + 1] \in Blanks
           Low(i) == (\A k \in i .. r.first : ~outside(k)) /\ (i > 0 => outside(i - 1))
           High(i) == /\ \A k \in r.last .. i : ~outside(k)
                      /\ i < Len(body) - 1 => outside(i + 1)
           lo == CHOOSE i \in 0 .. r.first : Low(i)
           hi == CHOOSE i \in r.last .. Len(body) - 1 : High(i)
<1>2. \A p \in w.first .. w.last : ~outside(p)
  BY DEF IsRun
<1>3. w.first \in 0 .. r.first /\ Low(w.first)
  <2>1. \A k \in w.first .. r.first : k \in w.first .. w.last
    BY <1>1
  <2>2. w.first > 0 => outside(w.first - 1)
    <3>1. (w.first - 1) + 1 = w.first
      BY <1>1
    <3> QED
      BY <3>1 DEF IsRun
  <2>3. w.first \in 0 .. r.first
    BY <1>1
  <2> HIDE DEF outside
  <2> QED
    BY <1>2, <2>1, <2>2, <2>3
<1>4. w.last \in r.last .. Len(body) - 1 /\ High(w.last)
  <2>1. \A k \in r.last .. w.last : k \in w.first .. w.last
    BY <1>1
  <2>2. w.last < Len(body) - 1 => outside(w.last + 1)
    <3>1. (w.last + 1) + 1 = w.last + 2 /\ (w.last < Len(body) - 1 => w.last + 1 < Len(body))
      BY <1>1
    <3> QED
      BY <3>1 DEF IsRun
  <2>3. w.last \in r.last .. Len(body) - 1
    BY <1>1
  <2> HIDE DEF outside
  <2> QED
    BY <1>2, <2>1, <2>2, <2>3
<1> HIDE DEF outside
<1>5. \A i \in 0 .. r.first : Low(i) => i = w.first
  <2> SUFFICES ASSUME NEW i \in 0 .. r.first, Low(i) PROVE i = w.first
    OBVIOUS
  <2>1. ~(i < w.first)
    <3> SUFFICES ASSUME i < w.first PROVE FALSE
      OBVIOUS
    <3>1. w.first - 1 \in i .. r.first /\ w.first > 0
      BY <1>1
    <3> QED
      BY <1>3, <3>1
  <2>2. ~(w.first < i)
    <3> SUFFICES ASSUME w.first < i PROVE FALSE
      OBVIOUS
    <3>1. i - 1 \in w.first .. w.last /\ i > 0
      BY <1>1
    <3> QED
      BY <1>2, <3>1
  <2> QED
    BY <1>1, <2>1, <2>2
<1>6. \A i \in r.last .. Len(body) - 1 : High(i) => i = w.last
  <2> SUFFICES ASSUME NEW i \in r.last .. Len(body) - 1, High(i) PROVE i = w.last
    OBVIOUS
  <2>1. ~(i < w.last)
    <3> SUFFICES ASSUME i < w.last PROVE FALSE
      OBVIOUS
    <3>1. i + 1 \in w.first .. w.last /\ i < Len(body) - 1
      BY <1>1
    <3> QED
      BY <1>2, <3>1
  <2>2. ~(w.last < i)
    <3> SUFFICES ASSUME w.last < i PROVE FALSE
      OBVIOUS
    <3>1. w.last + 1 \in r.last .. i /\ w.last < Len(body) - 1
      BY <1>1
    <3> QED
      BY <1>4, <3>1
  <2> QED
    BY <1>1, <2>1, <2>2
<1>7. lo = w.first
  BY <1>3, <1>5
<1>8. hi = w.last
  BY <1>4, <1>6
<1>9. [first |-> lo, last |-> hi] = w
  BY <1>1, <1>7, <1>8 DEF Span
<1>10. \A k \in r.first .. r.last : ~outside(k)
  <2>1. \A k \in r.first .. r.last : k \in w.first .. w.last
    BY <1>1
  <2> QED
    BY <1>2, <2>1
<1>11. IsCode(known, body, r) <=>
         /\ \A k \in r.first .. r.last : ~outside(k)
         /\ Bytes(Text(body, [first |-> lo, last |-> hi])) <= MaxWord
         /\ Known(known, Text(body, r))
         /\ \/ r = [first |-> lo, last |-> hi]
            \/ /\ ~Known(known, Text(body, [first |-> lo, last |-> hi]))
               /\ body[r.first + 1] \notin Marks /\ body[r.last + 1] \notin Marks
               /\ \A k \in (lo .. hi) \ (r.first .. r.last) : body[k + 1] \in Marks
  BY Zenon DEF IsCode, outside
<1> HIDE DEF lo, hi
<1> QED
  BY <1>7, <1>8, <1>9, <1>10, <1>11 DEF CodeOf

\* What is left of a word between the marks around it.
LEMMA TrimmedOK ==
    ASSUME NEW S, NEW body \in Seq(S), NEW w, IsRun(body, Blanks, w), NEW t, t = Trimmed(body, w)
    PROVE  \/ t = w /\ \A k \in w.first .. w.last : body[k + 1] \in Marks
           \/ /\ t \in Span /\ w.first <= t.first /\ t.first <= t.last /\ t.last <= w.last
              /\ body[t.first + 1] \notin Marks /\ body[t.last + 1] \notin Marks
              /\ \A k \in (w.first .. w.last) \ (t.first .. t.last) : body[k + 1] \in Marks
<1> DEFINE kept == {i \in w.first .. w.last : body[i + 1] \notin Marks}
<1>1. w \in Span /\ w.first \in Nat /\ w.last \in Nat
  BY DEF IsRun, Span
<1>2. kept \in SUBSET Nat /\ IsFiniteSet(kept)
  <2>1. w.first .. w.last \in SUBSET Nat
    BY <1>1
  <2>2. kept \subseteq w.first .. w.last
    OBVIOUS
  <2>3. w.first \in Int /\ w.last \in Int
    BY <1>1
  <2>4. IsFiniteSet(w.first .. w.last)
    BY <2>3, FS_Interval
  <2> QED
    BY <2>1, <2>2, <2>4, FS_Subset
<1>3. t = IF kept = {} THEN w
          ELSE [first |-> CHOOSE i \in kept : \A k \in kept : i <= k,
                last |-> CHOOSE i \in kept : \A k \in kept : k <= i]
  BY DEF Trimmed
<1>4. \A i \in w.first .. w.last : i \in kept \/ body[i + 1] \in Marks
  OBVIOUS
<1>5. \A i \in kept : i \in w.first .. w.last /\ body[i + 1] \notin Marks
  OBVIOUS
<1> HIDE DEF kept
<1>6. CASE kept = {}
  BY <1>3, <1>4, <1>6
<1>7. CASE kept # {}
  <2>1. \E i \in kept : \A k \in kept : i <= k
    BY <1>2, <1>7, Least
  <2>2. \E i \in kept : \A k \in kept : k <= i
    BY <1>2, <1>7, Greatest
  <2>3. PICK a \in kept, b \in kept : /\ t = [first |-> a, last |-> b]
                                     /\ \A k \in kept : a <= k /\ k <= b
    BY <1>3, <1>7, <2>1, <2>2
  <2>4. a \in Nat /\ b \in Nat /\ t \in Span /\ t.first = a /\ t.last = b
    BY <1>2, <2>3 DEF Span
  <2>5. t.first \in w.first .. w.last /\ t.last \in w.first .. w.last /\ t.first <= t.last
    BY <1>5, <2>3, <2>4
  <2>6. body[t.first + 1] \notin Marks /\ body[t.last + 1] \notin Marks
    BY <1>5, <2>3, <2>4
  <2>7. ASSUME NEW k \in (w.first .. w.last) \ (t.first .. t.last) PROVE body[k + 1] \in Marks
    <3>1. k \notin kept
      BY <1>1, <2>3, <2>4
    <3> QED
      BY <1>4, <3>1
  <2>8. w.first <= t.first /\ t.last <= w.last
    BY <1>1, <2>5
  <2> QED
    BY <2>4, <2>5, <2>6, <2>7, <2>8
<1> QED
  BY <1>6, <1>7

\* The code in a word is the one stretch of it that is a code.
LEMMA CodeInOK ==
    ASSUME NEW S, NEW body \in Seq(S), NEW known, NEW w, IsRun(body, Blanks, w)
    PROVE  /\ \A r : r \in CodeIn(known, body, w) <=>
                 /\ r \in Span /\ w.first <= r.first /\ r.first <= r.last /\ r.last <= w.last
                 /\ CodeOf(known, body, w, r)
           /\ \A r, q \in CodeIn(known, body, w) : r = q
<1>1. PICK t : t = Trimmed(body, w)
  OBVIOUS
<1>2. w \in Span /\ w.first \in Nat /\ w.last \in Nat /\ w.first <= w.last
  BY DEF IsRun, Span
<1>3. \/ t = w /\ \A k \in w.first .. w.last : body[k + 1] \in Marks
      \/ /\ t \in Span /\ w.first <= t.first /\ t.first <= t.last /\ t.last <= w.last
         /\ body[t.first + 1] \notin Marks /\ body[t.last + 1] \notin Marks
         /\ \A k \in (w.first .. w.last) \ (t.first .. t.last) : body[k + 1] \in Marks
  BY <1>1, TrimmedOK
<1>4. CodeIn(known, body, w) =
        {q \in {w, t} : /\ Bytes(Text(body, w)) <= MaxWord
                        /\ Known(known, Text(body, q))
                        /\ q # w => ~Known(known, Text(body, w))}
  BY <1>1 DEF CodeIn
<1>6. ASSUME NEW r, r \in CodeIn(known, body, w)
      PROVE  /\ r \in Span /\ w.first <= r.first /\ r.first <= r.last /\ r.last <= w.last
             /\ CodeOf(known, body, w, r)
  <2>1. CASE Known(known, Text(body, w))
    BY <1>2, <1>4, <1>6, <2>1 DEF CodeOf
  <2>2. CASE ~Known(known, Text(body, w))
    <3>1. r = t /\ Known(known, Text(body, t)) /\ t # w /\ Bytes(Text(body, w)) <= MaxWord
      BY <1>4, <1>6, <2>2
    <3> QED
      BY <1>3, <2>2, <3>1 DEF CodeOf
  <2> QED
    BY <2>1, <2>2
<1>7. ASSUME NEW r, r \in Span, w.first <= r.first, r.first <= r.last, r.last <= w.last,
             CodeOf(known, body, w, r)
      PROVE  r \in CodeIn(known, body, w)
  <2>1. CASE r = w
    BY <1>4, <1>7, <2>1 DEF CodeOf
  <2>2. CASE r # w
    <3>1. /\ ~Known(known, Text(body, w)) /\ Bytes(Text(body, w)) <= MaxWord
          /\ Known(known, Text(body, r))
          /\ body[r.first + 1] \notin Marks /\ body[r.last + 1] \notin Marks
          /\ \A k \in (w.first .. w.last) \ (r.first .. r.last) : body[k + 1] \in Marks
      BY <1>7, <2>2 DEF CodeOf
    <3>2. r.first \in Nat /\ r.last \in Nat /\ r.first \in w.first .. w.last /\ r.last \in w.first .. w.last
      BY <1>2, <1>7 DEF Span
    <3>3. t \in Span /\ w.first <= t.first /\ t.first <= t.last /\ t.last <= w.last
          /\ body[t.first + 1] \notin Marks /\ body[t.last + 1] \notin Marks
          /\ \A k \in (w.first .. w.last) \ (t.first .. t.last) : body[k + 1] \in Marks
      BY <1>3, <3>1, <3>2
    <3>4. t.first \in Nat /\ t.last \in Nat /\ t.first \in w.first .. w.last /\ t.last \in w.first .. w.last
      BY <1>2, <3>3 DEF Span
    <3>5. r.first \in t.first .. t.last /\ r.last \in t.first .. t.last
      BY <3>1, <3>2, <3>3
    <3>6. t.first \in r.first .. r.last /\ t.last \in r.first .. r.last
      BY <3>1, <3>3, <3>4
    <3>7. r.first = t.first /\ r.last = t.last
      BY <3>2, <3>4, <3>5, <3>6
    <3>8. r = t
      BY <1>7, <3>3, <3>7 DEF Span
    <3> QED
      BY <1>4, <2>2, <3>1, <3>8
  <2> QED
    BY <2>1, <2>2
<1>8. \A r, q \in CodeIn(known, body, w) : r = q
  BY <1>4
<1> QED
  BY <1>6, <1>7, <1>8

\* The sequence of a set with one member, or none.
LEMMA SetToSeqOne ==
    ASSUME NEW S, \A x, y \in S : x = y
    PROVE  /\ S = {} => SetToSeq(S) = <<>>
           /\ \A e \in S : SetToSeq(S) = <<e>>
<1>1. CASE S = {}
  <2>1. Cardinality(S) = 0
    BY <1>1, FS_EmptySet
  <2>2. [1 .. 0 -> S] = {<<>>}
    <3>1. ASSUME NEW f \in [1 .. 0 -> S] PROVE f = <<>>
      <4>1. f \in Seq(S) /\ Len(f) = 0
        OBVIOUS
      <4> QED
        BY <4>1, EmptySeq
    <3>2. <<>> \in [1 .. 0 -> S]
      OBVIOUS
    <3> QED
      BY <3>1, <3>2
  <2>3. IsInjective(<<>>)
    BY DEF IsInjective
  <2>4. SetToSeq(S) = <<>>
    BY <2>1, <2>2, <2>3 DEF SetToSeq
  <2> QED
    BY <1>1, <2>4
<1>2. ASSUME NEW e \in S PROVE SetToSeq(S) = <<e>>
  <2>1. S = {e}
    BY <1>2
  <2>2. Cardinality(S) = 1
    BY <2>1, FS_Singleton
  <2>3. <<e>> \in [1 .. 1 -> S] /\ \A f \in [1 .. 1 -> S] : f = <<e>>
    BY <2>1
  <2>4. IsInjective(<<e>>)
    BY DEF IsInjective
  <2>5. SetToSeq(S) = CHOOSE f \in [1 .. 1 -> S] : IsInjective(f)
    BY <2>2 DEF SetToSeq
  <2> QED
    BY <2>3, <2>4, <2>5
<1> QED
  BY <1>1, <1>2

-----------------------------------------------------------------------------

ChatLine == [body : Seq(Narrow \cup Wide \cup Marks \cup Blanks),
         natives : SUBSET {n \in [first : Nat, last : Nat] : n.first <= n.last}]

\* A code that overlaps no emote of Twitch's.
Coded(known, line, r) ==
    /\ r \in Span /\ r.first <= r.last /\ r.last < Len(line.body)
    /\ IsCode(known, line.body, r)
    /\ ~Overlaps(line.natives, r)

\* What a word gives.
Fresh(known, line, w) ==
    {Entry(known, line.body, r) :
        r \in {r \in CodeIn(known, line.body, w) : ~Overlaps(line.natives, r)}}

\* The property's codes are these.
LEMMA CodesCoded ==
    ASSUME NEW known, NEW line \in ChatLine
    PROVE  \A x : x \in Codes(known, line) <=>
                    \E r : Coded(known, line, r) /\ x = Entry(known, line.body, r)
<1> DEFINE n == Len(line.body)
           box == [first : 0 .. n - 1, last : 0 .. n - 1]
           free(r) == \A v \in line.natives : (v.first .. v.last) \cap (r.first .. r.last) = {}
<1>1. n \in Nat
  BY DEF ChatLine
<1>2. ASSUME NEW r \in Span, r.first <= r.last PROVE free(r) <=> ~Overlaps(line.natives, r)
  <2>1. ASSUME NEW v \in line.natives
        PROVE  (v.first .. v.last) \cap (r.first .. r.last) = {}
                 <=> ~(v.first <= r.last /\ r.first <= v.last)
    <3>1. /\ v.first \in Nat /\ v.last \in Nat /\ v.first <= v.last
          /\ r.first \in Nat /\ r.last \in Nat
      BY DEF ChatLine, Span
    <3>2. CASE v.first <= r.last /\ r.first <= v.last
      <4>1. CASE v.first <= r.first
        <5>1. r.first \in (v.first .. v.last) \cap (r.first .. r.last)
          BY <1>2, <3>1, <3>2, <4>1
        <5> QED
          BY <3>2, <5>1
      <4>2. CASE ~(v.first <= r.first)
        <5>1. v.first \in (v.first .. v.last) \cap (r.first .. r.last)
          BY <1>2, <3>1, <3>2, <4>2
        <5> QED
          BY <3>2, <5>1
      <4> QED
        BY <4>1, <4>2
    <3>3. CASE ~(v.first <= r.last /\ r.first <= v.last)
      <4>1. \A p \in v.first .. v.last : p \notin r.first .. r.last
        BY <3>1, <3>3
      <4> QED
        BY <3>3, <4>1
    <3> QED
      BY <3>2, <3>3
  <2> QED
    BY <2>1 DEF Overlaps
<1>3. Codes(known, line) = {Entry(known, line.body, r) :
                              r \in {r \in box : /\ r.first <= r.last /\ IsCode(known, line.body, r)
                                                 /\ free(r)}}
  BY Zenon DEF Codes, box, free, n
<1> HIDE DEF free
<1>4. \A r : r \in box /\ r.first <= r.last <=> r \in Span /\ r.first <= r.last /\ r.last < n
  <2>1. ASSUME NEW r, r \in box, r.first <= r.last
        PROVE  r \in Span /\ r.first <= r.last /\ r.last < n
    BY <1>1, <2>1 DEF Span
  <2>2. ASSUME NEW r, r \in Span, r.first <= r.last, r.last < n
        PROVE  r \in box /\ r.first <= r.last
    <3>1. r.first \in 0 .. n - 1 /\ r.last \in 0 .. n - 1
      BY <1>1, <2>2 DEF Span
    <3> QED
      BY <2>2, <3>1 DEF Span
  <2> QED
    BY <2>1, <2>2
<1> HIDE DEF box
<1>5. \A r : Coded(known, line, r)
               <=> r \in box /\ r.first <= r.last /\ IsCode(known, line.body, r) /\ free(r)
  BY <1>2, <1>4 DEF Coded, n
<1> QED
  BY <1>3, <1>5

\* The entries of the words are the entries of the codes.
LEMMA FreshCoded ==
    ASSUME NEW known, NEW line \in ChatLine, NEW x
    PROVE  (\E w : IsRun(line.body, Blanks, w) /\ x \in Fresh(known, line, w))
             <=> \E r : Coded(known, line, r) /\ x = Entry(known, line.body, r)
<1> DEFINE body == line.body
<1>1. body \in Seq(Narrow \cup Wide \cup Marks \cup Blanks) /\ Len(body) \in Nat
  BY DEF ChatLine
<1> HIDE DEF body
<1>2. ASSUME NEW w, IsRun(body, Blanks, w), x \in Fresh(known, line, w)
      PROVE  \E r : Coded(known, line, r) /\ x = Entry(known, line.body, r)
  <2>1. PICK r \in CodeIn(known, body, w) : ~Overlaps(line.natives, r) /\ x = Entry(known, body, r)
    BY <1>2 DEF Fresh, body
  <2>2. /\ r \in Span /\ w.first <= r.first /\ r.first <= r.last /\ r.last <= w.last
        /\ CodeOf(known, body, w, r)
    BY <1>1, <1>2, <2>1, CodeInOK
  <2>3. IsCode(known, body, r)
    BY <1>1, <1>2, <2>2, IsCodeInWord
  <2>4. r.last < Len(body)
    BY <1>1, <1>2, <2>2 DEF IsRun, Span
  <2>5. Coded(known, line, r)
    BY <2>1, <2>2, <2>3, <2>4 DEF Coded, body
  <2> QED
    BY <2>1, <2>5 DEF body
<1>3. ASSUME NEW r, Coded(known, line, r), x = Entry(known, line.body, r)
      PROVE  \E w : IsRun(body, Blanks, w) /\ x \in Fresh(known, line, w)
  <2>1. /\ r \in Span /\ r.first <= r.last /\ r.last < Len(body)
        /\ IsCode(known, body, r) /\ ~Overlaps(line.natives, r)
    BY <1>3 DEF Coded, body
  <2>2. \A p \in r.first .. r.last : body[p + 1] \notin Blanks
    BY <2>1 DEF IsCode
  <2>3. PICK w : IsRun(body, Blanks, w) /\ w.first <= r.first /\ r.last <= w.last
    BY <1>1, <2>1, <2>2, RunAround
  <2>4. CodeOf(known, body, w, r)
    BY <1>1, <2>1, <2>3, IsCodeInWord
  <2>5. r \in CodeIn(known, body, w)
    BY <1>1, <2>1, <2>3, <2>4, CodeInOK
  <2>6. x \in Fresh(known, line, w)
    BY <1>3, <2>1, <2>5 DEF Fresh, body
  <2> QED
    BY <2>3, <2>6
<1> QED
  BY <1>2, <1>3 DEF body

\* The entries of the first k words, each once, in order.
FoundUpTo(known, line, k, made) ==
    LET runs == RunsOf(line.body, Blanks) IN
    /\ \A j \in 1 .. Len(made) : \E i \in 1 .. k : made[j] \in Fresh(known, line, runs[i])
    /\ \A i \in 1 .. k : \A x \in Fresh(known, line, runs[i]) : \E j \in 1 .. Len(made) : made[j] = x
    /\ \A i, j \in 1 .. Len(made) : i < j => made[i].last < made[j].first

\* All the codes are there, each once, in order.
OnceInOrder(codes, made) ==
    /\ Len(made) \in Nat /\ made \in Seq(codes)
    /\ \A x \in codes : \E j \in 1 .. Len(made) : made[j] = x
    /\ \A i, j \in 1 .. Len(made) : i < j => made[i].last < made[j].first
    /\ \A x \in codes : x.first \in Nat /\ x.last \in Nat /\ x.first <= x.last

\* The scan of a line finds exactly the codes.
LEMMA FoundOK ==
    ASSUME NEW known, NEW line \in ChatLine, NEW made, made = Found(known, line)
    PROVE  OnceInOrder(Codes(known, line), made)
<1> DEFINE body == line.body
           n == Len(RunsOf(body, Blanks))
           runs == RunsOf(body, Blanks)
           V == Codes(known, line)
           pieces == [i \in DOMAIN runs |-> SetToSeq(Fresh(known, line, runs[i]))]
<1>1. body \in Seq(Narrow \cup Wide \cup Marks \cup Blanks)
  BY DEF ChatLine
<1>2. RunsUpTo(body, Blanks, Len(body), runs)
  BY <1>1, RunsOK
<1>3. /\ n \in Nat /\ DOMAIN runs = 1 .. n
      /\ \A i \in 1 .. n : IsRun(body, Blanks, runs[i])
      /\ \A i, j \in 1 .. n : i < j => runs[i].last < runs[j].first
      /\ \A r : IsRun(body, Blanks, r) => \E j \in 1 .. n : runs[j] = r
  <2>1. runs \in Seq(Span)
    BY <1>2 DEF RunsUpTo
  <2>2. n \in Nat /\ DOMAIN runs = 1 .. n
    BY <2>1
  <2>3. \A r : IsRun(body, Blanks, r) => r.first < Len(body)
    BY <1>1 DEF IsRun, Span
  <2> QED
    BY <1>2, <2>2, <2>3 DEF RunsUpTo
<1>4. Found(known, line) = FlattenSeq(pieces)
  BY Zenon DEF Found, Fresh
<1>5. \A x : x \in V <=> \E i \in 1 .. n : x \in Fresh(known, line, runs[i])
  <2>1. \A x : x \in V <=> \E w : IsRun(line.body, Blanks, w) /\ x \in Fresh(known, line, w)
    BY CodesCoded, FreshCoded
  <2> QED
    BY <1>3, <2>1
<1>6. ASSUME NEW i \in 1 .. n, NEW x \in Fresh(known, line, runs[i])
      PROVE  /\ x.first \in Nat /\ x.last \in Nat /\ x.first <= x.last
             /\ runs[i].first <= x.first /\ x.last <= runs[i].last
             /\ runs[i].first \in Nat /\ runs[i].last \in Nat
  <2>1. PICK r \in CodeIn(known, body, runs[i]) : x = Entry(known, body, r)
    BY DEF Fresh
  <2>2. IsRun(body, Blanks, runs[i])
    BY <1>3
  <2>3. r \in Span /\ runs[i].first <= r.first /\ r.first <= r.last /\ r.last <= runs[i].last
    BY <1>1, <2>2, CodeInOK
  <2>4. x.first = r.first /\ x.last = r.last
    BY <2>1 DEF Entry
  <2> QED
    BY <2>2, <2>3, <2>4 DEF IsRun, Span
<1>7. ASSUME NEW i \in 1 .. n
      PROVE  \A x, y \in Fresh(known, line, runs[i]) : x = y
  <2>1. \A r, q \in CodeIn(known, body, runs[i]) : r = q
    BY <1>1, <1>3, CodeInOK
  <2> QED
    BY <2>1 DEF Fresh
<1>8. pieces \in Seq(Seq(V)) /\ Len(pieces) = n
  <2>1. ASSUME NEW i \in 1 .. n PROVE SetToSeq(Fresh(known, line, runs[i])) \in Seq(V)
    <3>1. CASE Fresh(known, line, runs[i]) = {}
      <4>1. SetToSeq(Fresh(known, line, runs[i])) = <<>>
        BY <1>7, <3>1, SetToSeqOne
      <4> QED
        BY <4>1
    <3>2. CASE Fresh(known, line, runs[i]) # {}
      <4>1. PICK e \in Fresh(known, line, runs[i]) : TRUE
        BY <3>2
      <4>2. e \in V
        BY <1>5, <4>1
      <4>3. SetToSeq(Fresh(known, line, runs[i])) = <<e>>
        BY <1>7, <4>1, SetToSeqOne
      <4> HIDE DEF V
      <4> QED
        BY <4>2, <4>3
    <3> QED
      BY <3>1, <3>2
  <2> HIDE DEF V, runs, n
  <2> QED
    BY <1>3, <2>1
<1>9. PICK f : Joining(pieces, V, f)
  BY <1>8, FlattenTrace
<1> HIDE DEF V, n, body
<1>10. /\ f \in [0 .. n -> Seq(V)] /\ f[0] = <<>>
       /\ \A k \in 1 .. n : f[k] = f[k - 1] \o pieces[k]
       /\ FlattenSeq(pieces) = f[n]
  BY <1>8, <1>9 DEF Joining
<1> DEFINE Right == {k \in 0 .. n : FoundUpTo(known, line, k, f[k])}
<1>11. 0 \in Right
  <2>1. Len(f[0]) = 0 /\ 0 \in 0 .. n
    BY <1>3, <1>10
  <2> QED
    BY <2>1 DEF FoundUpTo
<1>12. ASSUME NEW k \in 0 .. n - 1, k \in Right PROVE k + 1 \in Right
  <2> DEFINE m == Len(f[k])
             all == f[k + 1]
  <2>1. k + 1 \in 1 .. n /\ k + 1 \in 0 .. n /\ (k + 1) - 1 = k /\ k \in 0 .. n
    BY <1>3
  <2>2. f[k] \in Seq(V) /\ m \in Nat /\ FoundUpTo(known, line, k, f[k])
    BY <1>10, <1>12, <2>1
  <2>3. all = f[k] \o SetToSeq(Fresh(known, line, runs[k + 1]))
    BY <1>3, <1>10, <2>1
  <2>4. \A i \in 1 .. k + 1 : i \in 1 .. k \/ i = k + 1
    BY <2>1
  <2>5. CASE Fresh(known, line, runs[k + 1]) = {}
    <3>1. SetToSeq(Fresh(known, line, runs[k + 1])) = <<>>
      BY <1>7, <2>1, <2>5, SetToSeqOne
    <3>2. all = f[k]
      BY <2>2, <2>3, <3>1, ConcatEmptySeq
    <3>3. FoundUpTo(known, line, k + 1, f[k])
      <4>1. 1 .. k \subseteq 1 .. k + 1
        BY <2>1
      <4> QED
        BY <2>2, <2>4, <2>5, <4>1 DEF FoundUpTo, runs, body
    <3> QED
      BY <2>1, <3>2, <3>3
  <2>6. ASSUME NEW e \in Fresh(known, line, runs[k + 1]) PROVE k + 1 \in Right
    <3>1. SetToSeq(Fresh(known, line, runs[k + 1])) = <<e>>
      BY <1>7, <2>1, <2>6, SetToSeqOne
    <3>2. e \in V
      BY <1>5, <2>1
    <3>3. /\ Len(all) = m + 1 /\ all[m + 1] = e
          /\ \A j \in 1 .. m : all[j] = f[k][j]
      <4>1. all = f[k] \o <<e>>
        BY <2>3, <3>1
      <4> HIDE DEF all
      <4> QED
        BY <2>2, <3>2, <4>1
    <3> HIDE DEF all, m, runs
    <3>4. \A j \in 1 .. Len(all) : j \in 1 .. m \/ j = m + 1
      BY <2>2, <3>3 DEF m
    <3>5. FoundUpTo(known, line, k, f[k]) /\ m = Len(f[k])
      BY <2>2 DEF m
    <3>6. ASSUME NEW j \in 1 .. Len(all)
          PROVE  \E i \in 1 .. k + 1 : all[j] \in Fresh(known, line, runs[i])
      <4>1. CASE j \in 1 .. m
        <5>1. PICK i \in 1 .. k : f[k][j] \in Fresh(known, line, runs[i])
          BY <3>5, <4>1 DEF FoundUpTo, runs, body
        <5>2. i \in 1 .. k + 1
          BY <2>1
        <5> QED
          BY <3>3, <4>1, <5>1, <5>2
      <4>2. CASE j = m + 1
        <5>1. k + 1 \in 1 .. k + 1
          BY <2>1
        <5> QED
          BY <2>6, <3>3, <4>2, <5>1
      <4> QED
        BY <3>4, <4>1, <4>2
    <3>7. ASSUME NEW i \in 1 .. k + 1, NEW x \in Fresh(known, line, runs[i])
          PROVE  \E j \in 1 .. Len(all) : all[j] = x
      <4>1. CASE i \in 1 .. k
        <5>1. PICK j \in 1 .. m : f[k][j] = x
          BY <3>5, <4>1 DEF FoundUpTo, runs, body
        <5>2. j \in 1 .. Len(all)
          BY <2>2, <3>3 DEF m
        <5> QED
          BY <3>3, <5>1, <5>2
      <4>2. CASE i = k + 1
        <5>1. x = e
          BY <1>7, <2>1, <2>6, <4>2 DEF runs
        <5>2. m + 1 \in 1 .. Len(all)
          BY <2>2, <3>3 DEF m
        <5> QED
          BY <3>3, <5>1, <5>2
      <4> QED
        BY <2>4, <4>1, <4>2
    <3>8. ASSUME NEW i \in 1 .. Len(all), NEW j \in 1 .. Len(all), i < j
          PROVE  all[i].last < all[j].first
      <4>1. i \in 1 .. m
        BY <2>2, <3>3, <3>8 DEF m
      <4>2. CASE j \in 1 .. m
        BY <3>3, <3>5, <3>8, <4>1, <4>2 DEF FoundUpTo
      <4>3. CASE j = m + 1
        <5>1. PICK l \in 1 .. k : f[k][i] \in Fresh(known, line, runs[l])
          BY <3>5, <4>1 DEF FoundUpTo, runs, body
        <5>2. PICK x : x = f[k][i]
          OBVIOUS
        <5>3. l \in 1 .. n /\ l < k + 1
          BY <1>3, <2>1
        <5>4. x.last \in Nat /\ x.last <= runs[l].last /\ runs[l].last \in Nat
          BY <1>6, <5>1, <5>2, <5>3 DEF runs
        <5>5. e.first \in Nat /\ runs[k + 1].first <= e.first /\ runs[k + 1].first \in Nat
          BY <1>6, <2>1, <2>6 DEF runs
        <5>6. runs[l].last < runs[k + 1].first
          BY <1>3, <2>1, <5>3 DEF runs
        <5>7. x.last < e.first
          BY <5>4, <5>5, <5>6
        <5> QED
          BY <3>3, <4>1, <4>3, <5>2, <5>7
      <4> QED
        BY <3>4, <4>2, <4>3
    <3>9. FoundUpTo(known, line, k + 1, all)
      BY <3>6, <3>7, <3>8 DEF FoundUpTo, runs, body
    <3> QED
      BY <2>1, <3>9 DEF all
  <2> QED
    BY <2>5, <2>6
<1> HIDE DEF Right
<1>13. \A k \in 0 .. n : k \in Right
  BY <1>3, <1>11, <1>12, UpTo
<1>14. n \in 0 .. n
  BY <1>3
<1>15. FoundUpTo(known, line, n, made) /\ made \in Seq(V)
  BY <1>4, <1>10, <1>13, <1>14 DEF Right
<1>16. Len(made) \in Nat
  BY <1>15
<1>17. \A x \in V : \E j \in 1 .. Len(made) : made[j] = x
  BY <1>5, <1>15 DEF FoundUpTo, body
<1>18. \A x \in V : x.first \in Nat /\ x.last \in Nat /\ x.first <= x.last
  BY <1>5, <1>6
<1> QED
  BY <1>15, <1>16, <1>17, <1>18 DEF V, FoundUpTo, OnceInOrder

\* What is put into a line: the first codes, as many as fit.
LEMMA AdditionsOK ==
    ASSUME NEW known, NEW line \in ChatLine, NEW added, added = Additions(known, line)
    PROVE  LET codes == Codes(known, line) IN
           /\ ToSet(added) \subseteq codes
           /\ Len(added) = IF Cardinality(codes) > MaxAdditions THEN MaxAdditions
                           ELSE Cardinality(codes)
           /\ \A j, k \in DOMAIN added : j < k => added[j].last < added[k].first
<1> DEFINE codes == Codes(known, line)
<1>1. PICK made : made = Found(known, line)
  OBVIOUS
<1>2. /\ Len(made) \in Nat /\ made \in Seq(codes)
      /\ \A x \in codes : \E j \in 1 .. Len(made) : made[j] = x
      /\ \A i, j \in 1 .. Len(made) : i < j => made[i].last < made[j].first
      /\ \A x \in codes : x.first \in Nat /\ x.last \in Nat /\ x.first <= x.last
  <2>1. OnceInOrder(codes, made)
    BY <1>1, FoundOK
  <2> QED
    BY <2>1 DEF OnceInOrder
<1>3. Cardinality(codes) = Len(made)
  <2>1. \A i \in 1 .. Len(made) : made[i] \in codes
    BY <1>2
  <2>2. ASSUME NEW i \in 1 .. Len(made), NEW j \in 1 .. Len(made), made[i] = made[j]
        PROVE  i = j
    <3>1. made[i].first \in Nat /\ made[i].last \in Nat /\ made[i].first <= made[i].last
      BY <1>2, <2>1
    <3>2. ~(i < j) /\ ~(j < i)
      <4>1. \A a, b \in 1 .. Len(made) : a < b => made[a].last < made[b].first
        BY <1>2
      <4>2. ~(made[i].last < made[i].first)
        BY <3>1
      <4> HIDE DEF codes
      <4> QED
        BY <2>2, <4>1, <4>2
    <3>3. i \in Nat /\ j \in Nat
      BY <1>2
    <3> QED
      BY <3>2, <3>3
  <2> HIDE DEF codes
  <2>3. made \in [1 .. Len(made) -> codes]
    BY <1>2
  <2>4. made \in Bijection(1 .. Len(made), codes)
    BY <1>2, <2>2, <2>3 DEF Bijection, Injection, Surjection, IsInjective
  <2>5. IsFiniteSet(1 .. Len(made)) /\ Cardinality(1 .. Len(made)) = Len(made)
    <3>1. 1 \in Int /\ Len(made) \in Int
      BY <1>2
    <3>2. /\ IsFiniteSet(1 .. Len(made))
          /\ Cardinality(1 .. Len(made)) = IF 1 > Len(made) THEN 0 ELSE Len(made) - 1 + 1
      BY <3>1, FS_Interval
    <3> QED
      BY <1>2, <3>2
  <2>6. ExistsBijection(1 .. Len(made), codes)
    BY <2>4 DEF ExistsBijection
  <2> QED
    BY <2>5, <2>6, FS_Bijection
<1> DEFINE m == IF Len(made) > MaxAdditions THEN MaxAdditions ELSE Len(made)
<1>4. added = SubSeq(made, 1, m)
  BY <1>1 DEF Additions
<1>5. m \in 0 .. Len(made)
  BY <1>2, FramesAssumption
<1> HIDE DEF m, codes
<1>6. Len(added) = m /\ DOMAIN added = 1 .. m /\ \A j \in 1 .. m : added[j] = made[j]
  <2>1. m \in Nat /\ Len(made) \in Nat /\ 1 .. m \subseteq 1 .. Len(made)
    BY <1>2, <1>5
  <2> QED
    BY <1>2, <1>4, <1>5, <2>1
<1>7. \A j \in 1 .. m : j \in 1 .. Len(made)
  BY <1>2, <1>5
<1>8. ToSet(added) \subseteq codes
  BY <1>2, <1>6, <1>7 DEF ToSet
<1>9. ASSUME NEW j \in DOMAIN added, NEW k \in DOMAIN added, j < k
      PROVE  added[j].last < added[k].first
  <2>1. j \in 1 .. m /\ k \in 1 .. m
    BY <1>6
  <2>2. j \in 1 .. Len(made) /\ k \in 1 .. Len(made)
    BY <1>7, <2>1
  <2>3. made[j].last < made[k].first
    BY <1>2, <1>9, <2>2
  <2> QED
    BY <1>6, <2>1, <2>3
<1>10. Len(added) = IF Cardinality(codes) > MaxAdditions THEN MaxAdditions ELSE Cardinality(codes)
  BY <1>3, <1>6 DEF m
<1> QED
  BY <1>8, <1>9, <1>10 DEF codes

\* A line that was read, as it is written.
Rewriting(line, entry) == entry = [added |-> Additions(entry.by, line), by |-> entry.by]

\* The lines are written one by one, and delivered all or none.
FrameOK ==
    /\ frame \in Seq(ChatLine)
    /\ written \in Seq([added : {Additions(k, l) : k \in NameSets, l \in ChatLine}, by : NameSets])
    /\ names \in NameSets
    /\ Len(written) <= Len(frame)
    /\ \A i \in 1 .. Len(written) : Rewriting(frame[i], written[i])
    /\ \A out \in delivered :
          \/ \A i \in DOMAIN frame : out[i].added = <<>>
          \/ \A i \in DOMAIN frame : i \in 1 .. Len(written) /\ out[i] = written[i]

\* Every step keeps it.
LEMMA FrameStep == FrameOK /\ [FrameNext]_frameVars => FrameOK'
<1> SUFFICES ASSUME FrameOK, [FrameNext]_frameVars PROVE FrameOK'
  OBVIOUS
<1> DEFINE Entries == [added : {Additions(k, l) : k \in NameSets, l \in ChatLine}, by : NameSets]
<1>1. Len(frame) \in Nat /\ Len(written) \in Nat /\ DOMAIN frame = 1 .. Len(frame)
      /\ DOMAIN written = 1 .. Len(written) /\ \A i \in DOMAIN frame : frame[i] \in ChatLine
  BY DEF FrameOK
<1>2. CASE RewriteLine
  <2> DEFINE n == Len(written) + 1
             e == [added |-> Additions(names, frame[n]), by |-> names]
  <2>1. n \in DOMAIN frame /\ frame[n] \in ChatLine
    BY <1>1, <1>2 DEF RewriteLine
  <2>2. e \in Entries /\ Rewriting(frame[n], e)
    BY <2>1 DEF FrameOK, Rewriting
  <2>3. written' = Append(written, e) /\ UNCHANGED <<frame, names, delivered>> /\ delivered = {}
    BY <1>2 DEF RewriteLine
  <2>4. written \in Seq(Entries)
    BY DEF FrameOK
  <2> HIDE DEF e, Entries
  <2>5. /\ written' \in Seq(Entries) /\ Len(written') = n /\ written'[n] = e
        /\ \A i \in 1 .. Len(written) : written'[i] = written[i]
    BY <2>2, <2>3, <2>4
  <2>6. \A i \in 1 .. n : i \in 1 .. Len(written) \/ i = n
    BY <1>1
  <2>7. \A i \in 1 .. Len(written') : Rewriting(frame'[i], written'[i])
    BY <2>2, <2>3, <2>5, <2>6 DEF FrameOK
  <2>8. n <= Len(frame')
    BY <1>1, <2>1, <2>3
  <2> QED
    BY <2>3, <2>5, <2>7, <2>8 DEF FrameOK, Entries
<1>3. CASE Deliver
  <2>1. UNCHANGED <<frame, written, names>>
    BY <1>3 DEF Deliver
  <2>2. ASSUME NEW out \in delivered'
        PROVE  \/ \A i \in DOMAIN frame : out[i].added = <<>>
               \/ \A i \in DOMAIN frame : i \in 1 .. Len(written) /\ out[i] = written[i]
    <3>1. out = [i \in DOMAIN frame |->
                   IF i \in DOMAIN Fitting(written) THEN written[i] ELSE [added |-> <<>>, by |-> names]]
      BY <1>3, <2>2 DEF Deliver
    <3>2. CASE Growth(written) > MaxGrowth
      <4>1. DOMAIN Fitting(written) = {}
        BY <3>2 DEF Fitting
      <4> QED
        BY <3>1, <4>1
    <3>3. CASE ~(Growth(written) > MaxGrowth)
      <4>1. Fitting(written) = written /\ Len(written) = Len(frame)
        BY <1>3, <3>3 DEF Fitting, Deliver
      <4> QED
        BY <1>1, <3>1, <4>1
    <3> QED
      BY <3>2, <3>3
  <2> QED
    BY <2>1, <2>2 DEF FrameOK
<1>4. CASE NamesChange
  BY <1>4 DEF NamesChange, FrameOK
<1>5. CASE UNCHANGED frameVars
  BY <1>5 DEF frameVars, FrameOK
<1> QED
  BY <1>2, <1>3, <1>4, <1>5 DEF FrameNext

\* Twitch gets a frame as it came, or with exactly the codes of each line's
\* set (rewrite_line, rewrite_message): for any frames and sets, and whatever
\* limits the buffers have.
THEOREM AlwaysRewritten == FrameSpec => []FrameRewritten
<1>1. FrameInit => FrameOK
  <2> SUFFICES ASSUME FrameInit PROVE FrameOK
    OBVIOUS
  <2>1. frame \in Seq(ChatLine) /\ Len(frame) \in Nat
    BY FramesAssumption DEF FrameInit, ChatLine
  <2>2. written = <<>> /\ Len(written) = 0 /\ delivered = {} /\ names \in NameSets
    BY DEF FrameInit
  <2> QED
    BY <2>1, <2>2 DEF FrameOK
<1>2. FrameOK => FrameRewritten
  <2> SUFFICES ASSUME FrameOK, NEW out \in delivered,
                      ~\A i \in DOMAIN frame : out[i].added = <<>>
               PROVE  \A i \in DOMAIN frame :
                        LET codes == Codes(written[i].by, frame[i])
                        IN  /\ out[i] = written[i]
                            /\ ToSet(out[i].added) \subseteq codes
                            /\ Len(out[i].added) = IF Cardinality(codes) > MaxAdditions
                                                   THEN MaxAdditions ELSE Cardinality(codes)
                            /\ \A j, k \in DOMAIN out[i].added :
                                  j < k => out[i].added[j].last < out[i].added[k].first
    BY DEF FrameRewritten
  <2> TAKE i \in DOMAIN frame
  <2>1. i \in 1 .. Len(written) /\ out[i] = written[i]
    BY DEF FrameOK
  <2>2. Rewriting(frame[i], written[i]) /\ frame[i] \in ChatLine
    BY <2>1 DEF FrameOK
  <2>3. out[i].added = Additions(written[i].by, frame[i])
    BY <2>1, <2>2 DEF Rewriting
  <2> QED
    BY <2>1, <2>2, <2>3, AdditionsOK
<1> QED
  BY <1>1, <1>2, FrameStep, PTL DEF FrameSpec

-----------------------------------------------------------------------------
(* LocalMessages.  What the tokens of a message spell, and which of them are *)
(* of a kind, is put together piece by piece.                                *)

Shown == Token \cup [kind : {"emote"}, text : Seq(Character),
                     id : {"room", "global"} \X Seq(Character)]

\* What a token gives: its text, or itself when it is of the kind asked for.
Spelling == [t \in Shown |-> t.text]
OfKind(T, kind) == {t \in T : t.kind = kind}
Keeping(T, kind) == [t \in T |-> IF t.kind = kind THEN <<t>> ELSE <<>>]

\* What is shown of tokens by their text, and by their kind.
LEMMA TextOfSpread ==
    ASSUME NEW tokens \in Seq(Shown)
    PROVE  Spelling \in [Shown -> Seq(Character)] /\ TextOf(tokens) = Spread(Spelling, tokens)
<1>1. Spelling \in [Shown -> Seq(Character)]
  BY DEF Spelling, Shown, Token
<1>2. \A i \in DOMAIN tokens : tokens[i] \in Shown
  OBVIOUS
<1>3. Mapped(Spelling, tokens) = [i \in DOMAIN tokens |-> tokens[i].text]
  BY <1>2 DEF Mapped, Spelling
<1> QED
  BY <1>1, <1>3 DEF Spread, TextOf

\* The tokens of a kind are tokens of that kind.
LEMMA ThoseSpread ==
    ASSUME NEW T, NEW tokens \in Seq(T), NEW kind
    PROVE  /\ Keeping(T, kind) \in [T -> Seq(OfKind(T, kind))]
           /\ Those(tokens, kind) = Spread(Keeping(T, kind), tokens)
           /\ Those(tokens, kind) \in Seq(OfKind(T, kind))
<1> DEFINE K == OfKind(T, kind)
<1>1. \A t \in T : (IF t.kind = kind THEN <<t>> ELSE <<>>) \in Seq(K)
  <2> TAKE t \in T
  <2>1. CASE t.kind = kind
    <3>1. t \in K
      BY <2>1 DEF OfKind
    <3> HIDE DEF K
    <3> QED
      BY <2>1, <3>1
  <2>2. CASE t.kind # kind
    <3> HIDE DEF K
    <3> QED
      BY <2>2
  <2> QED
    BY <2>1, <2>2
<1> HIDE DEF K
<1>2. Keeping(T, kind) \in [T -> Seq(K)]
  BY <1>1 DEF Keeping
<1>3. \A i \in DOMAIN tokens : tokens[i] \in T
  OBVIOUS
<1>4. Mapped(Keeping(T, kind), tokens)
        = [i \in DOMAIN tokens |-> IF tokens[i].kind = kind THEN <<tokens[i]>> ELSE <<>>]
  BY <1>3 DEF Mapped, Keeping
<1>5. Those(tokens, kind) = Spread(Keeping(T, kind), tokens)
  BY <1>4, Zenon DEF Spread, Those
<1>6. Spread(Keeping(T, kind), tokens) \in Seq(K)
  <2>1. Together(K, Keeping(T, kind), tokens, tokens)
    BY <1>2, SpreadConcat
  <2> QED
    BY <2>1 DEF Together
<1> QED
  BY <1>2, <1>5, <1>6 DEF K

-----------------------------------------------------------------------------
\* What the codes of a text are replaced with.
NewTokens(matches) ==
    [kind : {"text"}, text : Seq(Character)]
        \cup [kind : {"emote"}, text : matches, id : {"room", "global"} \X Seq(Character)]

\* A word that has been come to.
PutWord(known, text, matches, v, r) ==
    IF Text(text, r) \in matches
    THEN [out |-> v.out \o Between(text, v.done, r.first) \o <<EmoteToken(known, Text(text, r))>>,
          done |-> r.last + 1]
    ELSE v

\* What has been put out after each word.
Replacing(known, text, matches, runs, f) ==
    /\ f \in [0 .. Len(runs) -> [out : Seq(NewTokens(matches)), done : Nat]]
    /\ f[0] = [out |-> <<>>, done |-> 0]
    /\ \A k \in 1 .. Len(runs) : f[k] = PutWord(known, text, matches, f[k - 1], runs[k])
    /\ Replaced(known, text, matches)
         = f[Len(runs)].out \o Piece(text, f[Len(runs)].done, Len(text))

\* The text between two positions is one token, or none.
LEMMA PieceOK ==
    ASSUME NEW text \in Seq(Character), NEW matches \in SUBSET Seq(Character),
           NEW from \in Nat, NEW to \in 0 .. Len(text)
    PROVE  /\ Piece(text, from, to) \in Seq(NewTokens(matches))
           /\ TextOf(Piece(text, from, to)) = SubSeq(text, from + 1, to)
<1>1. PICK s : s = SubSeq(text, from + 1, to)
  OBVIOUS
<1>2. s \in Seq(Character)
  <2>1. \A i \in from + 1 .. to : text[i] \in Character
    OBVIOUS
  <2>2. from + 1 \in Int /\ to \in Int
    OBVIOUS
  <2> QED
    BY <1>1, <2>1, <2>2, SubSeqProperties
<1>3. TextToken(s) \in NewTokens(matches) /\ TextToken(s) \in Shown
      /\ NewTokens(matches) \subseteq Shown
  BY <1>2 DEF NewTokens, TextToken, Shown, Token
<1>4. Spelling \in [Shown -> Seq(Character)] /\ TextOf(<<>>) = Spread(Spelling, <<>>)
      /\ TextOf(<<TextToken(s)>>) = Spread(Spelling, <<TextToken(s)>>)
  <2>1. <<>> \in Seq(Shown) /\ <<TextToken(s)>> \in Seq(Shown)
    BY <1>3
  <2> QED
    BY <2>1, TextOfSpread
<1>5. Spread(Spelling, <<>>) = <<>> /\ Spread(Spelling, <<TextToken(s)>>) = Spelling[TextToken(s)]
  BY <1>3, <1>4, SpreadOne
<1>6. Spelling[TextToken(s)] = s
  BY <1>3 DEF Spelling, TextToken
<1>7. CASE from = to
  <2>1. Piece(text, from, to) = <<>>
    BY <1>7 DEF Piece
  <2>2. s = <<>>
    <3>1. from + 1 \in Int /\ to \in Int /\ to < from + 1
      BY <1>7
    <3> QED
      BY <1>1, <3>1, SubSeqEmpty
  <2>3. TextOf(<<>>) = s /\ <<>> \in Seq(NewTokens(matches))
    BY <1>4, <1>5, <2>2
  <2> QED
    BY <1>1, <2>1, <2>3
<1>8. CASE from # to
  <2>1. Piece(text, from, to) = <<TextToken(s)>>
    BY <1>1, <1>8 DEF Piece
  <2>2. <<TextToken(s)>> \in Seq(NewTokens(matches))
    BY <1>3
  <2>3. TextOf(<<TextToken(s)>>) = s
    BY <1>4, <1>5, <1>6
  <2> QED
    BY <1>1, <2>1, <2>2, <2>3
<1> QED
  BY <1>7, <1>8

\* A word of the text, and what is put out for it.
LEMMA PutWordOK ==
    ASSUME NEW known, NEW text \in Seq(Character), NEW matches \in SUBSET Seq(Character),
           NEW v \in [out : Seq(NewTokens(matches)), done : Nat],
           NEW r \in Span, r.first <= r.last, r.last < Len(text)
    PROVE  /\ PutWord(known, text, matches, v, r) \in [out : Seq(NewTokens(matches)), done : Nat]
           /\ v.done <= r.first /\ TextOf(v.out) = SubSeq(text, 1, v.done) =>
                 LET w == PutWord(known, text, matches, v, r)
                 IN  /\ w.done = v.done \/ w.done = r.last + 1
                     /\ TextOf(w.out) = SubSeq(text, 1, w.done)
<1>1. r.first \in Nat /\ r.last \in Nat /\ r.first <= r.last /\ r.last < Len(text) /\ Len(text) \in Nat
  BY DEF Span
<1>2. PICK word : word = Text(text, r)
  OBVIOUS
<1>3. CASE word \notin matches
  BY <1>2, <1>3 DEF PutWord
<1>4. CASE word \in matches
  <2>1. PICK e : e = EmoteToken(known, word)
    OBVIOUS
  <2>2. e \in NewTokens(matches) /\ e \in Shown /\ e.text = word /\ NewTokens(matches) \subseteq Shown
    BY <1>4, <2>1 DEF EmoteToken, NewTokens, Shown, Token, Owner
  <2>3. PICK p : p = Piece(text, v.done, r.first)
    OBVIOUS
  <2>4. r.first \in 0 .. Len(text) /\ v.done \in Nat
    BY <1>1
  <2>5. p \in Seq(NewTokens(matches)) /\ TextOf(p) = SubSeq(text, v.done + 1, r.first)
    BY <2>3, <2>4, PieceOK
  <2>6. PICK a : a = v.out \o p
    OBVIOUS
  <2>7. PICK b : b = a \o <<e>>
    OBVIOUS
  <2>8. v.out \in Seq(NewTokens(matches)) /\ <<e>> \in Seq(NewTokens(matches))
    BY <2>2
  <2>9. a \in Seq(NewTokens(matches))
    BY <2>5, <2>6, <2>8, ConcatProperties
  <2>10. b \in Seq(NewTokens(matches))
    BY <2>7, <2>8, <2>9, ConcatProperties
  <2>11. PutWord(known, text, matches, v, r) = [out |-> b, done |-> r.last + 1]
    BY <1>2, <1>4, <2>1, <2>3, <2>6, <2>7 DEF PutWord, Between
  <2>12. r.last + 1 \in Nat
    BY <1>1
  <2>13. ASSUME v.done <= r.first, TextOf(v.out) = SubSeq(text, 1, v.done)
         PROVE  TextOf(b) = SubSeq(text, 1, r.last + 1)
    <3>1. PICK o : o = v.out
      OBVIOUS
    <3>2. o \in Seq(Shown) /\ p \in Seq(Shown) /\ <<e>> \in Seq(Shown) /\ a \in Seq(Shown) /\ b \in Seq(Shown)
      BY <2>2, <2>5, <2>8, <2>9, <2>10, <3>1
    <3>3. Spelling \in [Shown -> Seq(Character)]
      BY <3>2, TextOfSpread
    <3>4. /\ TextOf(o) = Spread(Spelling, o) /\ TextOf(p) = Spread(Spelling, p)
          /\ TextOf(a) = Spread(Spelling, a) /\ TextOf(b) = Spread(Spelling, b)
      BY <3>2, TextOfSpread
    <3>5. Spread(Spelling, a) = Spread(Spelling, o) \o Spread(Spelling, p)
      <4>1. Together(Character, Spelling, o, p)
        BY <3>2, <3>3, SpreadConcat
      <4> QED
        BY <2>6, <3>1, <4>1 DEF Together
    <3>6. Spread(Spelling, b) = Spread(Spelling, a) \o Spread(Spelling, <<e>>)
      <4>1. Together(Character, Spelling, a, <<e>>)
        BY <3>2, <3>3, SpreadConcat
      <4> QED
        BY <2>7, <4>1 DEF Together
    <3>7. Spread(Spelling, <<e>>) = word
      <4>1. Spread(Spelling, <<e>>) = Spelling[e]
        BY <2>2, <3>3, SpreadOne
      <4> QED
        BY <2>2, <4>1 DEF Spelling
    <3>8. word = SubSeq(text, r.first + 1, r.last + 1)
      BY <1>2 DEF Text
    <3>9. SubSeq(text, 1, v.done) \o SubSeq(text, v.done + 1, r.first) = SubSeq(text, 1, r.first)
      <4>1. 1 \in 1 .. Len(text) + 1 /\ v.done \in 1 - 1 .. Len(text) /\ r.first \in v.done .. Len(text)
        BY <1>1, <2>4, <2>13
      <4> QED
        BY <4>1, ConcatAdjacentSubSeq
    <3>10. SubSeq(text, 1, r.first) \o SubSeq(text, r.first + 1, r.last + 1) = SubSeq(text, 1, r.last + 1)
      <4>1. 1 \in 1 .. Len(text) + 1 /\ r.first \in 1 - 1 .. Len(text) /\ r.last + 1 \in r.first .. Len(text)
        BY <1>1
      <4> QED
        BY <4>1, ConcatAdjacentSubSeq
    <3> QED
      BY <2>5, <2>13, <3>1, <3>4, <3>5, <3>6, <3>7, <3>8, <3>9, <3>10
  <2> QED
    BY <2>10, <2>11, <2>12, <2>13
<1> QED
  BY <1>3, <1>4

\* The loop over the words of a text has a trace.
LEMMA ReplaceTrace ==
    ASSUME NEW known, NEW text \in Seq(Character), NEW matches \in SUBSET Seq(Character)
    PROVE  \E f : Replacing(known, text, matches, RunsOf(text, Blanks \cup OtherBlanks), f)
<1> DEFINE seq == RunsOf(text, Blanks \cup OtherBlanks)
           n == Len(seq)
           V == [out : Seq(NewTokens(matches)), done : Nat]
           base == [out |-> <<>>, done |-> 0]
           Next1(v, r) == IF Text(text, r) \in matches
                          THEN [out |-> v.out \o Between(text, v.done, r.first)
                                             \o <<EmoteToken(known, Text(text, r))>>,
                                done |-> r.last + 1]
                          ELSE v
           step == [t \in (1 .. n) \X V |-> Next1(t[2], seq[t[1]])]
<1>1. RunsUpTo(text, Blanks \cup OtherBlanks, Len(text), seq)
  BY RunsOK
<1> HIDE DEF seq
<1>2. n \in Nat /\ DOMAIN seq = 1 .. n
      /\ \A k \in 1 .. n : seq[k] \in Span /\ seq[k].first <= seq[k].last /\ seq[k].last < Len(text)
  BY <1>1 DEF RunsUpTo, IsRun
<1> HIDE DEF n
<1>3. \A v \in V, k \in 1 .. n : Next1(v, seq[k]) = PutWord(known, text, matches, v, seq[k])
  BY DEF PutWord
<1> HIDE DEF Next1
<1>4. \A v \in V, k \in 1 .. n : Next1(v, seq[k]) \in V
  <2> TAKE v \in V, k \in 1 .. n
  <2>1. seq[k] \in Span /\ seq[k].first <= seq[k].last /\ seq[k].last < Len(text)
    BY <1>2
  <2>2. PutWord(known, text, matches, v, seq[k]) \in V
    BY <2>1, PutWordOK
  <2> QED
    BY <1>3, <2>2
<1> HIDE DEF V
<1>5. step \in Steps(n, V) /\ \A k \in 1 .. n, v \in V : step[<<k, v>>] = Next1(v, seq[k])
  BY <1>4 DEF Steps
<1> HIDE DEF step
<1>6. base \in V
  BY DEF V
<1> HIDE DEF base
<1>7. PICK g : g \in Folding(n, V, base, step)
  BY <1>2, <1>5, <1>6, FoldExists
<1>8. /\ g \in [SUBSET (1 .. n) -> V] /\ g[{}] = base
      /\ \A s \in SUBSET (1 .. n) : s # {} => g[s] = step[<<Max(s), g[s \ {Max(s)}]>>]
  BY <1>7 DEF Folding
<1>9. \A s \in SUBSET (1 .. n) :
        g[s] = IF s = {} THEN base ELSE Next1(g[s \ {Max(s)}], seq[Max(s)])
  <2> TAKE s \in SUBSET (1 .. n)
  <2>1. CASE s = {}
    BY <1>8, <2>1
  <2>2. CASE s # {}
    <3>1. Max(s) \in 1 .. n
      BY <1>2, <2>2, MaxOfIndexes
    <3>2. g[s \ {Max(s)}] \in V
      BY <1>8
    <3> QED
      BY <1>5, <1>8, <2>2, <3>1, <3>2
  <2> QED
    BY <2>1, <2>2
<1>10. g = [s \in SUBSET (1 .. n) |->
              IF s = {} THEN base ELSE Next1(g[s \ {Max(s)}], seq[Max(s)])]
  BY <1>8, <1>9
<1> DEFINE iter[s \in SUBSET (1 .. n)] ==
             IF s = {} THEN base ELSE Next1(iter[s \ {Max(s)}], seq[Max(s)])
<1>11. iter = [s \in SUBSET (1 .. n) |->
                 IF s = {} THEN base ELSE Next1(iter[s \ {Max(s)}], seq[Max(s)])]
  BY <1>10, Zenon
<1>12. Replaced(known, text, matches)
         = iter[1 .. n].out \o Piece(text, iter[1 .. n].done, Len(text))
  BY <1>2, Zenon DEF Replaced, FoldLeft, MapThenFoldSet, Next1, seq, base
<1> HIDE DEF iter
<1>13. iter[{}] = base
  BY <1>11
<1>14. ASSUME NEW s \in SUBSET (1 .. n), s # {} /\ iter[s \ {Max(s)}] \in V
       PROVE  iter[s] = step[<<Max(s), iter[s \ {Max(s)}]>>]
  <2>1. Max(s) \in 1 .. n
    BY <1>2, <1>14, MaxOfIndexes
  <2>2. iter[s] = Next1(iter[s \ {Max(s)}], seq[Max(s)])
    BY <1>11, <1>14
  <2> QED
    BY <1>5, <1>14, <2>1, <2>2
<1> DEFINE f == [k \in 0 .. n |-> iter[1 .. k]]
<1>15. f \in Traces(n, V, base, step)
  BY <1>2, <1>5, <1>6, <1>13, <1>14, FoldTrace
<1>16. f[n] = iter[1 .. n]
  BY <1>2
<1> HIDE DEF f
<1>17. /\ f \in [0 .. n -> V] /\ f[0] = base
       /\ \A k \in 1 .. n : f[k] = step[<<k, f[k - 1]>>]
  BY <1>15 DEF Traces, Trace
<1>18. \A k \in 1 .. n : f[k] = PutWord(known, text, matches, f[k - 1], seq[k])
  <2> TAKE k \in 1 .. n
  <2>1. f[k - 1] \in V
    BY <1>2, <1>17
  <2> QED
    BY <1>3, <1>5, <1>17, <2>1
<1>19. Replacing(known, text, matches, seq, f)
  BY <1>12, <1>16, <1>17, <1>18, Zenon DEF Replacing, n, V, base
<1> QED
  BY <1>19 DEF seq

\* The codes of a text replaced: its characters stay.
LEMMA ReplacedOK ==
    ASSUME NEW known, NEW text \in Seq(Character), NEW matches \in SUBSET Seq(Character)
    PROVE  /\ Replaced(known, text, matches) \in Seq(NewTokens(matches))
           /\ TextOf(Replaced(known, text, matches)) = text
<1>1. PICK runs : runs = RunsOf(text, Blanks \cup OtherBlanks)
  OBVIOUS
<1>2. PICK f : Replacing(known, text, matches, runs, f)
  BY <1>1, ReplaceTrace
<1>3. RunsUpTo(text, Blanks \cup OtherBlanks, Len(text), runs)
  BY <1>1, RunsOK
<1>4. PICK n : n = Len(runs)
  OBVIOUS
<1>5. /\ n \in Nat /\ Len(text) \in Nat
      /\ \A k \in 1 .. n : /\ runs[k] \in Span /\ runs[k].first \in Nat /\ runs[k].last \in Nat
                           /\ runs[k].first <= runs[k].last /\ runs[k].last < Len(text)
      /\ \A i, j \in 1 .. n : i < j => runs[i].last < runs[j].first
  BY <1>3, <1>4 DEF RunsUpTo, IsRun, Span
<1>6. /\ f \in [0 .. n -> [out : Seq(NewTokens(matches)), done : Nat]]
      /\ f[0] = [out |-> <<>>, done |-> 0]
      /\ \A k \in 1 .. n : f[k] = PutWord(known, text, matches, f[k - 1], runs[k])
      /\ Replaced(known, text, matches) = f[n].out \o Piece(text, f[n].done, Len(text))
  BY <1>2, <1>4 DEF Replacing
<1>7. \A k \in 0 .. n : /\ f[k] \in [out : Seq(NewTokens(matches)), done : Nat]
                        /\ f[k].out \in Seq(NewTokens(matches)) /\ f[k].done \in Nat
  BY <1>6
<1> DEFINE Spelt(k) == /\ f[k].done <= Len(text)
                       /\ \A j \in 1 .. n : k < j => f[k].done <= runs[j].first
                       /\ TextOf(f[k].out) = SubSeq(text, 1, f[k].done)
           Right == {k \in 0 .. n : Spelt(k)}
<1>8. 0 \in Right
  <2>1. f[0].out = <<>> /\ f[0].done = 0
    BY <1>6
  <2>2. TextOf(<<>>) = <<>>
    <3>1. <<>> \in Seq(Shown)
      OBVIOUS
    <3>2. Spelling \in [Shown -> Seq(Character)] /\ TextOf(<<>>) = Spread(Spelling, <<>>)
      BY <3>1, TextOfSpread
    <3>3. Mapped(Spelling, <<>>) = <<>>
      BY DEF Mapped
    <3>4. FlattenSeq(<<>>) = <<>>
      BY <3>1, FlattenOne
    <3> QED
      BY <3>2, <3>3, <3>4 DEF Spread
  <2>3. SubSeq(text, 1, 0) = <<>>
    <3>1. 1 \in Int /\ 0 \in Int /\ 0 < 1
      OBVIOUS
    <3> QED
      BY <3>1, SubSeqEmpty
  <2>4. \A j \in 1 .. n : 0 <= runs[j].first
    BY <1>5
  <2>5. 0 <= Len(text) /\ 0 \in 0 .. n
    BY <1>5
  <2> QED
    BY <2>1, <2>2, <2>3, <2>4, <2>5
<1>9. ASSUME NEW k \in 0 .. n - 1, k \in Right PROVE k + 1 \in Right
  <2>1. k \in 0 .. n /\ k \in Nat /\ k + 1 \in 1 .. n /\ k + 1 \in 0 .. n /\ (k + 1) - 1 = k /\ k < k + 1
    BY <1>5
  <2>2. PICK v : v = f[k]
    OBVIOUS
  <2>3. PICK w : w = f[k + 1]
    OBVIOUS
  <2>4. PICK r : r = runs[k + 1]
    OBVIOUS
  <2>5. w = PutWord(known, text, matches, v, r)
    <3>1. f[k + 1] = PutWord(known, text, matches, f[(k + 1) - 1], runs[k + 1])
      BY <1>6, <2>1
    <3> QED
      BY <2>1, <2>2, <2>3, <2>4, <3>1
  <2>6. /\ v \in [out : Seq(NewTokens(matches)), done : Nat]
        /\ v.done \in Nat /\ v.done <= r.first /\ v.done <= Len(text)
        /\ \A j \in 1 .. n : k < j => v.done <= runs[j].first
        /\ TextOf(v.out) = SubSeq(text, 1, v.done)
    BY <1>7, <1>9, <2>1, <2>2, <2>4
  <2>7. /\ r \in Span /\ r.first <= r.last /\ r.last < Len(text) /\ r.last \in Nat
        /\ \A j \in 1 .. n : k + 1 < j => r.last < runs[j].first
    BY <1>5, <2>1, <2>4
  <2> HIDE DEF Right, Spelt
  <2>8. (w.done = v.done \/ w.done = r.last + 1) /\ TextOf(w.out) = SubSeq(text, 1, w.done)
    BY <2>5, <2>6, <2>7, PutWordOK
  <2>9. w.done <= Len(text)
    BY <1>5, <2>6, <2>7, <2>8
  <2>10. ASSUME NEW j \in 1 .. n, k + 1 < j PROVE w.done <= runs[j].first
    <3>1. k < j
      BY <2>1, <2>10
    <3>2. runs[j].first \in Nat
      BY <1>5
    <3>3. v.done <= runs[j].first /\ r.last < runs[j].first
      BY <2>6, <2>7, <2>10, <3>1
    <3> QED
      BY <2>7, <2>8, <3>2, <3>3
  <2>11. Spelt(k + 1)
    BY <2>3, <2>8, <2>9, <2>10 DEF Spelt
  <2> QED
    BY <2>1, <2>11 DEF Right
<1> HIDE DEF Right
<1>10. n \in Right
  <2>1. \A k \in 0 .. n : k \in Right
    BY <1>5, <1>8, <1>9, UpTo
  <2> QED
    BY <1>5, <2>1
<1>11. PICK v : v = f[n]
  OBVIOUS
<1>12. /\ v.out \in Seq(NewTokens(matches)) /\ v.done \in Nat /\ v.done <= Len(text)
       /\ TextOf(v.out) = SubSeq(text, 1, v.done)
  <2>1. n \in 0 .. n
    BY <1>5
  <2> QED
    BY <1>7, <1>10, <1>11, <2>1 DEF Right
<1>13. PICK o : o = v.out
  OBVIOUS
<1>14. PICK p : p = Piece(text, v.done, Len(text))
  OBVIOUS
<1>15. p \in Seq(NewTokens(matches)) /\ TextOf(p) = SubSeq(text, v.done + 1, Len(text))
  <2>1. Len(text) \in 0 .. Len(text)
    BY <1>5
  <2> QED
    BY <1>12, <1>14, <2>1, PieceOK
<1>16. Replaced(known, text, matches) = o \o p
  BY <1>6, <1>11, <1>13, <1>14
<1>17. o \o p \in Seq(NewTokens(matches))
  BY <1>12, <1>13, <1>15, ConcatProperties
<1>18. TextOf(o \o p) = TextOf(o) \o TextOf(p)
  <2>1. NewTokens(matches) \subseteq Shown
    BY DEF NewTokens, Shown, Token
  <2>2. PICK a : a = o \o p
    OBVIOUS
  <2>3. o \in Seq(Shown) /\ p \in Seq(Shown) /\ a \in Seq(Shown)
    BY <1>12, <1>13, <1>15, <1>17, <2>1, <2>2
  <2>4. Spelling \in [Shown -> Seq(Character)]
    BY <2>3, TextOfSpread
  <2>5. Together(Character, Spelling, o, p)
    BY <2>3, <2>4, SpreadConcat
  <2>6. TextOf(o) = Spread(Spelling, o) /\ TextOf(p) = Spread(Spelling, p) /\ TextOf(a) = Spread(Spelling, a)
    BY <2>3, TextOfSpread
  <2> QED
    BY <2>2, <2>5, <2>6 DEF Together
<1>19. SubSeq(text, 1, v.done) \o SubSeq(text, v.done + 1, Len(text)) = text
  <2>1. 1 \in 1 .. Len(text) + 1 /\ v.done \in 1 - 1 .. Len(text) /\ Len(text) \in v.done .. Len(text)
    BY <1>5, <1>12
  <2>2. SubSeq(text, 1, v.done) \o SubSeq(text, v.done + 1, Len(text)) = SubSeq(text, 1, Len(text))
    BY <2>1, ConcatAdjacentSubSeq
  <2> QED
    BY <2>2, SubSeqFull
<1> QED
  BY <1>12, <1>13, <1>15, <1>16, <1>17, <1>18, <1>19

\* The words of the text tokens, which is all that becomes an emote.
WordsIn(tokens) ==
    {w \in Seq(Character) :
        \E text \in {t.text : t \in {t \in ToSet(tokens) : t.kind = "text"}} :
            \E r \in ToSet(RunsOf(text, Blanks)) : Text(text, r) = w}
Made(tokens) ==
    Token \cup [kind : {"emote"}, text : WordsIn(tokens), id : {"room", "global"} \X Seq(Character)]

\* The codes of a token's text are words of it.
LEMMA MatchesOK ==
    ASSUME NEW known, NEW tokens \in Seq(Token), NEW i \in DOMAIN tokens, tokens[i].kind = "text"
    PROVE  /\ Matches(known, tokens[i].text) \subseteq WordsIn(tokens)
           /\ Matches(known, tokens[i].text) \subseteq Seq(Character)
<1>1. PICK text : text = tokens[i].text
  OBVIOUS
<1>2. text \in Seq(Character)
  <2>1. tokens[i] \in Token
    OBVIOUS
  <2> QED
    BY <1>1, <2>1 DEF Token
<1>3. text \in {t.text : t \in {t \in ToSet(tokens) : t.kind = "text"}}
  BY <1>1, Zenon DEF ToSet
<1>4. RunsUpTo(text, Blanks, Len(text), RunsOf(text, Blanks))
  BY <1>2, RunsOK
<1>5. ASSUME NEW r \in ToSet(RunsOf(text, Blanks)) PROVE Text(text, r) \in Seq(Character)
  <2>1. PICK runs : runs = RunsOf(text, Blanks)
    OBVIOUS
  <2>2. runs \in Seq(Span) /\ DOMAIN runs = 1 .. Len(runs)
    BY <1>4, <2>1 DEF RunsUpTo
  <2>3. PICK j \in 1 .. Len(runs) : runs[j] = r
    BY <1>5, <2>1, <2>2 DEF ToSet
  <2>4. r \in Span /\ r.last < Len(text)
    BY <1>4, <2>1, <2>3 DEF RunsUpTo, IsRun
  <2>5. r.first + 1 \in Int /\ r.last + 1 \in Int
        /\ \A k \in r.first + 1 .. r.last + 1 : text[k] \in Character
    BY <1>2, <2>4 DEF Span
  <2> QED
    BY <2>5, SubSeqProperties DEF Text
<1>6. \A w \in Matches(known, text) : \E r \in ToSet(RunsOf(text, Blanks)) : Text(text, r) = w
  BY DEF Matches
<1>7. \A w \in Matches(known, text) : w \in Seq(Character) /\ w \in WordsIn(tokens)
  BY <1>3, <1>5, <1>6 DEF WordsIn
<1> QED
  BY <1>1, <1>7

\* A message of the user's own: its text, Twitch's tokens, and its words alone.
LEMMA LocalTokensOK ==
    ASSUME NEW known, NEW tokens \in Seq(Token)
    PROVE  /\ LocalTokens(known, tokens) \in Seq(Made(tokens))
           /\ TextOf(LocalTokens(known, tokens)) = TextOf(tokens)
           /\ Those(LocalTokens(known, tokens), "native") = Those(tokens, "native")
<1> DEFINE Part(i) == IF tokens[i].kind # "text" \/ Matches(known, tokens[i].text) = {}
                      THEN <<tokens[i]>>
                      ELSE Replaced(known, tokens[i].text, Matches(known, tokens[i].text))
           parts == [i \in DOMAIN tokens |-> Part(i)]
<1>1. PICK n : n = Len(tokens)
  OBVIOUS
<1>2. n \in Nat /\ DOMAIN tokens = 1 .. n /\ \A i \in 1 .. n : tokens[i] \in Token
  BY <1>1
<1>3. PICK T : T = Made(tokens)
  OBVIOUS
<1>4. Token \subseteq T /\ T \subseteq Shown /\ Token \subseteq Shown
  BY <1>3 DEF Made, Shown, WordsIn
<1>5. PICK spell : spell = Spelling
  OBVIOUS
<1>6. PICK keep : keep = Keeping(Shown, "native")
  OBVIOUS
<1>7. PICK N : N = OfKind(Shown, "native")
  OBVIOUS
<1>8. spell \in [Shown -> Seq(Character)] /\ keep \in [Shown -> Seq(N)]
  <2>1. PICK none : none \in Seq(Shown)
    <3>1. <<>> \in Seq(Shown)
      OBVIOUS
    <3> QED
      BY <3>1
  <2>2. Spelling \in [Shown -> Seq(Character)]
    BY <2>1, TextOfSpread
  <2>3. /\ Keeping(Shown, "native") \in [Shown -> Seq(OfKind(Shown, "native"))]
        /\ Those(none, "native") = Spread(Keeping(Shown, "native"), none)
    BY <2>1, ThoseSpread
  <2> QED
    BY <1>5, <1>6, <1>7, <2>2, <2>3
<1>9. ASSUME NEW c \in Seq(Shown)
      PROVE  TextOf(c) = Spread(spell, c) /\ Those(c, "native") = Spread(keep, c)
  BY <1>5, <1>6, <1>9, TextOfSpread, ThoseSpread
<1>10. ASSUME NEW i \in 1 .. n
       PROVE  /\ Part(i) \in Seq(T) /\ Part(i) \in Seq(Shown)
              /\ Spread(spell, Part(i)) = spell[tokens[i]]
              /\ Spread(keep, Part(i)) = keep[tokens[i]]
  <2>1. PICK t : t = tokens[i]
    OBVIOUS
  <2>2. t \in Token /\ t \in T /\ t \in Shown
    BY <1>2, <1>4, <2>1
  <2>3. PICK p : p = Part(i)
    OBVIOUS
  <2>4. CASE t.kind # "text" \/ Matches(known, t.text) = {}
    <3>1. p = <<t>>
      BY <2>1, <2>3, <2>4
    <3>2. Spread(spell, <<t>>) = spell[t] /\ Spread(keep, <<t>>) = keep[t]
      BY <1>8, <2>2, SpreadOne
    <3>3. p \in Seq(T) /\ p \in Seq(Shown)
      BY <2>2, <3>1
    <3> HIDE DEF Part
    <3> QED
      BY <2>1, <2>3, <3>1, <3>2, <3>3
  <2>5. CASE ~(t.kind # "text" \/ Matches(known, t.text) = {})
    <3>1. PICK m : m = Matches(known, t.text)
      OBVIOUS
    <3>2. p = Replaced(known, t.text, m)
      BY <2>1, <2>3, <2>5, <3>1
    <3> HIDE DEF Part
    <3>3. m \subseteq WordsIn(tokens) /\ m \in SUBSET Seq(Character)
      BY <1>2, <2>1, <2>5, <3>1, MatchesOK
    <3>4. t.text \in Seq(Character)
      BY <2>2 DEF Token
    <3>5. p \in Seq(NewTokens(m)) /\ TextOf(p) = t.text
      BY <3>2, <3>3, <3>4, ReplacedOK
    <3>6. NewTokens(m) \subseteq T
      BY <1>3, <3>3 DEF NewTokens, Made, Token
    <3>7. p \in Seq(T) /\ p \in Seq(Shown)
      BY <1>4, <3>5, <3>6
    <3>8. Spread(spell, p) = spell[t]
      <4>1. spell[t] = t.text
        BY <1>5, <2>2 DEF Spelling
      <4> QED
        BY <1>9, <3>5, <3>7, <4>1
    <3>9. Spread(keep, p) = keep[t]
      <4>1. OfKind(NewTokens(m), "native") = {}
        BY DEF NewTokens, OfKind
      <4>2. Those(p, "native") \in Seq({})
        BY <3>5, <4>1, ThoseSpread
      <4>3. Those(p, "native") = <<>>
        BY <4>2
      <4>4. keep[t] = <<>>
        BY <1>6, <2>2, <2>5 DEF Keeping
      <4> QED
        BY <1>9, <3>7, <4>3, <4>4
    <3> QED
      BY <2>1, <2>3, <3>7, <3>8, <3>9
  <2> QED
    BY <2>4, <2>5
<1> HIDE DEF Part
<1>11. /\ parts \in Seq(Seq(T)) /\ parts \in Seq(Seq(Shown)) /\ Len(parts) = Len(tokens)
       /\ \A i \in 1 .. n : parts[i] = Part(i)
  <2>1. parts = [i \in 1 .. n |-> Part(i)]
    BY <1>2
  <2> HIDE DEF parts
  <2>2. \A i \in 1 .. n : Part(i) \in Seq(T) /\ Part(i) \in Seq(Shown)
    BY <1>10
  <2>3. DOMAIN parts = 1 .. n /\ \A i \in 1 .. n : parts[i] = Part(i)
    BY <2>1
  <2>4. parts \in [1 .. n -> Seq(T)] /\ parts \in [1 .. n -> Seq(Shown)]
    BY <2>1, <2>2
  <2>5. parts \in Seq(Seq(T)) /\ parts \in Seq(Seq(Shown))
    BY <1>2, <2>4
  <2>6. Len(parts) = n
    BY <1>2, <2>3, <2>5
  <2> QED
    BY <1>1, <2>3, <2>5, <2>6
<1>12. LocalTokens(known, tokens) = FlattenSeq(parts)
  BY Zenon DEF LocalTokens, Part
<1> HIDE DEF parts
<1>13. tokens \in Seq(Shown) /\ tokens \in Seq(T)
  BY <1>4
<1>14. FlattenSeq(parts) \in Seq(T)
  BY <1>11, FlattenConcat
<1>15. FlattenSeq(parts) \in Seq(Shown)
  BY <1>4, <1>14
<1>16. Spread(spell, FlattenSeq(parts)) = Spread(spell, tokens)
  <2>1. \A i \in 1 .. Len(tokens) : Spread(spell, parts[i]) = spell[tokens[i]]
    BY <1>1, <1>10, <1>11
  <2>2. Alike(Character, spell, parts, tokens)
    BY <1>8, <1>11, <1>13, <2>1, SpreadFlatten
  <2> QED
    BY <2>2 DEF Alike
<1>17. Spread(keep, FlattenSeq(parts)) = Spread(keep, tokens)
  <2>1. \A i \in 1 .. Len(tokens) : Spread(keep, parts[i]) = keep[tokens[i]]
    BY <1>1, <1>10, <1>11
  <2>2. Alike(N, keep, parts, tokens)
    BY <1>8, <1>11, <1>13, <2>1, SpreadFlatten
  <2> QED
    BY <2>2 DEF Alike
<1> QED
  BY <1>3, <1>9, <1>12, <1>13, <1>14, <1>15, <1>16, <1>17

\* A message, and what the chat shows of it.
LEMMA RewrittenOK ==
    ASSUME NEW known, NEW message \in [sender : Users \cup {NoUser}, tokens : Seq(Token)],
           NEW user, NEW out, out = Rewritten(known, message, user)
    PROVE  /\ TextOf(out) = TextOf(message.tokens)
           /\ Those(out, "native") = Those(message.tokens, "native")
           /\ Those(out, "emote") # <<>> => message.sender = user
           /\ \A t \in ToSet(Those(out, "emote")) : t.text \in WordsIn(message.tokens)
<1>1. PICK tokens : tokens = message.tokens
  OBVIOUS
<1>2. tokens \in Seq(Token)
  BY <1>1
<1>3. CASE user = NoUser \/ message.sender # user
  <2>1. out = tokens
    BY <1>1, <1>3 DEF Rewritten
  <2>2. OfKind(Token, "emote") = {}
    BY DEF OfKind, Token
  <2>3. Those(tokens, "emote") \in Seq({})
    BY <1>2, <2>2, ThoseSpread
  <2>4. Those(tokens, "emote") = <<>>
    BY <2>3
  <2>5. ToSet(<<>>) = {}
    BY DEF ToSet
  <2> QED
    BY <1>1, <2>1, <2>4, <2>5
<1>4. CASE ~(user = NoUser \/ message.sender # user)
  <2>1. out = LocalTokens(known, tokens)
    BY <1>1, <1>4 DEF Rewritten
  <2>2. /\ out \in Seq(Made(tokens)) /\ TextOf(out) = TextOf(tokens)
        /\ Those(out, "native") = Those(tokens, "native")
    BY <1>2, <2>1, LocalTokensOK
  <2>3. PICK new : new = Those(out, "emote")
    OBVIOUS
  <2>4. new \in Seq(OfKind(Made(tokens), "emote"))
    BY <2>2, <2>3, ThoseSpread
  <2>5. ASSUME NEW t \in ToSet(new) PROVE t.text \in WordsIn(tokens)
    <3>1. t \in OfKind(Made(tokens), "emote")
      BY <2>4, <2>5 DEF ToSet
    <3>2. t \in Made(tokens) /\ t.kind = "emote"
      BY <3>1 DEF OfKind
    <3> QED
      BY <3>2 DEF Made, Token
  <2> QED
    BY <1>1, <1>4, <2>2, <2>3, <2>5
<1> QED
  BY <1>3, <1>4

\* What the chat is given comes from the batch, by the names of one moment.
MessagesOK ==
    /\ batch \in Batches
    /\ \A out \in shownAs :
          \E known : out = [i \in DOMAIN batch |-> Rewritten(known, batch[i], reader)]

\* The user reads what was written (rewrite_local_message, append_text): in any
\* batch of messages and for any names, the text and Twitch's own tokens stay,
\* and only the user's own messages get emotes, for whole words.
THEOREM AlwaysSpelled == MessagesSpec => []LocalTextKept
<1>1. MessagesInit => MessagesOK
  BY DEF MessagesInit, MessagesOK
<1>2. MessagesOK /\ [ReceiveMessages]_messageVars => MessagesOK'
  <2> SUFFICES ASSUME MessagesOK, [ReceiveMessages]_messageVars PROVE MessagesOK'
    OBVIOUS
  <2>1. CASE ReceiveMessages
    BY <2>1 DEF ReceiveMessages, MessagesOK
  <2>2. CASE UNCHANGED messageVars
    BY <2>2 DEF messageVars, MessagesOK
  <2> QED
    BY <2>1, <2>2
<1>3. MessagesOK => LocalTextKept
  <2> SUFFICES ASSUME MessagesOK, NEW out \in shownAs, NEW i \in DOMAIN batch
               PROVE  LET new == Those(out[i], "emote")
                          texts == {t.text : t \in {t \in ToSet(batch[i].tokens) : t.kind = "text"}}
                      IN  /\ TextOf(out[i]) = TextOf(batch[i].tokens)
                          /\ Those(out[i], "native") = Those(batch[i].tokens, "native")
                          /\ new # <<>> => batch[i].sender = reader
                          /\ \A t \in ToSet(new) :
                                \E text \in texts : \E r \in ToSet(RunsOf(text, Blanks)) :
                                    Text(text, r) = t.text
    BY DEF LocalTextKept
  <2>1. PICK message : message = batch[i]
    OBVIOUS
  <2>2. PICK mine : mine = out[i]
    OBVIOUS
  <2>3. message \in [sender : Users \cup {NoUser}, tokens : Seq(Token)]
    <3>1. batch \in Seq([sender : Users \cup {NoUser}, tokens : Seq(Token)])
      BY MessagesAssumption DEF MessagesOK
    <3>2. PICK S : S = [sender : Users \cup {NoUser}, tokens : Seq(Token)]
      OBVIOUS
    <3>3. batch \in Seq(S) => batch[i] \in S
      OBVIOUS
    <3> QED
      BY <2>1, <3>1, <3>2, <3>3
  <2>4. PICK known : mine = Rewritten(known, message, reader)
    <3>1. PICK known : out = [k \in DOMAIN batch |-> Rewritten(known, batch[k], reader)]
      BY DEF MessagesOK
    <3> QED
      BY <2>1, <2>2, <3>1
  <2>5. /\ TextOf(mine) = TextOf(message.tokens)
        /\ Those(mine, "native") = Those(message.tokens, "native")
        /\ Those(mine, "emote") # <<>> => message.sender = reader
        /\ \A t \in ToSet(Those(mine, "emote")) : t.text \in WordsIn(message.tokens)
    BY <2>3, <2>4, RewrittenOK
  <2>6. \A t \in ToSet(Those(mine, "emote")) :
            \E text \in {t0.text : t0 \in {t0 \in ToSet(message.tokens) : t0.kind = "text"}} :
                \E r \in ToSet(RunsOf(text, Blanks)) : Text(text, r) = t.text
    BY <2>5, Zenon DEF WordsIn
  <2> QED
    BY <2>1, <2>2, <2>5, <2>6, Zenon
<1> QED
  BY <1>1, <1>2, <1>3, PTL DEF MessagesSpec
==============================================================================
