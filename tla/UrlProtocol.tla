---------------------------- MODULE UrlProtocol ----------------------------
(***************************************************************************)
(* The URL protocol of Streamside.c: one instance per intercepted request, *)
(* each with a task on a session they share.                               *)
(*                                                                         *)
(* Three threads meet at an instance: the one that starts it, the one that *)
(* stops it, and the session's delegate queue, which runs completions one  *)
(* at a time.  They exclude each other by the instance's monitor, which is *)
(* recursive, so a client may stop from inside a callback.  The monitor is *)
(* held exactly while "at" is not "out"; its short sections are one step.  *)
(*                                                                         *)
(* A definition introduced as a fault is a plausible mistake in the one    *)
(* after it; no specification uses it.                                     *)
(***************************************************************************)
EXTENDS Sequences, Functions

CONSTANT Loads      \* instances of the protocol

VARIABLES
    load,           \* each instance and the threads that work on it
    queue           \* instances whose completion waits for the delegate queue

vars == <<load, queue>>

\* start: protocol_start_loading, "synthetic" before it delivers a blank
\* segment and "preparing" before it takes the monitor.  completion: the task
\* and protocol_complete, "processing" in process_manifest, "ready" before
\* protocol_deliver.  reply: an error, a response without data, or with data.
\* task: whether g_protocol_task_key is set.  at: inside protocol_deliver.
Start == {"new", "synthetic", "preparing", "delivering", "done"}
Completion == {"none", "network", "queued", "processing", "ready", "delivering", "done"}
Reply == {"error", "empty", "body"}
At == {"out", "entered", "fail", "response", "responded", "data", "loaded", "finish", "leave"}
Callback == {"fail", "response", "data", "finish"}

Load == [start : Start, completion : Completion, reply : Reply, stopped : BOOLEAN,
         task : BOOLEAN, cancelled : BOOLEAN, at : At, callbacks : Seq(Callback)]

Init ==
    /\ load = [l \in Loads |->
                 [start |-> "new", completion |-> "none", reply |-> "error",
                  stopped |-> FALSE, task |-> FALSE, cancelled |-> FALSE,
                  at |-> "out", callbacks |-> <<>>]]
    /\ queue = <<>>

Free(l) == load[l].at = "out"

----------------------------------------------------------------------------
(* protocol_start_loading                                                  *)

\* The URL is that of an ad segment that has not expired since can_init.
StartSynthetic(l) ==
    /\ load[l].start = "new"
    /\ load' = [load EXCEPT ![l].start = "synthetic", ![l].reply = "body"]
    /\ UNCHANGED queue

StartNetwork(l) ==
    /\ load[l].start = "new"
    /\ load' = [load EXCEPT ![l].start = "preparing"]
    /\ UNCHANGED queue

\* Fault: a load that was stopped before it started gets a task.
CreateUnchecked(l, created) ==
    /\ load[l].start = "preparing" /\ Free(l)
    /\ load' = [load EXCEPT ![l] =
                  IF created
                  THEN [@ EXCEPT !.start = "done", !.task = TRUE, !.completion = "network"]
                  ELSE [@ EXCEPT !.start = "delivering", !.at = "entered", !.reply = "error"]]
    /\ UNCHANGED queue

\* Fault: a session that makes no task leaves the load as it is.
CreateSilently(l, created) ==
    /\ load[l].start = "preparing" /\ Free(l)
    /\ load' = [load EXCEPT ![l] =
                  IF ~@.stopped /\ created
                  THEN [@ EXCEPT !.start = "done", !.task = TRUE, !.completion = "network"]
                  ELSE [@ EXCEPT !.start = "done"]]
    /\ UNCHANGED queue

\* The task is made, stored and resumed in one hold of the monitor.  If the
\* session makes none, the failure is delivered in the same hold.
CreateTask(l, created) ==
    /\ load[l].start = "preparing" /\ Free(l)
    /\ load' = [load EXCEPT ![l] =
                  IF @.stopped THEN [@ EXCEPT !.start = "done"]
                  ELSE IF created
                  THEN [@ EXCEPT !.start = "done", !.task = TRUE, !.completion = "network"]
                  ELSE [@ EXCEPT !.start = "delivering", !.at = "entered", !.reply = "error"]]
    /\ UNCHANGED queue

----------------------------------------------------------------------------
(* protocol_complete, on the delegate queue                                *)

\* The task ends, with an error if it was cancelled in time.
Respond(l, reply) ==
    /\ load[l].completion = "network"
    /\ load' = [load EXCEPT ![l].completion = "queued", ![l].reply = reply]
    /\ queue' = Append(queue, l)

\* The delegate queue runs the first completion; it is the head of the queue
\* until it returns.
Complete(l) ==
    /\ load[l].completion = "queued" /\ l = Head(queue) /\ Free(l)
    /\ load' = [load EXCEPT ![l].completion =
                  IF load[l].stopped THEN "done" ELSE "processing"]
    /\ queue' = IF load[l].stopped THEN Tail(queue) ELSE queue

\* process_manifest returns, or there is nothing to process.
Processed(l) ==
    /\ load[l].completion = "processing"
    /\ load' = [load EXCEPT ![l].completion = "ready"]
    /\ UNCHANGED queue

----------------------------------------------------------------------------
(* protocol_deliver, in one hold of the monitor                            *)

EnterSynthetic(l) ==
    /\ load[l].start = "synthetic" /\ Free(l)
    /\ load' = [load EXCEPT ![l].start = "delivering", ![l].at = "entered"]
    /\ UNCHANGED queue

EnterCompletion(l) ==
    /\ load[l].completion = "ready" /\ Free(l)
    /\ load' = [load EXCEPT ![l].completion = "delivering", ![l].at = "entered"]
    /\ UNCHANGED queue

\* Whether the load is stopped is read again before each callback.
Judge(l) ==
    /\ load[l].at \in {"entered", "responded", "loaded"}
    /\ load' = [load EXCEPT ![l].at =
                  IF load[l].stopped THEN "leave"
                  ELSE IF @ = "entered"
                  THEN IF load[l].reply = "error" THEN "fail" ELSE "response"
                  ELSE IF @ = "responded" /\ load[l].reply = "body" THEN "data"
                  ELSE "finish"]
    /\ UNCHANGED queue

\* The client is called; until the next Judge or Leave it runs its own code.
Call(l) ==
    /\ load[l].at \in Callback
    /\ load' = [load EXCEPT ![l].callbacks = Append(@, load[l].at),
                            ![l].at = IF @ = "response" THEN "responded"
                                      ELSE IF @ = "data" THEN "loaded" ELSE "leave"]
    /\ UNCHANGED queue

\* Fault: the task key is left for the next load to find.
LeaveTask(l) ==
    /\ load[l].at = "leave"
    /\ load' = [load EXCEPT ![l].at = "out",
                            ![l].start = "done",
                            ![l].completion = IF @ = "delivering" THEN "done" ELSE @]
    /\ queue' = IF load[l].completion = "delivering" THEN Tail(queue) ELSE queue

\* Fault: a blank segment is followed by the segment itself.
LeaveToNetwork(l) ==
    /\ load[l].at = "leave"
    /\ load' = [load EXCEPT ![l].at = "out", ![l].task = FALSE,
                            ![l].start = IF @ = "delivering" THEN "preparing" ELSE @,
                            ![l].completion = IF @ = "delivering" THEN "done" ELSE @]
    /\ queue' = IF load[l].completion = "delivering" THEN Tail(queue) ELSE queue

\* The task key is cleared and whoever delivered returns.
Leave(l) ==
    /\ load[l].at = "leave"
    /\ load' = [load EXCEPT ![l].at = "out", ![l].task = FALSE,
                            ![l].start = "done",
                            ![l].completion = IF @ = "delivering" THEN "done" ELSE @]
    /\ queue' = IF load[l].completion = "delivering" THEN Tail(queue) ELSE queue

----------------------------------------------------------------------------
(* protocol_stop_loading                                                   *)

\* Fault: stopping does not wait for the monitor.
MayStopAnytime(l) == TRUE

\* From any thread once it has the monitor, or from inside a callback.
MayStop(l) == Free(l) \/ load[l].at \in {"responded", "loaded", "leave"}

\* Stopping again changes nothing.
Stop(l) ==
    /\ MayStop(l)
    /\ load' = [load EXCEPT ![l].stopped = TRUE, ![l].task = FALSE,
                            ![l].cancelled = @ \/ load[l].task]
    /\ UNCHANGED queue

----------------------------------------------------------------------------
\* What the threads do without the client.
Advance(l) ==
    \/ \E created \in BOOLEAN : CreateTask(l, created)
    \/ \E reply \in Reply : Respond(l, reply)
    \/ Complete(l) \/ Processed(l)
    \/ EnterSynthetic(l) \/ EnterCompletion(l)
    \/ Judge(l) \/ Call(l) \/ Leave(l)

Next == \E l \in Loads : StartSynthetic(l) \/ StartNetwork(l) \/ Stop(l) \/ Advance(l)

Spec == Init /\ [][Next]_vars

\* A task of the session always ends (it times out), a synchronous request
\* inside process_manifest too, callbacks return, and threads are scheduled.
FairSpec == Spec /\ \A l \in Loads : WF_vars(Advance(l))

----------------------------------------------------------------------------
(* Properties                                                              *)

\* The delegate queue holds the loads whose completion has not returned, each
\* once, and only the first of them is past the start of protocol_complete: a
\* slow process_manifest holds up all the others.
TypeOK ==
    /\ load \in [Loads -> Load]
    /\ queue \in Seq(Loads) /\ IsInjective(queue)
    /\ Range(queue) = {l \in Loads : load[l].completion
                                      \in {"queued", "processing", "ready", "delivering"}}
    /\ \A n \in DOMAIN queue : load[queue[n]].completion # "queued" => n = 1

\* Once stopped, from another thread or from inside a callback, a load calls
\* its client no more, whatever was about to be delivered.
QuietAfterStop ==
    [][\A l \in Loads : load[l].stopped => load'[l].callbacks = load[l].callbacks]_vars

\* A client sees a failure alone, or a response, then at most one piece of
\* data, then at most one end: never two deliveries of one load.
CallbacksInOrder ==
    \A l \in Loads : load[l].callbacks \in
      {<<>>, <<"fail">>, <<"response">>, <<"response", "data">>,
       <<"response", "finish">>, <<"response", "data", "finish">>}

\* Stopping reaches the task, whenever it comes: no task is left running for
\* a load that was stopped and cannot be stopped again.
StoppedCancelled ==
    \A l \in Loads : load[l].stopped /\ load[l].completion = "network" => load[l].cancelled

\* When nothing is left to happen to a load it has let go of its task, whose
\* block holds the load: the two do not keep each other alive.
TaskReleased ==
    \A l \in Loads :
      load[l].start = "done" /\ load[l].completion \in {"none", "done"} => ~load[l].task

\* A load's task is accounted for, in whatever order it is created, resumed,
\* answered and stopped.
TaskAccounted == StoppedCancelled /\ TaskReleased

\* Every load that is started ends: its client is told so, or stops it.
EveryLoadEnds ==
    \A l \in Loads :
      load[l].start # "new" ~>
        \/ load[l].stopped
        \/ \E n \in DOMAIN load[l].callbacks : load[l].callbacks[n] \in {"fail", "finish"}

============================================================================
