------------------------ MODULE CurlMultiDispatcher ------------------------
(***************************************************************************)
(* The process-global dispatcher that drives curl easy handles through one *)
(* curl_multi handle, so that HTTP/2 streams share connections.  A worker  *)
(* thread calls Submit with its easy handle: it queues a PendingTransfer   *)
(* that lives on its own stack and sleeps on its condition variable.  The  *)
(* dispatcher thread (Loop, LoopOnce) moves queued transfers into the      *)
(* multi handle, harvests the finished ones and signals their workers.     *)
(* The destructor runs at process exit, possibly while workers submit.     *)
(*                                                                         *)
(* A PendingTransfer is named by its worker and the number of the call, so *)
(* that a pointer to the frame of an earlier call can be told from one to  *)
(* the present call.  Each worker owns one easy handle, named by the       *)
(* worker.  Vectors of pending transfers are sets: a transfer is never in  *)
(* one twice, and nothing depends on the order.                            *)
(*                                                                         *)
(* External: libcurl (attached, msgs, private) and the C++ runtime.        *)
(***************************************************************************)
EXTENDS Integers

CONSTANTS
    Workers,
    Situations      \* the situations there may be, by name

\* A situation: the workers that call Submit, whether memory allocation and
\* thread creation may fail, and a bound, the calls of Submit per worker.
ASSUME SituationAssumption == \A s \in DOMAIN Situations :
    Situations[s] \in [callers : SUBSET Workers, can_alloc_fail : BOOLEAN, max_calls : Nat]

VARIABLES
    situation,      \* its name
    \* the workers
    wpc,            \* where each worker stands in Submit
    calls,          \* its calls so far
    frame,          \* the PendingTransfer of its current call
    returned,       \* what its last call returned
    \* the Dispatcher object
    multi,          \* the curl_multi handle
    stopping, rejecting,
    submit_queue,
    in_flight,
    dtor,           \* its destructor
    \* the dispatcher thread
    dpc,
    batch,          \* the local vector: to_add in LoopOnce, queued in FailAllPending
    draining,       \* inside FailAllPending
    pending,        \* the transfer being signalled
    \* libcurl
    attached,       \* easy handles added to the multi handle
    msgs,           \* finished ones that curl_multi_info_read will report
    private,        \* CURLOPT_PRIVATE of each easy handle
    completed       \* history: the last call whose transfer curl finished

workerVars == <<wpc, calls, frame, returned>>
objectVars == <<multi, stopping, rejecting, dtor>>
threadVars == <<dpc, batch, draining, pending>>
curlVars   == <<attached, msgs, private, completed>>
vars == <<workerVars, objectVars, threadVars, curlVars, submit_queue, in_flight>>

Callers == Situations[situation].callers
CanAllocFail == Situations[situation].can_alloc_fail
MaxCalls == Situations[situation].max_calls

NoPending == <<>>
Pendings == Workers \X (1 .. MaxCalls)
Current(w) == <<w, calls[w]>>
Blocked == {"wakeup", "wait", "sleep"}

NewFrame == [done |-> FALSE, result |-> "init"]     \* CURLE_FAILED_INIT

Init ==
    /\ situation \in DOMAIN Situations
    /\ wpc = [w \in Workers |-> "idle"]
    /\ calls = [w \in Workers |-> 0]
    /\ frame = [w \in Workers |-> NewFrame]
    /\ returned = [w \in Workers |-> "none"]
    /\ multi = "none" /\ stopping = FALSE /\ rejecting = FALSE /\ dtor = "alive"
    /\ submit_queue = {} /\ in_flight = {}
    /\ dpc = "none" /\ batch = {} /\ draining = FALSE /\ pending = NoPending
    /\ attached = {} /\ msgs = {}
    /\ private = [w \in Workers |-> NoPending]
    /\ completed = [w \in Workers |-> 0]

-----------------------------------------------------------------------------
(* A worker: CurlMultiDispatcher::Execute, Dispatcher::Submit.             *)

Execute(w) ==
    /\ wpc[w] = "idle" /\ w \in Callers /\ calls[w] < MaxCalls
    /\ calls' = [calls EXCEPT ![w] = @ + 1]
    /\ frame' = [frame EXCEPT ![w] = NewFrame]
    /\ returned' = [returned EXCEPT ![w] = "none"]
    /\ wpc' = [wpc EXCEPT ![w] = "push"]
    /\ UNCHANGED <<objectVars, threadVars, curlVars, submit_queue, in_flight>>

Leave(w, code) ==
    /\ wpc' = [wpc EXCEPT ![w] = "idle"]
    /\ returned' = [returned EXCEPT ![w] = code]
    /\ UNCHANGED <<calls, frame>>

\* The first call constructs the function-local static; other callers wait
\* for it.  If the constructor throws, the next call tries again.
Instance(w) ==
    /\ wpc[w] = "push" /\ multi = "none"
    /\ \/ /\ multi' = "live" /\ dpc' = "loop"
          /\ UNCHANGED workerVars
       \/ /\ CanAllocFail
          /\ Leave(w, "exception")
          /\ UNCHANGED <<multi, dpc>>
    /\ UNCHANGED <<stopping, rejecting, dtor, batch, draining, pending,
                   curlVars, submit_queue, in_flight>>

\* Under queue_mu.  After static destruction the storage of the object still
\* holds rejecting = TRUE.
Enqueue(w) ==
    /\ wpc[w] = "push" /\ multi # "none"
    /\ \/ /\ rejecting
          /\ Leave(w, "aborted")
          /\ UNCHANGED submit_queue
       \/ /\ ~rejecting
          /\ submit_queue' = submit_queue \cup {Current(w)}
          /\ wpc' = [wpc EXCEPT ![w] = "wakeup"]
          /\ UNCHANGED <<calls, frame, returned>>
       \/ /\ ~rejecting /\ CanAllocFail     \* push_back throws
          /\ Leave(w, "exception")
          /\ UNCHANGED submit_queue
    /\ UNCHANGED <<objectVars, threadVars, curlVars, in_flight>>

\* curl_multi_wakeup(multi), after the unlock.  It only shortens a poll that
\* ends within 100 ms anyway.  On a multi handle that is gone, the call does
\* nothing or brings the process down.
MultiWakeup(w) ==
    /\ wpc[w] = "wakeup"
    /\ \/ wpc' = [wpc EXCEPT ![w] = "wait"]
       \/ multi = "freed" /\ wpc' = [v \in Workers |-> "crashed"]
    /\ UNCHANGED <<calls, frame, returned, objectVars, threadVars, curlVars,
                   submit_queue, in_flight>>

\* Mutant: SignalPending unlocks before it notifies.
LockedNever(w) == FALSE

\* SignalPending holds the worker's pending.mu through its notify_one.
Locked(w) == dpc = "notify" /\ pending = Current(w)

\* Mutant: the wait has no predicate.
WaitOnce(w) ==
    /\ \/ /\ wpc[w] = "wait" /\ ~Locked(w) /\ frame[w].done
          /\ Leave(w, frame[w].result)
       \/ /\ wpc[w] = "wait" /\ ~Locked(w) /\ ~frame[w].done
          /\ wpc' = [wpc EXCEPT ![w] = "sleep"]
          /\ UNCHANGED <<calls, frame, returned>>
       \/ wpc[w] = "sleep" /\ Leave(w, frame[w].result)
    /\ UNCHANGED <<objectVars, threadVars, curlVars, submit_queue, in_flight>>

\* cv.wait(lk, done): test the predicate under the lock, return or sleep.
Wait(w) ==
    /\ wpc[w] = "wait" /\ ~Locked(w)
    /\ IF frame[w].done
       THEN Leave(w, frame[w].result)
       ELSE /\ wpc' = [wpc EXCEPT ![w] = "sleep"]
            /\ UNCHANGED <<calls, frame, returned>>
    /\ UNCHANGED <<objectVars, threadVars, curlVars, submit_queue, in_flight>>

SpuriousWakeup(w) ==
    /\ wpc[w] = "sleep"
    /\ wpc' = [wpc EXCEPT ![w] = "wait"]
    /\ UNCHANGED <<calls, frame, returned, objectVars, threadVars, curlVars,
                   submit_queue, in_flight>>

-----------------------------------------------------------------------------
(* The destructor.                                                         *)

\* Mutants: only one of the two flags is set.
BeginShutdownStopOnly ==
    /\ multi = "live" /\ dtor = "alive"
    /\ stopping' = TRUE /\ dtor' = "join"
    /\ UNCHANGED <<multi, rejecting, workerVars, threadVars, curlVars,
                   submit_queue, in_flight>>

BeginShutdownRejectOnly ==
    /\ multi = "live" /\ dtor = "alive"
    /\ rejecting' = TRUE /\ dtor' = "join"
    /\ UNCHANGED <<multi, stopping, workerVars, threadVars, curlVars,
                   submit_queue, in_flight>>

\* Both flags under queue_mu, and a wakeup of the dispatcher thread.
BeginShutdown ==
    /\ multi = "live" /\ dtor = "alive"
    /\ rejecting' = TRUE /\ stopping' = TRUE
    /\ dtor' = "join"
    /\ UNCHANGED <<multi, workerVars, threadVars, curlVars, submit_queue, in_flight>>

\* thread.join(), then curl_multi_cleanup(multi).
Cleanup ==
    /\ dtor = "join" /\ dpc = "exited"
    /\ multi' = "freed" /\ dtor' = "gone"
    /\ UNCHANGED <<stopping, rejecting, workerVars, threadVars, curlVars,
                   submit_queue, in_flight>>

-----------------------------------------------------------------------------
(* The dispatcher thread: Loop and LoopOnce.                               *)

\* stopping is read once per turn; then the queue is swapped out under
\* queue_mu, into to_add or, to begin FailAllPending, into queued.
Loop ==
    /\ dpc = "loop"
    /\ dpc' = IF stopping THEN "drain_swap" ELSE "swap"
    /\ UNCHANGED <<batch, draining, pending, workerVars, objectVars, curlVars,
                   submit_queue, in_flight>>

SwapQueue ==
    /\ dpc \in {"swap", "drain_swap"}
    /\ batch' = submit_queue /\ submit_queue' = {}
    /\ draining' = (dpc = "drain_swap")
    /\ dpc' = IF dpc = "drain_swap" THEN "drain" ELSE "add"
    /\ UNCHANGED <<pending, workerVars, objectVars, curlVars, in_flight>>

\* CURLOPT_PRIVATE, curl_multi_add_handle, whose return code is ignored, and
\* in_flight.push_back.  If the latter throws, Loop catches and starts over:
\* the vector to_add is gone.
AddHandle ==
    /\ dpc = "add"
    /\ \E p \in batch :
        /\ private' = [private EXCEPT ![p[1]] = p]
        /\ \/ attached' = attached \cup {p[1]}
           \/ CanAllocFail /\ UNCHANGED attached
        /\ \/ /\ in_flight' = in_flight \cup {p}
              /\ batch' = batch \ {p}
              /\ UNCHANGED dpc
           \/ /\ CanAllocFail
              /\ batch' = {}
              /\ dpc' = "loop"
              /\ UNCHANGED in_flight
    /\ UNCHANGED <<draining, pending, msgs, completed, workerVars, objectVars,
                   submit_queue>>

\* curl_multi_perform: any of the attached transfers may finish.
Perform ==
    /\ dpc = "add" /\ batch = {}
    /\ \E finished \in SUBSET (attached \ msgs) :
        /\ msgs' = msgs \cup finished
        /\ completed' = [w \in Workers |-> IF w \in finished THEN calls[w] ELSE completed[w]]
    /\ dpc' = "harvest"
    /\ UNCHANGED <<batch, draining, pending, attached, private, workerVars,
                   objectVars, submit_queue, in_flight>>

\* curl_multi_remove_handle and the reset of CURLOPT_PRIVATE.
Detach(w) ==
    /\ attached' = attached \ {w}
    /\ msgs' = msgs \ {w}
    /\ private' = [private EXCEPT ![w] = NoPending]
    /\ UNCHANGED completed

\* One message of curl_multi_info_read: detach the handle and forget the
\* transfer, then signal it.
Harvest ==
    /\ dpc = "harvest"
    /\ \E w \in msgs :
        /\ Detach(w)
        /\ in_flight' = in_flight \ {private[w]}
        /\ pending' = private[w]
        /\ dpc' = IF private[w] = NoPending THEN "harvest" ELSE "signal"
    /\ UNCHANGED <<batch, draining, workerVars, objectVars, submit_queue>>

\* No message is left; curl_multi_poll returns within 100 ms.
Poll ==
    /\ dpc = "harvest" /\ msgs = {}
    /\ dpc' = "loop"
    /\ UNCHANGED <<batch, draining, pending, workerVars, objectVars, curlVars,
                   submit_queue, in_flight>>

\* Lock pending->mu, store the result ...
SignalPending ==
    /\ dpc = "signal"
    /\ frame' = [frame EXCEPT ![pending[1]] =
                    [done |-> TRUE, result |-> IF draining THEN "aborted" ELSE "transfer"]]
    /\ dpc' = "notify"
    /\ UNCHANGED <<batch, draining, pending, wpc, calls, returned, objectVars,
                   curlVars, submit_queue, in_flight>>

\* ... notify, unlock.
NotifyOne ==
    /\ dpc = "notify"
    /\ wpc' = IF wpc[pending[1]] = "sleep" THEN [wpc EXCEPT ![pending[1]] = "wait"] ELSE wpc
    /\ dpc' = IF draining THEN "drain" ELSE "harvest"
    /\ pending' = NoPending
    /\ UNCHANGED <<batch, draining, calls, frame, returned, objectVars, curlVars,
                   submit_queue, in_flight>>

\* Mutants of FailAllPending: only the queue is drained; the handle of an
\* in-flight transfer stays attached.
FailAllQueuedOnly ==
    /\ dpc = "drain"
    /\ \/ \E p \in batch :
            /\ batch' = batch \ {p}
            /\ pending' = p /\ dpc' = "signal"
       \/ batch = {} /\ dpc' = "exited" /\ UNCHANGED <<batch, pending>>
    /\ UNCHANGED <<draining, workerVars, objectVars, curlVars, submit_queue, in_flight>>

FailAllStillAttached ==
    /\ dpc = "drain"
    /\ \/ \E p \in batch :
            /\ batch' = batch \ {p}
            /\ pending' = p /\ dpc' = "signal"
            /\ UNCHANGED in_flight
       \/ \E p \in in_flight :
            /\ in_flight' = in_flight \ {p}
            /\ pending' = p /\ dpc' = "signal"
            /\ UNCHANGED batch
       \/ /\ batch = {} /\ in_flight = {} /\ dpc' = "exited"
          /\ UNCHANGED <<batch, pending, in_flight>>
    /\ UNCHANGED <<draining, workerVars, objectVars, curlVars, submit_queue>>

\* FailAllPending, after its swap: the queued transfers, then the ones in
\* flight, detached first.
FailAllPending ==
    /\ dpc = "drain"
    /\ \/ \E p \in batch :
            /\ batch' = batch \ {p}
            /\ pending' = p /\ dpc' = "signal"
            /\ UNCHANGED <<in_flight, curlVars>>
       \/ /\ batch = {}
          /\ \E p \in in_flight :
                /\ Detach(p[1])
                /\ in_flight' = in_flight \ {p}
                /\ pending' = p /\ dpc' = "signal"
          /\ UNCHANGED batch
       \/ /\ batch = {} /\ in_flight = {}
          /\ dpc' = "exited"
          /\ UNCHANGED <<batch, pending, in_flight, curlVars>>
    /\ UNCHANGED <<draining, workerVars, objectVars, submit_queue>>

-----------------------------------------------------------------------------
Worker(w) == Instance(w) \/ Enqueue(w) \/ MultiWakeup(w) \/ Wait(w)

Dispatcher ==
    \/ Loop \/ SwapQueue \/ AddHandle \/ Perform \/ Harvest \/ Poll
    \/ SignalPending \/ NotifyOne \/ FailAllPending

\* Nothing runs: the thread has exited or never started.
AllDone ==
    /\ dpc \in {"none", "exited"}
    /\ \A w \in Workers : wpc[w] \in {"idle", "crashed"}
    /\ UNCHANGED vars

Next ==
    /\ \/ \E w \in Workers : Execute(w) \/ Worker(w) \/ SpuriousWakeup(w)
       \/ BeginShutdown \/ Cleanup \/ Dispatcher \/ AllDone
    /\ UNCHANGED situation

Spec == Init /\ [][Next]_<<vars, situation>>

\* The operating system schedules every thread.  A transfer in the multi
\* handle finishes sooner or later: CONNECTTIMEOUT and LOW_SPEED_TIME end one
\* that makes no progress.  Nothing obliges workers to call or the process to
\* exit.
Fairness ==
    /\ WF_vars(Dispatcher) /\ WF_vars(Cleanup)
    /\ \A w \in Workers : WF_vars(Worker(w)) /\ SF_vars(Perform /\ w \in msgs')

FairSpec == Spec /\ Fairness

-----------------------------------------------------------------------------
TypeOK ==
    /\ wpc \in [Workers -> {"idle", "push", "crashed"} \cup Blocked]
    /\ calls \in [Workers -> 0 .. MaxCalls]
    /\ frame \in [Workers -> [done : BOOLEAN, result : {"init", "transfer", "aborted"}]]
    /\ returned \in [Workers -> {"none", "init", "transfer", "aborted", "exception"}]
    /\ multi \in {"none", "live", "freed"} /\ dtor \in {"alive", "join", "gone"}
    /\ stopping \in BOOLEAN /\ rejecting \in BOOLEAN
    /\ submit_queue \in SUBSET Pendings /\ in_flight \in SUBSET Pendings
    /\ dpc \in {"none", "loop", "swap", "add", "harvest", "signal", "notify",
                "drain_swap", "drain", "exited"}
    /\ batch \in SUBSET Pendings /\ draining \in BOOLEAN
    /\ pending \in Pendings \cup {NoPending}
    /\ attached \in SUBSET Workers /\ msgs \in SUBSET attached
    /\ private \in [Workers -> Pendings \cup {NoPending}]
    /\ completed \in [Workers -> 0 .. MaxCalls]

\* Every PendingTransfer the dispatcher can still dereference is the frame of
\* a call of Submit that has not returned: no pointer into an unwound stack,
\* in particular between done = true and the end of notify_one.
FramesAlive ==
    LET held == submit_queue \cup batch \cup in_flight
                \cup {private[w] : w \in attached}
                \cup (IF dpc \in {"signal", "notify"} THEN {pending} ELSE {})
    IN  \A p \in held : wpc[p[1]] \in Blocked \cup {"crashed"} /\ p = Current(p[1])

\* A worker that is told its transfer is over, and so every worker that has
\* returned, may use its easy handle: it is detached from the multi handle
\* and carries no pointer to the old frame.
DetachedOnReturn ==
    \A w \in Workers : frame[w].done \/ wpc[w] = "idle" =>
        w \notin attached /\ private[w] = NoPending

\* What Submit returns is the outcome of the transfer of this very call, or
\* CURLE_ABORTED_BY_CALLBACK, and the latter only at shutdown.
ResultIsOwn ==
    \A w \in Workers :
        /\ returned[w] # "init"
        /\ returned[w] = "transfer" => completed[w] = calls[w]
        /\ returned[w] = "aborted" => stopping

\* A blocked worker is never forgotten: until it is signalled, the dispatcher
\* knows its transfer and has not exited; once it is signalled, it is awake
\* or about to be notified.
NoWorkerForgotten ==
    \A w \in Workers : wpc[w] \in Blocked =>
        IF frame[w].done
        THEN wpc[w] = "sleep" => Locked(w)
        ELSE /\ \/ Current(w) \in submit_queue \cup batch \cup in_flight
                \/ w \in attached
                \/ dpc = "signal" /\ pending = Current(w)
             /\ dpc # "exited"

\* As long as memory lasts, that is: an allocation that fails in LoopOnce drops
\* the rest of its batch.
NoWorkerForgottenInMemory == ~CanAllocFail => NoWorkerForgotten

\* Nobody uses the multi handle once the destructor has cleaned it up:
\* "Thread joined -> no one else touches `multi`. Safe to clean up."
NobodyTouchesMulti == multi = "freed" => \A w \in Workers : wpc[w] \notin {"wakeup", "crashed"}

\* Every call of Submit returns, as long as memory lasts, and process exit is not
\* held up: the destructor comes to its end, however many transfers are queued
\* or in flight.
EverybodyReturns ==
    /\ \A w \in Workers :
         ~CanAllocFail /\ wpc[w] # "idle" ~> wpc[w] \in {"idle", "crashed"}
    /\ dtor = "join" ~> dtor = "gone"
=============================================================================
