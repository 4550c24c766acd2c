---------------------- MODULE CurlMultiDispatcherProofs ----------------------
(***************************************************************************)
(* The dispatcher, for any number of workers, any bound on their calls and *)
(* with or without allocations that fail: no pointer into a frame that is  *)
(* gone, no easy handle given back while libcurl has it, no result of      *)
(* another call, and, as long as memory lasts, no worker left asleep.      *)
(***************************************************************************)
EXTENDS CurlMultiDispatcher, TLAPS

allVars == <<vars, situation>>

\* The call of p has not returned: its frame is on the stack of its worker.  A
\* crash stops the worker where it is.
InSubmit(p) == p = Current(p[1]) /\ wpc[p[1]] \in Blocked \cup {"crashed"}

\* The transfer p is over for libcurl and for the vectors of the dispatcher.
Released(p) ==
    /\ private[p[1]] = NoPending /\ p[1] \notin attached
    /\ p \notin submit_queue \cup batch \cup in_flight

\* A transfer that a vector holds belongs to a worker that has not been told
\* anything yet, and no two of the vectors hold it.
HeldOnce ==
    /\ \A p \in submit_queue \cup batch \cup in_flight :
         InSubmit(p) /\ ~frame[p[1]].done
    /\ submit_queue \cap batch = {}
    /\ \A p \in in_flight : private[p[1]] = p

\* CURLOPT_PRIVATE is the present call of a worker that waits, and its transfer
\* is past the queue.
PrivateIsCurrent ==
    \A w \in Workers : private[w] # NoPending =>
        /\ private[w] = Current(w) /\ InSubmit(Current(w)) /\ ~frame[w].done
        /\ Current(w) \notin submit_queue \cup batch

\* libcurl has an easy handle only with its CURLOPT_PRIVATE set, and reports a
\* transfer only for the call that made it.
AttachedIsPrivate ==
    /\ \A w \in attached : private[w] # NoPending
    /\ \A w \in msgs : completed[w] = calls[w]

\* The transfer being signalled has left every vector and libcurl; its worker
\* cannot return before notify_one is over.
SignalledIsReleased ==
    dpc \in {"signal", "notify"} =>
        /\ pending # NoPending /\ InSubmit(pending) /\ Released(pending)
        /\ frame[pending[1]].done = (dpc = "notify")
        /\ ~draining => completed[pending[1]] = calls[pending[1]]

\* Where the thread stands and what its locals hold: the local vector is empty
\* between two turns, and draining lasts to the exit.
ThreadInv ==
    /\ (multi = "none") <=> (dpc = "none")
    /\ batch # {} => dpc \in {"add", "drain"} \/ draining
    /\ dpc \in {"none", "loop", "swap", "add", "harvest", "drain_swap"} => ~draining
    /\ dpc \in {"drain", "exited"} => draining
    /\ dpc = "exited" => batch = {} /\ in_flight = {}

\* The two flags go up together and stay; once the queue has been drained for
\* the last time, nobody puts anything into it.
ShutdownInv ==
    /\ stopping = rejecting
    /\ draining \/ dpc = "drain_swap" => stopping
    /\ draining => submit_queue = {}

\* A result that a worker can see, in its frame or returned, is true.
ResultsAreTrue ==
    \A w \in Workers :
        /\ frame[w].done => frame[w].result # "init"
        /\ "transfer" \in {frame[w].result, returned[w]} => completed[w] = calls[w]
        /\ "aborted" \in {frame[w].result, returned[w]} => stopping
        /\ returned[w] # "init"

\* A worker inside Submit has counted its call, with a new frame.
CallCounted ==
    \A w \in Workers :
        /\ wpc[w] \in {"push"} \cup Blocked => calls[w] \in 1 .. MaxCalls
        /\ wpc[w] = "push" => ~frame[w].done

\* The inductive invariant.
DispatcherInv ==
    /\ situation \in DOMAIN Situations
    /\ TypeOK
    /\ CallCounted
    /\ HeldOnce
    /\ PrivateIsCurrent
    /\ AttachedIsPrivate
    /\ SignalledIsReleased
    /\ ThreadInv
    /\ ShutdownInv
    /\ ResultsAreTrue

\* Whoever is attached is in in_flight.
AttachedInFlight == \A w \in attached : Current(w) \in in_flight

\* A worker that waits is known to the dispatcher, or has been told and is awake
\* or about to be woken.
Known(w) ==
    wpc[w] \in Blocked =>
        IF frame[w].done
        THEN wpc[w] = "sleep" => Locked(w)
        ELSE \/ Current(w) \in submit_queue \cup batch \cup in_flight
             \/ dpc = "signal" /\ pending = Current(w)

KnownInMemory ==
    ~CanAllocFail => AttachedInFlight /\ \A w \in Workers : Known(w)

-----------------------------------------------------------------------------
\* A transfer is a pair, never NoPending, whose first component is its worker.
LEMMA PendingFacts ==
    /\ \A p \in Pendings : p[1] \in Workers /\ p # NoPending
    /\ NoPending \notin Pendings
    /\ \A w : Current(w)[1] = w /\ Current(w) # NoPending
    /\ \A w \in Workers : calls[w] \in 1 .. MaxCalls => Current(w) \in Pendings
BY DEF Pendings, NoPending, Current

\* The bound on calls and the set of transfers change with the situation only.
LEMMA BoundFixed == UNCHANGED situation => MaxCalls' = MaxCalls /\ Pendings' = Pendings
BY DEF MaxCalls, Pendings

\* The bound on calls is a number.
LEMMA BoundIsNat == situation \in DOMAIN Situations => MaxCalls \in Nat
BY SituationAssumption DEF MaxCalls

\* A new call: its frame replaces one that nobody points to any more.
LEMMA ExecuteStep ==
    ASSUME NEW w \in Workers, DispatcherInv, Execute(w), UNCHANGED situation
    PROVE  DispatcherInv'
<1> USE BoundFixed DEF DispatcherInv, workerVars, objectVars, threadVars, curlVars
<1>a. private[w] = NoPending /\ w \notin msgs
  BY DEF TypeOK, PrivateIsCurrent, AttachedIsPrivate, InSubmit, Current, Blocked,
      Execute
<1>b. calls'[w] \in 1 .. MaxCalls
  BY BoundIsNat DEF TypeOK, Execute
<1>1. TypeOK'
  BY <1>b DEF TypeOK, Blocked, Execute, NewFrame
<1>2. CallCounted'
  BY <1>b DEF TypeOK, CallCounted, Blocked, Execute, NewFrame
<1>3. HeldOnce'
  BY DEF HeldOnce, Current, InSubmit, Blocked, Execute, NewFrame
<1>4. PrivateIsCurrent'
  BY <1>a DEF PrivateIsCurrent, Current, InSubmit, Execute
<1>5. AttachedIsPrivate'
  BY <1>a DEF TypeOK, AttachedIsPrivate, Execute
<1>6. SignalledIsReleased'
  BY PendingFacts
  DEF TypeOK, SignalledIsReleased, Current, InSubmit, Released, Blocked, Execute
<1>7. ResultsAreTrue'
  BY DEF TypeOK, ResultsAreTrue, Execute, NewFrame
<1>8. ThreadInv' /\ ShutdownInv'
  BY DEF ThreadInv, ShutdownInv, Execute, NewFrame
<1> QED
  BY <1>1, <1>2, <1>3, <1>4, <1>5, <1>6, <1>7, <1>8

\* The thread starts, or the constructor throws.
LEMMA InstanceStep ==
    ASSUME NEW w \in Workers, DispatcherInv, Instance(w), UNCHANGED situation
    PROVE  DispatcherInv'
<1> USE BoundFixed DEF DispatcherInv, workerVars, objectVars, threadVars, curlVars
<1>1. TypeOK'
  BY ZenonT(60) DEF TypeOK, Blocked, Instance, Leave
<1>2. CallCounted'
  BY DEF TypeOK, CallCounted, Blocked, Instance, Leave
<1>3. HeldOnce'
  BY PendingFacts DEF TypeOK, HeldOnce, Current, InSubmit, Blocked, Instance, Leave
<1>4. PrivateIsCurrent'
  BY DEF TypeOK, PrivateIsCurrent, Current, InSubmit, Blocked, Instance, Leave
<1>5. SignalledIsReleased'
  BY PendingFacts
  DEF TypeOK, SignalledIsReleased, Current, InSubmit, Released, Blocked, Instance,
      Leave
<1>6. ThreadInv'
  BY DEF ThreadInv, Instance, Leave
<1>7. ShutdownInv'
  BY DEF ShutdownInv, Instance, Leave
<1>8. ResultsAreTrue'
  BY DEF TypeOK, ResultsAreTrue, Instance, Leave
<1>9. AttachedIsPrivate'
  BY DEF AttachedIsPrivate, Instance, Leave
<1> QED
  BY <1>1, <1>2, <1>3, <1>4, <1>5, <1>6, <1>7, <1>8, <1>9

\* A transfer enters the queue, or is turned away.
LEMMA EnqueueStep ==
    ASSUME NEW w \in Workers, DispatcherInv, Enqueue(w), UNCHANGED situation
    PROVE  DispatcherInv'
<1> USE BoundFixed DEF DispatcherInv, workerVars, objectVars, threadVars, curlVars
<1>a. Current(w) \in Pendings
  BY PendingFacts DEF CallCounted, Enqueue
<1>1. TypeOK'
  BY SMTT(30), <1>a DEF TypeOK, Blocked, Enqueue, Leave
<1>2. CallCounted'
  BY DEF TypeOK, CallCounted, Blocked, Enqueue, Leave
<1>3. HeldOnce'
  <2>1. \A p \in submit_queue \cup batch \cup in_flight : p[1] # w
    BY DEF HeldOnce, InSubmit, Blocked, Enqueue
  <2>2. ~frame[w].done /\ Current(w)[1] = w /\ Current(w) \notin batch
    BY <2>1, PendingFacts DEF CallCounted, Enqueue
  <2>3. CASE rejecting \/ UNCHANGED submit_queue
    BY <2>1, <2>3, PendingFacts
    DEF TypeOK, HeldOnce, Current, InSubmit, Enqueue, Leave
  <2>4. CASE submit_queue' = submit_queue \cup {Current(w)} /\ wpc' = [wpc EXCEPT ![w] = "wakeup"]
    BY <2>1, <2>2, <2>4 DEF TypeOK, HeldOnce, Current, InSubmit, Blocked, Enqueue
  <2> QED
    BY <2>3, <2>4 DEF Enqueue
<1>4. PrivateIsCurrent'
  BY DEF TypeOK, PrivateIsCurrent, Current, InSubmit, Blocked, Enqueue, Leave
<1>5. SignalledIsReleased'
  BY PendingFacts
  DEF TypeOK, SignalledIsReleased, Current, InSubmit, Released, Blocked, Enqueue,
      Leave
<1>6. ShutdownInv'
  BY DEF ShutdownInv, Enqueue, Leave
<1>7. ResultsAreTrue'
  BY DEF TypeOK, ShutdownInv, ResultsAreTrue, Enqueue, Leave
<1>8. AttachedIsPrivate' /\ ThreadInv'
  BY DEF AttachedIsPrivate, ThreadInv, Enqueue, Leave
<1> QED
  BY <1>1, <1>2, <1>3, <1>4, <1>5, <1>6, <1>7, <1>8

\* The wakeup after the unlock.
LEMMA MultiWakeupStep ==
    ASSUME NEW w \in Workers, DispatcherInv, MultiWakeup(w), UNCHANGED situation
    PROVE  DispatcherInv'
<1> USE BoundFixed DEF DispatcherInv, workerVars, objectVars, threadVars, curlVars
<1>1. TypeOK'
  BY DEF TypeOK, Blocked, MultiWakeup
<1>2. CallCounted'
  BY DEF TypeOK, CallCounted, Blocked, MultiWakeup
<1>3. HeldOnce'
  BY PendingFacts DEF TypeOK, HeldOnce, Current, InSubmit, Blocked, MultiWakeup
<1>4. PrivateIsCurrent'
  BY DEF TypeOK, PrivateIsCurrent, Current, InSubmit, Blocked, MultiWakeup
<1>5. SignalledIsReleased'
  BY PendingFacts
  DEF TypeOK, SignalledIsReleased, Current, InSubmit, Released, Blocked, MultiWakeup
<1>6. AttachedIsPrivate' /\ ThreadInv' /\ ShutdownInv' /\ ResultsAreTrue'
  BY DEF AttachedIsPrivate, ThreadInv, ShutdownInv, ResultsAreTrue, MultiWakeup
<1> QED
  BY <1>1, <1>2, <1>3, <1>4, <1>5, <1>6

\* A worker tests its predicate: it returns only when it has been told, and not
\* before the dispatcher has unlocked.
LEMMA WaitStep ==
    ASSUME NEW w \in Workers, DispatcherInv, Wait(w), UNCHANGED situation
    PROVE  DispatcherInv'
<1> USE BoundFixed DEF DispatcherInv, workerVars, objectVars, threadVars, curlVars
<1>1. TypeOK'
  BY SMTT(30) DEF TypeOK, Blocked, Wait, Leave, Locked
<1>2. CallCounted'
  BY DEF TypeOK, CallCounted, Blocked, Wait, Leave, Locked
<1>3. HeldOnce'
  BY PendingFacts DEF TypeOK, HeldOnce, Current, InSubmit, Blocked, Wait, Leave
<1>4. PrivateIsCurrent'
  BY DEF TypeOK, PrivateIsCurrent, Current, InSubmit, Blocked, Wait, Leave
<1>5. SignalledIsReleased'
  BY PendingFacts
  DEF TypeOK, SignalledIsReleased, Current, InSubmit, Released, Blocked, Wait, Leave,
      Locked
<1>6. ResultsAreTrue'
  BY DEF TypeOK, ResultsAreTrue, Wait, Leave, Locked
<1>7. AttachedIsPrivate' /\ ThreadInv' /\ ShutdownInv'
  BY DEF AttachedIsPrivate, ThreadInv, ShutdownInv, Wait, Leave, Locked
<1> QED
  BY <1>1, <1>2, <1>3, <1>4, <1>5, <1>6, <1>7

\* A wakeup that nobody asked for.
LEMMA SpuriousWakeupStep ==
    ASSUME NEW w \in Workers, DispatcherInv, SpuriousWakeup(w), UNCHANGED situation
    PROVE  DispatcherInv'
<1> USE BoundFixed DEF DispatcherInv, workerVars, objectVars, threadVars, curlVars
<1>1. TypeOK'
  BY DEF TypeOK, Blocked, SpuriousWakeup
<1>2. CallCounted'
  BY DEF CallCounted, Blocked, SpuriousWakeup
<1>3. HeldOnce'
  BY DEF HeldOnce, Current, InSubmit, Blocked, SpuriousWakeup
<1>4. PrivateIsCurrent'
  BY DEF PrivateIsCurrent, Current, InSubmit, Blocked, SpuriousWakeup
<1>5. SignalledIsReleased'
  BY DEF SignalledIsReleased, Current, InSubmit, Released, Blocked, SpuriousWakeup
<1>6. AttachedIsPrivate' /\ ThreadInv' /\ ShutdownInv' /\ ResultsAreTrue'
  BY DEF AttachedIsPrivate, ThreadInv, ShutdownInv, ResultsAreTrue, SpuriousWakeup
<1> QED
  BY <1>1, <1>2, <1>3, <1>4, <1>5, <1>6

\* The two flags go up.
LEMMA BeginShutdownStep ==
    ASSUME DispatcherInv, BeginShutdown, UNCHANGED situation
    PROVE  DispatcherInv'
<1> USE BoundFixed DEF DispatcherInv, workerVars, objectVars, threadVars, curlVars
<1>1. TypeOK'
  BY DEF TypeOK, Blocked, BeginShutdown
<1>2. ShutdownInv'
  BY DEF ShutdownInv, BeginShutdown
<1>3. ResultsAreTrue'
  BY DEF ResultsAreTrue, BeginShutdown
<1>4. CallCounted' /\ HeldOnce' /\ PrivateIsCurrent' /\ AttachedIsPrivate' /\ SignalledIsReleased' /\ ThreadInv'
  BY DEF CallCounted, HeldOnce, PrivateIsCurrent, AttachedIsPrivate,
      SignalledIsReleased, ThreadInv, Current, InSubmit, Released, BeginShutdown
<1> QED
  BY <1>1, <1>2, <1>3, <1>4

\* The multi handle is gone.
LEMMA CleanupStep ==
    ASSUME DispatcherInv, Cleanup, UNCHANGED situation
    PROVE  DispatcherInv'
<1> USE BoundFixed DEF DispatcherInv, workerVars, objectVars, threadVars, curlVars
<1>1. TypeOK'
  BY DEF TypeOK, Blocked, Cleanup
<1>2. ThreadInv'
  BY DEF ThreadInv, Cleanup
<1>3. CallCounted' /\ HeldOnce' /\ PrivateIsCurrent' /\ AttachedIsPrivate' /\ SignalledIsReleased' /\ ShutdownInv' /\ ResultsAreTrue'
  BY DEF CallCounted, HeldOnce, PrivateIsCurrent, AttachedIsPrivate,
      SignalledIsReleased, ShutdownInv, ResultsAreTrue, Blocked, Current, InSubmit,
      Released, Cleanup
<1> QED
  BY <1>1, <1>2, <1>3

\* A turn of the thread begins.
LEMMA LoopStep ==
    ASSUME DispatcherInv, Loop, UNCHANGED situation
    PROVE  DispatcherInv'
<1> USE BoundFixed DEF DispatcherInv, workerVars, objectVars, threadVars, curlVars
<1>1. TypeOK'
  BY DEF TypeOK, Blocked, Loop
<1>2. SignalledIsReleased'
  BY DEF SignalledIsReleased, Current, InSubmit, Released, Blocked, Loop
<1>3. ThreadInv'
  BY DEF ThreadInv, Loop
<1>4. ShutdownInv'
  BY DEF ShutdownInv, Loop
<1>5. CallCounted' /\ HeldOnce' /\ PrivateIsCurrent' /\ AttachedIsPrivate' /\ ResultsAreTrue'
  BY DEF CallCounted, HeldOnce, PrivateIsCurrent, AttachedIsPrivate, ResultsAreTrue,
      Blocked, Current, InSubmit, Loop
<1> QED
  BY <1>1, <1>2, <1>3, <1>4, <1>5

\* The queue becomes the local vector.
LEMMA SwapQueueStep ==
    ASSUME DispatcherInv, SwapQueue, UNCHANGED situation
    PROVE  DispatcherInv'
<1> USE BoundFixed DEF DispatcherInv, workerVars, objectVars, threadVars, curlVars
<1>1. TypeOK'
  BY DEF TypeOK, Blocked, SwapQueue
<1>2. HeldOnce'
  BY DEF HeldOnce, Current, InSubmit, Blocked, SwapQueue
<1>3. PrivateIsCurrent'
  BY DEF PrivateIsCurrent, Current, InSubmit, Blocked, SwapQueue
<1>4. SignalledIsReleased'
  BY DEF SignalledIsReleased, Current, InSubmit, Released, Blocked, SwapQueue
<1>5. ThreadInv'
  BY DEF ThreadInv, SwapQueue
<1>6. ShutdownInv'
  BY DEF ShutdownInv, SwapQueue
<1>7. CallCounted' /\ AttachedIsPrivate' /\ ResultsAreTrue'
  BY DEF CallCounted, AttachedIsPrivate, ResultsAreTrue, Blocked, SwapQueue
<1> QED
  BY <1>1, <1>2, <1>3, <1>4, <1>5, <1>6, <1>7

\* A transfer goes from the local vector to libcurl and in_flight, or is lost.
LEMMA AddHandleStep ==
    ASSUME DispatcherInv, AddHandle, UNCHANGED situation
    PROVE  DispatcherInv'
<1> USE BoundFixed DEF DispatcherInv, workerVars, objectVars, threadVars, curlVars
<1>1. TypeOK'
  BY PendingFacts DEF TypeOK, CallCounted, Blocked, AddHandle
<1>2. HeldOnce'
  BY PendingFacts DEF TypeOK, CallCounted, ThreadInv, HeldOnce, Current, InSubmit,
      Blocked, AddHandle
<1>3. PrivateIsCurrent'
  <2> PICK p \in batch :
        /\ private' = [private EXCEPT ![p[1]] = p]
        /\ batch' = batch \ {p} \/ batch' = {}
    BY DEF AddHandle
  <2>1. InSubmit(p) /\ ~frame[p[1]].done /\ p \notin submit_queue /\ p \notin batch'
    BY DEF HeldOnce
  <2>2. \A w \in Workers : private'[w] # NoPending /\ w # p[1] => Current(w) \notin batch'
    BY DEF TypeOK, PrivateIsCurrent
  <2> QED
    BY <2>1, <2>2 DEF TypeOK, PrivateIsCurrent, Current, InSubmit, AddHandle
<1>4. AttachedIsPrivate'
  BY PendingFacts DEF TypeOK, CallCounted, AttachedIsPrivate, AddHandle
<1>5. SignalledIsReleased'
  BY DEF SignalledIsReleased, Current, InSubmit, Released, Blocked, AddHandle
<1>6. ThreadInv'
  BY DEF ThreadInv, AddHandle
<1>7. ShutdownInv'
  BY DEF ShutdownInv, AddHandle
<1>8. CallCounted' /\ ResultsAreTrue'
  BY DEF CallCounted, ResultsAreTrue, Blocked, AddHandle
<1> QED
  BY <1>1, <1>2, <1>3, <1>4, <1>5, <1>6, <1>7, <1>8

\* libcurl finishes some transfers.
LEMMA PerformStep ==
    ASSUME DispatcherInv, Perform, UNCHANGED situation
    PROVE  DispatcherInv'
<1> USE BoundFixed DEF DispatcherInv, workerVars, objectVars, threadVars, curlVars
<1>1. TypeOK'
  BY DEF TypeOK, Blocked, Perform
<1>2. AttachedIsPrivate'
  BY DEF TypeOK, AttachedIsPrivate, Perform
<1>3. SignalledIsReleased'
  BY DEF SignalledIsReleased, Current, InSubmit, Released, Blocked, Perform
<1>4. ThreadInv'
  BY DEF ThreadInv, Perform
<1>5. ShutdownInv'
  BY DEF ShutdownInv, Perform
<1>6. ResultsAreTrue'
  BY DEF ResultsAreTrue, Perform
<1>7. CallCounted' /\ HeldOnce' /\ PrivateIsCurrent'
  BY DEF CallCounted, HeldOnce, PrivateIsCurrent, Blocked, Current, InSubmit,
      Perform
<1> QED
  BY <1>1, <1>2, <1>3, <1>4, <1>5, <1>6, <1>7

\* A finished transfer leaves libcurl and in_flight before it is signalled.
LEMMA HarvestStep ==
    ASSUME DispatcherInv, Harvest, UNCHANGED situation
    PROVE  DispatcherInv'
<1> USE BoundFixed DEF DispatcherInv, workerVars, objectVars, threadVars, curlVars
<1>1. TypeOK'
  BY DEF TypeOK, Blocked, Harvest, Detach
<1>2. HeldOnce'
  BY DEF HeldOnce, Current, InSubmit, Blocked, Harvest, Detach
<1>3. PrivateIsCurrent'
  BY DEF PrivateIsCurrent, Current, InSubmit, Blocked, Harvest, Detach
<1>4. AttachedIsPrivate'
  BY DEF AttachedIsPrivate, Harvest, Detach
<1>5. SignalledIsReleased'
  <2> PICK w \in msgs : Detach(w) /\ in_flight' = in_flight \ {private[w]}
                       /\ pending' = private[w]
                       /\ dpc' = (IF private[w] = NoPending THEN "harvest" ELSE "signal")
    BY DEF Harvest
  <2>1. w \in Workers /\ private[w] = Current(w) /\ InSubmit(Current(w)) /\ ~frame[w].done
        /\ private[w] \notin submit_queue \cup batch /\ completed[w] = calls[w]
    BY DEF TypeOK, PrivateIsCurrent, AttachedIsPrivate
  <2> QED
    BY <2>1, PendingFacts
    DEF TypeOK, SignalledIsReleased, InSubmit, Released, Current, Harvest, Detach
<1>6. ThreadInv'
  BY DEF ThreadInv, Harvest, Detach
<1>7. ShutdownInv'
  BY DEF ShutdownInv, Harvest, Detach
<1>8. CallCounted' /\ ResultsAreTrue'
  BY DEF CallCounted, ResultsAreTrue, Blocked, Harvest, Detach
<1> QED
  BY <1>1, <1>2, <1>3, <1>4, <1>5, <1>6, <1>7, <1>8

\* The turn ends.
LEMMA PollStep ==
    ASSUME DispatcherInv, Poll, UNCHANGED situation
    PROVE  DispatcherInv'
<1> USE BoundFixed DEF DispatcherInv, workerVars, objectVars, threadVars, curlVars
<1>1. TypeOK'
  BY DEF TypeOK, Blocked, Poll
<1>2. SignalledIsReleased'
  BY DEF SignalledIsReleased, Current, InSubmit, Released, Blocked, Poll
<1>3. ThreadInv'
  BY DEF ThreadInv, Poll
<1>4. ShutdownInv'
  BY DEF ShutdownInv, Poll
<1>5. CallCounted' /\ HeldOnce' /\ PrivateIsCurrent' /\ AttachedIsPrivate' /\ ResultsAreTrue'
  BY DEF CallCounted, HeldOnce, PrivateIsCurrent, AttachedIsPrivate, ResultsAreTrue,
      Blocked, Current, InSubmit, Poll
<1> QED
  BY <1>1, <1>2, <1>3, <1>4, <1>5

\* The result goes into the frame.
LEMMA SignalPendingStep ==
    ASSUME DispatcherInv, SignalPending, UNCHANGED situation
    PROVE  DispatcherInv'
<1> USE BoundFixed DEF DispatcherInv, workerVars, objectVars, threadVars, curlVars
<1>1. TypeOK'
  BY DEF TypeOK, Blocked, SignalPending
<1>2. HeldOnce'
  <2>1. \A p \in submit_queue \cup batch \cup in_flight : p[1] # pending[1]
    BY DEF HeldOnce, SignalledIsReleased, InSubmit, Released, SignalPending
  <2> QED
    BY <2>1, PendingFacts DEF TypeOK, HeldOnce, Current, InSubmit, SignalPending
<1>3. PrivateIsCurrent'
  BY PendingFacts DEF TypeOK, HeldOnce, PrivateIsCurrent, AttachedIsPrivate,
      SignalledIsReleased, ThreadInv, ShutdownInv, Released, Current, InSubmit, Blocked,
      SignalPending
<1>4. SignalledIsReleased'
  BY PendingFacts DEF TypeOK, CallCounted, SignalledIsReleased, Current, InSubmit,
      Released, Blocked, SignalPending
<1>5. ThreadInv'
  BY DEF ThreadInv, SignalPending
<1>6. ShutdownInv'
  BY DEF ShutdownInv, SignalPending
<1>7. ResultsAreTrue'
  BY PendingFacts DEF TypeOK, HeldOnce, PrivateIsCurrent, AttachedIsPrivate,
      SignalledIsReleased, ThreadInv, ShutdownInv, Released, ResultsAreTrue, Current,
      InSubmit, Blocked, SignalPending
<1>8. CallCounted' /\ AttachedIsPrivate'
  BY DEF TypeOK, CallCounted, SignalledIsReleased, InSubmit, AttachedIsPrivate, Blocked,
      SignalPending
<1> QED
  BY <1>1, <1>2, <1>3, <1>4, <1>5, <1>6, <1>7, <1>8

\* The worker is woken and unlocked.
LEMMA NotifyOneStep ==
    ASSUME DispatcherInv, NotifyOne, UNCHANGED situation
    PROVE  DispatcherInv'
<1> USE BoundFixed DEF DispatcherInv, workerVars, objectVars, threadVars, curlVars
<1>1. TypeOK'
  BY DEF TypeOK, Blocked, NotifyOne
<1>2. CallCounted'
  BY DEF CallCounted, Blocked, NotifyOne
<1>3. HeldOnce'
  BY DEF HeldOnce, Current, InSubmit, Blocked, NotifyOne
<1>4. PrivateIsCurrent'
  BY DEF PrivateIsCurrent, Current, InSubmit, Blocked, NotifyOne
<1>5. SignalledIsReleased'
  BY DEF SignalledIsReleased, Current, InSubmit, Released, Blocked, NotifyOne
<1>6. ThreadInv'
  BY DEF ThreadInv, NotifyOne
<1>7. ShutdownInv'
  BY DEF ShutdownInv, NotifyOne
<1>8. AttachedIsPrivate' /\ ResultsAreTrue'
  BY DEF AttachedIsPrivate, ResultsAreTrue, NotifyOne
<1> QED
  BY <1>1, <1>2, <1>3, <1>4, <1>5, <1>6, <1>7, <1>8

\* FailAllPending goes through the local vector, then through in_flight.
LEMMA FailAllPendingStep ==
    ASSUME DispatcherInv, FailAllPending, UNCHANGED situation
    PROVE  DispatcherInv'
<1> USE BoundFixed DEF DispatcherInv, workerVars, objectVars, threadVars, curlVars
<1>1. TypeOK'
  BY DEF TypeOK, Blocked, FailAllPending, Detach
<1>2. HeldOnce'
  BY PendingFacts DEF TypeOK, CallCounted, HeldOnce, Current, InSubmit, Blocked,
      FailAllPending, Detach
<1>3. PrivateIsCurrent'
  BY DEF TypeOK, PrivateIsCurrent, Current, InSubmit, Blocked, FailAllPending,
      Detach
<1>4. AttachedIsPrivate'
  BY DEF TypeOK, AttachedIsPrivate, FailAllPending, Detach
<1>5. SignalledIsReleased'
  BY PendingFacts DEF TypeOK, HeldOnce, PrivateIsCurrent, AttachedIsPrivate,
      SignalledIsReleased, ThreadInv, ShutdownInv, Released, Current, InSubmit, Blocked,
      FailAllPending, Detach
<1>6. ThreadInv'
  BY DEF ThreadInv, FailAllPending, Detach
<1>7. ShutdownInv'
  BY DEF ShutdownInv, FailAllPending, Detach
<1>8. CallCounted' /\ ResultsAreTrue'
  BY DEF CallCounted, ResultsAreTrue, Blocked, FailAllPending, Detach
<1> QED
  BY <1>1, <1>2, <1>3, <1>4, <1>5, <1>6, <1>7, <1>8

-----------------------------------------------------------------------------
\* A step that changes nothing.
LEMMA Stutter == DispatcherInv /\ UNCHANGED allVars => DispatcherInv'
BY DEF allVars, vars, workerVars, objectVars, threadVars, curlVars, DispatcherInv,
   TypeOK,
   CallCounted, HeldOnce, PrivateIsCurrent, AttachedIsPrivate, SignalledIsReleased,
   ThreadInv, ShutdownInv, ResultsAreTrue, Current, InSubmit, Released, MaxCalls,
   Pendings

\* Before the first call there is nothing to hold.
LEMMA DispatcherInit == Init => DispatcherInv
<1> SUFFICES ASSUME Init PROVE DispatcherInv
  OBVIOUS
<1>1. situation \in DOMAIN Situations /\ MaxCalls \in Nat
  BY BoundIsNat DEF Init
<1>2. TypeOK /\ CallCounted
  <2>1. frame \in [Workers -> [done : BOOLEAN, result : {"init", "transfer", "aborted"}]]
    BY DEF Init, NewFrame
  <2>2. 0 \in 0 .. MaxCalls
    BY <1>1
  <2> QED
    BY <2>1, <2>2 DEF Init, TypeOK, CallCounted, Blocked
<1>3. HeldOnce /\ PrivateIsCurrent /\ AttachedIsPrivate /\ SignalledIsReleased
  BY DEF Init, HeldOnce, PrivateIsCurrent, AttachedIsPrivate, SignalledIsReleased
<1>4. ThreadInv /\ ShutdownInv /\ ResultsAreTrue
  BY DEF Init, ThreadInv, ShutdownInv, ResultsAreTrue, NewFrame
<1> QED
  BY <1>1, <1>2, <1>3, <1>4 DEF DispatcherInv

\* Every step of a worker, of the destructor and of the thread preserves the
\* invariant.
LEMMA DispatcherStep == DispatcherInv /\ [Next]_allVars => DispatcherInv'
<1> SUFFICES ASSUME DispatcherInv, [Next]_allVars PROVE DispatcherInv'
  OBVIOUS
<1>1. CASE Next
  <2>0. UNCHANGED situation
    BY <1>1 DEF Next
  <2>1. ASSUME NEW w \in Workers, Execute(w) \/ Worker(w) \/ SpuriousWakeup(w)
        PROVE  DispatcherInv'
    BY <2>0, <2>1, ExecuteStep, InstanceStep, EnqueueStep, MultiWakeupStep, WaitStep,
       SpuriousWakeupStep
    DEF Worker
  <2>2. CASE BeginShutdown \/ Cleanup
    BY <2>0, <2>2, BeginShutdownStep, CleanupStep
  <2>3. CASE Dispatcher
    BY <2>0, <2>3, LoopStep, SwapQueueStep, AddHandleStep, PerformStep, HarvestStep,
       PollStep, SignalPendingStep, NotifyOneStep, FailAllPendingStep
    DEF Dispatcher
  <2>4. CASE AllDone
    BY <2>0, <2>4, Stutter DEF AllDone, allVars
  <2> QED
    BY <1>1, <2>1, <2>2, <2>3, <2>4 DEF Next
<1>2. CASE UNCHANGED allVars
  BY <1>2, Stutter
<1> QED
  BY <1>1, <1>2

\* The invariant holds in every reachable state.
LEMMA DispatcherInvariant == Spec => []DispatcherInv
BY DispatcherInit, DispatcherStep, PTL DEF Spec, allVars

-----------------------------------------------------------------------------
\* Every variable of the dispatcher keeps its type.
THEOREM TypeCorrect == Spec => []TypeOK
<1>1. DispatcherInv => TypeOK
  BY DEF DispatcherInv
<1> QED
  BY <1>1, DispatcherInvariant, PTL

\* The dispatcher holds no pointer into the stack of a call of Submit that has
\* returned, whichever way the transfer left the queue, libcurl or in_flight.
THEOREM FramesStayAlive == Spec => []FramesAlive
<1>1. DispatcherInv => FramesAlive
  <2> SUFFICES ASSUME DispatcherInv PROVE FramesAlive
    OBVIOUS
  <2> USE DEF DispatcherInv, InSubmit
  <2>1. \A p \in submit_queue \cup batch \cup in_flight : InSubmit(p)
    BY DEF HeldOnce
  <2>2. \A w \in attached : InSubmit(private[w])
    BY DEF TypeOK, AttachedIsPrivate, PrivateIsCurrent
  <2>3. dpc \in {"signal", "notify"} => InSubmit(pending)
    BY DEF SignalledIsReleased
  <2> QED
    BY <2>1, <2>2, <2>3 DEF FramesAlive
<1> QED
  BY <1>1, DispatcherInvariant, PTL

\* Whoever gets the easy handle back gets it detached from the multi handle and
\* without a pointer to the old frame.
THEOREM HandlesComeBackDetached == Spec => []DetachedOnReturn
<1>1. DispatcherInv => DetachedOnReturn
  BY DEF DispatcherInv, DetachedOnReturn, TypeOK, PrivateIsCurrent, AttachedIsPrivate,
     InSubmit, Current, Blocked
<1> QED
  BY <1>1, DispatcherInvariant, PTL

\* No call of Submit returns what was meant for an earlier call, and none is told
\* that it was aborted unless the process is going down.
THEOREM ResultsAreOwn == Spec => []ResultIsOwn
<1>1. DispatcherInv => ResultIsOwn
  BY DEF DispatcherInv, ResultIsOwn, ResultsAreTrue
<1> QED
  BY <1>1, DispatcherInvariant, PTL

-----------------------------------------------------------------------------
\* As long as memory lasts, every step of a worker leaves every waiting worker
\* known.
LEMMA KnownByWorkers ==
    ASSUME NEW w \in Workers, DispatcherInv, KnownInMemory, UNCHANGED situation,
           Execute(w) \/ Worker(w) \/ SpuriousWakeup(w), ~CanAllocFail
    PROVE  AttachedInFlight' /\ \A v \in Workers : Known(v)'
<1> USE PendingFacts
    DEF DispatcherInv, KnownInMemory, AttachedInFlight, Known, TypeOK, Current, Blocked,
        Locked, workerVars, objectVars, threadVars, curlVars
<1>1. CASE Execute(w)
  <2>1. w \notin attached
    BY <1>1 DEF Execute, PrivateIsCurrent, AttachedIsPrivate, InSubmit
  <2>2. AttachedInFlight'
    BY <1>1, <2>1 DEF Execute
  <2>3. \A v \in Workers : Known(v)'
    BY <1>1 DEF Execute
  <2> QED
    BY <2>2, <2>3
<1>2. CASE Instance(w)
  BY <1>2 DEF Instance, Leave, ThreadInv
<1>3. CASE Enqueue(w)
  BY <1>3 DEF Enqueue, Leave, CallCounted
<1>4. CASE MultiWakeup(w)
  BY <1>4 DEF MultiWakeup
<1>5. CASE Wait(w)
  BY <1>5 DEF Wait, Leave
<1>6. CASE SpuriousWakeup(w)
  BY <1>6 DEF SpuriousWakeup
<1> QED
  BY <1>1, <1>2, <1>3, <1>4, <1>5, <1>6 DEF Worker

\* So does every step of the dispatcher thread: what leaves a vector or libcurl
\* goes into the next one, or is signalled.
LEMMA KnownByDispatcher ==
    ASSUME DispatcherInv, KnownInMemory, UNCHANGED situation, Dispatcher, ~CanAllocFail
    PROVE  AttachedInFlight' /\ \A v \in Workers : Known(v)'
<1> USE PendingFacts
    DEF DispatcherInv, KnownInMemory, AttachedInFlight, Known, TypeOK, Current, Blocked,
        Locked, workerVars, objectVars, threadVars, curlVars
<1>1. CASE Loop \/ Poll \/ Perform
  BY <1>1 DEF Loop, Poll, Perform
<1>2. CASE SwapQueue
  BY <1>2 DEF SwapQueue, ThreadInv
<1>3. CASE AddHandle
  BY <1>3 DEF AddHandle, HeldOnce, InSubmit
<1>4. CASE Harvest
  <2> PICK w \in msgs : Detach(w) /\ in_flight' = in_flight \ {private[w]}
                       /\ pending' = private[w]
                       /\ dpc' = (IF private[w] = NoPending THEN "harvest" ELSE "signal")
    BY <1>4 DEF Harvest
  <2>1. w \in Workers /\ private[w] = Current(w) /\ pending' = Current(w) /\ dpc' = "signal"
    BY DEF AttachedIsPrivate, PrivateIsCurrent
  <2>2. AttachedInFlight'
    BY <1>4, <2>1 DEF Harvest, Detach
  <2>3. \A v \in Workers : Known(v)'
    BY <1>4, <2>1 DEF Harvest
  <2> QED
    BY <2>2, <2>3
<1>5. CASE SignalPending
  BY <1>5 DEF SignalPending, SignalledIsReleased, Released, InSubmit
<1>6. CASE NotifyOne
  BY <1>6 DEF NotifyOne, SignalledIsReleased, Released, InSubmit
<1>7. CASE FailAllPending
  BY <1>7 DEF FailAllPending, Detach, HeldOnce, InSubmit
<1> QED
  BY <1>1, <1>2, <1>3, <1>4, <1>5, <1>6, <1>7 DEF Dispatcher

\* And every other step.
LEMMA KnownStep == DispatcherInv /\ KnownInMemory /\ [Next]_allVars => KnownInMemory'
<1> SUFFICES ASSUME DispatcherInv, KnownInMemory, [Next]_allVars PROVE KnownInMemory'
  OBVIOUS
<1>0. UNCHANGED situation
  BY DEF Next, allVars
<1>1. CanAllocFail' = CanAllocFail
  BY <1>0 DEF CanAllocFail
<1>2. SUFFICES ASSUME ~CanAllocFail
      PROVE  AttachedInFlight' /\ \A v \in Workers : Known(v)'
  BY <1>1 DEF KnownInMemory
<1>3. CASE BeginShutdown \/ Cleanup \/ UNCHANGED vars
  BY <1>2, <1>3
  DEF BeginShutdown, Cleanup, vars, KnownInMemory, AttachedInFlight, Known, Current,
      Locked, workerVars, objectVars, threadVars, curlVars
<1> QED
  BY <1>0, <1>2, <1>3, KnownByWorkers, KnownByDispatcher DEF Next, AllDone, allVars

\* No worker sleeps for ever as long as memory lasts: the dispatcher knows its
\* transfer and is there, or has told it and wakes it.
THEOREM NoWorkerIsForgotten == Spec => []NoWorkerForgottenInMemory
<1>1. Init => KnownInMemory
  BY DEF Init, KnownInMemory, AttachedInFlight, Known, Blocked
<1>2. DispatcherInv /\ KnownInMemory => NoWorkerForgottenInMemory
  <2> SUFFICES ASSUME DispatcherInv, KnownInMemory, ~CanAllocFail,
                      NEW w \in Workers, wpc[w] \in Blocked, ~frame[w].done
               PROVE  dpc # "exited"
    BY DEF NoWorkerForgottenInMemory, NoWorkerForgotten, KnownInMemory, Known
  <2>1. dpc = "exited" => submit_queue = {} /\ batch = {} /\ in_flight = {}
    BY DEF DispatcherInv, ThreadInv, ShutdownInv
  <2> QED
    BY <2>1 DEF KnownInMemory, Known
<1> QED
  BY <1>1, <1>2, KnownStep, DispatcherInvariant, PTL DEF Spec, allVars
=============================================================================
