------------------------------- MODULE SqlRun -------------------------------
(***************************************************************************)
(* One SqlApi client: calls that submit a statement to the bounded worker  *)
(* pool and wait for it with a deadline, the workers that run it on a      *)
(* pooled connection, the cancellation that races them, and dispose().     *)
(*                                                                         *)
(* Three kinds of process interleave.  A caller is a thread (or, for a     *)
(* call in Async, a task of the event loop) inside _run_with_timeout; a    *)
(* worker is a thread of the executor inside _run_locked_operation; the    *)
(* disposer is the thread inside dispose.  An action is a section of code  *)
(* between two points where another process can observe or disturb it.     *)
(*                                                                         *)
(* A transactional call sends one statement that its database runs inside  *)
(* the transaction; several, and DDL that commits, are in ScriptRun.       *)
(***************************************************************************)
EXTENDS Integers, FiniteSets

CONSTANTS
  Ops,          \* calls made on the client, each of them once
  Engines,      \* configured connections, each with one Engine
  EngineOf,     \* the connection a call names
  Static,       \* connections to in-memory SQLite: StaticPool, operation lock
  Cancellable,  \* connections whose driver has cancel() or interrupt()
  Remote,       \* connections over a network
  Async,        \* calls made under asynchronous_sql_execution
  Writes,       \* transactional calls; the others are read_only ones
  Ends,         \* calls whose statement ends sooner or later
  MaxWorkers,   \* SqlApi._max_workers
  PoolLimit     \* pool_size + max_overflow of a QueuePool

ASSUME OpsAssumption ==
  /\ IsFiniteSet(Ops)
  /\ EngineOf \in [Ops -> Engines]
  /\ Async \subseteq Ops
  /\ Writes \subseteq Ops
  /\ Ends \subseteq Ops

ASSUME EnginesAssumption ==
  /\ Static \subseteq Engines /\ Cancellable \subseteq Engines
  /\ Remote \subseteq Engines /\ Static \cap Remote = {}

ASSUME LimitsAssumption ==
  /\ MaxWorkers \in Nat \ {0}
  /\ PoolLimit \in Nat \ {0}

Capacity == 2 * MaxWorkers

VARIABLES
  pc,         \* where the caller of each call is
  ans,        \* what it returned or raised, "none" before that
  seen,       \* the driver connection it read in order to cancel it, 0 if none
  aborting,   \* awaiting tasks that were cancelled rather than timed out
  closed,     \* SqlApi._closed
  slots,      \* value of _worker_slots
  futures,    \* SqlApi._futures
  engines,    \* keys of SqlApi._engines
  locks,      \* engines that have an entry in _operation_locks
  fut,        \* state of the Future of each call
  res,        \* what its worker returned or raised
  owed,       \* calls whose slot a done callback or a cleanup task gives back
  timedOut,   \* contexts whose timed_out event is set
  drv,        \* _driver_connection of each context, 0 for None
  cancelOk,   \* contexts whose _cancel_supported is true
  wpc,        \* where the worker of each call is
  shared,     \* workers that found the engine's operation lock registered
  holding,    \* of these, the one per engine that holds it
  conn,       \* number of the driver connection a worker has, 0 for none
  idle,       \* connections the pool of each engine can hand out
  opened,     \* number of connections opened on each engine so far
  detached,   \* connections up to this number belong to a disposed pool
  torn,       \* workers whose connection somebody else closed beneath them
  committed,  \* writes whose transaction the database committed
  dpc,        \* where the disposer is
  hasActive,  \* its has_active_workers
  toClose     \* the engines it still has to dispose of

callerVars  == <<pc, ans, seen, aborting>>
clientVars  == <<closed, slots, futures, engines, locks>>
futureVars  == <<fut, res, owed>>
contextVars == <<timedOut, drv, cancelOk>>
workerVars  == <<wpc, shared, holding>>
poolVars    == <<conn, idle, opened, detached, torn>>
disposeVars == <<dpc, hasActive, toClose>>
vars == <<callerVars, clientVars, futureVars, contextVars, workerVars,
          poolVars, committed, disposeVars>>

CallerPC == {"idle", "acquire", "submit", "register", "wait", "read",
             "interrupt", "withdraw", "settle", "done"}
WorkerPC == {"none", "lookup", "lock", "connect", "statement", "commit",
             "finalize", "release", "ended"}
FutureState == {"none", "queued", "running", "finished", "cancelled"}
Result == {"none", "ok", "error", "timeout"}
Answer == Result \cup {"aborted", "cancelled", "refused", "closed"}

Done(o) == fut[o] \in {"finished", "cancelled"}         \* Future.done()

(* The call owns a unit of the semaphore that nobody has given back yet.   *)
HoldsSlot(o) ==
  \/ pc[o] \in {"submit", "register", "wait", "read", "interrupt", "withdraw",
                "settle"}
  \/ o \in owed
Holders == {o \in Ops : HoldsSlot(o)}

(* Connection n of engine e is still open: the pool has it or a worker has *)
Alive(e, n) ==
  \/ n \in idle[e]
  \/ \E p \in Ops \ torn : EngineOf[p] = e /\ conn[p] = n

(* The workers that use connection n of engine e. *)
UsersOf(e, n) == {o \in Ops : EngineOf[o] = e /\ conn[o] = n /\ n # 0}

CheckedOut(e) == {o \in Ops : EngineOf[o] = e /\ conn[o] > detached[e]}

Init ==
  /\ pc = [o \in Ops |-> "idle"]
  /\ ans = [o \in Ops |-> "none"]
  /\ seen = [o \in Ops |-> 0]
  /\ aborting = {}
  /\ closed = FALSE
  /\ slots = Capacity
  /\ futures = {}
  /\ engines = {}
  /\ locks = {}
  /\ fut = [o \in Ops |-> "none"]
  /\ res = [o \in Ops |-> "none"]
  /\ owed = {}
  /\ timedOut = {}
  /\ drv = [o \in Ops |-> 0]
  /\ cancelOk = {}
  /\ wpc = [o \in Ops |-> "none"]
  /\ shared = {}
  /\ holding = {}
  /\ conn = [o \in Ops |-> 0]
  /\ idle = [e \in Engines |-> {}]
  /\ opened = [e \in Engines |-> 0]
  /\ detached = [e \in Engines |-> 0]
  /\ torn = {}
  /\ committed = {}
  /\ dpc = "idle"
  /\ hasActive = FALSE
  /\ toClose = {}

(***************************************************************************)
(* The caller                                                              *)
(***************************************************************************)
(* What a caller leaves alone.                                             *)
OthersUnchanged == UNCHANGED <<workerVars, poolVars, committed, disposeVars>>

Goto(o, from, to) == pc[o] = from /\ pc' = [pc EXCEPT ![o] = to]

(* The call ends: the caller is told a. *)
Return(o, a) ==
  /\ pc' = [pc EXCEPT ![o] = "done"]
  /\ ans' = [ans EXCEPT ![o] = a]

(* A faulty variant of _complete_future.                                   *)
ReleasesTwice(o) == futures' = futures \ {o} /\ slots' = slots + 2

(* _complete_future: the future is forgotten and its slot given back. The  *)
(* discard touches nothing the other processes tell from the release.      *)
CompleteFuture(o) ==
  /\ futures' = futures \ {o}
  /\ slots' = slots + 1

(* engine() and _submit turn calls away from a closed client; each under a *)
(* lock of its own, and each with a faulty variant that does not.          *)
EngineUnchecked == TRUE
EngineAvailable == ~ closed
ExecutorUnchecked == TRUE
ExecutorAvailable == ~ closed

(* engine(): the cached Engine of the connection, made on first use.       *)
Call(o) ==
  /\ pc[o] = "idle"
  /\ IF EngineAvailable
       THEN /\ pc' = [pc EXCEPT ![o] = "acquire"]
            /\ engines' = engines \cup {EngineOf[o]}
            /\ locks' = locks \cup ({EngineOf[o]} \cap (Static \ engines))
            /\ UNCHANGED ans
       ELSE Return(o, "closed") /\ UNCHANGED <<engines, locks>>
  /\ UNCHANGED <<seen, aborting, closed, slots, futures, futureVars,
                 contextVars>>
  /\ OthersUnchanged

(* _submit: a slot is taken without blocking, or the call is refused.      *)
AcquireSlot(o) ==
  /\ pc[o] = "acquire"
  /\ IF slots = 0
       THEN Return(o, "refused") /\ UNCHANGED slots
       ELSE /\ pc' = [pc EXCEPT ![o] = "submit"]
            /\ slots' = slots - 1
            /\ UNCHANGED ans
  /\ UNCHANGED <<seen, aborting, closed, futures, engines, locks, futureVars,
                 contextVars>>
  /\ OthersUnchanged

(* _submit, under _executor_lock; a closed client gives the slot back.     *)
Submit(o) ==
  /\ pc[o] = "submit"
  /\ IF ExecutorAvailable
       THEN /\ pc' = [pc EXCEPT ![o] = "register"]
            /\ fut' = [fut EXCEPT ![o] = "queued"]
            /\ UNCHANGED <<ans, slots>>
       ELSE Return(o, "closed") /\ slots' = slots + 1 /\ UNCHANGED fut
  /\ UNCHANGED <<seen, aborting, closed, futures, engines, locks, res, owed,
                 contextVars>>
  /\ OthersUnchanged

(* _submit, under _futures_lock and no longer under _executor_lock.        *)
Register(o) ==
  /\ Goto(o, "register", "wait")
  /\ futures' = futures \cup {o}
  /\ UNCHANGED <<ans, seen, aborting, closed, slots, engines, locks,
                 futureVars, contextVars>>
  /\ OthersUnchanged

(* future.result() returns or raises; the finally clause finds it done.    *)
TakeResult(o) ==
  /\ pc[o] = "wait"
  /\ Done(o)
  /\ Return(o, IF fut[o] = "cancelled" THEN "cancelled" ELSE res[o])
  /\ CompleteFuture(o)
  /\ UNCHANGED <<seen, aborting, closed, engines, locks, futureVars,
                 contextVars>>
  /\ OthersUnchanged

(* Faulty variant of the wait: no deadline.                                *)
NeverExpires(o) == FALSE

(* The driver's own exception is a TimeoutError: future.result() raises it *)
(* like that of the deadline, and the same except clause takes it.  A task *)
(* of the event loop tells them apart.                                     *)
TakenForDeadline(o) ==
  /\ fut[o] = "finished" /\ res[o] = "error"
  /\ EngineOf[o] \in Remote /\ o \notin Async

(* The deadline passes first: on_timeout begins with timed_out.set().      *)
Expire(o) ==
  /\ ~ Done(o) \/ TakenForDeadline(o)
  /\ Goto(o, "wait", "read")
  /\ timedOut' = timedOut \cup {o}
  /\ UNCHANGED <<ans, seen, aborting, clientVars, futureVars, drv, cancelOk>>
  /\ OthersUnchanged

(* The awaiting task is cancelled: on_cancel runs, as for a timeout.       *)
Abort(o) ==
  /\ o \in Async
  /\ Goto(o, "wait", "read")
  /\ timedOut' = timedOut \cup {o}
  /\ aborting' = aborting \cup {o}
  /\ UNCHANGED <<ans, seen, clientVars, futureVars, drv, cancelOk>>
  /\ OthersUnchanged

(* _cancel_pending_operation: context.driver_connection(), under its lock. *)
ReadDriver(o) ==
  /\ Goto(o, "read", IF drv[o] = 0 THEN "withdraw" ELSE "interrupt")
  /\ seen' = [seen EXCEPT ![o] = drv[o]]
  /\ UNCHANGED <<ans, aborting, clientVars, futureVars, contextVars>>
  /\ OthersUnchanged

(* _cancel_driver_connection: the driver's method returns, and             *)
(* set_cancel_supported records it; or there is none, or it raises because *)
(* the connection is gone or unreachable.  The statement it hits, if any,  *)
(* is free to end in StatementFails before or after this.                  *)
Interrupt(o) ==
  LET e == EngineOf[o]
      works == e \in Cancellable /\ Alive(e, seen[o])
  IN /\ Goto(o, "interrupt", "withdraw")
     /\ seen' = [seen EXCEPT ![o] = 0]
     /\ \/ works /\ cancelOk' = cancelOk \cup {o}
        \/ (~ works \/ e \in Remote) /\ UNCHANGED cancelOk
     /\ UNCHANGED <<ans, aborting, clientVars, futureVars, timedOut, drv>>
     /\ OthersUnchanged

(* Future.cancel(): only a future no worker has picked up is cancelled.    *)
CancelsRunning(state) ==
  IF state \in {"queued", "running"} THEN "cancelled" ELSE state   \* faulty
Cancelled(state) == IF state = "queued" THEN "cancelled" ELSE state

Withdraw(o) ==
  /\ Goto(o, "withdraw", "settle")
  /\ fut' = [fut EXCEPT ![o] = Cancelled(@)]
  /\ UNCHANGED <<ans, seen, aborting, clientVars, res, owed, contextVars>>
  /\ OthersUnchanged

(* add_done_callback or the cleanup task, and a variant without either.    *)
DefersNothing(o) == UNCHANGED <<owed, futures, slots>>
Defer(o) == owed' = owed \cup {o} /\ UNCHANGED <<futures, slots>>

(* The finally clause: the slot goes back now if the future is done, else  *)
(* it is left to a done callback or a cleanup task.                        *)
Settle(o) ==
  /\ pc[o] = "settle"
  /\ Return(o, IF o \in aborting THEN "aborted" ELSE "timeout")
  /\ aborting' = aborting \ {o}
  /\ IF Done(o)
       THEN CompleteFuture(o) /\ UNCHANGED owed
       ELSE Defer(o)
  /\ UNCHANGED <<seen, closed, engines, locks, fut, res, contextVars>>
  /\ OthersUnchanged

(* The done callback, in the worker's thread, or _cleanup_when_done, in    *)
(* the event loop: the deferred _complete_future.                          *)
CompleteLater(o) ==
  /\ o \in owed
  /\ Done(o)
  /\ CompleteFuture(o)
  /\ owed' = owed \ {o}
  /\ UNCHANGED <<callerVars, closed, engines, locks, fut, res, contextVars>>
  /\ OthersUnchanged

(***************************************************************************)
(* The worker                                                              *)
(***************************************************************************)
Step(o, from, to) == wpc[o] = from /\ wpc' = [wpc EXCEPT ![o] = to]

(* What a worker leaves alone while it runs the operation.                 *)
ClientUnchanged == UNCHANGED <<callerVars, clientVars, owed, disposeVars>>

(* A thread of the executor picks a queued call up.                        *)
Start(o) ==
  /\ fut[o] = "queued"
  /\ Cardinality({p \in Ops : fut[p] = "running"}) < MaxWorkers
  /\ fut' = [fut EXCEPT ![o] = "running"]
  /\ Step(o, "none", "lookup")
  /\ UNCHANGED <<res, contextVars, shared, holding, poolVars, committed>>
  /\ ClientUnchanged

(* _acquire_operation_lock: the registered lock, else a new one nobody     *)
(* else can hold.                                                          *)
LookupLock(o) ==
  /\ Step(o, "lookup", "lock")
  /\ shared' = IF EngineOf[o] \in locks THEN shared \cup {o} ELSE shared
  /\ UNCHANGED <<futureVars, contextVars, holding, poolVars, committed>>
  /\ ClientUnchanged

LockIgnored(o) == TRUE                                              \* faulty
LockFree(o) == o \in shared => \A p \in holding : EngineOf[p] # EngineOf[o]

(* The lock is acquired, and a call that expired in the queue or while it  *)
(* waited for the lock goes no further.                                    *)
Enter(o) ==
  /\ LockFree(o)
  /\ IF o \in timedOut
       THEN /\ Step(o, "lock", "ended")
            /\ fut' = [fut EXCEPT ![o] = "finished"]
            /\ res' = [res EXCEPT ![o] = "timeout"]
            /\ shared' = shared \ {o}
            /\ UNCHANGED holding
       ELSE /\ Step(o, "lock", "connect")
            /\ holding' = holding \cup ({o} \cap shared)
            /\ UNCHANGED <<fut, res, shared>>
  /\ UNCHANGED <<contextVars, poolVars, committed>>
  /\ ClientUnchanged

(* eng.connect() and context.set_driver_connection: a StaticPool hands the *)
(* same connection to everyone, a QueuePool an idle one, or a new one as   *)
(* long as its limit allows.                                               *)
Connect(o) ==
  LET e == EngineOf[o]
      take(n) == conn' = [conn EXCEPT ![o] = n] /\ drv' = [drv EXCEPT ![o] = n]
  IN /\ Step(o, "connect", "statement")
     /\ \/ \E n \in idle[e] :
             /\ take(n)
             /\ idle' = IF e \in Static THEN idle
                        ELSE [idle EXCEPT ![e] = @ \ {n}]
             /\ UNCHANGED opened
        \/ /\ idle[e] = {}
           /\ e \in Static \/ Cardinality(CheckedOut(e)) < PoolLimit
           /\ opened' = [opened EXCEPT ![e] = @ + 1]
           /\ take(opened[e] + 1)
           /\ idle' = IF e \in Static
                        THEN [idle EXCEPT ![e] = {opened[e] + 1}] ELSE idle
     /\ UNCHANGED <<futureVars, timedOut, cancelOk, shared, holding, detached,
                    torn, committed>>
     /\ ClientUnchanged

(* A late cancel() of a call that expired may hit what runs next.          *)
Interruptible(e) == \E p \in timedOut : EngineOf[p] = e

(* The server is unreachable, or the pool stayed empty until its timeout.  *)
(* In memory it is the ping of the connection that an interrupt hits; the  *)
(* pool then closes that connection.                                       *)
ConnectFails(o) ==
  LET e == EngineOf[o]
  IN /\ Step(o, "connect", "release")
     /\ res' = [res EXCEPT ![o] = "error"]
     /\ \/ e \notin Static /\ UNCHANGED <<idle, torn>>
        \/ /\ e \in Static /\ idle[e] # {} /\ Interruptible(e)
           /\ idle' = [idle EXCEPT ![e] = {}]
           /\ torn' = torn \cup UNION {UsersOf(e, n) : n \in idle[e]}
     /\ UNCHANGED <<fut, contextVars, shared, holding, conn, opened, detached,
                    committed>>
     /\ ClientUnchanged

(* The check after the statement, and whether there is a transaction.      *)
ExpiryIgnored(o) == FALSE                                           \* faulty
OutOfTime(o) == o \in timedOut
CommitForgotten(o) == FALSE                                         \* faulty
NeedsCommit(o) == o \in Writes

(* operation(conn) returns.  A call whose time has run out is rolled back, *)
(* a write goes on to its commit, a read has nothing to commit.            *)
StatementEnds(o) ==
  /\ o \notin torn
  /\ \/ /\ OutOfTime(o)
        /\ Step(o, "statement", "finalize")
        /\ res' = [res EXCEPT ![o] = "timeout"]
     \/ /\ ~ OutOfTime(o) /\ NeedsCommit(o)
        /\ Step(o, "statement", "commit")
        /\ UNCHANGED res
     \/ /\ ~ OutOfTime(o) /\ ~ NeedsCommit(o)
        /\ Step(o, "statement", "finalize")
        /\ res' = [res EXCEPT ![o] = "ok"]
  /\ UNCHANGED <<fut, contextVars, shared, holding, poolVars, committed>>
  /\ ClientUnchanged

(* It raises, because of the statement or of an interrupt: rollback.       *)
StatementFails(o) ==
  /\ Step(o, "statement", "finalize")
  /\ res' = [res EXCEPT ![o] = "error"]
  /\ UNCHANGED <<fut, contextVars, shared, holding, poolVars, committed>>
  /\ ClientUnchanged

Commit(o) ==
  /\ o \notin torn
  /\ Step(o, "commit", "finalize")
  /\ committed' = committed \cup {o}
  /\ res' = [res EXCEPT ![o] = "ok"]
  /\ UNCHANGED <<fut, contextVars, shared, holding, poolVars>>
  /\ ClientUnchanged

(* COMMIT raises: nothing was committed, or, over a network, it was but    *)
(* the acknowledgement was lost.                                           *)
CommitFails(o) ==
  /\ Step(o, "commit", "finalize")
  /\ res' = [res EXCEPT ![o] = "error"]
  /\ \/ UNCHANGED committed
     \/ EngineOf[o] \in Remote /\ committed' = committed \cup {o}
  /\ UNCHANGED <<fut, contextVars, shared, holding, poolVars>>
  /\ ClientUnchanged

(* The hooks that restore the session may fail: over a network at any      *)
(* time, on local SQLite when an interrupt hits PRAGMA query_only = OFF.   *)
ResetMayFail(o) ==
  \/ EngineOf[o] \in Remote
  \/ o \notin Writes /\ Interruptible(EngineOf[o])

UnconfirmedUnasked(o) == o \notin cancelOk                          \* faulty
Unconfirmed(o) == o \in timedOut /\ o \notin cancelOk

(* _finalize_connection_run up to clear_driver_connection: a connection    *)
(* whose session is in doubt is closed; its StaticPool then has none.      *)
Finalize(o) ==
  /\ Step(o, "finalize", "release")
  /\ \/ /\ Unconfirmed(o) \/ ResetMayFail(o)
        /\ idle' = [idle EXCEPT ![EngineOf[o]] = @ \ {conn[o]}]
        /\ conn' = [conn EXCEPT ![o] = 0]
        /\ torn' = torn \cup (UsersOf(EngineOf[o], conn[o]) \ {o})
     \/ ~ Unconfirmed(o) /\ UNCHANGED <<idle, conn, torn>>
  /\ UNCHANGED <<futureVars, contextVars, shared, holding, opened, detached,
                 committed>>
  /\ ClientUnchanged

(* clear_driver_connection, the with blocks give the connection and the    *)
(* lock back, and the executor resolves the future.  A connection of a     *)
(* disposed pool is dropped.                                               *)
Release(o) ==
  LET e == EngineOf[o]
  IN /\ Step(o, "release", "ended")
     /\ drv' = [drv EXCEPT ![o] = 0]
     /\ conn' = [conn EXCEPT ![o] = 0]
     /\ idle' = IF e \notin Static /\ conn[o] > detached[e]
                  THEN [idle EXCEPT ![e] = @ \cup {conn[o]}] ELSE idle
     /\ shared' = shared \ {o}
     /\ holding' = holding \ {o}
     /\ fut' = [fut EXCEPT ![o] = "finished"]
     /\ UNCHANGED <<res, timedOut, cancelOk, opened, detached, torn, committed>>
     /\ ClientUnchanged

(***************************************************************************)
(* dispose()                                                               *)
(***************************************************************************)

(* Under _executor_lock: closed, and the queued futures are cancelled.     *)
Shutdown ==
  /\ dpc = "idle"
  /\ dpc' = "snapshot"
  /\ closed' = TRUE
  /\ fut' = [o \in Ops |-> Cancelled(fut[o])]
  /\ UNCHANGED <<callerVars, slots, futures, engines, locks, res, owed,
                 contextVars, workerVars, poolVars, committed, hasActive,
                 toClose>>

(* Under _futures_lock: has_active_workers. *)
Snapshot ==
  /\ dpc = "snapshot"
  /\ dpc' = "clear"
  /\ hasActive' = (\E o \in futures : ~ Done(o))
  /\ UNCHANGED <<callerVars, clientVars, futureVars, contextVars, workerVars,
                 poolVars, committed, toClose>>

(* Under _engine_lock. *)
ClearCaches ==
  /\ dpc = "clear"
  /\ dpc' = IF engines = {} THEN "done" ELSE "close"
  /\ toClose' = engines
  /\ engines' = {}
  /\ locks' = {}
  /\ UNCHANGED <<callerVars, closed, slots, futures, futureVars, contextVars,
                 workerVars, poolVars, committed, hasActive>>

(* eng.dispose(close=not has_active_workers): the idle connections are     *)
(* closed or abandoned, and the engine starts an empty pool.  A StaticPool *)
(* closes its connection whoever is using it.                              *)
CloseEngine(e) ==
  /\ dpc = "close" /\ e \in toClose
  /\ toClose' = toClose \ {e}
  /\ dpc' = IF toClose = {e} THEN "done" ELSE "close"
  /\ torn' = IF hasActive THEN torn
             ELSE torn \cup UNION {UsersOf(e, n) : n \in idle[e]}
  /\ idle' = [idle EXCEPT ![e] = {}]
  /\ detached' = [detached EXCEPT ![e] = opened[e]]
  /\ UNCHANGED <<callerVars, clientVars, futureVars, contextVars, workerVars,
                 conn, opened, committed, hasActive>>

(***************************************************************************)
(* The specification                                                       *)
(***************************************************************************)
Caller(o) ==
  \/ AcquireSlot(o) \/ Submit(o) \/ Register(o) \/ TakeResult(o) \/ Expire(o)
  \/ ReadDriver(o) \/ Interrupt(o) \/ Withdraw(o) \/ Settle(o)

Worker(o) ==
  \/ Start(o) \/ LookupLock(o) \/ Enter(o) \/ Connect(o) \/ ConnectFails(o)
  \/ StatementEnds(o) \/ StatementFails(o) \/ Commit(o) \/ CommitFails(o)
  \/ Finalize(o) \/ Release(o)

Disposer ==
  Shutdown \/ Snapshot \/ ClearCaches \/ \E e \in Engines : CloseEngine(e)

Operate ==
  \E o \in Ops :
    Call(o) \/ Caller(o) \/ Abort(o) \/ Worker(o) \/ CompleteLater(o)

Next == Operate \/ Disposer

Spec == Init /\ [][Next]_vars

(* A client nobody disposes of: the same steps without the disposer.       *)
OpenSpec == Init /\ [][Operate]_vars

(* The threads that wait are scheduled and their timers fire, and so are   *)
(* callbacks and cleanup tasks.  Of the database only the calls in Ends    *)
(* assume anything: the statements of the others may run for ever.         *)
FairSpec ==
  /\ Spec
  /\ \A o \in Ops : WF_vars(Caller(o)) /\ WF_vars(CompleteLater(o))
  /\ \A o \in Ends : WF_vars(Worker(o))

(***************************************************************************)
(* Properties                                                              *)
(***************************************************************************)

TypeOK ==
  /\ pc \in [Ops -> CallerPC]
  /\ ans \in [Ops -> Answer]
  /\ seen \in [Ops -> Nat]
  /\ aborting \subseteq Async
  /\ closed \in BOOLEAN
  /\ slots \in 0 .. Capacity
  /\ futures \subseteq Ops
  /\ engines \subseteq Engines
  /\ locks \subseteq Static
  /\ fut \in [Ops -> FutureState]
  /\ res \in [Ops -> Result]
  /\ owed \subseteq Ops
  /\ timedOut \subseteq Ops
  /\ drv \in [Ops -> Nat]
  /\ cancelOk \subseteq Ops
  /\ wpc \in [Ops -> WorkerPC]
  /\ shared \subseteq Ops
  /\ holding \subseteq Ops
  /\ conn \in [Ops -> Nat]
  /\ idle \in [Engines -> SUBSET Nat]
  /\ opened \in [Engines -> Nat]
  /\ detached \in [Engines -> Nat]
  /\ torn \subseteq Ops
  /\ committed \subseteq Ops
  /\ dpc \in {"idle", "snapshot", "clear", "close", "done"}
  /\ hasActive \in BOOLEAN
  /\ toClose \subseteq Engines

(* Every slot is either free or owned by exactly one call, and a call      *)
(* keeps its slot as long as its worker may still run: a timed out         *)
(* statement that goes on counts against the capacity (_submit,            *)
(* _complete_future, the finally clauses of both kinds of caller).         *)
SlotAccounting ==
  /\ slots + Cardinality(Holders) = Capacity
  /\ futures \subseteq Holders
  /\ \A o \in Ops : fut[o] \in {"queued", "running"} => HoldsSlot(o)

(* A write that is reported done was committed, and one that is reported   *)
(* failed, cancelled, refused or turned away was not and never will be;    *)
(* only a lost acknowledgement is reported as an error.                    *)
AnswerIsTrue ==
  \A o \in Writes :
    /\ ans[o] = "ok" => o \in committed
    /\ ans[o] \in {"cancelled", "refused", "closed"} => o \notin committed
    /\ ans[o] = "error" /\ EngineOf[o] \notin Remote => o \notin committed

(* A write whose time ran out before its worker compared it with the       *)
(* clock for the last time never commits (_execute_on_connection).         *)
ExpiredInTime(o) ==
  /\ o \in timedOut
  /\ o \notin committed
  /\ wpc[o] \notin {"commit", "finalize", "release", "ended"}
ExpiredWriteStaysOut ==
  \A o \in Writes : [](ExpiredInTime(o) => [](o \notin committed))

(* Two workers never have the same connection while the client still has   *)
(* its operation locks: the pool hands a connection to one worker at a     *)
(* time, and the lock of an in-memory database does where its pool does    *)
(* not (_acquire_operation_lock).                                          *)
ConnectionsExclusive ==
  dpc \in {"idle", "snapshot", "clear"} =>
    \A e \in Engines, n \in 1 .. Cardinality(Ops) :
      Cardinality(UsersOf(e, n)) <= 1

(* An in-memory database lives as long as the client unless a call on it   *)
(* ran out of time: only then does a connection of its StaticPool get      *)
(* closed and a second, empty database opened.                             *)
DatabaseLostByExpiryOnly ==
  \A e \in Static :
    ~ closed /\ opened[e] > 1 => \E o \in timedOut : EngineOf[o] = e

(* Once dispose has cleared the caches no engine comes back, so nothing    *)
(* can be opened through the client again (engine() and dispose test and   *)
(* set _closed under different locks).                                     *)
NothingAfterDispose ==
  dpc \in {"close", "done"} => engines = {} /\ locks = {}

(* After dispose no call is left in the executor's queue, where nobody     *)
(* would ever pick it up.                                                  *)
NoOrphanInQueue ==
  closed => \A o \in Ops : fut[o] # "queued"

(* Each call that asked for a slot is answered, even if no statement ever  *)
(* ends.                                                                   *)
EveryCallAnswered == \A o \in Ops : pc[o] = "acquire" ~> pc[o] = "done"

(* If its statement ends, everything a call took comes back: its slot, its *)
(* connection and its operation lock, even while another statement that    *)
(* never ends keeps a worker and its connection (_complete_future, the     *)
(* with blocks of _run_locked_operation).                                  *)
EverythingReturned ==
  \A o \in Ends :
    pc[o] = "submit" ~> /\ ~ HoldsSlot(o) /\ o \notin futures
                        /\ conn[o] = 0 /\ o \notin holding

(* What becomes of a call, as CallContract sees it. *)
effect ==
  [o \in Ops |->
     IF o \in committed THEN "committed"
     ELSE IF ans[o] \in {"error", "cancelled", "refused", "closed"}
            THEN "dropped" ELSE "open"]
Contract == INSTANCE CallContract
              WITH Unsure <- {o \in Ops : EngineOf[o] \in Remote}

(* The client keeps the promise of CallContract. *)
ImplementsContract == Contract!Spec

(* Where a call is for ClientLife: its place in the executor.              *)
place ==
  [o \in Ops |-> IF fut[o] \in {"finished", "cancelled"} THEN "over" ELSE fut[o]]
Lifecycle == INSTANCE ClientLife WITH state <- place

(* dispose keeps the promise of ClientLife: from the moment the client is  *)
(* closed no call is admitted or started, and none is left waiting.        *)
KeepsLife == Lifecycle!Spec

(***************************************************************************)
(* What the repository says, and the code does not                         *)
(***************************************************************************)

(* dispose: "Closing a DBAPI connection beneath an active cancellation     *)
(* worker can crash native drivers": no worker loses its connection so.    *)
NeverClosedBeneathWorker == torn = {}
=============================================================================
