---------------------------- MODULE SqlRunProofs ----------------------------
(***************************************************************************)
(* Proofs about SqlRun for any number of calls, connections and workers.   *)
(***************************************************************************)
EXTENDS SqlRun, FiniteSetTheorems, TLAPS

(* How far the caller, the future and the worker of a call can be apart.   *)
Life(o) ==
  /\ wpc[o] = "none" <=> fut[o] \in {"none", "queued", "cancelled"}
  /\ wpc[o] = "ended" <=> fut[o] = "finished"
  /\ fut[o] = "none" <=> \/ pc[o] \in {"idle", "acquire", "submit"}
                         \/ ans[o] \in {"refused", "closed"}
  /\ ans[o] = "none" <=> pc[o] # "done"
  /\ res[o] = "none" <=> wpc[o] \in {"none", "lookup", "lock", "connect",
                                     "statement", "commit"}
  /\ wpc[o] = "commit" => o \in Writes
  /\ o \in committed => /\ o \in Writes
                        /\ \/ res[o] = "ok"
                           \/ res[o] = "error" /\ EngineOf[o] \in Remote
  /\ res[o] = "ok" /\ o \in Writes => o \in committed
  /\ ans[o] \in {"ok", "error"} => fut[o] = "finished" /\ res[o] = ans[o]
  /\ ans[o] = "cancelled" => fut[o] = "cancelled"

(* What a call owes the semaphore and the registry. *)
Debts(o) ==
  /\ o \in owed => pc[o] = "done"
  /\ o \in futures => HoldsSlot(o) /\ pc[o] \notin {"submit", "register"}
  /\ fut[o] \in {"queued", "running"} => HoldsSlot(o)

(* dispose closes the client before it empties anything.                   *)
Disposal ==
  /\ closed <=> dpc # "idle"
  /\ NothingAfterDispose
  /\ NoOrphanInQueue

Lives == \A o \in Ops : Life(o)
AllDebts == \A o \in Ops : Debts(o)
Balance == slots + Cardinality(Holders) = Capacity

IInv == TypeOK /\ Lives /\ AllDebts /\ Balance /\ Disposal

-----------------------------------------------------------------------------
LEMMA InitIInv == Init => IInv
<1> SUFFICES ASSUME Init PROVE IInv
  OBVIOUS
<1> USE OpsAssumption, EnginesAssumption, LimitsAssumption
<1>1. TypeOK
  <2>1. slots \in 0 .. Capacity /\ seen \in [Ops -> Nat] /\ drv \in [Ops -> Nat]
    BY DEF Init, Capacity
  <2>2. conn \in [Ops -> Nat] /\ opened \in [Engines -> Nat]
        /\ detached \in [Engines -> Nat] /\ idle \in [Engines -> SUBSET Nat]
    BY DEF Init
  <2>3. pc \in [Ops -> CallerPC] /\ wpc \in [Ops -> WorkerPC]
    BY DEF Init, CallerPC, WorkerPC
  <2>4. ans \in [Ops -> Answer] /\ res \in [Ops -> Result]
        /\ fut \in [Ops -> FutureState]
    BY DEF Init, Answer, Result, FutureState
  <2> QED
    BY <2>1, <2>2, <2>3, <2>4 DEF Init, TypeOK
<1>2. Lives
  BY DEF Init, Lives, Life
<1>3. AllDebts
  BY DEF Init, AllDebts, Debts
<1>4. Balance
  <2>1. Holders = {}
    BY DEF Init, Holders, HoldsSlot
  <2>2. Cardinality(Holders) = 0
    BY <2>1, FS_EmptySet
  <2> QED
    BY <2>2 DEF Init, Balance, Capacity
<1>5. Disposal
  BY DEF Init, Disposal, NothingAfterDispose, NoOrphanInQueue
<1> QED
  BY <1>1, <1>2, <1>3, <1>4, <1>5 DEF IInv

-----------------------------------------------------------------------------
(* A step that gives no slot away and takes none leaves TypeOK to the      *)
(* range of slots, which is part of Balance.                               *)
LEMMA TypeStep ==
  ASSUME TypeOK, [Next]_vars, slots' \in 0 .. Capacity
  PROVE  TypeOK'
<1> USE OpsAssumption, EnginesAssumption, LimitsAssumption
<1> USE DEF TypeOK, CallerPC, WorkerPC, FutureState, Result, Answer,
            callerVars, clientVars, futureVars, contextVars, workerVars,
            poolVars, disposeVars, OthersUnchanged, ClientUnchanged, Goto, Step,
            Return, CompleteFuture
<1>1. ASSUME NEW o \in Ops, Call(o) PROVE TypeOK'
  BY <1>1 DEF Call
<1>2. ASSUME NEW o \in Ops, Caller(o) PROVE TypeOK'
  <2>1. CASE AcquireSlot(o)
    BY <2>1 DEF AcquireSlot
  <2>2. CASE Submit(o)
    BY <2>2 DEF Submit
  <2>3. CASE Register(o)
    BY <2>3 DEF Register
  <2>4. CASE TakeResult(o)
    BY <2>4 DEF TakeResult
  <2>5. CASE Expire(o)
    BY <2>5 DEF Expire
  <2>6. CASE ReadDriver(o)
    BY <2>6 DEF ReadDriver
  <2>7. CASE Interrupt(o)
    BY <2>7 DEF Interrupt
  <2>8. CASE Withdraw(o)
    BY <2>8 DEF Withdraw, Cancelled
  <2>9. CASE Settle(o)
    BY <2>9 DEF Settle, Defer
  <2> QED
    BY <1>2, <2>1, <2>2, <2>3, <2>4, <2>5, <2>6, <2>7, <2>8, <2>9 DEF Caller
<1>3. ASSUME NEW o \in Ops, Abort(o) PROVE TypeOK'
  BY <1>3 DEF Abort
<1>4. ASSUME NEW o \in Ops, Worker(o) PROVE TypeOK'
  <2>1. CASE Start(o)
    BY <2>1 DEF Start
  <2>2. CASE LookupLock(o)
    BY <2>2 DEF LookupLock
  <2>3. CASE Enter(o)
    BY <2>3 DEF Enter
  <2>4. CASE Connect(o)
    <3>1. PICK n \in Nat :
            /\ conn' = [conn EXCEPT ![o] = n] /\ drv' = [drv EXCEPT ![o] = n]
      BY <2>4 DEF Connect
    <3>2. idle' \in [Engines -> SUBSET Nat] /\ opened' \in [Engines -> Nat]
      BY <2>4 DEF Connect
    <3> QED
      BY <2>4, <3>1, <3>2 DEF Connect
  <2>5. CASE ConnectFails(o)
    BY <2>5 DEF ConnectFails, UsersOf
  <2>6. CASE StatementEnds(o)
    BY <2>6 DEF StatementEnds
  <2>7. CASE StatementFails(o)
    BY <2>7 DEF StatementFails
  <2>8. CASE Commit(o)
    BY <2>8 DEF Commit
  <2>9. CASE CommitFails(o)
    BY <2>9 DEF CommitFails
  <2>10. CASE Finalize(o)
    BY <2>10 DEF Finalize, UsersOf
  <2>11. CASE Release(o)
    BY <2>11 DEF Release
  <2> QED
    BY <1>4, <2>1, <2>2, <2>3, <2>4, <2>5, <2>6, <2>7, <2>8, <2>9, <2>10, <2>11
    DEF Worker
<1>5. ASSUME NEW o \in Ops, CompleteLater(o) PROVE TypeOK'
  BY <1>5 DEF CompleteLater
<1>6. CASE Disposer
  <2>1. CASE Shutdown
    BY <2>1 DEF Shutdown, Cancelled
  <2>2. CASE Snapshot
    BY <2>2 DEF Snapshot
  <2>3. CASE ClearCaches
    BY <2>3 DEF ClearCaches
  <2>4. ASSUME NEW e \in Engines, CloseEngine(e) PROVE TypeOK'
    BY <2>4 DEF CloseEngine, UsersOf
  <2> QED
    BY <1>6, <2>1, <2>2, <2>3, <2>4 DEF Disposer
<1>7. CASE UNCHANGED vars
  BY <1>7 DEF vars
<1> QED
  BY <1>1, <1>2, <1>3, <1>4, <1>5, <1>6, <1>7 DEF Next, Operate

-----------------------------------------------------------------------------
(* The caller, the future and the worker of a call move in step.  Only the *)
(* steps of the call itself and Shutdown touch them.                       *)
LEMMA LifeStep ==
  ASSUME TypeOK, Lives, [Next]_vars
  PROVE  Lives'
<1> SUFFICES ASSUME NEW q \in Ops PROVE Life(q)'
  BY DEF Lives
<1> USE OpsAssumption
<1>0. /\ \A o \in Ops : Life(o)
      /\ pc \in [Ops -> CallerPC] /\ wpc \in [Ops -> WorkerPC]
      /\ ans \in [Ops -> Answer] /\ res \in [Ops -> Result]
      /\ fut \in [Ops -> FutureState]
  BY DEF Lives, TypeOK
<1> USE <1>0 DEF Life, CallerPC, WorkerPC, FutureState, Result, Answer, Done
<1> USE DEF callerVars, clientVars, futureVars, contextVars, workerVars,
            poolVars, disposeVars, OthersUnchanged, ClientUnchanged, Goto, Step,
            Return, CompleteFuture, TakenForDeadline
<1>1. ASSUME NEW o \in Ops, Call(o) PROVE Life(q)'
  BY <1>1 DEF Call
<1>2. ASSUME NEW o \in Ops, Caller(o) PROVE Life(q)'
  <2>1. CASE AcquireSlot(o)
    BY <2>1 DEF AcquireSlot
  <2>2. CASE Submit(o)
    BY <2>2 DEF Submit
  <2>3. CASE Register(o)
    BY <2>3 DEF Register
  <2>4. CASE TakeResult(o)
    BY <2>4 DEF TakeResult
  <2>5. CASE Expire(o)
    BY <2>5 DEF Expire
  <2>6. CASE ReadDriver(o)
    BY <2>6 DEF ReadDriver
  <2>7. CASE Interrupt(o)
    BY <2>7 DEF Interrupt
  <2>8. CASE Withdraw(o)
    BY <2>8 DEF Withdraw, Cancelled
  <2>9. CASE Settle(o)
    BY <2>9 DEF Settle, Defer
  <2> QED
    BY <1>2, <2>1, <2>2, <2>3, <2>4, <2>5, <2>6, <2>7, <2>8, <2>9 DEF Caller
<1>3. ASSUME NEW o \in Ops, Abort(o) PROVE Life(q)'
  BY <1>3 DEF Abort
<1>4. ASSUME NEW o \in Ops, Worker(o) PROVE Life(q)'
  <2>1. CASE Start(o)
    BY <2>1 DEF Start
  <2>2. CASE LookupLock(o)
    BY <2>2 DEF LookupLock
  <2>3. CASE Enter(o)
    BY <2>3 DEF Enter
  <2>4. CASE Connect(o)
    BY <2>4 DEF Connect
  <2>5. CASE ConnectFails(o)
    BY <2>5 DEF ConnectFails
  <2>6. CASE StatementEnds(o)
    BY <2>6 DEF StatementEnds, NeedsCommit
  <2>7. CASE StatementFails(o)
    BY <2>7 DEF StatementFails
  <2>8. CASE Commit(o)
    BY <2>8 DEF Commit
  <2>9. CASE CommitFails(o)
    BY <2>9 DEF CommitFails
  <2>10. CASE Finalize(o)
    BY <2>10 DEF Finalize
  <2>11. CASE Release(o)
    BY <2>11 DEF Release
  <2> QED
    BY <1>4, <2>1, <2>2, <2>3, <2>4, <2>5, <2>6, <2>7, <2>8,
       <2>9, <2>10, <2>11
    DEF Worker
<1>5. ASSUME NEW o \in Ops, CompleteLater(o) PROVE Life(q)'
  BY <1>5 DEF CompleteLater
<1>6. CASE Disposer
  <2>1. CASE Shutdown
    BY <2>1 DEF Shutdown, Cancelled
  <2>2. CASE Snapshot
    BY <2>2 DEF Snapshot
  <2>3. CASE ClearCaches
    BY <2>3 DEF ClearCaches
  <2>4. ASSUME NEW e \in Engines, CloseEngine(e) PROVE Life(q)'
    BY <2>4 DEF CloseEngine
  <2> QED
    BY <1>6, <2>1, <2>2, <2>3, <2>4 DEF Disposer
<1>7. CASE UNCHANGED vars
  BY <1>7 DEF vars
<1> QED
  BY <1>1, <1>2, <1>3, <1>4, <1>5, <1>6, <1>7 DEF Next, Operate

-----------------------------------------------------------------------------
(* A call that can still run, or is registered, holds a slot.              *)
LEMMA DebtStep ==
  ASSUME TypeOK, Lives, AllDebts, [Next]_vars
  PROVE  AllDebts'
<1> SUFFICES ASSUME NEW q \in Ops PROVE Debts(q)'
  BY DEF AllDebts
<1> USE OpsAssumption
<1>0. /\ \A o \in Ops : Debts(o) /\ Life(o)
      /\ pc \in [Ops -> CallerPC] /\ fut \in [Ops -> FutureState]
      /\ wpc \in [Ops -> WorkerPC]
  BY DEF Lives, AllDebts, TypeOK
<1> USE <1>0 DEF Debts, Life, HoldsSlot, CallerPC, FutureState, WorkerPC, Done
<1> USE DEF callerVars, clientVars, futureVars, contextVars, workerVars,
            poolVars, disposeVars, OthersUnchanged, ClientUnchanged, Goto, Step,
            Return, CompleteFuture
<1>1. ASSUME NEW o \in Ops, Call(o) PROVE Debts(q)'
  BY <1>1 DEF Call
<1>2. ASSUME NEW o \in Ops, Caller(o) PROVE Debts(q)'
  <2>1. CASE AcquireSlot(o)
    BY <2>1 DEF AcquireSlot
  <2>2. CASE Submit(o)
    BY <2>2 DEF Submit
  <2>3. CASE Register(o)
    BY <2>3 DEF Register
  <2>4. CASE TakeResult(o)
    BY <2>4 DEF TakeResult
  <2>5. CASE Expire(o)
    BY <2>5 DEF Expire
  <2>6. CASE ReadDriver(o)
    BY <2>6 DEF ReadDriver
  <2>7. CASE Interrupt(o)
    BY <2>7 DEF Interrupt
  <2>8. CASE Withdraw(o)
    BY <2>8 DEF Withdraw, Cancelled
  <2>9. CASE Settle(o)
    BY <2>9 DEF Settle, Defer
  <2> QED
    BY <1>2, <2>1, <2>2, <2>3, <2>4, <2>5, <2>6, <2>7, <2>8, <2>9 DEF Caller
<1>3. ASSUME NEW o \in Ops, Abort(o) PROVE Debts(q)'
  BY <1>3 DEF Abort
<1>4. ASSUME NEW o \in Ops, Worker(o) PROVE Debts(q)'
  <2>1. CASE Start(o)
    BY <2>1 DEF Start
  <2>2. CASE LookupLock(o)
    BY <2>2 DEF LookupLock
  <2>3. CASE Enter(o)
    BY <2>3 DEF Enter
  <2>4. CASE Connect(o)
    BY <2>4 DEF Connect
  <2>5. CASE ConnectFails(o)
    BY <2>5 DEF ConnectFails
  <2>6. CASE StatementEnds(o)
    BY <2>6 DEF StatementEnds, NeedsCommit
  <2>7. CASE StatementFails(o)
    BY <2>7 DEF StatementFails
  <2>8. CASE Commit(o)
    BY <2>8 DEF Commit
  <2>9. CASE CommitFails(o)
    BY <2>9 DEF CommitFails
  <2>10. CASE Finalize(o)
    BY <2>10 DEF Finalize
  <2>11. CASE Release(o)
    BY <2>11 DEF Release
  <2> QED
    BY <1>4, <2>1, <2>2, <2>3, <2>4, <2>5, <2>6, <2>7, <2>8,
       <2>9, <2>10, <2>11
    DEF Worker
<1>5. ASSUME NEW o \in Ops, CompleteLater(o) PROVE Debts(q)'
  BY <1>5 DEF CompleteLater
<1>6. CASE Disposer
  <2>1. CASE Shutdown
    BY <2>1 DEF Shutdown, Cancelled
  <2>2. CASE Snapshot
    BY <2>2 DEF Snapshot
  <2>3. CASE ClearCaches
    BY <2>3 DEF ClearCaches
  <2>4. ASSUME NEW e \in Engines, CloseEngine(e) PROVE Debts(q)'
    BY <2>4 DEF CloseEngine
  <2> QED
    BY <1>6, <2>1, <2>2, <2>3, <2>4 DEF Disposer
<1>7. CASE UNCHANGED vars
  BY <1>7 DEF vars
<1> QED
  BY <1>1, <1>2, <1>3, <1>4, <1>5, <1>6, <1>7 DEF Next, Operate

-----------------------------------------------------------------------------
(* Slots that are free and slots that are held add up to the capacity.     *)
(* Every step keeps both, or moves one slot from one side to the other.    *)
LEMMA BalanceStep ==
  ASSUME TypeOK, Lives, AllDebts, Balance, [Next]_vars
  PROVE  Balance' /\ slots' \in 0 .. Capacity
<1> DEFINE Goal == Balance' /\ slots' \in 0 .. Capacity
<1> SUFFICES Goal
  OBVIOUS
<1> USE OpsAssumption, LimitsAssumption
<1>a. /\ \A o \in Ops : Debts(o) /\ Life(o)
      /\ pc \in [Ops -> CallerPC] /\ fut \in [Ops -> FutureState]
      /\ owed \subseteq Ops
  BY DEF Lives, AllDebts, TypeOK
<1>b. slots \in 0 .. Capacity /\ Capacity \in Nat
  BY DEF TypeOK, Capacity
<1>c. IsFiniteSet(Holders) /\ Cardinality(Holders) \in Nat
  <2>1. Holders \subseteq Ops
    BY DEF Holders
  <2>2. IsFiniteSet(Holders)
    BY <2>1, FS_Subset
  <2> QED
    BY <2>2, FS_CardinalityType
<1>take. ASSUME NEW o \in Ops, o \notin Holders, Holders' = Holders \cup {o},
                slots # 0, slots' = slots - 1
         PROVE  Goal
  <2>1. Cardinality(Holders') = Cardinality(Holders) + 1
    BY <1>c, <1>take, FS_AddElement
  <2> QED
    BY <2>1, <1>b, <1>c, <1>take DEF Balance, Capacity
<1>give. ASSUME NEW o \in Ops, o \in Holders, Holders' = Holders \ {o},
                slots' = slots + 1
         PROVE  Goal
  <2>1. Cardinality(Holders') = Cardinality(Holders) - 1
    BY <1>c, <1>give, FS_RemoveElement
  <2>2. IsFiniteSet(Holders')
    BY <1>c, <1>give, FS_RemoveElement
  <2>3. Cardinality(Holders') \in Nat
    BY <2>2, FS_CardinalityType
  <2> QED
    BY <2>1, <2>3, <1>b, <1>c, <1>give DEF Balance, Capacity
<1>keep. ASSUME Holders' = Holders, slots' = slots PROVE Goal
  BY <1>b, <1>c, <1>keep DEF Balance, Capacity
<1> HIDE DEF Goal
<1> USE DEF Holders, HoldsSlot, CallerPC, FutureState, Debts, Life,
            callerVars, clientVars, futureVars, contextVars, workerVars,
            poolVars, disposeVars, OthersUnchanged, ClientUnchanged, Goto, Step,
            Return, CompleteFuture, Done
<1>1. ASSUME NEW o \in Ops, Call(o) PROVE Goal
  BY <1>keep, <1>a, <1>1 DEF Call
<1>2. ASSUME NEW o \in Ops, Caller(o) PROVE Goal
  <2>1. CASE AcquireSlot(o)
    <3>1. CASE slots = 0
      BY <1>keep, <1>a, <2>1, <3>1 DEF AcquireSlot
    <3>2. CASE slots # 0
      <4>1. o \notin Holders /\ Holders' = Holders \cup {o}
        BY <1>a, <2>1, <3>2 DEF AcquireSlot
      <4> QED
        BY <1>take, <4>1, <2>1, <3>2 DEF AcquireSlot
    <3> QED
      BY <3>1, <3>2
  <2>2. CASE Submit(o)
    <3>1. CASE ExecutorAvailable
      BY <1>keep, <1>a, <2>2, <3>1 DEF Submit
    <3>2. CASE ~ ExecutorAvailable
      <4>1. o \in Holders /\ Holders' = Holders \ {o}
        BY <1>a, <2>2, <3>2 DEF Submit
      <4> QED
        BY <1>give, <4>1, <2>2, <3>2 DEF Submit
    <3> QED
      BY <3>1, <3>2
  <2>3. CASE Register(o)
    BY <1>keep, <1>a, <2>3 DEF Register
  <2>4. CASE TakeResult(o)
    <3>1. o \in Holders /\ Holders' = Holders \ {o}
      BY <1>a, <2>4 DEF TakeResult
    <3> QED
      BY <1>give, <3>1, <2>4 DEF TakeResult
  <2>5. CASE Expire(o)
    BY <1>keep, <1>a, <2>5 DEF Expire
  <2>6. CASE ReadDriver(o)
    BY <1>keep, <1>a, <2>6 DEF ReadDriver
  <2>7. CASE Interrupt(o)
    BY <1>keep, <1>a, <2>7 DEF Interrupt
  <2>8. CASE Withdraw(o)
    BY <1>keep, <1>a, <2>8 DEF Withdraw
  <2>9. CASE Settle(o)
    <3>1. CASE Done(o)
      <4>1. o \in Holders /\ Holders' = Holders \ {o}
        BY <1>a, <2>9, <3>1 DEF Settle
      <4> QED
        BY <1>give, <4>1, <2>9, <3>1 DEF Settle
    <3>2. CASE ~ Done(o)
      BY <1>keep, <1>a, <2>9, <3>2 DEF Settle, Defer
    <3> QED
      BY <3>1, <3>2
  <2> QED
    BY <1>2, <2>1, <2>2, <2>3, <2>4, <2>5, <2>6, <2>7, <2>8, <2>9 DEF Caller
<1>3. ASSUME NEW o \in Ops, Abort(o) PROVE Goal
  BY <1>keep, <1>a, <1>3 DEF Abort
<1>4. ASSUME NEW o \in Ops, Worker(o) PROVE Goal
  <2>1. pc' = pc /\ owed' = owed /\ slots' = slots
    BY <1>4 DEF Worker, Start, LookupLock, Enter, Connect, ConnectFails,
                StatementEnds, StatementFails, Commit, CommitFails, Finalize,
                Release
  <2> QED
    BY <1>keep, <2>1
<1>5. ASSUME NEW o \in Ops, CompleteLater(o) PROVE Goal
  <2>1. o \in Holders /\ Holders' = Holders \ {o}
    BY <1>a, <1>5 DEF CompleteLater
  <2> QED
    BY <1>give, <2>1, <1>5 DEF CompleteLater
<1>6. CASE Disposer
  BY <1>keep, <1>6
  DEF Disposer, Shutdown, Snapshot, ClearCaches, CloseEngine
<1>7. CASE UNCHANGED vars
  BY <1>keep, <1>7 DEF vars
<1> QED
  BY <1>1, <1>2, <1>3, <1>4, <1>5, <1>6, <1>7 DEF Next, Operate

-----------------------------------------------------------------------------
(* Once closed, the client creates no engine and queues no future.         *)
LEMMA DisposalStep ==
  ASSUME TypeOK, Disposal, [Next]_vars
  PROVE  Disposal'
<1> USE DEF Disposal, NothingAfterDispose, NoOrphanInQueue, TypeOK,
            EngineAvailable, ExecutorAvailable, Cancelled,
            callerVars, clientVars, futureVars, contextVars, workerVars,
            poolVars, disposeVars, OthersUnchanged, ClientUnchanged, Goto, Step,
            Return, CompleteFuture
<1>1. ASSUME NEW o \in Ops, Call(o) PROVE Disposal'
  BY <1>1 DEF Call
<1>2. ASSUME NEW o \in Ops, Caller(o) PROVE Disposal'
  <2>1. CASE Submit(o)
    BY <2>1 DEF Submit
  <2>2. CASE Withdraw(o)
    BY <2>2 DEF Withdraw
  <2>3. CASE AcquireSlot(o) \/ Register(o) \/ TakeResult(o)
    BY <2>3 DEF AcquireSlot, Register, TakeResult
  <2>4. CASE Expire(o) \/ ReadDriver(o) \/ Interrupt(o) \/ Settle(o)
    BY <2>4 DEF Expire, ReadDriver, Interrupt, Settle, Defer
  <2> QED
    BY <1>2, <2>1, <2>2, <2>3, <2>4 DEF Caller
<1>3. ASSUME NEW o \in Ops, Abort(o) PROVE Disposal'
  BY <1>3 DEF Abort
<1>4. ASSUME NEW o \in Ops, Worker(o) PROVE Disposal'
  <2>1. /\ \A q \in Ops : fut'[q] = "queued" => fut[q] = "queued"
        /\ UNCHANGED <<dpc, closed, engines, locks>>
    BY <1>4 DEF Worker, Start, LookupLock, Enter, Connect, ConnectFails,
                StatementEnds, StatementFails, Commit, CommitFails, Finalize,
                Release
  <2> QED
    BY <2>1
<1>5. ASSUME NEW o \in Ops, CompleteLater(o) PROVE Disposal'
  BY <1>5 DEF CompleteLater
<1>6. CASE Disposer
  BY <1>6 DEF Disposer, Shutdown, Snapshot, ClearCaches, CloseEngine
<1>7. CASE UNCHANGED vars
  BY <1>7 DEF vars
<1> QED
  BY <1>1, <1>2, <1>3, <1>4, <1>5, <1>6, <1>7 DEF Next, Operate

-----------------------------------------------------------------------------
(* IInv holds in every reachable state of a client. *)
THEOREM Invariance == Spec => []IInv
<1>1. IInv /\ [Next]_vars => IInv'
  <2> SUFFICES ASSUME IInv, [Next]_vars PROVE IInv'
    OBVIOUS
  <2>1. Balance' /\ slots' \in 0 .. Capacity
    BY BalanceStep DEF IInv
  <2>2. TypeOK'
    BY <2>1, TypeStep DEF IInv
  <2>3. Lives' /\ AllDebts' /\ Disposal'
    BY LifeStep, DebtStep, DisposalStep DEF IInv
  <2> QED
    BY <2>1, <2>2, <2>3 DEF IInv
<1> QED
  BY InitIInv, <1>1, PTL DEF Spec

(* The state of a client, its calls and its workers keep their types; in   *)
(* particular _worker_slots never exceeds its bound, where the semaphore   *)
(* would raise ValueError.                                                 *)
THEOREM TypeCorrect == Spec => []TypeOK
<1>1. IInv => TypeOK
  BY DEF IInv
<1> QED
  BY <1>1, Invariance, PTL

(* No slot leaks and none is given back twice, whoever ends the call: the  *)
(* caller, the done callback, the cleanup task or dispose.                 *)
THEOREM SlotsAddUp == Spec => []SlotAccounting
<1>1. IInv => SlotAccounting
  <2> SUFFICES ASSUME IInv PROVE SlotAccounting
    OBVIOUS
  <2>1. slots + Cardinality(Holders) = Capacity
    BY DEF IInv, Balance
  <2>2. futures \subseteq Holders
    BY DEF IInv, AllDebts, Debts, Holders, TypeOK
  <2>3. \A o \in Ops : fut[o] \in {"queued", "running"} => HoldsSlot(o)
    BY DEF IInv, AllDebts, Debts
  <2> QED
    BY <2>1, <2>2, <2>3 DEF SlotAccounting
<1> QED
  BY <1>1, Invariance, PTL

(* What a caller is told about a write is what happened to it.             *)
THEOREM AnswersAreTrue == Spec => []AnswerIsTrue
<1>1. IInv => AnswerIsTrue
  <2> SUFFICES ASSUME IInv, NEW o \in Writes
               PROVE  /\ ans[o] = "ok" => o \in committed
                      /\ ans[o] \in {"cancelled", "refused", "closed"}
                            => o \notin committed
                      /\ ans[o] = "error" /\ EngineOf[o] \notin Remote
                            => o \notin committed
    BY DEF AnswerIsTrue
  <2>1. o \in Ops /\ Life(o)
    BY OpsAssumption DEF IInv, Lives
  <2> QED
    BY <2>1 DEF Life
<1> QED
  BY <1>1, Invariance, PTL

(* dispose empties the queue for good: a call that submits late is turned  *)
(* away, so none waits for a thread that will never come.                  *)
THEOREM NothingLeftQueued == Spec => []NoOrphanInQueue
<1>1. IInv => NoOrphanInQueue
  BY DEF IInv, Disposal
<1> QED
  BY <1>1, Invariance, PTL

(* dispose is final: no engine and no operation lock comes back after it.  *)
THEOREM DisposeIsFinal == Spec => []NothingAfterDispose
<1>1. IInv => NothingAfterDispose
  BY DEF IInv, Disposal
<1> QED
  BY <1>1, Invariance, PTL

-----------------------------------------------------------------------------
(* Every step of the client is a step of CallContract or invisible to it:  *)
(* only the end of a call and the two ways to commit are visible.          *)
LEMMA ContractStep ==
  ASSUME IInv, [Next]_vars
  PROVE  [Contract!Next]_(Contract!vars)
<1> DEFINE Goal == [Contract!Next]_(Contract!vars)
<1> SUFFICES Goal
  OBVIOUS
<1> USE OpsAssumption
<1>a. /\ \A o \in Ops : Life(o)
      /\ pc \in [Ops -> CallerPC] /\ ans \in [Ops -> Answer]
      /\ fut \in [Ops -> FutureState] /\ res \in [Ops -> Result]
      /\ wpc \in [Ops -> WorkerPC]
  BY DEF IInv, Lives, TypeOK
<1>skip. ASSUME ans' = ans, committed' = committed PROVE Goal
  BY <1>skip DEF Contract!vars, effect
<1>fail. ASSUME NEW o \in Ops, NEW a \in Contract!Failure, ans[o] = "none",
                ans' = [ans EXCEPT ![o] = a], committed' = committed,
                o \notin committed
         PROVE  Goal
  <2>1. effect[o] = "open" /\ effect' = [effect EXCEPT ![o] = "dropped"]
    BY <1>a, <1>fail DEF effect, Contract!Failure
  <2> QED
    BY <1>fail, <2>1 DEF Contract!Next, Contract!Fail
<1>unsure. ASSUME NEW o \in Ops, ans[o] = "none", EngineOf[o] \in Remote,
                  ans' = [ans EXCEPT ![o] = "error"], committed' = committed,
                  o \in committed
           PROVE  Goal
  <2>1. effect[o] = "committed" /\ effect' = effect
    BY <1>a, <1>unsure DEF effect
  <2> QED
    BY <1>unsure, <2>1 DEF Contract!Next, Contract!Fail, Contract!Failure
<1>succeed. ASSUME NEW o \in Ops, ans[o] = "none", ans' = [ans EXCEPT ![o] = "ok"],
                   committed' = committed, o \in Writes => o \in committed
            PROVE  Goal
  <2>1. effect' = effect /\ (o \in Writes => effect[o] = "committed")
    BY <1>a, <1>succeed DEF effect
  <2> QED
    BY <1>succeed, <2>1 DEF Contract!Next, Contract!Succeed
<1>giveup. ASSUME NEW o \in Ops, NEW a \in Contract!GivenUp, ans[o] = "none",
                  ans' = [ans EXCEPT ![o] = a], committed' = committed
           PROVE  Goal
  <2>1. effect' = effect
    BY <1>a, <1>giveup DEF effect, Contract!GivenUp
  <2> QED
    BY <1>giveup, <2>1 DEF Contract!Next, Contract!GiveUp
<1>commit. ASSUME NEW o \in Writes, wpc[o] = "commit", ans' = ans,
                  committed' = committed \cup {o}
           PROVE  Goal
  <2>1. o \in Ops /\ o \notin committed /\ fut[o] = "running"
    BY <1>a, <1>commit DEF Life, FutureState
  <2>2. ans[o] \in {"none"} \cup Contract!GivenUp
    BY <1>a, <2>1 DEF Life, Answer, Result, Contract!GivenUp
  <2>3. effect[o] = "open" /\ effect' = [effect EXCEPT ![o] = "committed"]
    BY <1>commit, <2>1, <2>2 DEF effect, Contract!GivenUp
  <2> QED
    BY <1>commit, <2>1, <2>2, <2>3 DEF Contract!Next, Contract!Commit
<1> HIDE DEF Goal
<1>f. {"error", "cancelled", "refused", "closed"} = Contract!Failure
      /\ {"timeout", "aborted"} = Contract!GivenUp
  BY DEF Contract!Failure, Contract!GivenUp
<1> USE DEF callerVars, clientVars, futureVars, contextVars, workerVars,
            poolVars, disposeVars, OthersUnchanged, ClientUnchanged, Goto, Step,
            Return, CompleteFuture, Life
<1>1. ASSUME NEW o \in Ops, Call(o) PROVE Goal
  <2>1. CASE EngineAvailable
    BY <1>skip, <1>1, <2>1 DEF Call
  <2>2. CASE ~ EngineAvailable
    BY <1>a, <1>f, <1>fail, <1>1, <2>2 DEF Call
  <2> QED
    BY <2>1, <2>2
<1>2. ASSUME NEW o \in Ops, Caller(o) PROVE Goal
  <2>1. CASE AcquireSlot(o)
    <3>1. CASE slots = 0
      BY <1>a, <1>f, <1>fail, <2>1, <3>1 DEF AcquireSlot
    <3>2. CASE slots # 0
      BY <1>skip, <2>1, <3>2 DEF AcquireSlot
    <3> QED
      BY <3>1, <3>2
  <2>2. CASE Submit(o)
    <3>1. CASE ExecutorAvailable
      BY <1>skip, <2>2, <3>1 DEF Submit
    <3>2. CASE ~ ExecutorAvailable
      BY <1>a, <1>f, <1>fail, <2>2, <3>2 DEF Submit
    <3> QED
      BY <3>1, <3>2
  <2>3. CASE TakeResult(o)
    <3>0. /\ ans[o] = "none" /\ committed' = committed /\ Done(o)
          /\ ans' = [ans EXCEPT ![o] = IF fut[o] = "cancelled" THEN "cancelled"
                                       ELSE res[o]]
      BY <1>a, <2>3 DEF TakeResult
    <3>1. CASE fut[o] = "cancelled"
      <4>1. o \notin committed
        BY <1>a, <3>1
      <4> QED
        BY <1>f, <1>fail, <3>0, <3>1, <4>1
    <3>2. CASE fut[o] = "finished"
      <4>1. res[o] \in {"ok", "error", "timeout"}
        BY <1>a, <3>2 DEF Result
      <4>2. CASE res[o] = "ok"
        BY <1>a, <1>succeed, <3>0, <3>2, <4>2
      <4>3. CASE res[o] = "error" /\ o \in committed
        BY <1>a, <1>unsure, <3>0, <3>2, <4>3
      <4>4. CASE res[o] = "error" /\ o \notin committed
        BY <1>f, <1>fail, <3>0, <3>2, <4>4
      <4>5. CASE res[o] = "timeout"
        BY <1>f, <1>giveup, <3>0, <3>2, <4>5
      <4> QED
        BY <4>1, <4>2, <4>3, <4>4, <4>5
    <3> QED
      BY <3>0, <3>1, <3>2 DEF Done
  <2>4. CASE Settle(o)
    <3>1. /\ ans[o] = "none" /\ committed' = committed
          /\ ans' = [ans EXCEPT ![o] = IF o \in aborting THEN "aborted"
                                       ELSE "timeout"]
      BY <1>a, <2>4 DEF Settle
    <3> QED
      BY <1>f, <1>giveup, <3>1
  <2>5. CASE \/ Register(o) \/ Expire(o) \/ ReadDriver(o) \/ Interrupt(o)
             \/ Withdraw(o)
    BY <1>skip, <2>5 DEF Register, Expire, ReadDriver, Interrupt, Withdraw
  <2> QED
    BY <1>2, <2>1, <2>2, <2>3, <2>4, <2>5 DEF Caller
<1>3. ASSUME NEW o \in Ops, Abort(o) PROVE Goal
  BY <1>skip, <1>3 DEF Abort
<1>4. ASSUME NEW o \in Ops, Worker(o) PROVE Goal
  <2>1. CASE Commit(o)
    BY <1>a, <1>commit, <2>1 DEF Commit
  <2>2. CASE CommitFails(o)
    BY <1>a, <1>skip, <1>commit, <2>2 DEF CommitFails
  <2>3. CASE \/ Start(o) \/ LookupLock(o) \/ Enter(o) \/ Connect(o)
             \/ ConnectFails(o) \/ StatementEnds(o) \/ StatementFails(o)
             \/ Finalize(o) \/ Release(o)
    BY <1>skip, <2>3 DEF Start, LookupLock, Enter, Connect, ConnectFails,
                         StatementEnds, StatementFails, Finalize, Release
  <2> QED
    BY <1>4, <2>1, <2>2, <2>3 DEF Worker
<1>5. ASSUME NEW o \in Ops, CompleteLater(o) PROVE Goal
  BY <1>skip, <1>5 DEF CompleteLater
<1>6. CASE Disposer
  BY <1>skip, <1>6 DEF Disposer, Shutdown, Snapshot, ClearCaches, CloseEngine
<1>7. CASE UNCHANGED vars
  BY <1>skip, <1>7 DEF vars
<1> QED
  BY <1>1, <1>2, <1>3, <1>4, <1>5, <1>6, <1>7 DEF Next, Operate

(* The client implements CallContract. *)
THEOREM KeepsContract == Spec => ImplementsContract
<1>1. Init => Contract!Init
  BY DEF Init, effect, Contract!Init
<1>2. IInv /\ [Next]_vars => [Contract!Next]_(Contract!vars)
  BY ContractStep
<1> QED
  BY <1>1, <1>2, Invariance, PTL DEF Spec, ImplementsContract, Contract!Spec

-----------------------------------------------------------------------------
(* Every step of the client is a step of ClientLife or invisible to it.    *)
LEMMA LifecycleStep ==
  ASSUME IInv, [Next]_vars
  PROVE  [Lifecycle!Next]_(Lifecycle!vars)
<1> DEFINE Goal == [Lifecycle!Next]_(Lifecycle!vars)
<1> SUFFICES Goal
  OBVIOUS
<1>a. /\ \A o \in Ops : Life(o)
      /\ fut \in [Ops -> FutureState] /\ wpc \in [Ops -> WorkerPC]
      /\ \A o \in Ops : fut[o] = "queued" => ~ closed
      /\ closed \in BOOLEAN /\ (closed <=> dpc # "idle")
  BY DEF IInv, Lives, TypeOK, Disposal, NoOrphanInQueue
<1>skip. ASSUME fut' = fut, closed' = closed PROVE Goal
  BY <1>skip DEF Lifecycle!vars, place
<1>admit. ASSUME NEW o \in Ops, ~ closed, fut[o] = "none",
                 fut' = [fut EXCEPT ![o] = "queued"], closed' = closed
          PROVE  Goal
  <2>1. place[o] = "none" /\ place' = [place EXCEPT ![o] = "queued"]
    BY <1>a, <1>admit DEF place
  <2> QED
    BY <1>admit, <2>1 DEF Lifecycle!Next, Lifecycle!Admit, Lifecycle!Becomes
<1>start. ASSUME NEW o \in Ops, fut[o] = "queued",
                 fut' = [fut EXCEPT ![o] = "running"], closed' = closed
          PROVE  Goal
  <2>1. place[o] = "queued" /\ place' = [place EXCEPT ![o] = "running"]
    BY <1>a, <1>start DEF place
  <2> QED
    BY <1>a, <1>start, <2>1
    DEF Lifecycle!Next, Lifecycle!Start, Lifecycle!Becomes
<1>withdraw. ASSUME NEW o \in Ops, fut[o] = "queued",
                    fut' = [fut EXCEPT ![o] = "cancelled"], closed' = closed
             PROVE  Goal
  <2>1. place[o] = "queued" /\ place' = [place EXCEPT ![o] = "over"]
    BY <1>a, <1>withdraw DEF place
  <2> QED
    BY <1>withdraw, <2>1 DEF Lifecycle!Next, Lifecycle!Withdraw, Lifecycle!Becomes
<1>end. ASSUME NEW o \in Ops, fut[o] = "running",
               fut' = [fut EXCEPT ![o] = "finished"], closed' = closed
        PROVE  Goal
  <2>1. place[o] = "running" /\ place' = [place EXCEPT ![o] = "over"]
    BY <1>a, <1>end DEF place
  <2> QED
    BY <1>end, <2>1 DEF Lifecycle!Next, Lifecycle!End, Lifecycle!Becomes
<1> HIDE DEF Goal
<1> USE DEF callerVars, clientVars, futureVars, contextVars, workerVars,
            poolVars, disposeVars, OthersUnchanged, ClientUnchanged, Goto, Step,
            Return, CompleteFuture
<1>1. ASSUME NEW o \in Ops, Call(o) PROVE Goal
  BY <1>skip, <1>1 DEF Call
<1>2. ASSUME NEW o \in Ops, Caller(o) PROVE Goal
  <2>1. CASE Submit(o)
    <3>1. CASE closed
      BY <1>skip, <2>1, <3>1 DEF Submit, ExecutorAvailable
    <3>2. CASE ~ closed
      <4>1. fut[o] = "none"
        BY <1>a, <2>1 DEF Life, Submit
      <4> QED
        BY <1>admit, <2>1, <3>2, <4>1 DEF Submit, ExecutorAvailable
    <3> QED
      BY <3>1, <3>2
  <2>2. CASE Withdraw(o)
    <3>1. CASE fut[o] = "queued"
      BY <1>withdraw, <2>2, <3>1 DEF Withdraw, Cancelled
    <3>2. CASE fut[o] # "queued"
      <4>1. fut' = fut
        BY <1>a, <2>2, <3>2 DEF Withdraw, Cancelled
      <4> QED
        BY <1>skip, <2>2, <4>1 DEF Withdraw
    <3> QED
      BY <3>1, <3>2
  <2>3. CASE \/ AcquireSlot(o) \/ Register(o) \/ TakeResult(o) \/ Expire(o)
             \/ ReadDriver(o) \/ Interrupt(o) \/ Settle(o)
    BY <1>skip, <2>3 DEF AcquireSlot, Register, TakeResult, Expire, ReadDriver,
                         Interrupt, Settle, Defer
  <2> QED
    BY <1>2, <2>1, <2>2, <2>3 DEF Caller
<1>3. ASSUME NEW o \in Ops, Abort(o) PROVE Goal
  BY <1>skip, <1>3 DEF Abort
<1>4. ASSUME NEW o \in Ops, Worker(o) PROVE Goal
  <2>0. wpc[o] \in {"lock", "release"} => fut[o] = "running"
    BY <1>a DEF Life, FutureState
  <2>1. CASE Start(o)
    BY <1>start, <2>1 DEF Start
  <2>2. CASE Enter(o)
    <3>1. CASE o \in timedOut
      BY <1>end, <2>0, <2>2, <3>1 DEF Enter
    <3>2. CASE o \notin timedOut
      BY <1>skip, <2>2, <3>2 DEF Enter
    <3> QED
      BY <3>1, <3>2
  <2>3. CASE Release(o)
    BY <1>end, <2>0, <2>3 DEF Release
  <2>4. CASE \/ LookupLock(o) \/ Connect(o) \/ ConnectFails(o)
             \/ StatementEnds(o) \/ StatementFails(o) \/ Commit(o)
             \/ CommitFails(o) \/ Finalize(o)
    BY <1>skip, <2>4 DEF LookupLock, Connect, ConnectFails, StatementEnds,
                         StatementFails, Commit, CommitFails, Finalize
  <2> QED
    BY <1>4, <2>1, <2>2, <2>3, <2>4 DEF Worker
<1>5. ASSUME NEW o \in Ops, CompleteLater(o) PROVE Goal
  BY <1>skip, <1>5 DEF CompleteLater
<1>6. CASE Disposer
  <2>1. CASE Shutdown
    <3>1. ~ closed /\ closed'
      BY <1>a, <2>1 DEF Shutdown
    <3>2. place' = [o \in Ops |-> IF place[o] = "queued" THEN "over" ELSE place[o]]
      BY <1>a, <2>1 DEF Shutdown, Cancelled, place, FutureState
    <3> QED
      BY <2>1, <3>1, <3>2 DEF Goal, Lifecycle!Next, Lifecycle!Close, Shutdown
  <2>2. CASE \/ Snapshot \/ ClearCaches \/ \E e \in Engines : CloseEngine(e)
    BY <1>skip, <2>2 DEF Snapshot, ClearCaches, CloseEngine
  <2> QED
    BY <1>6, <2>1, <2>2 DEF Disposer
<1>7. CASE UNCHANGED vars
  BY <1>skip, <1>7 DEF vars
<1> QED
  BY <1>1, <1>2, <1>3, <1>4, <1>5, <1>6, <1>7 DEF Next, Operate

(* The client implements ClientLife: after dispose() has closed it, it     *)
(* neither admits a call nor starts one, however its threads interleave.   *)
THEOREM LifeIsKept == Spec => KeepsLife
<1>1. Init => Lifecycle!Init
  BY DEF Init, place, Lifecycle!Init
<1>2. IInv /\ [Next]_vars => [Lifecycle!Next]_(Lifecycle!vars)
  BY LifecycleStep
<1> QED
  BY <1>1, <1>2, Invariance, PTL DEF Spec, KeepsLife, Lifecycle!Spec

-----------------------------------------------------------------------------
(* A write that has expired and is not about to commit.                    *)
Stopped(o) == o \in timedOut /\ o \notin committed /\ wpc[o] # "commit"

(* It stays so: its worker compares it with the clock before the commit.   *)
LEMMA StoppedStep ==
  ASSUME TypeOK, NEW q \in Ops, Stopped(q), [Next]_vars
  PROVE  Stopped(q)'
<1>a. wpc \in [Ops -> WorkerPC]
  BY DEF TypeOK
<1> USE <1>a DEF Stopped, callerVars, clientVars, futureVars, contextVars,
            workerVars, poolVars, disposeVars, OthersUnchanged,
            ClientUnchanged, Goto, Step
<1>1. ASSUME NEW o \in Ops, Call(o) \/ Abort(o) \/ CompleteLater(o)
      PROVE  Stopped(q)'
  BY <1>1 DEF Call, Abort, CompleteLater
<1>2. ASSUME NEW o \in Ops, Caller(o) PROVE Stopped(q)'
  BY <1>2 DEF Caller, AcquireSlot, Submit, Register, TakeResult, Expire,
              ReadDriver, Interrupt, Withdraw, Settle
<1>3. ASSUME NEW o \in Ops, Worker(o) PROVE Stopped(q)'
  <2>1. CASE StatementEnds(o)
    BY <2>1 DEF StatementEnds, OutOfTime
  <2>2. CASE Commit(o) \/ CommitFails(o)
    BY <2>2 DEF Commit, CommitFails
  <2>3. CASE Start(o) \/ LookupLock(o) \/ Enter(o) \/ Connect(o)
    BY <2>3 DEF Start, LookupLock, Enter, Connect
  <2>4. CASE \/ ConnectFails(o) \/ StatementFails(o) \/ Finalize(o)
             \/ Release(o)
    BY <2>4 DEF ConnectFails, StatementFails, Finalize, Release
  <2> QED
    BY <1>3, <2>1, <2>2, <2>3, <2>4 DEF Worker
<1>4. CASE Disposer
  BY <1>4 DEF Disposer, Shutdown, Snapshot, ClearCaches, CloseEngine
<1>5. CASE UNCHANGED vars
  BY <1>5 DEF vars
<1> QED
  BY <1>1, <1>2, <1>3, <1>4, <1>5 DEF Next, Operate

(* A write that expired before its worker's last look at the clock never   *)
(* commits.                                                                *)
THEOREM ExpiredWritesStayOut == Spec => ExpiredWriteStaysOut
<1> SUFFICES ASSUME NEW o \in Writes
             PROVE  Spec => [](ExpiredInTime(o) => [](o \notin committed))
  BY DEF ExpiredWriteStaysOut
<1>1. TypeOK /\ Stopped(o) /\ [Next]_vars => Stopped(o)'
  BY OpsAssumption, StoppedStep
<1>2. ExpiredInTime(o) => Stopped(o)
  BY DEF ExpiredInTime, Stopped
<1>3. Stopped(o) => o \notin committed
  BY DEF Stopped
<1> QED
  BY <1>1, <1>2, <1>3, TypeCorrect, PTL DEF Spec

(***************************************************************************)
(* The connections: who uses one, and when the database of an in-memory    *)
(* connection is lost                                                      *)
(***************************************************************************)
Working == {"statement", "commit", "finalize", "release"}
Open == dpc \in {"idle", "snapshot", "clear"}

(* A connection of a QueuePool is idle or used by one worker.              *)
Pooled(e) ==
  /\ idle[e] \subseteq 1 .. opened[e]
  /\ \A o \in Ops :
       EngineOf[o] = e => conn[o] \notin idle[e] /\ conn[o] <= opened[e]
  /\ \A o, p \in Ops : EngineOf[o] = e /\ EngineOf[p] = e /\ conn[o] # 0
                         /\ conn[o] = conn[p] => o = p

(* As long as the caches are not cleared, the lock of an in-memory         *)
(* database is registered before any worker looks for it, and the worker   *)
(* on its connection holds it.                                             *)
Registered ==
  /\ engines \cap Static \subseteq locks
  /\ \A o \in Ops : pc[o] \in {"acquire", "submit"} \/ fut[o] # "none"
                      => EngineOf[o] \in engines
Locked(o) ==
  EngineOf[o] \in Static =>
    /\ wpc[o] \in {"lock", "connect"} \cup Working => o \in shared
    /\ wpc[o] \in {"connect"} \cup Working => o \in holding
OneHolder ==
  \A o, p \in Ops : o \in holding /\ p \in holding /\ EngineOf[o] = EngineOf[p]
                      => o = p

Connected == \A o \in Ops : conn[o] # 0 => wpc[o] \in Working
Pools == \A e \in Engines \ Static : Pooled(e)
Locks == Open => Registered /\ OneHolder /\ \A o \in Ops : Locked(o)

(* The one connection of an in-memory database, unless a call expired.     *)
NoExpiry(e) == \A o \in timedOut : EngineOf[o] # e
OneDatabase ==
  \A e \in Static :
    ~ closed /\ NoExpiry(e) =>
      opened[e] = 0 \/ (opened[e] = 1 /\ idle[e] = {1})

PInv == Connected /\ Pools /\ Locks /\ OneDatabase

-----------------------------------------------------------------------------
LEMMA InitPInv == Init => PInv
<1> SUFFICES ASSUME Init PROVE PInv
  OBVIOUS
<1> USE OpsAssumption, EnginesAssumption DEF Init
<1>1. Connected
  BY DEF Connected
<1>2. Pools
  BY DEF Pools, Pooled
<1>3. Locks
  BY DEF Locks, Registered, OneHolder, Locked, Working
<1>4. OneDatabase
  BY DEF OneDatabase
<1> QED
  BY <1>1, <1>2, <1>3, <1>4 DEF PInv

(* What the steps that do not touch a connection leave alone.              *)
LEMMA ConnectionKept ==
  ASSUME TypeOK, [Next]_vars
  PROVE  \/ UNCHANGED <<conn, idle, opened>>
         \/ \E o \in Ops :
              Connect(o) \/ ConnectFails(o) \/ Finalize(o) \/ Release(o)
         \/ \E e \in Engines : CloseEngine(e)
<1> USE DEF callerVars, clientVars, futureVars, contextVars, workerVars,
            poolVars, disposeVars, OthersUnchanged, ClientUnchanged
<1>1. ASSUME NEW o \in Ops, Call(o) \/ Abort(o) \/ CompleteLater(o)
      PROVE  UNCHANGED <<conn, idle, opened>>
  BY <1>1 DEF Call, Abort, CompleteLater
<1>2. ASSUME NEW o \in Ops, Caller(o) PROVE UNCHANGED <<conn, idle, opened>>
  BY <1>2 DEF Caller, AcquireSlot, Submit, Register, TakeResult, Expire,
              ReadDriver, Interrupt, Withdraw, Settle
<1>3. ASSUME NEW o \in Ops, Worker(o)
      PROVE  \/ UNCHANGED <<conn, idle, opened>>
             \/ Connect(o) \/ ConnectFails(o) \/ Finalize(o) \/ Release(o)
  BY <1>3 DEF Worker, Start, LookupLock, Enter, StatementEnds, StatementFails,
              Commit, CommitFails
<1>4. CASE Disposer
  BY <1>4 DEF Disposer, Shutdown, Snapshot, ClearCaches
<1>5. CASE UNCHANGED vars
  BY <1>5 DEF vars
<1> QED
  BY <1>1, <1>2, <1>3, <1>4, <1>5 DEF Next, Operate

LEMMA ConnectedStep ==
  ASSUME TypeOK, Connected, [Next]_vars
  PROVE  Connected'
<1> USE OpsAssumption DEF Connected, Working, TypeOK, WorkerPC
<1> USE DEF callerVars, clientVars, futureVars, contextVars, workerVars,
            poolVars, disposeVars, OthersUnchanged, ClientUnchanged, Step
<1>1. ASSUME NEW o \in Ops, Call(o) \/ Abort(o) \/ CompleteLater(o)
      PROVE  Connected'
  BY <1>1 DEF Call, Abort, CompleteLater
<1>2. ASSUME NEW o \in Ops, Caller(o) PROVE Connected'
  <2>1. UNCHANGED <<conn, wpc>>
    BY <1>2 DEF Caller, AcquireSlot, Submit, Register, TakeResult, Expire,
                ReadDriver, Interrupt, Withdraw, Settle
  <2> QED
    BY <2>1
<1>3. ASSUME NEW o \in Ops, Worker(o) PROVE Connected'
  <2>1. CASE Start(o) \/ LookupLock(o) \/ Enter(o)
    BY <2>1 DEF Start, LookupLock, Enter
  <2>2. CASE Connect(o)
    BY <2>2 DEF Connect
  <2>3. CASE ConnectFails(o) \/ StatementEnds(o) \/ StatementFails(o)
    BY <2>3 DEF ConnectFails, StatementEnds, StatementFails
  <2>4. CASE Commit(o) \/ CommitFails(o)
    BY <2>4 DEF Commit, CommitFails
  <2>5. CASE Finalize(o)
    BY <2>5 DEF Finalize
  <2>6. CASE Release(o)
    BY <2>6 DEF Release
  <2> QED
    BY <1>3, <2>1, <2>2, <2>3, <2>4, <2>5, <2>6 DEF Worker
<1>4. CASE Disposer
  BY <1>4 DEF Disposer, Shutdown, Snapshot, ClearCaches, CloseEngine
<1>5. CASE UNCHANGED vars
  BY <1>5 DEF vars
<1> QED
  BY <1>1, <1>2, <1>3, <1>4, <1>5 DEF Next, Operate

-----------------------------------------------------------------------------
(* A pool hands each connection to one worker at a time: only a worker     *)
(* that has none takes one, an idle one or a new one.                      *)
LEMMA PoolStep ==
  ASSUME TypeOK, Connected, Pools, [Next]_vars
  PROVE  Pools'
<1> SUFFICES ASSUME NEW e \in Engines \ Static PROVE Pooled(e)'
  BY DEF Pools
<1> USE OpsAssumption
<1>a. /\ Pooled(e) /\ conn \in [Ops -> Nat] /\ opened \in [Engines -> Nat]
      /\ idle \in [Engines -> SUBSET Nat] /\ detached \in [Engines -> Nat]
      /\ \A o \in Ops : conn[o] # 0 => wpc[o] \in Working
  BY DEF Pools, TypeOK, Connected
<1>1. CASE UNCHANGED <<conn, idle, opened>>
  BY <1>a, <1>1 DEF Pooled
<1>2. ASSUME NEW o \in Ops, Connect(o) PROVE Pooled(e)'
  <2>0. conn[o] = 0 /\ EngineOf[o] \in Engines
    BY <1>a, <1>2 DEF Connect, Step, Working
  <2>1. CASE EngineOf[o] # e
    <3>1. /\ idle'[e] = idle[e] /\ opened'[e] = opened[e]
          /\ \A p \in Ops : EngineOf[p] = e => conn'[p] = conn[p]
      BY <1>a, <1>2, <2>0, <2>1 DEF Connect
    <3> QED
      BY <1>a, <3>1 DEF Pooled
  <2>2. CASE EngineOf[o] = e
    <3>1. CASE \E n \in idle[e] : /\ conn' = [conn EXCEPT ![o] = n]
                                 /\ idle' = [idle EXCEPT ![e] = @ \ {n}]
                                 /\ UNCHANGED opened
      <4>1. PICK n \in idle[e] : /\ conn' = [conn EXCEPT ![o] = n]
                                 /\ idle' = [idle EXCEPT ![e] = @ \ {n}]
                                 /\ UNCHANGED opened
        BY <3>1
      <4>2. n \in 1 .. opened[e] /\ \A p \in Ops : EngineOf[p] = e => conn[p] # n
        BY <1>a DEF Pooled
      <4>3. idle'[e] = idle[e] \ {n} /\ opened'[e] = opened[e]
            /\ conn'[o] = n /\ \A p \in Ops \ {o} : conn'[p] = conn[p]
        BY <1>a, <4>1
      <4> QED
        BY <1>a, <4>2, <4>3 DEF Pooled
    <3>2. CASE /\ idle[e] = {} /\ idle' = idle
               /\ opened' = [opened EXCEPT ![e] = @ + 1]
               /\ conn' = [conn EXCEPT ![o] = opened[e] + 1]
      <4>1. idle'[e] = {} /\ opened'[e] = opened[e] + 1
            /\ conn'[o] = opened[e] + 1
            /\ \A p \in Ops \ {o} : conn'[p] = conn[p]
        BY <1>a, <3>2
      <4>2. \A p \in Ops : EngineOf[p] = e => conn[p] <= opened[e]
        BY <1>a DEF Pooled
      <4> QED
        BY <1>a, <4>1, <4>2 DEF Pooled
    <3> QED
      BY <1>2, <2>2, <3>1, <3>2 DEF Connect
  <2> QED
    BY <2>1, <2>2
<1>3. ASSUME NEW o \in Ops, Finalize(o) PROVE Pooled(e)'
  <2>1. /\ idle'[e] \subseteq idle[e] /\ opened' = opened
        /\ \A p \in Ops : conn'[p] \in {0, conn[p]}
    BY <1>a, <1>3 DEF Finalize
  <2>2. 0 \notin idle[e]
    BY <1>a DEF Pooled
  <2> QED
    BY <1>a, <2>1, <2>2 DEF Pooled
<1>4. ASSUME NEW o \in Ops, Release(o) PROVE Pooled(e)'
  <2>0. /\ opened' = opened /\ conn'[o] = 0
        /\ \A p \in Ops \ {o} : conn'[p] = conn[p]
    BY <1>a, <1>4 DEF Release
  <2>1. 0 \notin idle[e]
    BY <1>a DEF Pooled
  <2>2. CASE idle'[e] = idle[e]
    BY <1>a, <2>0, <2>1, <2>2 DEF Pooled
  <2>3. CASE /\ EngineOf[o] = e /\ conn[o] > detached[e]
             /\ idle'[e] = idle[e] \cup {conn[o]}
    <3>1. conn[o] # 0 /\ conn[o] \in 1 .. opened[e]
      BY <1>a, <2>3 DEF Pooled
    <3>2. \A p \in Ops \ {o} : EngineOf[p] = e => conn[p] # conn[o]
      BY <1>a, <2>3, <3>1 DEF Pooled
    <3> QED
      BY <1>a, <2>0, <2>1, <2>3, <3>1, <3>2 DEF Pooled
  <2> QED
    BY <1>a, <1>4, <2>2, <2>3 DEF Release
<1>5. ASSUME NEW d \in Engines, CloseEngine(d) PROVE Pooled(e)'
  <2>1. idle'[e] \in {{}, idle[e]} /\ UNCHANGED <<conn, opened>>
    BY <1>a, <1>5 DEF CloseEngine
  <2> QED
    BY <1>a, <2>1 DEF Pooled
<1>6. ASSUME NEW o \in Ops, ConnectFails(o) PROVE Pooled(e)'
  <2>1. idle'[e] = idle[e] /\ UNCHANGED <<conn, opened>>
    BY <1>a, <1>6 DEF ConnectFails
  <2> QED
    BY <1>a, <2>1 DEF Pooled
<1> QED
  BY ConnectionKept, <1>1, <1>2, <1>3, <1>4, <1>5, <1>6

(* Only the disposer touches its own state and closes the client, and an   *)
(* expiry is for ever.                                                     *)
LEMMA OnlyDisposer ==
  ASSUME [Next]_vars
  PROVE  \/ UNCHANGED <<disposeVars, closed>> /\ timedOut \subseteq timedOut'
         \/ Disposer
<1> USE DEF clientVars, futureVars, contextVars, OthersUnchanged,
            ClientUnchanged
<1> DEFINE Goal == /\ UNCHANGED <<disposeVars, closed>>
                   /\ timedOut \subseteq timedOut'
<1>1. ASSUME NEW o \in Ops, Call(o) \/ Abort(o) \/ CompleteLater(o) PROVE Goal
  BY <1>1 DEF Call, Abort, CompleteLater
<1>2. ASSUME NEW o \in Ops, Caller(o) PROVE Goal
  BY <1>2 DEF Caller, AcquireSlot, Submit, Register, TakeResult, Expire,
              ReadDriver, Interrupt, Withdraw, Settle
<1>3. ASSUME NEW o \in Ops, Worker(o) PROVE Goal
  BY <1>3 DEF Worker, Start, LookupLock, Enter, Connect, ConnectFails,
              StatementEnds, StatementFails, Commit, CommitFails, Finalize,
              Release
<1>4. CASE UNCHANGED vars
  BY <1>4 DEF vars
<1> QED
  BY <1>1, <1>2, <1>3, <1>4 DEF Next, Operate

-----------------------------------------------------------------------------
(* Until dispose clears the caches, whoever works on an in-memory database *)
(* holds its lock.                                                         *)
LEMMA LockStep ==
  ASSUME TypeOK, Lives, Locks, [Next]_vars
  PROVE  Locks'
<1> SUFFICES ASSUME Open' PROVE (Registered /\ OneHolder /\ \A q \in Ops : Locked(q))'
  BY DEF Locks
<1> DEFINE Goal == (Registered /\ OneHolder /\ \A q \in Ops : Locked(q))'
<1> SUFFICES Goal
  OBVIOUS
<1> USE OpsAssumption
<1>a. /\ pc \in [Ops -> CallerPC] /\ wpc \in [Ops -> WorkerPC]
      /\ fut \in [Ops -> FutureState] /\ dpc \in {"idle", "snapshot", "clear", "close", "done"}
      /\ \A o \in Ops : wpc[o] = "none" <=> fut[o] \in {"none", "queued", "cancelled"}
      /\ holding \subseteq Ops
  BY DEF TypeOK, Lives, Life
<1> USE DEF callerVars, clientVars, futureVars, contextVars, workerVars,
            poolVars, disposeVars, OthersUnchanged, ClientUnchanged, Goto, Step,
            Return, CompleteFuture, CallerPC, WorkerPC, FutureState
<1>b. CASE Disposer
  <2>1. Open /\ UNCHANGED <<pc, engines, locks, workerVars>>
        /\ \A o \in Ops : fut'[o] # "none" => fut[o] # "none"
    <3>1. CASE Shutdown
      BY <1>a, <3>1 DEF Open, Shutdown, Cancelled
    <3>2. CASE Snapshot
      BY <1>a, <3>2 DEF Open, Snapshot
    <3>3. CASE ClearCaches
      BY <1>a, <3>3 DEF Open, ClearCaches
    <3>4. ASSUME NEW e \in Engines, CloseEngine(e) PROVE FALSE
      BY <3>4 DEF Open, CloseEngine
    <3> QED
      BY <1>b, <3>1, <3>2, <3>3, <3>4 DEF Disposer
  <2> QED
    BY <2>1 DEF Locks, Registered, OneHolder, Locked, Working
<1>c. CASE dpc' = dpc
  <2>a. Registered /\ OneHolder /\ \A q \in Ops : Locked(q)
    BY <1>c DEF Locks, Open
  <2>same. ASSUME UNCHANGED <<engines, locks, workerVars>>,
                  \A q \in Ops : pc'[q] \in {"acquire", "submit"} \/ fut'[q] # "none"
                    => pc[q] \in {"acquire", "submit"} \/ fut[q] # "none"
           PROVE  Goal
    BY <2>a, <2>same DEF Registered, OneHolder, Locked, Working
  <2>work. ASSUME NEW o \in Ops, UNCHANGED <<pc, engines, locks, shared, holding>>,
                  NEW from \in {"connect"} \cup Working, NEW to \in Working,
                  wpc[o] = from, wpc' = [wpc EXCEPT ![o] = to], fut' = fut
           PROVE  Goal
    BY <1>a, <2>a, <2>work DEF Registered, OneHolder, Locked, Working
  <2>1. ASSUME NEW o \in Ops, Call(o) PROVE Goal
    <3>1. UNCHANGED workerVars /\ UNCHANGED fut
      BY <2>1 DEF Call
    <3>2. Registered'
      BY <1>a, <2>a, <2>1 DEF Call, Registered
    <3> QED
      BY <2>a, <3>1, <3>2 DEF OneHolder, Locked
  <2>2. ASSUME NEW o \in Ops, Caller(o) PROVE Goal
    <3>1. UNCHANGED <<engines, locks, workerVars>>
      BY <2>2 DEF Caller, AcquireSlot, Submit, Register, TakeResult, Expire,
                  ReadDriver, Interrupt, Withdraw, Settle
    <3>2. \A q \in Ops : pc'[q] \in {"acquire", "submit"} \/ fut'[q] # "none"
            => pc[q] \in {"acquire", "submit"} \/ fut[q] # "none"
      BY <1>a, <2>2 DEF Caller, AcquireSlot, Submit, Register, TakeResult,
                Expire, ReadDriver, Interrupt, Withdraw, Settle, Cancelled
    <3> QED
      BY <2>same, <3>1, <3>2
  <2>3. ASSUME NEW o \in Ops, Abort(o) \/ CompleteLater(o) PROVE Goal
    <3>1. UNCHANGED <<engines, locks, workerVars, fut>>
          /\ \A q \in Ops : pc'[q] \in {"acquire", "submit"}
               => pc[q] \in {"acquire", "submit"}
      BY <1>a, <2>3 DEF Abort, CompleteLater
    <3> QED
      BY <2>same, <3>1
  <2>4. ASSUME NEW o \in Ops, Worker(o) PROVE Goal
    <3>1. CASE Start(o)
      BY <1>a, <2>a, <3>1 DEF Start, Registered, OneHolder, Locked, Working
    <3>2. CASE LookupLock(o)
      <4>1. EngineOf[o] \in Static => o \in shared'
        BY <1>a, <2>a, <3>2 DEF LookupLock, Registered
      <4>2. UNCHANGED <<pc, fut, engines, locks, holding>>
            /\ shared \subseteq shared' /\ wpc' = [wpc EXCEPT ![o] = "lock"]
        BY <3>2 DEF LookupLock
      <4> QED
        BY <1>a, <2>a, <4>1, <4>2 DEF Registered, OneHolder, Locked, Working
    <3>3. CASE Enter(o)
      <4>1. UNCHANGED <<pc, engines, locks>>
            /\ (\A q \in Ops : fut'[q] # "none" => fut[q] # "none")
        BY <1>a, <3>3 DEF Enter
      <4>2. OneHolder'
        BY <1>a, <2>a, <3>3 DEF Enter, OneHolder, LockFree
      <4>3. \A q \in Ops : Locked(q)'
        BY <1>a, <2>a, <3>3 DEF Enter, Locked, Working
      <4> QED
        BY <2>a, <4>1, <4>2, <4>3 DEF Registered
    <3>4. CASE Connect(o) \/ ConnectFails(o)
      BY <2>work, <3>4 DEF Connect, ConnectFails, Working
    <3>5. CASE StatementEnds(o) \/ StatementFails(o)
      BY <2>work, <3>5 DEF StatementEnds, StatementFails, Working
    <3>6. CASE Commit(o) \/ CommitFails(o) \/ Finalize(o)
      BY <2>work, <3>6 DEF Commit, CommitFails, Finalize, Working
    <3>7. CASE Release(o)
      <4>1. UNCHANGED <<pc, engines, locks>> /\ wpc' = [wpc EXCEPT ![o] = "ended"]
            /\ shared' = shared \ {o} /\ holding' = holding \ {o}
            /\ (\A q \in Ops : fut'[q] # "none" => fut[q] # "none")
        BY <1>a, <3>7 DEF Release
      <4> QED
        BY <1>a, <2>a, <4>1 DEF Registered, OneHolder, Locked, Working
    <3> QED
      BY <2>4, <3>1, <3>2, <3>3, <3>4, <3>5, <3>6, <3>7 DEF Worker
  <2>5. CASE UNCHANGED vars
    <3>1. UNCHANGED <<engines, locks, workerVars, pc, fut>>
      BY <2>5 DEF vars
    <3> QED
      BY <2>same, <3>1
  <2> QED
    BY <1>b, <2>1, <2>2, <2>3, <2>4, <2>5 DEF Next, Operate
<1>d. dpc' = dpc \/ Disposer
  BY OnlyDisposer DEF disposeVars
<1> QED
  BY <1>b, <1>c, <1>d

-----------------------------------------------------------------------------
(* The only connection of an in-memory database is closed by Finalize or a *)
(* ping alone while the client is open, and only after a call on it        *)
(* expired.                                                                *)
LEMMA DatabaseStep ==
  ASSUME TypeOK, Disposal, OneDatabase, [Next]_vars
  PROVE  OneDatabase'
<1> USE OpsAssumption, EnginesAssumption
<1> SUFFICES ASSUME NEW e \in Static, ~ closed', NoExpiry(e)'
             PROVE  opened'[e] = 0 \/ (opened'[e] = 1 /\ idle'[e] = {1})
  BY DEF OneDatabase
<1> USE DEF callerVars, clientVars, futureVars, contextVars, workerVars,
            poolVars, disposeVars, OthersUnchanged, ClientUnchanged, Goto, Step
<1>a. timedOut \subseteq timedOut' /\ (closed => closed')
  <2>1. CASE Disposer
    <3>1. timedOut' = timedOut
      BY <2>1 DEF Disposer, Shutdown, Snapshot, ClearCaches, CloseEngine
    <3>2. closed' = TRUE \/ closed' = closed
      BY <2>1 DEF Disposer, Shutdown, Snapshot, ClearCaches, CloseEngine
    <3> QED
      BY <3>1, <3>2
  <2> QED
    BY <2>1, OnlyDisposer
<1>b. /\ ~ closed /\ NoExpiry(e)
      /\ opened[e] = 0 \/ (opened[e] = 1 /\ idle[e] = {1})
  BY <1>a DEF OneDatabase, NoExpiry
<1>t. /\ opened \in [Engines -> Nat] /\ idle \in [Engines -> SUBSET Nat]
      /\ e \in Engines /\ e \notin Remote
  BY DEF TypeOK
<1>1. CASE UNCHANGED <<conn, idle, opened>>
  BY <1>b, <1>1
<1>2. ASSUME NEW o \in Ops, Connect(o)
      PROVE  opened'[e] = 0 \/ (opened'[e] = 1 /\ idle'[e] = {1})
  <2>1. CASE EngineOf[o] # e
    BY <1>b, <1>t, <1>2, <2>1 DEF Connect
  <2>2. CASE EngineOf[o] = e
    <3>1. CASE idle[e] = {}
      <4>1. opened[e] = 0
        BY <1>b, <3>1
      <4>2. /\ opened' = [opened EXCEPT ![e] = @ + 1]
            /\ idle' = [idle EXCEPT ![e] = {opened[e] + 1}]
        BY <1>2, <2>2, <3>1 DEF Connect
      <4> QED
        BY <1>t, <4>1, <4>2
    <3>2. CASE idle[e] # {}
      <4>1. UNCHANGED <<opened, idle>>
        BY <1>2, <2>2, <3>2 DEF Connect
      <4> QED
        BY <1>b, <4>1
    <3> QED
      BY <3>1, <3>2
  <2> QED
    BY <2>1, <2>2
<1>3. ASSUME NEW o \in Ops, Finalize(o)
      PROVE  opened'[e] = 0 \/ (opened'[e] = 1 /\ idle'[e] = {1})
  <2>1. EngineOf[o] = e => ~ Unconfirmed(o) /\ ~ ResetMayFail(o)
    BY <1>b, <1>t DEF NoExpiry, Unconfirmed, ResetMayFail, Interruptible,
                     TypeOK
  <2>2. idle'[e] = idle[e] /\ opened' = opened
    BY <1>t, <1>3, <2>1 DEF Finalize
  <2> QED
    BY <1>b, <2>2
<1>4. ASSUME NEW o \in Ops, Release(o)
      PROVE  opened'[e] = 0 \/ (opened'[e] = 1 /\ idle'[e] = {1})
  <2>1. idle'[e] = idle[e] /\ opened' = opened
    BY <1>t, <1>4 DEF Release
  <2> QED
    BY <1>b, <2>1
<1>5. ASSUME NEW d \in Engines, CloseEngine(d) PROVE FALSE
  BY <1>b, <1>5 DEF CloseEngine, Disposal
<1>6. ASSUME NEW o \in Ops, ConnectFails(o)
      PROVE  opened'[e] = 0 \/ (opened'[e] = 1 /\ idle'[e] = {1})
  <2>1. EngineOf[o] = e => ~ Interruptible(e)
    BY <1>b DEF NoExpiry, Interruptible
  <2>2. idle'[e] = idle[e] /\ opened' = opened
    BY <1>t, <1>6, <2>1 DEF ConnectFails
  <2> QED
    BY <1>b, <2>2
<1> QED
  BY ConnectionKept, <1>1, <1>2, <1>3, <1>4, <1>5, <1>6

-----------------------------------------------------------------------------
THEOREM PoolInvariance == Spec => []PInv
<1>1. IInv /\ PInv /\ [Next]_vars => PInv'
  BY ConnectedStep, PoolStep, LockStep, DatabaseStep DEF IInv, PInv
<1> QED
  BY InitPInv, Invariance, <1>1, PTL DEF Spec

(* Two workers of an open client never have the same connection, whether   *)
(* the pool keeps them apart or the operation lock does.                   *)
THEOREM NobodySharesAConnection == Spec => []ConnectionsExclusive
<1>1. IInv /\ PInv => ConnectionsExclusive
  <2> SUFFICES ASSUME IInv, PInv, Open, NEW e \in Engines,
                      NEW n \in 1 .. Cardinality(Ops)
               PROVE  Cardinality(UsersOf(e, n)) <= 1
    BY DEF ConnectionsExclusive, Open
  <2> USE OpsAssumption
  <2>1. ASSUME NEW o \in UsersOf(e, n), NEW p \in UsersOf(e, n) PROVE o = p
    <3>1. /\ o \in Ops /\ EngineOf[o] = e /\ conn[o] = n /\ conn[o] # 0
          /\ p \in Ops /\ EngineOf[p] = e /\ conn[p] = n /\ conn[p] # 0
      BY DEF UsersOf
    <3>2. CASE e \in Static
      <4>1. o \in holding /\ p \in holding
        BY <3>1, <3>2 DEF PInv, Connected, Locks, Locked
      <4> QED
        BY <3>1, <4>1 DEF PInv, Locks, OneHolder
    <3>3. CASE e \notin Static
      BY <3>1, <3>3 DEF PInv, Pools, Pooled
    <3> QED
      BY <3>2, <3>3
  <2>2. CASE UsersOf(e, n) = {}
    BY <2>2, FS_EmptySet
  <2>3. CASE UsersOf(e, n) # {}
    <3>1. PICK o : UsersOf(e, n) = {o}
      BY <2>1, <2>3
    <3>2. Cardinality({o}) = 1
      BY FS_Singleton
    <3> QED
      BY <3>1, <3>2
  <2> QED
    BY <2>2, <2>3
<1> QED
  BY <1>1, Invariance, PoolInvariance, PTL

(* An in-memory database outlives every call on it that ends in time,      *)
(* fails or is refused.                                                    *)
THEOREM DatabaseOutlivesItsCalls == Spec => []DatabaseLostByExpiryOnly
<1>1. IInv /\ PInv => DatabaseLostByExpiryOnly
  <2> SUFFICES ASSUME IInv, PInv, NEW e \in Static, ~ closed, opened[e] > 1
               PROVE  \E o \in timedOut : EngineOf[o] = e
    BY DEF DatabaseLostByExpiryOnly
  <2>1. ~ NoExpiry(e)
    BY DEF PInv, OneDatabase
  <2> QED
    BY <2>1 DEF NoExpiry
<1> QED
  BY <1>1, Invariance, PoolInvariance, PTL
=============================================================================
