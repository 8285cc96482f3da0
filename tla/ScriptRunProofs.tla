--------------------------- MODULE ScriptRunProofs ---------------------------
(***************************************************************************)
(* Proofs about ScriptRun for every registry, every script and every       *)
(* sequence of changes to the entitlements                                 *)
(***************************************************************************)
EXTENDS ScriptRun, TLAPS

(* Nothing has run before the engine is chosen.                            *)
Untouched == ran = 0 /\ pending = {} /\ durable = {} /\ ~ began

(* While the script runs, on a connection it was checked for, its effects  *)
(* are those of the statements that ran; if the database is transactional  *)
(* none of them is durable, unless the script is a single statement; and a *)
(* transaction that DML began stays open on SQLite.                        *)
Running ==
  /\ target \in Writable /\ AllowWrites
  /\ WellFormed /\ DdlIsAtomic(target)
  /\ \A i \in All : script[i] # "empty"
  /\ pending \cup durable = 1 .. ran
  /\ Transactional /\ Len(script) > 1 => durable = {}
  /\ ran = 0 => durable = {}
  /\ Dialect = "sqlite" /\ script[1] = "dml" /\ ran > 0 =>
       began /\ durable = {}

(* What is true of a script that has ended.                                *)
Ended ==
  /\ AllOrNothing /\ AnswerIsTrue
  /\ ran > 0 => AllowWrites /\ target \in Writable /\ DdlIsAtomic(target)

Phases ==
  /\ pc = "gate" => Untouched /\ target = NoName
  /\ pc = "check" => Untouched /\ target = NoName /\ MayWrite(name)
  /\ op = "execute" => Len(script) = 1
  /\ pc = "engine" =>
       Untouched /\ target = NoName /\ MayWrite(name) /\ WellFormed
       /\ DdlIsAtomic(name) /\ name \in Names
  /\ pc = "run" => Running
  /\ pc = "done" => Ended
  /\ pc # "done" => answer = "none"
  /\ pc \in {"check", "engine"} => name \in Names

IInv == TypeOK /\ Phases

LEMMA InitIInv == Init => IInv
<1> SUFFICES ASSUME Init PROVE IInv
  OBVIOUS
<1>1. Len(script) \in Nat
  BY ScriptsAssumption DEF Init
<1>2. ran \in 0 .. MaxStatements /\ ran <= Len(script)
  BY <1>1, ScriptsAssumption DEF Init
<1>3. pending \subseteq 1 .. ran /\ durable \subseteq 1 .. ran
  BY DEF Init
<1>4. TypeOK
  BY <1>2, <1>3 DEF Init, TypeOK
<1> QED
  BY <1>4 DEF Init, IInv, Phases, Untouched

(* A name that was resolved resolves to itself or not at all.              *)
LEMMA ResolvedAgain ==
  ASSUME NEW c \in Names PROVE Resolved(c) \in {c, NoName}
BY RegistryAssumption DEF Resolved, ResolvedUnder

LEMMA BeforeRunStep ==
  ASSUME IInv, Gate \/ Check \/ Engine PROVE IInv'
<1> USE DEF IInv, TypeOK, Phases, Untouched, inputs, effects, Answer
<1>0. /\ Len(script) \in Nat /\ MaxStatements \in Nat \ {0}
      /\ script \in Seq(Kinds)
  BY ScriptsAssumption
<1>1. CASE Gate
  <2>1. CASE Resolved(asked) # NoName /\ MayWrite(Resolved(asked))
    <3>1. name' \in Names /\ MayWrite(name') /\ pc' = "check"
      BY <1>1, <2>1, DialectsAssumption DEF Gate, MayWrite
    <3> QED
      BY <1>1, <2>1, <3>1 DEF Gate, MayWrite
  <2>2. CASE ~ (Resolved(asked) # NoName /\ MayWrite(Resolved(asked)))
    BY <1>1, <2>2 DEF Gate, Ended, AllOrNothing, AnswerIsTrue, All
  <2> QED
    BY <2>1, <2>2
<1>2. CASE Check
  <2>1. CASE pc' = "done"
    BY <1>2, <2>1 DEF Check, Ended, AllOrNothing, AnswerIsTrue, All
  <2>2. CASE pc' # "done"
    BY <1>2, <2>2 DEF Check, MayWrite, WellFormed, DdlIsAtomic
  <2> QED
    BY <2>1, <2>2
<1>3. CASE Engine
  <2>1. CASE pc' = "done"
    <3>1. CASE EngineName = NoName
      BY <1>3, <2>1, <3>1 DEF Engine, Ended, AllOrNothing, AnswerIsTrue, All
    <3>2. CASE EngineName # NoName
      <4>1. /\ script[1] = "empty" /\ answer' = "ok" /\ durable' = {}
            /\ ran' = 0 /\ target' = EngineName /\ EngineName \in Names
        BY <1>3, <2>1, <3>2, ResolvedAgain DEF Engine, EngineName
      <4>2. op = "execute" /\ Len(script) = 1
        BY <1>0, <1>3, <4>1 DEF Engine, WellFormed
      <4>3. Sent = {}
        BY <4>1, <4>2 DEF Sent, All
      <4>4. Sent' = Sent /\ All' = All
        BY <1>3 DEF Engine, Sent, All
      <4>5. Ended'
        BY <4>1, <4>3, <4>4 DEF Ended, AllOrNothing, AnswerIsTrue
      <4> QED
        BY <1>3, <2>1, <4>1, <4>5 DEF Engine
    <3> QED
      BY <3>1, <3>2
  <2>2. CASE pc' # "done"
    <3>1. target' = name /\ pc' = "run" /\ name \in Names
      BY <1>3, <2>2, ResolvedAgain DEF Engine, EngineName
    <3>2. MayWrite(target)' /\ WellFormed' /\ DdlIsAtomic(target)'
      BY <1>3, <2>2, <3>1 DEF Engine, MayWrite, WellFormed, DdlIsAtomic
    <3>3. ran' = 0 /\ durable' = {} /\ pending' = {} /\ 1 .. ran' = {}
      BY <1>3, <2>2 DEF Engine
    <3>4. (\A i \in All : script[i] # "empty")'
      <4>1. UNCHANGED <<op, script>> /\ script[1] # "empty" /\ WellFormed
        BY <1>3, <2>2, <3>1, RegistryAssumption DEF Engine, EngineName
      <4>2. CASE op = "execute"
        <5>1. Len(script) = 1
          BY <4>2
        <5>2. All' = {1}
          BY <4>1, <5>1 DEF All
        <5> QED
          BY <4>1, <5>2
      <4>3. CASE op = "execute_script"
        BY <4>1, <4>3 DEF All, WellFormed
      <4> QED
        BY <4>2, <4>3
    <3>5. Running'
      BY <3>2, <3>3, <3>4 DEF Running, MayWrite
    <3> QED
      BY <1>3, <2>2, <3>1, <3>5 DEF Engine
  <2> QED
    BY <2>1, <2>2
<1> QED
  BY <1>1, <1>2, <1>3

LEMMA ExecuteStep ==
  ASSUME IInv, Execute PROVE IInv'
<1> DEFINE i == ran + 1
<1> USE DEF IInv, TypeOK, Phases, inputs
<1>0. /\ Len(script) \in Nat /\ MaxStatements \in Nat \ {0}
      /\ script \in Seq(Kinds)
  BY ScriptsAssumption
<1>1. /\ pc = "run" /\ Running /\ i <= Len(script) /\ ran' = i
      /\ UNCHANGED <<entitled, op, script, asked, pc, name, target, answer>>
  BY DEF Execute
<1>2. Len(script) <= MaxStatements /\ script[i] \in Kinds /\ ran \in Nat
  BY <1>0, <1>1 DEF Running, WellFormed
<1>3. pending' \cup durable' = 1 .. i
  BY <1>1, <1>2 DEF Execute, Running
<1>4. TypeOK'
  <2>1. pending' \subseteq 1 .. ran' /\ durable' \subseteq 1 .. ran'
    BY <1>1, <1>3
  <2>2. ran' \in 0 .. MaxStatements /\ ran' <= Len(script)
    BY <1>0, <1>1, <1>2
  <2>3. began' \in BOOLEAN
    BY DEF Execute
  <2> QED
    BY <1>1, <2>1, <2>2, <2>3
<1>5. WellFormed' /\ DdlIsAtomic(target)' /\ target' \in Writable
  BY <1>1 DEF Running, WellFormed, DdlIsAtomic
<1>6. Transactional /\ Len(script) > 1 => durable' = {}
  <2> SUFFICES ASSUME Transactional, Len(script) > 1 PROVE durable' = {}
    OBVIOUS
  <2>1. durable = {}
    BY <1>1 DEF Running
  <2>2. ~ CommitsItself(script[i])
    BY <1>0, <1>1, <1>2
    DEF CommitsItself, Transactional, Running, DdlIsAtomic, Dialect, All
  <2>3. began \/ Begins(script[i])
    BY <1>0, <1>1, <1>2 DEF Begins, Transactional, Running
  <2> QED
    BY <2>1, <2>2, <2>3 DEF Execute
<1>7. Dialect = "sqlite" /\ script[1] = "dml" => began' /\ durable' = {}
  <2> SUFFICES ASSUME Dialect = "sqlite", script[1] = "dml"
               PROVE  began' /\ durable' = {}
    OBVIOUS
  <2>1. durable = {} /\ (began \/ Begins(script[i]))
    BY <1>1, <1>2 DEF Running, Begins
  <2>2. ~ CommitsItself(script[i])
    BY DEF CommitsItself
  <2> QED
    BY <2>1, <2>2 DEF Execute
<1>8. Running'
  BY <1>1, <1>2, <1>3, <1>5, <1>6, <1>7
  DEF Running, Transactional, Dialect, All
<1> QED
  BY <1>1, <1>4, <1>8

LEMMA EndStep ==
  ASSUME IInv, ExecuteFails \/ CommitFails \/ Commit PROVE IInv'
<1> USE DEF IInv, TypeOK, Phases, inputs, Answer
<1>0. /\ Len(script) \in Nat /\ MaxStatements \in Nat \ {0}
      /\ script \in Seq(Kinds)
  BY ScriptsAssumption
<1>1. /\ pc = "run" /\ Running /\ pc' = "done" /\ answer' \in {"ok", "failed"}
      /\ UNCHANGED <<entitled, op, script, asked, name, target>>
      /\ pending' = {} /\ began' = FALSE
  BY DEF ExecuteFails, CommitFails, Commit, Rollback, KeepPending
<1>2. \/ ran' = ran /\ durable' \in {durable, durable \cup pending}
      \/ /\ ran' = ran + 1 /\ ran < Len(script)
         /\ durable' = durable \cup pending \cup {ran + 1}
         /\ CommitsItself(script[ran + 1])
  BY <1>0 DEF ExecuteFails, CommitFails, Commit, Rollback, KeepPending
<1>3. TypeOK'
  <2>1. ran \in Nat /\ Len(script) <= MaxStatements
    BY <1>0, <1>1 DEF Running, WellFormed
  <2>2. ran' \in 0 .. MaxStatements /\ ran' <= Len(script)
    BY <1>0, <1>2, <2>1
  <2>3. durable' \subseteq 1 .. ran'
    <3>1. durable \subseteq 1 .. ran /\ pending \subseteq 1 .. ran
      OBVIOUS
    <3>2. 1 .. ran \subseteq 1 .. (ran + 1) /\ ran + 1 \in 1 .. (ran + 1)
      BY <2>1
    <3>3. CASE ran' = ran /\ durable' \in {durable, durable \cup pending}
      BY <3>1, <3>3
    <3>4. CASE ran' = ran + 1 /\ durable' = durable \cup pending \cup {ran + 1}
      BY <3>1, <3>2, <3>4
    <3> QED
      BY <1>2, <3>3, <3>4
  <2> QED
    BY <1>1, <2>2, <2>3
<1>4. ASSUME ExecuteFails
      PROVE  AllOrNothing' /\ AnswerIsTrue'
  <2>1. ran < Len(script) /\ answer' = "failed" /\ script[ran + 1] \in Kinds
    BY <1>0, <1>4 DEF ExecuteFails
  <2>2. ASSUME Transactional
        PROVE  \/ durable' = {}
               \/ /\ durable' = All /\ ran' = Len(script)
                  /\ CommitsItself(script[ran + 1])
    <3>1. CASE Len(script) > 1
      <4>1. ~ CommitsItself(script[ran + 1])
        BY <1>0, <1>1, <2>1, <2>2, <3>1
        DEF CommitsItself, Transactional, Running, DdlIsAtomic, Dialect, All
      <4> QED
        BY <1>1, <1>4, <2>2, <3>1, <4>1 DEF ExecuteFails, Rollback, Running
    <3>2. CASE ~ (Len(script) > 1)
      <4>1. ran = 0 /\ Len(script) = 1
        <5> DEFINE n == Len(script)
        <5>1. /\ n \in Nat /\ ran \in 0 .. MaxStatements /\ MaxStatements \in Nat
              /\ ran < n /\ ~ (n > 1)
          BY <1>0, <2>1, <3>2
        <5> HIDE DEF n, IInv, TypeOK, Phases
        <5>2. ran = 0 /\ n = 1
          BY <5>1
        <5> QED
          BY <5>2 DEF n
      <4>2. pending = {} /\ durable = {}
        BY <1>1, <4>1 DEF Running
      <4>3. All = {1}
        BY <4>1 DEF All
      <4> QED
        BY <1>2, <4>1, <4>2, <4>3
    <3> QED
      BY <3>1, <3>2
  <2>3. UNCHANGED <<Transactional, Remote, All, Len(script)>>
    BY <1>1 DEF Transactional, Remote, Dialect, All
  <2>4. CommitsItself(script[ran + 1]) => Remote
    BY DEF CommitsItself, Remote
  <2> QED
    BY <1>1, <2>1, <2>2, <2>3, <2>4
    DEF AllOrNothing, AnswerIsTrue, EndReached
<1>5. ASSUME CommitFails
      PROVE  AllOrNothing' /\ AnswerIsTrue'
  <2>1. /\ answer' = "failed" /\ ran = Len(script) /\ ran' = ran
        /\ \/ durable' = durable
           \/ Remote /\ durable' = durable \cup pending
    BY <1>5 DEF CommitFails, Rollback, KeepPending
  <2>2. Transactional => durable \in {{}, All}
    <3>1. CASE Len(script) > 1
      BY <1>1, <3>1 DEF Running
    <3>2. CASE ~ (Len(script) > 1)
      <4>1. Len(script) = 1 /\ 1 .. ran = {1} /\ All = {1}
        BY <1>0, <1>1, <2>1, <3>2 DEF Running, WellFormed, All
      <4> QED
        BY <4>1
    <3> QED
      BY <3>1, <3>2
  <2>3. durable \cup pending = All
    BY <1>1, <2>1 DEF Running, All
  <2>4. Transactional /\ ~ Remote => durable = {}
    <3>1. Len(script) > 0
      BY <1>0, <1>1 DEF Running, WellFormed
    <3> QED
      BY <1>0, <1>1, <2>1, <3>1 DEF Running, Transactional, Remote
  <2>5. UNCHANGED <<Transactional, Remote, All, Len(script)>>
    BY <1>1 DEF Transactional, Remote, Dialect, All
  <2> QED
    BY <1>1, <2>1, <2>2, <2>3, <2>4, <2>5
    DEF AllOrNothing, AnswerIsTrue, EndReached
<1>6. ASSUME Commit
      PROVE  AllOrNothing' /\ AnswerIsTrue'
  <2>1. durable' = All /\ answer' = "ok"
    BY <1>1, <1>6 DEF Commit, KeepPending, Running, All
  <2>2. Sent' = All /\ All' = All
    BY <1>1 DEF Running, Sent, All
  <2> QED
    BY <1>1, <2>1, <2>2 DEF AllOrNothing, AnswerIsTrue
<1>7. AllOrNothing' /\ AnswerIsTrue'
  BY <1>4, <1>5, <1>6
<1>8. (AllowWrites /\ target \in Writable /\ DdlIsAtomic(target))'
  BY <1>1 DEF Running, DdlIsAtomic
<1> QED
  BY <1>1, <1>3, <1>7, <1>8 DEF Ended

LEMMA StutterStep ==
  ASSUME IInv, Regrant \/ UNCHANGED vars PROVE IInv'
<1>1. /\ entitled' \in Grants
      /\ UNCHANGED <<op, script, asked, pc, name, target, ran, began, pending,
                     durable, answer>>
  BY DEF Regrant, vars, inputs, effects, IInv, TypeOK
<1> QED
  BY <1>1
  DEF IInv, TypeOK, Phases, Untouched, Running, Ended, AllOrNothing,
      AnswerIsTrue, EndReached, Remote, Transactional, Dialect, All, Sent,
      WellFormed,
      DdlIsAtomic, MayWrite

THEOREM ScriptInvariance == Spec => []IInv
<1>1. IInv /\ [Next]_vars => IInv'
  BY BeforeRunStep, ExecuteStep, EndStep, StutterStep DEF Next
<1> QED
  BY InitIInv, <1>1, PTL DEF Spec

(* The types hold; no statement is undone and kept at once.                *)
THEOREM ScriptTyped == Spec => []TypeOK
<1>1. IInv => TypeOK
  BY DEF IInv
<1> QED
  BY <1>1, ScriptInvariance, PTL

(* A script leaves all of its statements or none behind, for scripts of    *)
(* any length, wherever the code can know that the database runs them in   *)
(* one transaction.                                                        *)
THEOREM ScriptAtomic == Spec => []AllOrNothing
<1>1. IInv => AllOrNothing
  BY DEF IInv, TypeOK, Phases, Ended, AllOrNothing
<1> QED
  BY <1>1, ScriptInvariance, PTL

(* What the caller is told agrees with what took effect; also a failure,   *)
(* but for a server whose answer to the end of the transaction was lost.   *)
THEOREM ScriptAnswers == Spec => []AnswerIsTrue
<1>1. IInv => AnswerIsTrue
  BY DEF IInv, TypeOK, Phases, Ended, AnswerIsTrue
<1> QED
  BY <1>1, ScriptInvariance, PTL

(* No statement runs on a connection outside the allowlist, or on one the  *)
(* script was not checked for, however the entitlements change.            *)
THEOREM ScriptPlacement == Spec => []OnlyWhereChecked
<1>1. IInv => OnlyWhereChecked
  BY DEF IInv, TypeOK, Phases, Ended, Untouched, Running, OnlyWhereChecked
<1> QED
  BY <1>1, ScriptInvariance, PTL
=============================================================================
