------------------------------ MODULE ScriptRun ------------------------------
(***************************************************************************)
(* execute and execute_script: the gate that decides where a write may     *)
(* go, the checks of the statements, and the statements one after the      *)
(* other in what should be one transaction.  execute is given one.         *)
(*                                                                         *)
(* What a database does to the transaction when it runs a statement is     *)
(* modelled by dialect.  Who waits for the script and for how long is the  *)
(* subject of SqlRun; here a script that runs out of time is one that      *)
(* fails.                                                                  *)
(***************************************************************************)
EXTENDS Entitlement

CONSTANTS
  DialectOf,     \* the dialect of each of them
  AllowWrites,   \* SqlApi.allow_writes
  Writable,      \* SqlApi._writable_connections
  MaxStatements, \* SqlApi.max_script_statements
  Scripts        \* the scripts callers send

Dialects == {"sqlite", "postgres", "mysql", "mssql", "oracle"}

(* "ddl" has one of the first keywords the code knows as DDL; "other" is   *)
(* what a database treats like DDL under another keyword, GRANT or         *)
(* ANALYZE; "refused" does not pass the checks of a single statement;      *)
(* "empty" comes with an empty list of parameters.                         *)
Kinds == {"dml", "ddl", "other", "refused", "empty"}

ASSUME DialectsAssumption ==
  /\ DialectOf \in [Names -> Dialects]
  /\ Writable \subseteq Names /\ AllowWrites \in BOOLEAN
ASSUME ScriptsAssumption ==
  /\ Scripts \subseteq Seq(Kinds)
  /\ MaxStatements \in Nat \ {0}

VARIABLES
  entitled,  \* what identity_scoped_resources grants the caller now
  op,        \* which of the two operations
  script,    \* the statements
  asked,     \* the connection argument
  pc,
  name,      \* the connection the gate resolved
  target,    \* the connection whose engine is used
  ran,       \* number of statements the database executed
  began,     \* the driver has begun a transaction
  pending,   \* statements whose effect a rollback undoes
  durable,   \* statements whose effect it does not
  answer

inputs == <<op, script, asked>>
effects == <<ran, began, pending, durable>>
vars == <<entitled, inputs, pc, name, target, effects, answer>>

Init ==
  /\ entitled \in Grants
  /\ op \in {"execute", "execute_script"}
  /\ script \in Scripts
  /\ op = "execute" => Len(script) = 1
  /\ asked \in Names \cup {NoName}
  /\ pc = "gate"
  /\ name = NoName /\ target = NoName
  /\ ran = 0 /\ began = FALSE
  /\ pending = {} /\ durable = {}
  /\ answer = "none"

(* The groups of an identity change, or its credential expires, while its  *)
(* call is being served.                                                   *)
Regrant ==
  /\ answer = "none"
  /\ entitled' \in Grants
  /\ UNCHANGED <<inputs, pc, name, target, effects, answer>>

Resolved(connection) == ResolvedUnder(entitled, connection)

Answer(a) == answer' = a /\ pc' = "done"

(***************************************************************************)
(* The gate and the checks                                                 *)
(***************************************************************************)
MayWrite(connection) == AllowWrites /\ connection \in Writable

(* _assert_writes_allowed.                                                 *)
Gate ==
  /\ pc = "gate"
  /\ IF Resolved(asked) # NoName /\ MayWrite(Resolved(asked))
       THEN /\ pc' = "check"
            /\ name' = Resolved(asked)
            /\ UNCHANGED answer
       ELSE Answer("denied") /\ UNCHANGED name
  /\ UNCHANGED <<entitled, inputs, target, effects>>

(* The checks of each statement and, in _prepare_script_statements and     *)
(* before it, of the script.                                               *)
WellFormed ==
  /\ Len(script) \in 1 .. MaxStatements
  /\ \A i \in 1 .. Len(script) :
       /\ script[i] # "refused"
       /\ op = "execute_script" => script[i] # "empty"

(* _assert_script_ddl_is_atomic, and a variant that looks at the first     *)
(* statement.                                                              *)
FirstIsAtomic(connection) ==                                        \* faulty
  \/ Len(script) <= 1
  \/ DialectOf[connection] \notin {"mysql", "oracle"}
  \/ script[1] # "ddl"
DdlIsAtomic(connection) ==
  \/ Len(script) <= 1
  \/ DialectOf[connection] \notin {"mysql", "oracle"}
  \/ \A i \in 1 .. Len(script) : script[i] # "ddl"

(* The dialect of a script is looked up under the resolved name, which is  *)
(* resolved again.                                                         *)
Check ==
  /\ pc = "check"
  /\ IF ~ WellFormed THEN Answer("rejected")
     ELSE IF op = "execute" THEN pc' = "engine" /\ UNCHANGED answer
     ELSE IF Resolved(name) = NoName THEN Answer("denied")
     ELSE IF ~ DdlIsAtomic(name) THEN Answer("rejected")
     ELSE pc' = "engine" /\ UNCHANGED answer
  /\ UNCHANGED <<entitled, inputs, name, target, effects>>

(* engine(name) resolves it once more; the variant resolves the argument.  *)
EngineOfArgument == Resolved(asked)                                 \* faulty
EngineName == Resolved(name)

(* execute answers here if it was given no parameters to run with.         *)
Engine ==
  /\ pc = "engine"
  /\ IF EngineName = NoName
       THEN Answer("denied") /\ UNCHANGED target
       ELSE /\ target' = EngineName
            /\ IF script[1] = "empty" THEN Answer("ok")
               ELSE pc' = "run" /\ UNCHANGED answer
  /\ UNCHANGED <<entitled, inputs, name, effects>>

(***************************************************************************)
(* The transaction                                                         *)
(***************************************************************************)
Dialect == DialectOf[target]

(* MySQL and Oracle commit before and after such a statement.              *)
CommitsItself(kind) ==
  Dialect \in {"mysql", "oracle"} /\ kind \in {"ddl", "other"}

(* The driver of SQLite begins a transaction only for DML.                 *)
Begins(kind) == Dialect # "sqlite" \/ kind = "dml"

(* _execute_script_statements: conn.execute returns.                       *)
Execute ==
  LET i == ran + 1
  IN /\ pc = "run" /\ i <= Len(script)
     /\ ran' = i
     /\ \/ /\ CommitsItself(script[i])
           /\ durable' = durable \cup pending \cup {i}
           /\ pending' = {} /\ began' = FALSE
        \/ /\ ~ CommitsItself(script[i])
           /\ began \/ Begins(script[i])
           /\ pending' = pending \cup {i} /\ began' = TRUE
           /\ UNCHANGED durable
        \/ /\ ~ began /\ ~ Begins(script[i])
           /\ durable' = durable \cup {i}
           /\ UNCHANGED <<pending, began>>
     /\ UNCHANGED <<entitled, inputs, pc, name, target, answer>>

KeepPending == durable' = durable \cup pending /\ pending' = {}

(* transaction.rollback(), and a variant without it.                       *)
NoRollback == KeepPending                                           \* faulty
Rollback == pending' = {} /\ UNCHANGED durable

(* A server is told over a network, which may lose its answer.             *)
Remote == Dialect # "sqlite"

(* conn.execute raises and what a rollback can undo is rolled back: the    *)
(* statement had no effect, or the server has committed what came before   *)
(* it, or the statement too and only its answer was lost.                  *)
ExecuteFails ==
  LET i == ran + 1
  IN /\ pc = "run" /\ i <= Len(script)
     /\ \/ Rollback /\ UNCHANGED ran
        \/ CommitsItself(script[i]) /\ KeepPending /\ UNCHANGED ran
        \/ /\ CommitsItself(script[i])
           /\ durable' = durable \cup pending \cup {i}
           /\ pending' = {} /\ ran' = i
     /\ began' = FALSE
     /\ Answer("failed")
     /\ UNCHANGED <<entitled, inputs, name, target>>

(* The script ran out of time, at the check before the commit, or COMMIT   *)
(* raises: the database did not commit, or a server did and its            *)
(* acknowledgement was lost.                                               *)
CommitFails ==
  /\ pc = "run" /\ ran = Len(script)
  /\ Rollback \/ (Remote /\ KeepPending)
  /\ began' = FALSE
  /\ Answer("failed")
  /\ UNCHANGED <<entitled, inputs, name, target, ran>>

Commit ==
  /\ pc = "run" /\ ran = Len(script)
  /\ KeepPending
  /\ began' = FALSE
  /\ Answer("ok")
  /\ UNCHANGED <<entitled, inputs, name, target, ran>>

Next ==
  \/ Regrant \/ Gate \/ Check \/ Engine
  \/ Execute \/ ExecuteFails \/ CommitFails \/ Commit

Spec == Init /\ [][Next]_vars

(***************************************************************************)
(* Properties                                                              *)
(***************************************************************************)
All == 1 .. Len(script)
Sent == {i \in All : script[i] # "empty"}

TypeOK ==
  /\ entitled \in Grants
  /\ op \in {"execute", "execute_script"}
  /\ script \in Scripts /\ asked \in Names \cup {NoName}
  /\ pc \in {"gate", "check", "engine", "run", "done"}
  /\ name \in Names \cup {NoName} /\ target \in Names \cup {NoName}
  /\ ran \in 0 .. MaxStatements /\ ran <= Len(script) /\ began \in BOOLEAN
  /\ pending \subseteq 1 .. ran /\ durable \subseteq 1 .. ran
  /\ answer \in {"none", "ok", "failed", "rejected", "denied"}

(* The database runs the whole script inside the transaction, as far as    *)
(* the code can know: not on MySQL and Oracle if it holds a statement that *)
(* commits under a keyword the code does not list, and not on SQLite if    *)
(* nothing has begun the transaction before its first DDL.                 *)
Transactional ==
  \/ Dialect \in {"postgres", "mssql"}
  \/ Dialect \in {"mysql", "oracle"} /\ \A i \in All : script[i] # "other"
  \/ Dialect = "sqlite" /\ script[1] = "dml"

(* A script that ends leaves all of its statements or none behind, at      *)
(* whichever statement it fails (execute_script).                          *)
AllOrNothing ==
  pc = "done" /\ target # NoName /\ Transactional => durable \in {{}, All}

(* Success means that every statement with something to run took effect, a *)
(* refusal that none did.  A failure means that none did where the script  *)
(* is one transaction, unless a server was left at the end of it, its last *)
(* statement run, with the COMMIT whose acknowledgement may be lost.       *)
EndReached == Remote /\ ran = Len(script)
AnswerIsTrue ==
  /\ answer = "ok" => durable = Sent
  /\ answer \in {"rejected", "denied"} => durable = {}
  /\ answer = "failed" /\ Transactional /\ ~ EndReached => durable = {}

(* A statement runs only on a connection in the write allowlist, and only  *)
(* on one for whose dialect the script was checked, although the           *)
(* entitlements are looked up three times and may change in between        *)
(* (_assert_writes_allowed, dialect_spec, engine).                         *)
OnlyWhereChecked ==
  ran > 0 => AllowWrites /\ target \in Writable /\ DdlIsAtomic(target)

(* README, sql_execute_script: "Run several statements in ONE transaction  *)
(* (all-or-nothing)".                                                      *)
EveryScriptAtomic == pc = "done" => durable \in {{}, All}
=============================================================================
