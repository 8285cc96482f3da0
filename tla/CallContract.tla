---------------------------- MODULE CallContract ----------------------------
(***************************************************************************)
(* What SqlApi promises the caller of query, execute, execute_script and   *)
(* the reflection operations about the transaction behind the call.  A     *)
(* write may reach the database once, before or after its caller has given *)
(* up on it, but never after the caller was told that it failed.           *)
(* SqlRun implements this specification.                                   *)
(***************************************************************************)
CONSTANTS
  Ops,        \* the calls
  Writes,     \* the calls that run in a transaction and commit it
  Unsure      \* the calls whose commit acknowledgement the network may lose

VARIABLES
  ans,        \* what the caller was told, "none" until it is answered
  effect      \* what became of the call's transaction

vars == <<ans, effect>>

Failure == {"error", "cancelled", "refused", "closed"}  \* it did not happen
GivenUp == {"timeout", "aborted"}                       \* outcome unknown

Init ==
  /\ ans = [o \in Ops |-> "none"]
  /\ effect = [o \in Ops |-> "open"]

(* The transaction of a write commits, possibly behind a caller that no    *)
(* longer waits for it.                                                    *)
Commit(o) ==
  /\ o \in Writes
  /\ effect[o] = "open"
  /\ ans[o] \in {"none"} \cup GivenUp
  /\ effect' = [effect EXCEPT ![o] = "committed"]
  /\ UNCHANGED ans

Succeed(o) ==
  /\ ans[o] = "none"
  /\ o \in Writes => effect[o] = "committed"
  /\ ans' = [ans EXCEPT ![o] = "ok"]
  /\ UNCHANGED effect

(* A reported failure closes the transaction for good, unless the commit   *)
(* itself went unacknowledged.                                             *)
Fail(o) ==
  /\ ans[o] = "none"
  /\ \E a \in Failure :
       /\ ans' = [ans EXCEPT ![o] = a]
       /\ \/ /\ effect[o] = "open"
             /\ effect' = [effect EXCEPT ![o] = "dropped"]
          \/ /\ a = "error" /\ o \in Unsure
             /\ effect[o] = "committed"
             /\ UNCHANGED effect

GiveUp(o) ==
  /\ ans[o] = "none"
  /\ \E a \in GivenUp : ans' = [ans EXCEPT ![o] = a]
  /\ UNCHANGED effect

Next == \E o \in Ops : Commit(o) \/ Succeed(o) \/ Fail(o) \/ GiveUp(o)

Spec == Init /\ [][Next]_vars
=============================================================================
