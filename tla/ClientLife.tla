----------------------------- MODULE ClientLife -----------------------------
(***************************************************************************)
(* What a SqlApi client promises about the calls made on it from the       *)
(* moment it is disposed of: none is admitted to its executor any more,    *)
(* none that waits there is started, and those that run are left to end.   *)
(* SqlRun implements this specification; so does each of the clients that  *)
(* ClientCache has built.                                                  *)
(***************************************************************************)
CONSTANT Ops      \* the calls

VARIABLES
  closed,         \* SqlApi._closed
  state           \* of each call: "none", "queued", "running" or "over"

vars == <<closed, state>>

Init ==
  /\ closed = FALSE
  /\ state = [o \in Ops |-> "none"]

Becomes(o, from, to) ==
  state[o] = from /\ state' = [state EXCEPT ![o] = to] /\ UNCHANGED closed

Admit(o) == ~ closed /\ Becomes(o, "none", "queued")
Start(o) == ~ closed /\ Becomes(o, "queued", "running")
Withdraw(o) == Becomes(o, "queued", "over")
End(o) == Becomes(o, "running", "over")

Close ==
  /\ ~ closed /\ closed' = TRUE
  /\ state' = [o \in Ops |-> IF state[o] = "queued" THEN "over" ELSE state[o]]

Next == Close \/ \E o \in Ops : Admit(o) \/ Start(o) \/ Withdraw(o) \/ End(o)

Spec == Init /\ [][Next]_vars
=============================================================================
