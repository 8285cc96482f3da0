------------------------------ MODULE MCSqlRun ------------------------------
(* Values for the constants of SqlRun, small enough for TLC.               *)
EXTENDS SqlRun, TLC

CONSTANTS w1, w2, r1, mem, net

OnMemory == [o \in Ops |-> mem]
OnNetwork == [o \in Ops |-> net]
TwoWriters == Permutations({w1, w2})
=============================================================================
