-------------------------- MODULE MCResultEnvelope --------------------------
(* Small results for TLC: up to three rows and four columns.               *)
EXTENDS ResultEnvelope

CONSTANTS a, b

SmallResults == UNION {[1 .. n -> 1 .. 3] : n \in 0 .. 3}
Names == {<<a>>, <<b>>, <<a, 2>>}
SmallHeaders == UNION {[1 .. n -> Names] : n \in 1 .. 4}
=============================================================================
