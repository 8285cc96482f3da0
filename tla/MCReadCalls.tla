---------------------------- MODULE MCReadCalls -----------------------------
(* Values for the constants of ReadCalls, small enough for TLC.            *)
EXTENDS ReadCalls

InOrder == <<"pg", "maria", "duck", "alias">>
Backends == [pg |-> "postgresql", maria |-> "mariadb", duck |-> "duckdb",
             alias |-> "pgsql"]
=============================================================================
