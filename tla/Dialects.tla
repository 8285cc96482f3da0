------------------------------ MODULE Dialects ------------------------------
(***************************************************************************)
(* The dialect registry of dialects.py: the backend and port of each       *)
(* dialect, whether the code knows a prefix for EXPLAIN and a query for    *)
(* the sessions of the server, and the way from a dialect to a URL and     *)
(* back.                                                                   *)
(***************************************************************************)
EXTENDS Integers

CONSTANTS
  Blank,           \* None, or a setting without a text
  Broken           \* what a function that raises returns

Dialect(backend, port, explains, sessions) ==
  [backend |-> backend, port |-> port, explain_prefix |-> explains,
   active_connections_sql |-> sessions]

CopiedBackend ==                                                    \* faulty
  [sqlite   |-> Dialect("sqlite", Blank, TRUE, FALSE),
   postgres |-> Dialect("postgresql", 5432, TRUE, TRUE),
   mysql    |-> Dialect("mysql", 3306, TRUE, TRUE),
   mssql    |-> Dialect("mysql", 1433, FALSE, TRUE),
   oracle   |-> Dialect("oracle", 1521, FALSE, TRUE)]
DIALECTS ==
  [sqlite   |-> Dialect("sqlite", Blank, TRUE, FALSE),
   postgres |-> Dialect("postgresql", 5432, TRUE, TRUE),
   mysql    |-> Dialect("mysql", 3306, TRUE, TRUE),
   mssql    |-> Dialect("mssql", 1433, FALSE, TRUE),
   oracle   |-> Dialect("oracle", 1521, FALSE, TRUE)]

ALIASES ==
  [postgresql |-> "postgres", pg |-> "postgres", pgsql |-> "postgres",
   mariadb |-> "mysql", sqlserver |-> "mssql", mssqlserver |-> "mssql",
   sqlite3 |-> "sqlite"]

get_dialect(name) ==
  LET key == IF name \in DOMAIN ALIASES THEN ALIASES[name] ELSE name
  IN IF key \in DOMAIN DIALECTS THEN key ELSE Broken

ASSUME BlankAssumption == Blank \notin DOMAIN DIALECTS

(* The dialect of a URL, Blank if the registry has none for its backend.   *)
dialect_for_url(url) ==
  LET same == {d \in DOMAIN DIALECTS : DIALECTS[d].backend = url.backend}
  IN IF same # {} THEN CHOOSE d \in same : TRUE
     ELSE IF url.backend \in DOMAIN ALIASES THEN ALIASES[url.backend]
     ELSE Blank

PortValid(port) == port = Blank \/ port \in 1 .. 65535

(* SQLite ignores the port, and has a database in memory if none is named. *)
build_url(fields) ==
  LET name == get_dialect(fields.dialect)
      server == [backend |-> DIALECTS[name].backend, memory |-> FALSE,
                 port |-> IF fields.port = Blank THEN DIALECTS[name].port
                          ELSE fields.port]
  IN CASE name = Broken -> Broken
       [] name = "sqlite" -> [backend |-> "sqlite", port |-> Blank,
                              memory |-> fields.database \in {Blank, ":memory:"}]
       [] OTHER -> IF PortValid(fields.port) THEN server ELSE Broken
=============================================================================
