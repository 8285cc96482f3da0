--------------------------- MODULE MCClientCache ----------------------------
(* Values for the constants of ClientCache, small enough for TLC.          *)
EXTENDS ClientCache

CONSTANTS writer, reader

Padded == " main "
Names == {"", "main", Padded, "scratch", "legacy", "default", "memory"}
Stripped == [n \in Names |-> IF n = Padded THEN "main" ELSE n]
Lengths == [n \in Names |-> 4]

Server == [backend |-> "postgresql", port |-> 5432, memory |-> FALSE]
Memory == [backend |-> "sqlite", port |-> Blank, memory |-> TRUE]
Known == [pg |-> Server, mem |-> Memory]

Dsn(text) == [kind |-> "dsn", text |-> text]
Fields(dialect, port) ==
  [kind |-> "dialect",
   fields |-> [dialect |-> dialect, port |-> port, database |-> Blank,
               options |-> Blank]]
Named(name, spec) == [name |-> name, spec |-> spec]
List(names) == [json |-> TRUE, names |-> names]
Commas(names) == [json |-> FALSE, names |-> names]

None ==
  [connections |-> Blank, url |-> Blank, dialect |-> Blank, host |-> Blank,
   port |-> Blank, database |-> Blank, options |-> Blank, writes |-> FALSE,
   max_rows |-> 500, timeout |-> 30, write_connections |-> Blank,
   default |-> Blank]

(* Three connections with writes to one; the same with writes switched off *)
(* and another grant; two names that differ in white space, the padded one *)
(* granted; and nothing but a default, which nobody configured.            *)
Both ==
  <<Named("main", Dsn("pg")), Named("scratch", Fields("sqlserver", 14330)),
    Named("legacy", Fields("mariadb", Blank))>>
Granted == [None EXCEPT !.connections = Both, !.writes = TRUE,
                        !.write_connections = List({"main"})]
Revoked == [Granted EXCEPT !.writes = FALSE, !.default = "scratch",
                           !.write_connections = Commas({"scratch", ""})]
PaddedName ==
  [Granted EXCEPT
     !.connections = <<Named(Padded, Dsn("mem")), Named("main", Dsn("pg"))>>,
     !.write_connections = List({Padded})]
Unusable == [None EXCEPT !.default = "main"]
Several == {Granted, Revoked, PaddedName, Unusable}

AllMain == [c \in Calls |-> "main"]
=============================================================================
