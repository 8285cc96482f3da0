----------------------------- MODULE ReadCalls ------------------------------
(***************************************************************************)
(* The operations of SqlApi that read: query, the reflection operations,   *)
(* sample_rows, explain, and the administrative ones.  Each looks the      *)
(* connection up one to three times while the grants of its caller may     *)
(* change, and reports about the one it resolved first.                    *)
(*                                                                         *)
(* A call is made once, but list_* is called again and again by a caller   *)
(* that pages through the names of a schema while others create and drop   *)
(* them.  Deadlines and the worker pool are SqlRun's subject: here a run   *)
(* on a connection succeeds or fails.                                      *)
(***************************************************************************)
EXTENDS Entitlement, Dialects, FiniteSets

CONSTANTS
  BackendOf,     \* the backend in the URL of each connection
  Installed,     \* the backends that SQLAlchemy finds a dialect and driver for
  Tables,        \* table names, numbers in the order the inspector lists them
  Limits,        \* limit arguments of list_*, 0 for None
  MaxRows        \* SqlApi.max_rows

ASSUME ReadCallsAssumption ==
  /\ Tables \subseteq Nat /\ IsFiniteSet(Tables) /\ Limits \subseteq Nat
  /\ MaxRows \in Nat \ {0}

(* The dialects that the registry names otherwise than SQLAlchemy.         *)
ASSUME InstalledAssumption ==
  {"postgres", "pg", "pgsql", "sqlite3"} \cap Installed = {}

(* Those that resolve a name first, and those that look up its dialect.    *)
(* "sample" stands for sample_rows, table_ddl and the reflection calls     *)
(* that return no page: one look-up, one run.                              *)
LooksUpDialect == {"explain", "version", "sessions", "capabilities"}
NamesFirst == LooksUpDialect \cup {"ping", "ping_all", "pool"}
Operations == NamesFirst \cup {"query", "list", "sample"}

VARIABLES
  entitled,  \* what identity_scoped_resources grants the caller now
  op,        \* the operation
  asked,     \* its connection argument
  pc,
  name,      \* the connection it resolved
  target,    \* the connection whose engine it uses
  answer,
  guarded,   \* the connection it ran on was put in read-only mode
  listed,    \* ping_all: the names it iterates over
  entries,   \* ping_all: the entries of its result
  limit,     \* list_*: the limit argument
  offset,    \* the offset argument of the current page
  page,      \* the last page
  pages,     \* every name returned so far, with the connection it is from
  tables,    \* the tables there are on each connection
  created, dropped   \* those created and dropped since the first page

callVars == <<op, asked, limit>>
pagerVars == <<offset, page, pages>>
databaseVars == <<tables, created, dropped>>
vars == <<entitled, callVars, pc, name, target, answer, guarded, listed,
          entries, pagerVars, databaseVars>>

FirstStep(o) ==
  IF o = "ping_all" THEN "names" ELSE IF o \in NamesFirst THEN "resolve"
  ELSE "engine"

(* Bound: only this connection has tables, and changes.                    *)
Watched == IF asked = NoName THEN Default ELSE asked

Init ==
  /\ entitled \in Grants
  /\ op \in Operations
  /\ asked \in IF op = "ping_all" THEN {NoName} ELSE Names \cup {NoName}
  /\ limit \in IF op = "list" THEN Limits ELSE {0}
  /\ pc = FirstStep(op)
  /\ name = NoName /\ target = NoName /\ answer = "none"
  /\ guarded = FALSE /\ listed = <<>> /\ entries = <<>>
  /\ offset = 0 /\ page = <<>> /\ pages = <<>>
  /\ tables \in {[c \in Names |-> IF c = Watched THEN some ELSE {}] :
                  some \in IF op = "list" THEN SUBSET Tables ELSE {{}}}
  /\ created = {} /\ dropped = {}

(* The groups of an identity change, or its credential expires, while its  *)
(* call is being served.                                                   *)
Regrant ==
  /\ answer = "none"
  /\ entitled' \in Grants
  /\ UNCHANGED <<callVars, pc, name, target, answer, guarded, listed, entries,
                 pagerVars, databaseVars>>

Resolved(connection) == ResolvedUnder(entitled, connection)

SpecOf(connection) == dialect_for_url([backend |-> BackendOf[connection]])

(* The name in the argument of the current call: ping_all calls ping with  *)
(* the next of its names.                                                  *)
Argument == IF op = "ping_all" THEN listed[Len(entries) + 1] ELSE asked

(* The call ends with answer a.  In ping_all it is one ping that ends, and *)
(* whatever it raised becomes an entry; the variant lets it through.       *)
Raises(a) ==                                                        \* faulty
  /\ answer' = a /\ pc' = "done"
  /\ UNCHANGED <<name, target, entries>>
Conclude(a) ==
  IF op = "ping_all"
    THEN /\ entries' = Append(entries, [connection |-> Argument,
                                        ok |-> a = "ok", on |-> target])
         /\ name' = NoName /\ target' = NoName
         /\ IF Len(entries') = Len(listed)
              THEN answer' = "ok" /\ pc' = "done"
              ELSE pc' = "resolve" /\ UNCHANGED answer
    ELSE /\ answer' = a /\ pc' = "done"
         /\ UNCHANGED <<name, target, entries>>

(* The numbers of a set in order: below each are those that precede it.    *)
Ascending(S) ==
  [i \in 1 .. Cardinality(S) |->
     CHOOSE x \in S : Cardinality({y \in S : y < x}) = i - 1]

(* connection_names(), which ping_all calls once, at its start and outside *)
(* the try of its loop: without an identity ping_all is refused there.     *)
connection_names ==
  LET granted == {i \in 1 .. Len(Registry) : Registry[i] \in entitled}
  IN [k \in 1 .. Cardinality(granted) |-> Registry[Ascending(granted)[k]]]

TakeNames ==
  /\ pc = "names"
  /\ \/ /\ entitled = NoIdentity
        /\ answer' = "denied" /\ pc' = "done"
        /\ UNCHANGED listed
     \/ /\ entitled # NoIdentity
        /\ listed' = connection_names
        /\ IF listed' = <<>>
             THEN answer' = "ok" /\ pc' = "done"
             ELSE pc' = "resolve" /\ UNCHANGED answer
  /\ UNCHANGED <<entitled, callVars, name, target, guarded, entries,
                 pagerVars, databaseVars>>

Resolve ==
  /\ pc = "resolve"
  /\ \/ /\ Resolved(Argument) = NoName
        /\ Conclude("denied")
     \/ /\ Resolved(Argument) # NoName
        /\ name' = Resolved(Argument)
        /\ pc' = IF op \in LooksUpDialect THEN "dialect" ELSE "engine"
        /\ UNCHANGED <<target, answer, entries>>
  /\ UNCHANGED <<entitled, callVars, guarded, listed, pagerVars, databaseVars>>

(* What the operation says of a connection it cannot serve.                *)
Unsupported ==
  LET spec == SpecOf(name)
  IN CASE op \in {"explain", "sessions"} /\ spec = Blank -> TRUE
       [] op = "explain" /\ spec # Blank -> ~ DIALECTS[spec].explain_prefix
       [] op = "sessions" /\ spec # Blank ->
            ~ DIALECTS[spec].active_connections_sql
       [] OTHER -> FALSE

(* dialect_spec(name) resolves the name again.                             *)
LookUpDialect ==
  /\ pc = "dialect"
  /\ \/ Resolved(name) = NoName /\ Conclude("denied")
     \/ /\ Resolved(name) # NoName /\ Unsupported
        /\ Conclude("unsupported")
     \/ /\ Resolved(name) # NoName /\ ~ Unsupported
        /\ op = "capabilities"
        /\ Conclude("ok")
     \/ /\ Resolved(name) # NoName /\ ~ Unsupported
        /\ op # "capabilities"
        /\ pc' = "engine"
        /\ UNCHANGED <<name, target, answer, entries>>
  /\ UNCHANGED <<entitled, callVars, guarded, listed, pagerVars, databaseVars>>

(* engine() is given the name where the operation has one, and resolves it *)
(* once more; the variant is given the argument.                           *)
EngineOfArgument == Resolved(Argument)                              \* faulty
EngineName == Resolved(IF name # NoName THEN name ELSE Argument)

(* It raises if the client is closed, or no dialect and driver is found.   *)
Engine ==
  /\ pc = "engine"
  /\ \/ EngineName = NoName /\ Conclude("denied")
     \/ Conclude("failed")
     \/ /\ EngineName # NoName /\ BackendOf[EngineName] \in Installed
        /\ op = "pool"
        /\ target' = EngineName /\ answer' = "ok" /\ pc' = "done"
        /\ UNCHANGED <<name, entries>>
     \/ /\ EngineName # NoName /\ BackendOf[EngineName] \in Installed
        /\ op # "pool"
        /\ target' = EngineName /\ pc' = "run"
        /\ UNCHANGED <<name, answer, entries>>
  /\ UNCHANGED <<entitled, callVars, guarded, listed, pagerVars, databaseVars>>

(* _enable_read_only goes by the backend's name, and so does a variant     *)
(* that takes it for the dialect's.                                        *)
ByDialectName(connection) ==                                        \* faulty
  BackendOf[connection] \in {"sqlite", "postgres", "mysql", "oracle"}
EnforcesReadOnly(connection) ==
  BackendOf[connection] \in
    {"sqlite", "postgresql", "mysql", "mariadb", "oracle"}

(* _page, and variants that count the offset from one or do not clamp the  *)
(* limit.                                                                  *)
Unclamped == IF limit = 0 THEN MaxRows ELSE limit                   \* faulty
Cap == IF limit = 0 \/ limit > MaxRows THEN MaxRows ELSE limit
Listing == Ascending(tables[target])
Slice(start) ==
  LET stop == IF start + Cap < Len(Listing) THEN start + Cap ELSE Len(Listing)
  IN SubSeq(Listing, start + 1, stop)
FromOne == Slice(IF offset = 0 THEN 0 ELSE offset - 1)              \* faulty
Page == Slice(offset)

(* _run_on_connection returns.                                             *)
Run ==
  /\ pc = "run"
  /\ guarded' = EnforcesReadOnly(target)
  /\ Conclude("ok")
  /\ IF op = "list"
       THEN /\ page' = Page
            /\ pages' = pages \o [i \in DOMAIN Page |->
                                    [on |-> target, table |-> Page[i]]]
            /\ UNCHANGED offset
       ELSE UNCHANGED pagerVars
  /\ UNCHANGED <<entitled, callVars, listed, databaseVars>>

(* It raises; the read-only mode may not have been reached.                *)
RunFails ==
  /\ pc = "run"
  /\ Conclude("failed")
  /\ UNCHANGED <<entitled, callVars, guarded, listed, pagerVars, databaseVars>>

(* The caller of list_* asks for the page after the last, until one is     *)
(* empty; a call that was refused or failed is made again.                 *)
NextPage ==
  /\ op = "list" /\ pc = "done"
  /\ answer = "ok" => page # <<>>
  /\ offset' = offset + IF answer = "ok" THEN Len(page) ELSE 0
  /\ pc' = FirstStep(op) /\ target' = NoName /\ answer' = "none"
  /\ page' = <<>>
  /\ UNCHANGED <<entitled, callVars, name, guarded, listed, entries, pages,
                 databaseVars>>

(***************************************************************************)
(* What others do to the databases, modelled while names are listed        *)
(***************************************************************************)
Create(c, t) ==
  /\ op = "list" /\ t \notin tables[c] /\ <<c, t>> \notin created
  /\ tables' = [tables EXCEPT ![c] = @ \cup {t}]
  /\ created' = created \cup {<<c, t>>}
  /\ UNCHANGED <<entitled, callVars, pc, name, target, answer, guarded, listed,
                 entries, pagerVars, dropped>>

Drop(c, t) ==
  /\ op = "list" /\ t \in tables[c] /\ <<c, t>> \notin dropped
  /\ tables' = [tables EXCEPT ![c] = @ \ {t}]
  /\ dropped' = dropped \cup {<<c, t>>}
  /\ UNCHANGED <<entitled, callVars, pc, name, target, answer, guarded, listed,
                 entries, pagerVars, created>>

Next ==
  \/ Regrant \/ TakeNames \/ Resolve \/ LookUpDialect \/ Engine
  \/ Run \/ RunFails \/ NextPage
  \/ \E t \in Tables : Create(Watched, t) \/ Drop(Watched, t)

Spec == Init /\ [][Next]_vars

(***************************************************************************)
(* capabilities                                                            *)
(***************************************************************************)
DialectName(connection) ==
  IF SpecOf(connection) = Blank THEN BackendOf[connection]
  ELSE SpecOf(connection)

Capabilities(connection) ==
  LET spec == SpecOf(connection)
  IN [read_only_transactions |->
        DialectName(connection) \in {"sqlite", "postgres", "mysql", "oracle"},
      explain |-> spec # Blank /\ DIALECTS[spec].explain_prefix,
      active_connections |->
        spec # Blank /\ DIALECTS[spec].active_connections_sql]

(***************************************************************************)
(* Properties                                                              *)
(***************************************************************************)
TypeOK ==
  /\ entitled \in Grants /\ op \in Operations
  /\ asked \in Names \cup {NoName}
  /\ pc \in {"names", "resolve", "dialect", "engine", "run", "done"}
  /\ name \in Names \cup {NoName} /\ target \in Names \cup {NoName}
  /\ answer \in {"none", "ok", "failed", "denied", "unsupported"}
  /\ guarded \in BOOLEAN
  /\ limit \in Limits \cup {0} /\ offset \in 0 .. Len(pages)
  /\ Len(page) <= MaxRows
  /\ tables \in [Names -> SUBSET Tables]

(* What an operation reports is about the connection it used: the engine   *)
(* is that of the name it resolved or was given, however the grants change *)
(* between the look-ups, and each ping of ping_all went where its entry    *)
(* says.                                                                   *)
ReportIsAboutTarget ==
  /\ target # NoName => /\ name # NoName => target = name
                        /\ asked # NoName => target = asked
  /\ \A i \in DOMAIN entries :
       entries[i].ok => entries[i].on = entries[i].connection

(* ping_all answers with one entry for each connection its caller could    *)
(* use when it began, in order, whatever some of the pings raise, also if  *)
(* the credential expires between two of them.  It is refused only before  *)
(* it has listed the first.                                                *)
PingAllComplete ==
  op = "ping_all" /\ pc = "done" =>
    /\ answer = "ok" \/ (answer = "denied" /\ listed = <<>>)
    /\ [i \in DOMAIN entries |-> entries[i].connection] = listed

(* capabilities tells the truth about the other operations: EXPLAIN and    *)
(* the list of sessions are refused exactly where it says so, and a read   *)
(* runs in a read-only session exactly where it says so, although one goes *)
(* by the registry's dialect and the other by SQLAlchemy's.                *)
CapabilitiesTrue ==
  /\ answer = "unsupported" =>
       /\ op = "explain" => ~ Capabilities(name).explain
       /\ op = "sessions" => ~ Capabilities(name).active_connections
  /\ target # NoName =>
       /\ op = "explain" => Capabilities(target).explain
       /\ op = "sessions" => Capabilities(target).active_connections
       /\ answer = "ok" /\ op # "pool" =>
            guarded = Capabilities(target).read_only_transactions

(* A caller that pages through a named connection until a page is empty    *)
(* has seen every table that was there all along, unless one was dropped   *)
(* meanwhile, and at no time has it seen a table twice, unless one was     *)
(* created (_page cuts a new listing at an offset each time).              *)
Seen(t) == \E i \in DOMAIN pages : pages[i].table = t
AllPagesRead == op = "list" /\ answer = "ok" /\ page = <<>>
EveryNameOnce ==
  asked # NoName =>
    /\ AllPagesRead /\ dropped = {} =>
         \A t \in tables[asked] : <<asked, t>> \notin created => Seen(t)
    /\ created = {} => \A i, j \in DOMAIN pages : pages[i] = pages[j] => i = j
=============================================================================
