--------------------------- MODULE Configuration ----------------------------
(***************************************************************************)
(* How auth.py turns the settings of the environment into the arguments    *)
(* of a SqlApi client, and which of them its constructor accepts.  A       *)
(* setting is Blank, Malformed, or what parsing its text gives; what       *)
(* raises ValueError is Broken.  Blank is a setting that is absent or      *)
(* empty, and, where the code strips it, one of only white space:          *)
(* everywhere but in SQL_DIALECT, SQL_HOST and SQL_DATABASE, where white   *)
(* space is a text like any other.                                         *)
(***************************************************************************)
EXTENDS Dialects, Sequences, FiniteSets

CONSTANTS
  Malformed,       \* a setting that should be JSON or a number and is not
  Parsed,          \* make_url: the URL of each text that it accepts
  Trim,            \* str.strip on the names that occur
  MaxNameLength,   \* MAX_CONNECTION_NAME_LENGTH
  NameLength,      \* len() of the names that occur
  MaxConnections   \* MAX_CONNECTIONS

(***************************************************************************)
(* load_connections: the registry, a sequence of named URLs                *)
(***************************************************************************)
ValidName(name) == Trim[name] # "" /\ NameLength[name] <= MaxNameLength

MakeUrl(text) == IF text \in DOMAIN Parsed THEN Parsed[text] ELSE Broken

Entry(name, url) == [name |-> name, url |-> url]

(* One entry of SQL_CONNECTIONS: a DSN, or an object with a URL or fields. *)
FromSpec(spec) ==
  CASE spec.kind \in {"dsn", "url"} -> MakeUrl(spec.text)
    [] spec.kind = "dialect" /\ spec.fields.options # Malformed ->
         build_url(spec.fields)
    [] OTHER -> Broken

FromJson(list) ==
  LET entries == [i \in DOMAIN list |->
                    Entry(list[i].name, FromSpec(list[i].spec))]
  IN IF /\ Len(list) \in 1 .. MaxConnections
        /\ \A i \in DOMAIN list :
             ValidName(list[i].name) /\ entries[i].url # Broken
       THEN entries ELSE Broken

Only(name, url) == IF url = Broken THEN Broken ELSE <<Entry(name, url)>>

(* A blank dialect is taken for postgres; the port is checked even if the  *)
(* dialect has no use for it.                                              *)
FromFields(env) ==
  IF env.options = Malformed \/ env.port = Malformed THEN Broken
  ELSE IF ~ PortValid(env.port) THEN Broken
  ELSE Only("default",
            build_url([dialect |-> IF env.dialect = Blank THEN "postgres"
                                   ELSE env.dialect,
                       port |-> env.port, database |-> env.database]))

Fallback ==
  Only("memory", [backend |-> "sqlite", port |-> Blank, memory |-> TRUE])

load_connections(env) ==
  CASE env.connections # Blank ->
         IF env.connections = Malformed THEN Broken
         ELSE FromJson(env.connections)
    [] env.connections = Blank /\ env.url # Blank ->
         Only("default", MakeUrl(env.url))
    [] env.connections = Blank /\ env.url = Blank ->
         IF env.dialect # Blank \/ env.host # Blank THEN FromFields(env)
         ELSE Fallback

(***************************************************************************)
(* The other settings                                                      *)
(***************************************************************************)
(* SQL_MAX_ROWS and SQL_TIMEOUT_SECONDS.                                   *)
LimitsValid(env) == env.max_rows > 0 /\ env.timeout > 0

(* SQL_WRITE_CONNECTIONS: a JSON list or names between commas.             *)
Listed(list) ==
  IF list = Malformed THEN Broken
  ELSE IF list.json
    THEN IF \A name \in list.names : ValidName(name)
           THEN {Trim[name] : name \in list.names} ELSE Broken
    ELSE {Trim[name] : name \in list.names} \ {""}

writable_connections(env) ==
  IF env.write_connections = Blank THEN {}
  ELSE LET names == Listed(env.write_connections)
       IN IF names = Broken THEN Broken
          ELSE IF /\ Cardinality(names) \in 1 .. MaxConnections
                  /\ \A name \in names : ValidName(name)
                 THEN names ELSE Broken

(* SQL_DEFAULT_CONNECTION, Blank if there is none.                         *)
default_connection_name(env) ==
  IF env.default = Blank THEN Blank
  ELSE IF ValidName(Trim[env.default]) THEN Trim[env.default] ELSE Broken

(***************************************************************************)
(* SqlApi.__init__                                                         *)
(***************************************************************************)
NamesOf(registry) == {registry[i].name : i \in DOMAIN registry}

(* A client with this registry, allow_writes, allowlist and default.       *)
Constructed(registry, writes, writable, default) ==
  IF \/ writable = Broken \/ default = Broken
     \/ ~ writable \subseteq NamesOf(registry)
     \/ default # Blank /\ default \notin NamesOf(registry)
    THEN Broken
    ELSE [registry |-> registry, writes |-> writes, writable |-> writable,
          default |-> IF default = Blank THEN registry[1].name ELSE default]

(* The client a single environment describes.                              *)
Described(env) ==
  IF load_connections(env) = Broken \/ ~ LimitsValid(env) THEN Broken
  ELSE Constructed(load_connections(env), env.writes,
                   writable_connections(env), default_connection_name(env))

(* _assert_writes_allowed, of a client and of an environment.              *)
MayWrite(client, name) == client.writes /\ name \in client.writable
Grants(env, name) ==
  LET names == writable_connections(env)
  IN names # Broken /\ name \in names
=============================================================================
