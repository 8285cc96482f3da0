---------------------------- MODULE ClientCache -----------------------------
(***************************************************************************)
(* The process-wide client of auth.py: get_api, which builds it from the   *)
(* environment on first use, reset_api, which disposes of it, and the tool *)
(* calls that obtained it before, during or after a reset, while the       *)
(* settings change.                                                        *)
(*                                                                         *)
(* A tool call is a thread that asks get_api for the client, is checked    *)
(* by the write gate, engine() and _submit, and has its statement run by   *)
(* the client's executor.  What happens inside one client is SqlRun's      *)
(* subject; here it goes through the states of ClientLife.                 *)
(***************************************************************************)
EXTENDS Configuration

CONSTANTS
  Environments,  \* what the settings may be
  Calls,         \* tool calls, each made once
  Asked,         \* the connection each names
  WriteCalls,    \* those that go through the write gate
  MaxResets,     \* bound: resets that dispose of a client
  Resetter       \* the thread that calls reset_api

Clients == 1 .. MaxResets + 1
NoClient == 0

ASSUME CallsAssumption ==
  /\ WriteCalls \subseteq Calls /\ Resetter \notin Calls
  /\ Blank \notin Calls \cup {Resetter}
  /\ MaxResets \in Nat

VARIABLES
  env,       \* the settings now
  window,    \* the settings there were since the last client was begun
  api,       \* _api, NoClient for None
  lock,      \* who holds _api_lock, Blank if nobody does
  built,     \* number of clients built so far
  args,      \* arguments of the client being built that are read already
  config,    \* what each client was built from, Blank before it is
  closed,    \* the clients that are disposed of
  pc,        \* where each call is
  client,    \* the client get_api returned to it
  rpc        \* where the resetter is

cacheVars == <<api, lock, built, args, config>>
vars == <<env, window, cacheVars, closed, pc, client, rpc>>

NoArgs == [registry |-> <<>>, writes |-> FALSE]

Init ==
  /\ env \in Environments /\ window = {env}
  /\ api = NoClient /\ lock = Blank /\ built = 0 /\ args = NoArgs
  /\ config = [k \in Clients |-> Blank]
  /\ closed = {}
  /\ pc = [c \in Calls |-> "new"]
  /\ client = [c \in Calls |-> NoClient]
  /\ rpc = "idle"

Goto(c, from, to) == pc[c] = from /\ pc' = [pc EXCEPT ![c] = to]

(* The settings are changed, as the container or a test does.              *)
Reconfigure ==
  /\ env' \in Environments
  /\ window' = window \cup {env'}
  /\ UNCHANGED <<cacheVars, closed, pc, client, rpc>>

(***************************************************************************)
(* get_api                                                                 *)
(***************************************************************************)
(* Leaving the with block: the lock is released and the arguments are      *)
(* gone; with a variant that keeps the lock when building raises.          *)
KeepsLock(c) == UNCHANGED <<lock, args>>                            \* faulty
Leave(c) == lock' = Blank /\ args' = NoArgs

(* The lock is taken, and the cached client returned if there is one.      *)
LockFree == lock = Blank

Enter(c) ==
  /\ LockFree
  /\ \/ /\ api # NoClient
        /\ Goto(c, "new", "client")
        /\ client' = [client EXCEPT ![c] = api]
        /\ UNCHANGED <<window, lock>>
     \/ /\ api = NoClient
        /\ Goto(c, "new", "connections")
        /\ lock' = c
        /\ window' = {env}
        /\ UNCHANGED client
  /\ UNCHANGED <<env, api, built, args, config, closed, rpc>>

(* Building raises: the call gets the error and nothing is cached.         *)
Fails(c, from) ==
  /\ Goto(c, from, "refused")
  /\ Leave(c)

(* The arguments of Api(...) are read one after the other; a variant       *)
(* remembers the registry of the first client.                             *)
Memoised ==                                                         \* faulty
  IF built > 0 THEN config[1].registry ELSE load_connections(env)
Loaded == load_connections(env)

ReadConnections(c) ==
  /\ \/ /\ Loaded # Broken
        /\ Goto(c, "connections", "writes")
        /\ args' = [registry |-> Loaded, writes |-> FALSE]
        /\ UNCHANGED lock
     \/ Loaded = Broken /\ Fails(c, "connections")
  /\ UNCHANGED <<env, window, api, built, config, closed, client, rpc>>

ReadWrites(c) ==
  /\ \/ /\ LimitsValid(env)
        /\ Goto(c, "writes", "allowlist")
        /\ args' = [registry |-> args.registry, writes |-> env.writes]
        /\ UNCHANGED lock
     \/ ~ LimitsValid(env) /\ Fails(c, "writes")
  /\ UNCHANGED <<env, window, api, built, config, closed, client, rpc>>

(* The last of them, SqlApi.__init__ and the assignment to _api.           *)
Construct(c) ==
  LET new == Constructed(args.registry, args.writes,
                         writable_connections(env),
                         default_connection_name(env))
  IN /\ pc[c] = "allowlist"
     /\ \/ /\ new # Broken
           /\ Goto(c, "allowlist", "client")
           /\ built' = built + 1
           /\ api' = built'
           /\ config' = [config EXCEPT ![built'] = new]
           /\ client' = [client EXCEPT ![c] = built']
           /\ Leave(c)
        \/ /\ new = Broken
           /\ Fails(c, "allowlist")
           /\ UNCHANGED <<api, built, config, client>>
     /\ UNCHANGED <<env, window, closed, rpc>>

GetApi(c) ==
  Enter(c) \/ ReadConnections(c) \/ ReadWrites(c) \/ Construct(c)

(***************************************************************************)
(* The call on the client                                                  *)
(***************************************************************************)
CallOnly == UNCHANGED <<env, window, cacheVars, closed, client, rpc>>

Open(c) == client[c] \notin closed
OpenUnchecked(c) == TRUE                                            \* faulty
Admissible(c) == Open(c)

(* The registry, the write gate and engine() let it pass.                  *)
Check(c) ==
  /\ Goto(c, "client", "checked")
  /\ Asked[c] \in NamesOf(config[client[c]].registry)
  /\ c \in WriteCalls => MayWrite(config[client[c]], Asked[c])
  /\ Open(c)
  /\ CallOnly

(* One of them does not, or a later check: entitlement, driver, capacity.  *)
TurnedAway(c) ==
  /\ pc[c] \in {"client", "checked"}
  /\ pc' = [pc EXCEPT ![c] = "refused"]
  /\ CallOnly

(* _submit, under the client's _executor_lock.                             *)
Submit(c) ==
  /\ Goto(c, "checked", "queued")
  /\ Admissible(c)
  /\ CallOnly

Start(c) == Goto(c, "queued", "running") /\ CallOnly

(* Its deadline passes while it waits for a worker.                        *)
Expire(c) == Goto(c, "queued", "over") /\ CallOnly

End(c) == Goto(c, "running", "over") /\ CallOnly

OnClient(c) ==
  Check(c) \/ TurnedAway(c) \/ Submit(c) \/ Start(c) \/ Expire(c) \/ End(c)

(***************************************************************************)
(* reset_api                                                               *)
(***************************************************************************)
(* It waits for the lock too.                                              *)
BeginReset ==
  /\ rpc = "idle" /\ LockFree
  /\ api # NoClient /\ Cardinality(closed) < MaxResets
  /\ lock' = Resetter /\ rpc' = "dispose"
  /\ UNCHANGED <<env, window, api, built, args, config, closed, pc, client>>

(* dispose(): the client is closed and its queue emptied; the variant only *)
(* forgets the client.                                                     *)
ForgetOnly == UNCHANGED <<closed, pc>>                              \* faulty
Shutdown ==
  /\ closed' = closed \cup {api}
  /\ pc' = [c \in Calls |->
              IF client[c] = api /\ pc[c] = "queued" THEN "over" ELSE pc[c]]

Dispose ==
  /\ rpc = "dispose" /\ rpc' = "clear"
  /\ Shutdown
  /\ UNCHANGED <<env, window, cacheVars, client>>

Clear ==
  /\ rpc = "clear" /\ rpc' = "idle"
  /\ api' = NoClient /\ lock' = Blank
  /\ UNCHANGED <<env, window, built, args, config, closed, pc, client>>

Reset == BeginReset \/ Dispose \/ Clear

Next == Reconfigure \/ Reset \/ \E c \in Calls : GetApi(c) \/ OnClient(c)

Spec == Init /\ [][Next]_vars

(* Threads inside get_api and reset_api go on; nothing is assumed of       *)
(* statements, nor that anybody resets.                                    *)
FairSpec ==
  /\ Spec
  /\ \A c \in Calls : WF_vars(GetApi(c))
  /\ WF_vars(Dispose \/ Clear)

(***************************************************************************)
(* Properties                                                              *)
(***************************************************************************)
Building == {"connections", "writes", "allowlist"}

TypeOK ==
  /\ env \in Environments /\ window \subseteq Environments /\ env \in window
  /\ api \in Clients \cup {NoClient} /\ built \in 0 .. MaxResets + 1
  /\ lock \in Calls \cup {Resetter, Blank}
  /\ \A c \in Calls : pc[c] \in Building <=> lock = c
  /\ rpc # "idle" <=> lock = Resetter
  /\ closed \subseteq Clients
  /\ pc \in [Calls -> Building \cup {"new", "client", "checked", "queued",
                                   "running", "over", "refused"}]
  /\ client \in [Calls -> Clients \cup {NoClient}]
  /\ rpc \in {"idle", "dispose", "clear"}

(* At most one client is open, and it is the cached one: no reset and no   *)
(* second builder leaves behind a client that still serves its settings    *)
(* and that nobody can dispose of; and outside of a reset the cached one   *)
(* is open, so no call is given a client that can only turn it away        *)
(* (get_api and reset_api under _api_lock).                                *)
OneOpenClient ==
  /\ \A k \in 1 .. built : k \notin closed => k = api
  /\ rpc = "idle" => api \notin closed

(* If the settings have not changed since its building began, the cached   *)
(* client is the one they describe, whatever failed or was torn before:    *)
(* a reset after a change of settings is enough (reset_api).               *)
SettledConfiguration ==
  api # NoClient /\ window = {env} => config[api] = Described(env)

(* After a reset that follows the revocation no write is started that the  *)
(* settings do not grant, also by a call that has held the old client all  *)
(* along: every write started was granted by settings in force since the   *)
(* cached client was begun, and both of its settings, the switch and the   *)
(* allowlist, were (reset_api, dispose, _submit, _assert_writes_allowed).  *)
Starts(c) == pc[c] = "queued" /\ pc'[c] = "running"
RevokedWritesDoNotStart ==
  [][\A c \in WriteCalls :
       Starts(c) => /\ \E e \in window : e.writes
                    /\ \E e \in window : Grants(e, Asked[c])]_vars

(* A dialect named in discrete fields, by an alias or not, is the one that *)
(* the operations later look up under the URL (build_url, engine,          *)
(* dialect_for_url).                                                       *)
DialectsSurvive ==
  env.connections \notin {Blank, Malformed} =>
    \A i \in DOMAIN env.connections :
      LET spec == env.connections[i].spec
      IN spec.kind = "dialect" /\ FromSpec(spec) # Broken =>
           dialect_for_url(FromSpec(spec)) = get_dialect(spec.fields.dialect)

(* Whoever asks for the client gets it or an error, although resets hold   *)
(* the lock and building may fail (get_api).                               *)
GetApiReturns ==
  \A c \in Calls : pc[c] = "new" ~> pc[c] \in {"client", "refused"}

(* Each client as ClientLife sees it. *)
StateOn(k) ==
  [c \in Calls |->
     IF client[c] = k /\ pc[c] \in {"queued", "running", "over"}
       THEN pc[c] ELSE "none"]
First == INSTANCE ClientLife
           WITH Ops <- Calls, closed <- 1 \in closed, state <- StateOn(1)
Second == INSTANCE ClientLife
            WITH Ops <- Calls, closed <- 2 \in closed, state <- StateOn(2)

(* The first clients keep the promise of ClientLife.                       *)
ClientsLive == First!Spec /\ Second!Spec
=============================================================================
