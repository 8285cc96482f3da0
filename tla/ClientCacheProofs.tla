-------------------------- MODULE ClientCacheProofs --------------------------
(***************************************************************************)
(* Proofs about ClientCache for any settings, calls and number of resets.  *)
(***************************************************************************)
EXTENDS ClientCache, FiniteSetTheorems, TLAPS

(* The clients are built one after the other; all but the cached one are   *)
(* closed, and it is once reset_api has disposed of it.                    *)
Cache ==
  /\ api = NoClient => closed = 1 .. built
  /\ api # NoClient => /\ api = built
                       /\ closed = IF rpc = "clear" THEN 1 .. built
                                   ELSE 1 .. built - 1
  /\ rpc # "idle" => api # NoClient
  /\ rpc # "idle" \/ api = NoClient => built <= MaxResets
  /\ \A c \in Calls : pc[c] \in Building => api = NoClient

(* A call that got a client keeps it, and waits in the queue of an open    *)
(* one only.                                                               *)
Held ==
  \A c \in Calls :
    /\ pc[c] \in {"client", "checked", "queued"} => client[c] \in 1 .. built
    /\ pc[c] = "queued" => client[c] \notin closed

(* The write settings of the cached client, and of the one being built,    *)
(* were in force since its building began.                                 *)
Switched == \A c \in Calls :
              pc[c] = "allowlist" => \E e \in window : args.writes = e.writes
Warranted(c) == /\ \E e \in window : e.writes
                /\ \E e \in window : Grants(e, Asked[c])
Warrant ==
  api # NoClient =>
    \A c \in WriteCalls : MayWrite(config[api], Asked[c]) => Warranted(c)
Gated ==
  \A c \in WriteCalls :
    pc[c] \in {"checked", "queued"} => MayWrite(config[client[c]], Asked[c])
Indexed == DOMAIN config = Clients /\ \E S : config \in [Clients -> S]

IInv == TypeOK /\ Cache /\ Held /\ Switched /\ Warrant /\ Gated /\ Indexed

-----------------------------------------------------------------------------
LEMMA InitIInv == Init => IInv
<1> SUFFICES ASSUME Init PROVE IInv
  OBVIOUS
<1> USE CallsAssumption DEF Init
<1>1. TypeOK
  BY DEF TypeOK, Building, NoClient, Clients
<1>2. Cache /\ Held /\ Switched
  BY DEF Cache, Held, Switched, NoClient, Building
<1>3. Warrant /\ Gated
  BY DEF Warrant, Gated
<1>4. Indexed
  BY DEF Indexed
<1> QED
  BY <1>1, <1>2, <1>3, <1>4 DEF IInv

(* Everything but the warrants: who builds, what is closed, who waits.     *)
LEMMA CacheStep ==
  ASSUME TypeOK, Cache, Held, [Next]_vars
  PROVE  TypeOK' /\ Cache' /\ Held'
<1> DEFINE Goal == TypeOK' /\ Cache' /\ Held'
<1> SUFFICES Goal
  OBVIOUS
<1> USE CallsAssumption
<1> USE DEF TypeOK, Cache, Held, Building, Clients, NoClient, cacheVars,
            CallOnly, Goto
<1>1. CASE Reconfigure
  BY <1>1 DEF Reconfigure
<1>2. ASSUME NEW c \in Calls, Enter(c) PROVE Goal
  BY <1>2 DEF Enter, LockFree
<1>3. ASSUME NEW c \in Calls, ReadConnections(c) PROVE Goal
  BY <1>3 DEF ReadConnections, Fails, Leave
<1>4. ASSUME NEW c \in Calls, ReadWrites(c) PROVE Goal
  BY <1>4 DEF ReadWrites, Fails, Leave
<1>5. ASSUME NEW c \in Calls, Construct(c) PROVE Goal
  <2>1. api = NoClient /\ built <= MaxResets /\ closed = 1 .. built
    BY <1>5 DEF Construct
  <2>2. TypeOK'
    BY <1>5, <2>1 DEF Construct, Fails, Leave
  <2>3. Cache'
    BY <1>5, <2>1 DEF Construct, Fails, Leave
  <2>4. Held'
    BY <1>5, <2>1 DEF Construct, Fails, Leave
  <2> QED
    BY <2>2, <2>3, <2>4
<1>6. ASSUME NEW c \in Calls, OnClient(c) PROVE Goal
  BY <1>6 DEF OnClient, Check, TurnedAway, Submit, Admissible, Open, Start,
              Expire, End
<1>7. CASE BeginReset
  <2>1. closed = 1 .. built - 1 /\ built \in Nat /\ built # 0
    BY <1>7 DEF BeginReset
  <2>2. Cardinality(closed) = built - 1
    <3>1. Cardinality(1 .. built - 1) = built - 1
      BY <2>1, FS_Interval
    <3> QED
      BY <2>1, <3>1
  <2>3. built <= MaxResets
    BY <1>7, <2>1, <2>2 DEF BeginReset
  <2> QED
    BY <1>7, <2>3 DEF BeginReset, LockFree
<1>8. CASE Dispose
  BY <1>8 DEF Dispose, Shutdown
<1>9. CASE Clear
  BY <1>9 DEF Clear
<1>10. CASE UNCHANGED vars
  BY <1>10 DEF vars
<1> QED
  BY <1>1, <1>2, <1>3, <1>4, <1>5, <1>6, <1>7, <1>8, <1>9, <1>10
  DEF Next, Reset, GetApi

-----------------------------------------------------------------------------
(* A constructed client lets a write through if the switch it was given is *)
(* on and the allowlist names the connection.                              *)
LEMMA ConstructedGrants ==
  ASSUME NEW r, NEW w, NEW l, NEW d, NEW name, Constructed(r, w, l, d) # Broken,
         MayWrite(Constructed(r, w, l, d), name)
  PROVE  w /\ l # Broken /\ name \in l
BY DEF Constructed, MayWrite

(* The clients that are there stay as they were built.                     *)
LEMMA IndexedStep ==
  ASSUME TypeOK, Cache, Indexed, [Next]_vars
  PROVE  /\ Indexed'
         /\ \/ UNCHANGED <<config, built>>
            \/ /\ built' = built + 1 /\ built' \in Clients
               /\ \A k \in 1 .. built : config'[k] = config[k]
<1> USE DEF cacheVars, CallOnly, Goto
<1>1. CASE UNCHANGED <<config, built>>
  BY <1>1 DEF Indexed
<1>2. ASSUME NEW c \in Calls, Construct(c), config' # config
      PROVE  /\ Indexed'
             /\ built' = built + 1 /\ built' \in Clients
             /\ \A k \in 1 .. built : config'[k] = config[k]
  <2>1. built' = built + 1 /\ \E v : config' = [config EXCEPT ![built'] = v]
    BY <1>2 DEF Construct
  <2>2. built' \in Clients
    BY <1>2, <2>1, CallsAssumption DEF Construct, TypeOK, Cache, Building, Clients
  <2>3. PICK v : config' = [config EXCEPT ![built'] = v]
    BY <2>1
  <2>4. PICK S : config \in [Clients -> S]
    BY DEF Indexed
  <2>5. config' \in [Clients -> S \cup {v}]
    BY <2>3, <2>4
  <2>6. Indexed'
    BY <2>5 DEF Indexed
  <2>7. \A k \in 1 .. built : config'[k] = config[k]
    BY <2>1, <2>3, <2>4 DEF TypeOK, Clients
  <2> QED
    BY <2>1, <2>2, <2>6, <2>7
<1>3. ASSUME NEW c \in Calls, Construct(c), config' = config
      PROVE  Indexed' /\ (built' = built \/ built' = built + 1)
  BY <1>3 DEF Construct, Indexed
<1>4. ASSUME NEW c \in Calls, Construct(c), built' = built + 1
      PROVE  built' \in Clients
  BY <1>4, CallsAssumption DEF Construct, TypeOK, Cache, Building, Clients
<1>5. \/ UNCHANGED <<config, built>> \/ \E c \in Calls : Construct(c)
  BY DEF Next, Reconfigure, Reset, BeginReset, Dispose, Clear, GetApi, Enter,
         ReadConnections, ReadWrites, OnClient, Check, TurnedAway, Submit,
         Start, Expire, End, vars
<1> QED
  BY <1>1, <1>2, <1>3, <1>4, <1>5

(* The warrants: what the cached client grants, the settings granted since *)
(* its building began, and a call in the queue is on the cached client.    *)
LEMMA WarrantStep ==
  ASSUME IInv, [Next]_vars
  PROVE  Switched' /\ Warrant' /\ Gated'
<1> DEFINE Goal == Switched' /\ Warrant' /\ Gated'
<1> SUFFICES Goal
  OBVIOUS
<1> USE CallsAssumption DEF cacheVars, CallOnly, Goto
<1>a. /\ TypeOK /\ Cache /\ Held /\ Indexed
      /\ Switched /\ Warrant /\ Gated
  BY DEF IInv
<1>b. pc \in [Calls -> Building \cup {"new", "client", "checked", "queued",
                                     "running", "over", "refused"}]
      /\ client \in [Calls -> Clients \cup {NoClient}] /\ env \in window
  BY <1>a DEF TypeOK
<1>grow. ASSUME UNCHANGED <<api, config>>, window \subseteq window'
         PROVE  Warrant'
  BY <1>a, <1>grow DEF Warrant, Warranted
<1>1. CASE Reconfigure
  <2>1. window \subseteq window' /\ UNCHANGED <<api, config, args, pc, client>>
    BY <1>1 DEF Reconfigure
  <2>2. Switched' /\ Gated'
    BY <1>a, <2>1 DEF Switched, Gated
  <2> QED
    BY <1>grow, <2>1, <2>2
<1>2. ASSUME NEW c \in Calls, Enter(c) PROVE Goal
  <2>1. UNCHANGED <<api, config>>
    BY <1>2 DEF Enter
  <2>2. CASE api # NoClient
    <3>1. UNCHANGED window /\ UNCHANGED args
          /\ pc' = [pc EXCEPT ![c] = "client"]
          /\ client' = [client EXCEPT ![c] = api]
      BY <1>2, <2>2 DEF Enter
    <3>2. Switched' /\ Gated'
      BY <1>a, <1>b, <2>1, <3>1 DEF Switched, Gated
    <3> QED
      BY <1>grow, <2>1, <3>1, <3>2
  <2>3. CASE api = NoClient
    <3>1. /\ pc' = [pc EXCEPT ![c] = "connections"] /\ UNCHANGED client
          /\ lock = Blank
      BY <1>2, <2>3 DEF Enter, LockFree
    <3>2. \A q \in Calls : pc[q] # "allowlist"
      BY <1>a, <3>1 DEF TypeOK, Building
    <3>3. Switched' /\ Gated'
      BY <1>a, <1>b, <2>1, <3>1, <3>2 DEF Switched, Gated
    <3> QED
      BY <2>1, <2>3, <3>3 DEF Warrant
  <2> QED
    BY <2>2, <2>3
<1>3. ASSUME NEW c \in Calls, ReadConnections(c) PROVE Goal
  <2>1. UNCHANGED <<api, config, window, client>>
        /\ pc' \in {[pc EXCEPT ![c] = "writes"], [pc EXCEPT ![c] = "refused"]}
        /\ pc[c] = "connections"
    BY <1>3 DEF ReadConnections, Fails
  <2>2. \A q \in Calls : pc[q] # "allowlist"
    BY <1>a, <2>1 DEF TypeOK, Building
  <2>3. Switched' /\ Gated'
    BY <1>a, <1>b, <2>1, <2>2 DEF Switched, Gated
  <2> QED
    BY <1>grow, <2>1, <2>3
<1>4. ASSUME NEW c \in Calls, ReadWrites(c) PROVE Goal
  <2>1. UNCHANGED <<api, config, window, client, env>> /\ pc[c] = "writes"
        /\ \/ /\ pc' = [pc EXCEPT ![c] = "allowlist"]
              /\ args'.writes = env.writes
           \/ pc' = [pc EXCEPT ![c] = "refused"]
    BY <1>4 DEF ReadWrites, Fails
  <2>2. \A q \in Calls : pc[q] # "allowlist"
    BY <1>a, <2>1 DEF TypeOK, Building
  <2>3. Switched' /\ Gated'
    BY <1>a, <1>b, <2>1, <2>2 DEF Switched, Gated
  <2> QED
    BY <1>grow, <2>1, <2>3
<1>5. ASSUME NEW c \in Calls, Construct(c) PROVE Goal
  <2> DEFINE new == Constructed(args.registry, args.writes,
                                writable_connections(env),
                                default_connection_name(env))
  <2>0. pc[c] = "allowlist" /\ UNCHANGED window /\ lock = c
    BY <1>a, <1>5 DEF Construct, TypeOK, Building
  <2>1. \A q \in Calls \ {c} : pc[q] # "allowlist"
    BY <1>a, <2>0 DEF TypeOK, Building
  <2>2. CASE new # Broken
    <3>1. /\ pc' = [pc EXCEPT ![c] = "client"]
          /\ built' = built + 1 /\ api' = built'
          /\ config' = [config EXCEPT ![built'] = new]
          /\ client' = [client EXCEPT ![c] = built']
      BY <1>5, <2>2 DEF Construct
    <3>2. built' \in Clients
      BY <1>a, <2>0, <3>1 DEF TypeOK, Cache, Building, Clients
    <3>3. config'[built'] = new /\ \A k \in 1 .. built : config'[k] = config[k]
      BY <1>a, <3>1, <3>2 DEF Indexed, TypeOK
    <3>4. Switched'
      BY <1>b, <2>1, <3>1 DEF Switched
    <3>5. ASSUME NEW q \in WriteCalls, pc'[q] \in {"checked", "queued"}
          PROVE  MayWrite(config'[client'[q]], Asked[q])
      <4>1. q \in Calls /\ q # c
        BY <1>b, <3>1, <3>5
      <4>2. pc[q] \in {"checked", "queued"} /\ client'[q] = client[q]
        BY <1>b, <3>1, <3>5, <4>1
      <4>3. config'[client[q]] = config[client[q]]
        BY <1>a, <3>3, <4>1, <4>2 DEF Held
      <4> QED
        BY <1>a, <4>2, <4>3 DEF Gated
    <3>6. ASSUME NEW q \in WriteCalls, MayWrite(new, Asked[q])
          PROVE  Warranted(q)
      <4>1. /\ args.writes /\ writable_connections(env) # Broken
            /\ Asked[q] \in writable_connections(env)
        BY <2>2, <3>6, ConstructedGrants
      <4>2. Grants(env, Asked[q])
        BY <4>1 DEF Grants
      <4>3. \E e \in window : args.writes = e.writes
        BY <1>a, <2>0 DEF Switched
      <4> QED
        BY <1>b, <4>1, <4>2, <4>3 DEF Warranted
    <3>7. Warrant'
      BY <2>0, <3>1, <3>3, <3>6 DEF Warrant, Warranted
    <3> QED
      BY <3>4, <3>5, <3>7 DEF Gated
  <2>3. CASE new = Broken
    <3>1. pc' = [pc EXCEPT ![c] = "refused"]
          /\ UNCHANGED <<api, config, client>>
      BY <1>5, <2>3 DEF Construct, Fails
    <3>2. Switched' /\ Gated'
      BY <1>a, <1>b, <2>1, <3>1 DEF Switched, Gated
    <3> QED
      BY <1>grow, <2>0, <3>1, <3>2
  <2> QED
    BY <2>2, <2>3
<1>6. ASSUME NEW c \in Calls, OnClient(c) PROVE Goal
  <2>1. UNCHANGED <<api, config, window, client, args>>
    BY <1>6 DEF OnClient, Check, TurnedAway, Submit, Start, Expire, End
  <2>2. /\ \A q \in Calls : pc'[q] = "allowlist" => pc[q] = "allowlist"
        /\ \A q \in Calls : pc'[q] \in {"checked", "queued"} =>
             \/ pc[q] \in {"checked", "queued"}
             \/ q \in WriteCalls => MayWrite(config[client[q]], Asked[q])
    BY <1>b, <1>6 DEF OnClient, Check, TurnedAway, Submit, Start, Expire, End
  <2>3. Switched'
    BY <1>a, <2>1, <2>2 DEF Switched
  <2>4. Gated'
    BY <1>a, <2>1, <2>2 DEF Gated
  <2> QED
    BY <1>grow, <2>1, <2>3, <2>4
<1>7. CASE BeginReset \/ Dispose
  <2>1. UNCHANGED <<api, config, window, client, args>>
        /\ \A q \in Calls : pc'[q] \in {pc[q], "over"}
    BY <1>b, <1>7 DEF BeginReset, Dispose, Shutdown
  <2>2. Switched' /\ Gated'
    BY <1>a, <2>1 DEF Switched, Gated
  <2> QED
    BY <1>grow, <2>1, <2>2
<1>8. CASE Clear
  <2>1. UNCHANGED <<config, window, client, args, pc>> /\ api' = NoClient
    BY <1>8 DEF Clear
  <2>2. Switched' /\ Gated'
    BY <1>a, <2>1 DEF Switched, Gated
  <2> QED
    BY <2>1, <2>2 DEF Warrant
<1>9. CASE UNCHANGED vars
  <2>1. UNCHANGED <<api, config, window, client, args, pc>>
    BY <1>9 DEF vars
  <2>2. Switched' /\ Gated'
    BY <1>a, <2>1 DEF Switched, Gated
  <2> QED
    BY <1>grow, <2>1, <2>2
<1> QED
  BY <1>1, <1>2, <1>3, <1>4, <1>5, <1>6, <1>7, <1>8, <1>9
  DEF Next, Reset, GetApi

-----------------------------------------------------------------------------
THEOREM CacheInvariance == Spec => []IInv
<1>1. IInv /\ [Next]_vars => IInv'
  <2> SUFFICES ASSUME IInv, [Next]_vars PROVE IInv'
    OBVIOUS
  <2>1. TypeOK' /\ Cache' /\ Held'
    BY CacheStep DEF IInv
  <2>2. Indexed'
    BY IndexedStep DEF IInv
  <2>3. Switched' /\ Warrant' /\ Gated'
    BY WarrantStep
  <2> QED
    BY <2>1, <2>2, <2>3 DEF IInv
<1> QED
  BY InitIInv, <1>1, PTL DEF Spec

(* The lock is held by exactly the thread that builds or resets, and no    *)
(* more clients are built than resets make room for.                       *)
THEOREM CacheTyped == Spec => []TypeOK
<1>1. IInv => TypeOK
  BY DEF IInv
<1> QED
  BY <1>1, CacheInvariance, PTL

(* However many threads ask for the client and reset it, all clients but   *)
(* the cached one are disposed of.                                         *)
THEOREM CacheOneOpen == Spec => []OneOpenClient
<1>1. IInv => OneOpenClient
  BY DEF IInv, TypeOK, Cache, OneOpenClient, NoClient
<1> QED
  BY <1>1, CacheInvariance, PTL

(* A write starts only on the cached client, and with the warrant of       *)
(* settings that were in force since that client was begun.                *)
THEOREM RevokedWritesStayOut == Spec => RevokedWritesDoNotStart
<1> DEFINE Act == \A c \in WriteCalls :
                    Starts(c) => /\ \E e \in window : e.writes
                                 /\ \E e \in window : Grants(e, Asked[c])
<1>1. IInv => [Act]_vars
  <2> SUFFICES ASSUME IInv, NEW c \in WriteCalls, Starts(c)
               PROVE  Warranted(c)
    BY DEF Warranted
  <2>1. c \in Calls /\ pc[c] = "queued"
    BY CallsAssumption DEF Starts
  <2>2. client[c] \in 1 .. built /\ client[c] \notin closed
    BY <2>1 DEF IInv, Held
  <2>3. api # NoClient /\ client[c] = api
    BY <2>2 DEF IInv, Cache, TypeOK
  <2> QED
    BY <2>1, <2>3 DEF IInv, Gated, Warrant
<1> QED
  BY <1>1, CacheInvariance, PTL DEF RevokedWritesDoNotStart

-----------------------------------------------------------------------------
(* What has been read of settings that did not change since is what they   *)
(* say, whatever an earlier, failed attempt to build a client has read.    *)
Read(c) ==
  /\ pc[c] \in {"writes", "allowlist"} =>
       load_connections(env) # Broken /\ args.registry = load_connections(env)
  /\ pc[c] = "allowlist" => LimitsValid(env) /\ args.writes = env.writes
Settled == window = {env} => \A c \in Calls : Read(c)
SInv == Settled /\ SettledConfiguration

LEMMA SettledStep ==
  ASSUME IInv, SInv, [Next]_vars
  PROVE  SInv'
<1> SUFFICES ASSUME window' = {env'}
             PROVE  /\ \A c \in Calls : Read(c)'
                    /\ api' # NoClient => config'[api'] = Described(env')
  BY DEF SInv, Settled, SettledConfiguration
<1> DEFINE Goal == /\ \A c \in Calls : Read(c)'
                   /\ api' # NoClient => config'[api'] = Described(env')
<1> SUFFICES Goal
  OBVIOUS
<1> USE DEF cacheVars, CallOnly, Goto
<1>a. /\ TypeOK /\ Cache /\ env \in window
      /\ pc \in [Calls -> Building \cup {"new", "client", "checked", "queued",
                                        "running", "over", "refused"}]
  BY DEF IInv, TypeOK
<1>b. ASSUME UNCHANGED <<env, window>>
      PROVE  /\ \A c \in Calls : Read(c)
             /\ api # NoClient => config[api] = Described(env)
  BY <1>b DEF SInv, Settled, SettledConfiguration
<1>same. ASSUME UNCHANGED <<env, window, args, api, config>>,
                \A c \in Calls : pc'[c] \in Building => pc'[c] = pc[c]
         PROVE  Goal
  BY <1>b, <1>same DEF Read, Building
<1>1. CASE Reconfigure
  <2>1. window' = window \cup {env'} /\ UNCHANGED <<args, api, config, pc>>
    BY <1>1 DEF Reconfigure
  <2>2. env' = env /\ window' = window
    BY <1>a, <2>1
  <2> QED
    BY <1>same, <2>1, <2>2
<1>2. ASSUME NEW c \in Calls, Enter(c) PROVE Goal
  <2>1. CASE api # NoClient
    <3>1. /\ UNCHANGED <<env, window, args, api, config>>
          /\ pc' = [pc EXCEPT ![c] = "client"]
      BY <1>2, <2>1 DEF Enter
    <3> QED
      BY <1>a, <1>same, <3>1 DEF Building
  <2>2. CASE api = NoClient
    <3>1. /\ api' = NoClient /\ pc' = [pc EXCEPT ![c] = "connections"]
          /\ lock = Blank
      BY <1>2, <2>2 DEF Enter, LockFree
    <3>2. \A q \in Calls : pc[q] \notin Building
      BY <1>a, <3>1, CallsAssumption DEF TypeOK
    <3>3. \A q \in Calls : pc'[q] \notin {"writes", "allowlist"}
      BY <1>a, <3>1, <3>2 DEF Building
    <3> QED
      BY <3>1, <3>3 DEF Read
  <2> QED
    BY <2>1, <2>2
<1>3. ASSUME NEW c \in Calls, ReadConnections(c) PROVE Goal
  <2>0. UNCHANGED <<env, window, api, config>> /\ pc[c] = "connections"
        /\ api = NoClient
    BY <1>a, <1>3 DEF ReadConnections, Fails, Cache, Building
  <2>1. \A q \in Calls \ {c} : pc[q] \notin Building
    BY <1>a, <2>0 DEF TypeOK, Building
  <2>2. \/ /\ load_connections(env) # Broken
           /\ args'.registry = load_connections(env)
           /\ pc' = [pc EXCEPT ![c] = "writes"]
        \/ pc' = [pc EXCEPT ![c] = "refused"]
    BY <1>3 DEF ReadConnections, Fails, Loaded
  <2> QED
    BY <1>a, <2>0, <2>1, <2>2 DEF Read, Building
<1>4. ASSUME NEW c \in Calls, ReadWrites(c) PROVE Goal
  <2>0. UNCHANGED <<env, window, api, config>> /\ pc[c] = "writes"
        /\ api = NoClient
    BY <1>a, <1>4 DEF ReadWrites, Fails, Cache, Building
  <2>1. \A q \in Calls \ {c} : pc[q] \notin Building
    BY <1>a, <2>0 DEF TypeOK, Building
  <2>2. \/ /\ LimitsValid(env)
           /\ args'.registry = args.registry /\ args'.writes = env.writes
           /\ pc' = [pc EXCEPT ![c] = "allowlist"]
        \/ pc' = [pc EXCEPT ![c] = "refused"]
    BY <1>4 DEF ReadWrites, Fails
  <2> HIDE DEF Goal
  <2>3. Read(c)
    BY <1>b, <2>0
  <2> QED
    BY <1>a, <2>0, <2>1, <2>2, <2>3 DEF Goal, Read, Building
<1>5. ASSUME NEW c \in Calls, Construct(c) PROVE Goal
  <2>0. UNCHANGED <<env, window>> /\ pc[c] = "allowlist" /\ api = NoClient
    BY <1>a, <1>5 DEF Construct, Fails, Cache, Building
  <2>1. \A q \in Calls \ {c} : pc[q] \notin Building
    BY <1>a, <2>0 DEF TypeOK, Building
  <2>2. pc' \in {[pc EXCEPT ![c] = "client"], [pc EXCEPT ![c] = "refused"]}
    BY <1>5 DEF Construct, Fails
  <2>3. \A q \in Calls : Read(q)'
    BY <1>a, <2>1, <2>2 DEF Read, Building
  <2>4. Read(c)
    BY <1>b, <2>0
  <2>5. Constructed(args.registry, args.writes, writable_connections(env),
                    default_connection_name(env)) = Described(env)
    BY <2>0, <2>4 DEF Read, Described
  <2>6. CASE Described(env) # Broken
    <3>1. /\ built' = built + 1 /\ api' = built'
          /\ config' = [config EXCEPT ![built'] = Described(env)]
      BY <1>5, <2>5, <2>6 DEF Construct
    <3>2. built' \in Clients /\ DOMAIN config = Clients
      BY <1>a, <2>0, <3>1, CallsAssumption
      DEF IInv, Indexed, TypeOK, Cache, Building, Clients
    <3>3. PICK S : config \in [Clients -> S]
      BY DEF IInv, Indexed
    <3>4. config'[api'] = Described(env)
      BY <3>1, <3>2, <3>3
    <3> QED
      BY <2>0, <2>3, <3>4
  <2>7. CASE Described(env) = Broken
    <3>1. api' = api
      BY <1>5, <2>5, <2>7 DEF Construct
    <3> QED
      BY <2>0, <2>3, <3>1
  <2> QED
    BY <2>6, <2>7
<1>6. ASSUME NEW c \in Calls, OnClient(c) PROVE Goal
  <2>1. UNCHANGED <<env, window, args, api, config>>
    BY <1>6 DEF OnClient, Check, TurnedAway, Submit, Start, Expire, End
  <2>2. \A q \in Calls : pc'[q] \in Building => pc'[q] = pc[q]
    BY <1>a, <1>6 DEF OnClient, Check, TurnedAway, Submit, Start, Expire, End,
                      Building
  <2> QED
    BY <1>same, <2>1, <2>2
<1>7. CASE BeginReset \/ Dispose
  <2>1. UNCHANGED <<env, window, args, api, config>>
        /\ \A q \in Calls : pc'[q] \in {pc[q], "over"}
    BY <1>a, <1>7 DEF BeginReset, Dispose, Shutdown
  <2> QED
    BY <1>same, <2>1 DEF Building
<1>8. CASE Clear
  <2>1. UNCHANGED <<env, window, args, pc>> /\ api' = NoClient
    BY <1>8 DEF Clear
  <2> QED
    BY <1>b, <2>1 DEF Read
<1>9. CASE UNCHANGED vars
  BY <1>same, <1>9 DEF vars
<1> QED
  BY <1>1, <1>2, <1>3, <1>4, <1>5, <1>6, <1>7, <1>8, <1>9
  DEF Next, Reset, GetApi

(* A reset after the settings have changed is enough: the next client is   *)
(* the one that these settings, read one by one, describe together.        *)
THEOREM ResetIsEnough == Spec => []SettledConfiguration
<1>1. Init => SInv
  BY DEF Init, SInv, Settled, SettledConfiguration, Read
<1>2. IInv /\ SInv /\ [Next]_vars => SInv'
  BY SettledStep
<1>3. SInv => SettledConfiguration
  BY DEF SInv
<1> QED
  BY <1>1, <1>2, <1>3, CacheInvariance, PTL DEF Spec
-----------------------------------------------------------------------------
(* One client as ClientLife sees it: a step closes it, moves one call or   *)
(* changes nothing.                                                        *)
SameClosed(k) == (k \in closed') <=> (k \in closed)
Moved(k, c, from, to) ==
  /\ SameClosed(k) /\ StateOn(k)[c] = from
  /\ StateOn(k)' = [StateOn(k) EXCEPT ![c] = to]
LifeMove(k) ==
  \/ SameClosed(k) /\ StateOn(k)' = StateOn(k)
  \/ /\ k \notin closed /\ k \in closed'
     /\ StateOn(k)' = [c \in Calls |-> IF StateOn(k)[c] = "queued" THEN "over"
                                       ELSE StateOn(k)[c]]
  \/ \E c \in Calls :
       \/ k \notin closed /\ Moved(k, c, "none", "queued")
       \/ k \notin closed /\ Moved(k, c, "queued", "running")
       \/ Moved(k, c, "queued", "over")
       \/ Moved(k, c, "running", "over")

LEMMA LifeStep ==
  ASSUME NEW k \in Nat, IInv, [Next]_vars
  PROVE  LifeMove(k)
<1> USE CallsAssumption
<1>a. TypeOK /\ Cache /\ Held
  BY DEF IInv
<1>skip. ASSUME closed' = closed,
                \A q \in Calls : StateOn(k)'[q] = StateOn(k)[q]
         PROVE  LifeMove(k)
  BY <1>skip DEF LifeMove, SameClosed, StateOn
<1>go. ASSUME NEW c \in Calls, closed' = closed, client' = client,
              NEW to \in {"queued", "running", "over"},
              pc' = [pc EXCEPT ![c] = to]
       PROVE  StateOn(k)' = IF client[c] = k THEN [StateOn(k) EXCEPT ![c] = to]
                            ELSE StateOn(k)
  BY <1>a, <1>go DEF StateOn, TypeOK
<1>1. CASE Reconfigure \/ BeginReset \/ Clear \/ UNCHANGED vars
  BY <1>skip, <1>1 DEF Reconfigure, BeginReset, Clear, vars, cacheVars, StateOn
<1>2. ASSUME NEW c \in Calls, GetApi(c) PROVE LifeMove(k)
  <2>1. /\ closed' = closed
        /\ \A q \in Calls : q # c => pc'[q] = pc[q] /\ client'[q] = client[q]
        /\ pc[c] \in Building \cup {"new"}
        /\ pc'[c] \in Building \cup {"client", "refused"}
    BY <1>a, <1>2 DEF GetApi, Enter, ReadConnections, ReadWrites, Construct,
                      Fails, Goto, TypeOK, Building
  <2> QED
    BY <1>skip, <2>1 DEF StateOn, Building
<1>3. ASSUME NEW c \in Calls, OnClient(c) PROVE LifeMove(k)
  <2>0. closed' = closed /\ client' = client
    BY <1>3 DEF OnClient, Check, TurnedAway, Submit, Start, Expire, End,
                CallOnly
  <2>1. CASE Check(c) \/ TurnedAway(c)
    BY <1>a, <1>skip, <2>0, <2>1 DEF Check, TurnedAway, Goto, StateOn, TypeOK
  <2>other. ASSUME client[c] # k, ~ (Check(c) \/ TurnedAway(c))
            PROVE  LifeMove(k)
    BY <1>a, <1>3, <1>go, <2>0, <2>other
    DEF OnClient, Submit, Start, Expire, End, Goto, LifeMove, SameClosed
  <2>2. CASE client[c] = k /\ Submit(c)
    <3>1. StateOn(k)[c] = "none" /\ k \notin closed
      BY <2>2 DEF Submit, Admissible, Open, Goto, StateOn
    <3> QED
      BY <1>go, <2>0, <2>2, <3>1 DEF Submit, Goto, LifeMove, Moved, SameClosed
  <2>3. CASE client[c] = k /\ Start(c)
    <3>1. StateOn(k)[c] = "queued" /\ k \notin closed
      BY <1>a, <2>3 DEF Start, Goto, StateOn, Held
    <3> QED
      BY <1>go, <2>0, <2>3, <3>1 DEF Start, Goto, LifeMove, Moved, SameClosed
  <2>4. CASE client[c] = k /\ (Expire(c) \/ End(c))
    <3>1. StateOn(k)[c] = pc[c] /\ pc[c] \in {"queued", "running"}
      BY <2>4 DEF Expire, End, Goto, StateOn
    <3> QED
      BY <1>go, <2>0, <2>4, <3>1
      DEF Expire, End, Goto, LifeMove, Moved, SameClosed
  <2> QED
    BY <1>3, <2>1, <2>other, <2>2, <2>3, <2>4 DEF OnClient
<1>4. CASE Dispose
  <2>1. /\ api \notin closed /\ closed' = closed \cup {api}
        /\ client' = client
        /\ pc' = [c \in Calls |-> IF client[c] = api /\ pc[c] = "queued"
                                    THEN "over" ELSE pc[c]]
    BY <1>a, <1>4 DEF Dispose, Shutdown, Cache, TypeOK, Clients, NoClient
  <2>2. CASE k = api
    BY <2>1, <2>2 DEF LifeMove, StateOn
  <2>3. CASE k # api
    BY <2>1, <2>3 DEF LifeMove, SameClosed, StateOn
  <2> QED
    BY <2>2, <2>3
<1> QED
  BY <1>1, <1>2, <1>3, <1>4 DEF Next, Reset

(* Each client keeps the promise of ClientLife, whatever becomes of those  *)
(* before and after it: once reset_api has closed it, it neither admits    *)
(* nor starts a call.                                                      *)
THEOREM ClientsKeepLife == Spec => ClientsLive
<1>1. Init => First!Init /\ Second!Init
  BY DEF Init, First!Init, Second!Init, StateOn, NoClient
<1>2. IInv /\ [Next]_vars => [First!Next]_(First!vars)
  <2> SUFFICES ASSUME IInv, [Next]_vars PROVE [First!Next]_(First!vars)
    OBVIOUS
  <2>1. LifeMove(1)
    BY LifeStep
  <2> QED
    BY <2>1 DEF LifeMove, Moved, SameClosed, First!Next, First!vars,
                First!Close, First!Admit, First!Start, First!Withdraw,
                First!End, First!Becomes
<1>3. IInv /\ [Next]_vars => [Second!Next]_(Second!vars)
  <2> SUFFICES ASSUME IInv, [Next]_vars PROVE [Second!Next]_(Second!vars)
    OBVIOUS
  <2>1. LifeMove(2)
    BY LifeStep
  <2> QED
    BY <2>1 DEF LifeMove, Moved, SameClosed, Second!Next, Second!vars,
                Second!Close, Second!Admit, Second!Start, Second!Withdraw,
                Second!End, Second!Becomes
<1> QED
  BY <1>1, <1>2, <1>3, CacheInvariance, PTL
  DEF Spec, ClientsLive, First!Spec, Second!Spec

(* No two dialects of the registry have the same backend, so the search of *)
(* dialect_for_url finds at most one.                                      *)
LEMMA BackendsDiffer ==
  /\ DOMAIN DIALECTS = {"sqlite", "postgres", "mysql", "mssql", "oracle"}
  /\ \A d, e \in DOMAIN DIALECTS :
       DIALECTS[d].backend = DIALECTS[e].backend => d = e
<1>1. DOMAIN DIALECTS = {"sqlite", "postgres", "mysql", "mssql", "oracle"}
  BY DEF DIALECTS
<1>2. /\ DIALECTS["sqlite"].backend = "sqlite"
      /\ DIALECTS["postgres"].backend = "postgresql"
      /\ DIALECTS["mysql"].backend = "mysql"
      /\ DIALECTS["mssql"].backend = "mssql"
      /\ DIALECTS["oracle"].backend = "oracle"
  BY DEF DIALECTS, Dialect
<1> QED
  BY <1>1, <1>2

(* It finds the dialect whose backend the URL has.                         *)
LEMMA DialectOfBackend ==
  ASSUME NEW d \in DOMAIN DIALECTS, NEW url, url.backend = DIALECTS[d].backend
  PROVE  dialect_for_url(url) = d
<1> DEFINE same == {e \in DOMAIN DIALECTS : DIALECTS[e].backend = url.backend}
<1>1. same = {d}
  BY BackendsDiffer
<1>2. (CHOOSE e \in same : TRUE) = d
  BY <1>1
<1> QED
  BY <1>1, <1>2 DEF dialect_for_url

(* A URL that build_url made of some settings has their dialect's backend. *)
LEMMA BuiltUrlKeepsDialect ==
  ASSUME NEW fields, build_url(fields) # Broken
  PROVE  dialect_for_url(build_url(fields)) = get_dialect(fields.dialect)
<1> DEFINE d == get_dialect(fields.dialect)
<1>1. d = Broken => d = "sqlite"
  BY DEF build_url
<1>2. d \in DOMAIN DIALECTS
  BY <1>1, BackendsDiffer DEF get_dialect
<1>3. DIALECTS["sqlite"].backend = "sqlite"
  BY DEF DIALECTS, Dialect
<1>4. build_url(fields).backend = DIALECTS[d].backend
  <2>1. CASE d = "sqlite"
    BY <2>1, <1>3 DEF build_url
  <2>2. CASE d # "sqlite"
    BY <2>2, <1>1 DEF build_url
  <2> QED
    BY <2>1, <2>2
<1> QED
  BY <1>2, <1>4, DialectOfBackend

(* Whatever settings a connection is configured by, if build_url accepts   *)
(* them then the dialect that dialect_for_url reads off the URL later is   *)
(* the one that was configured, under an alias or not.                     *)
THEOREM DialectsAreKept == Spec => []DialectsSurvive
<1>1. DialectsSurvive
  <2> SUFFICES ASSUME NEW spec, spec.kind = "dialect", FromSpec(spec) # Broken
               PROVE  dialect_for_url(FromSpec(spec))
                        = get_dialect(spec.fields.dialect)
    BY DEF DialectsSurvive
  <2>1. FromSpec(spec) = build_url(spec.fields)
    BY DEF FromSpec
  <2> QED
    BY <2>1, BuiltUrlKeepsDialect
<1> QED
  BY <1>1, PTL
=============================================================================
