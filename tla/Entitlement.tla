---------------------------- MODULE Entitlement -----------------------------
(***************************************************************************)
(* resolve_connection of SqlApi: which configured connection a call means, *)
(* given what the identity of its caller may use.  The operations look it  *)
(* up more than once, and the grants may change in between: groups are     *)
(* added and taken away, and a credential expires.                         *)
(***************************************************************************)
EXTENDS Integers, Sequences

CONSTANTS
  Registry,      \* the configured connections, in order
  Default,       \* SqlApi._default_connection
  NoName,        \* the connection argument left out, or no connection
  NoIdentity     \* in place of grants: an identity that is not authenticated
                 \* or whose credential has expired

Names == {Registry[i] : i \in 1 .. Len(Registry)}

ASSUME RegistryAssumption ==
  Registry \in Seq(Names) /\ Default \in Names /\ NoName \notin Names

(* What identity_scoped_resources may answer: the names of the caller, or  *)
(* an error that _entitled lets through.                                   *)
Grants == (SUBSET Names) \cup {NoIdentity}

ASSUME IdentityAssumption == \A names \in SUBSET Names : NoIdentity # names

FirstOf(granted) ==
  Registry[CHOOSE i \in 1 .. Len(Registry) :
             /\ Registry[i] \in granted
             /\ \A j \in 1 .. i - 1 : Registry[j] \notin granted]

(* The connection a call gets under these grants, NoName if it is refused. *)
ResolvedUnder(granted, connection) ==
  IF granted = NoIdentity THEN NoName
  ELSE IF connection # NoName
    THEN IF connection \in granted THEN connection ELSE NoName
    ELSE IF Default \in granted THEN Default
    ELSE IF granted # {} THEN FirstOf(granted)
    ELSE NoName
=============================================================================
