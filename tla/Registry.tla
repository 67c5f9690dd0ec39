------------------------------ MODULE Registry ------------------------------
(***************************************************************************)
(* The key registries of the vault (register_commitment and                *)
(* register_enc_key): an owner publishes a spending commitment and a       *)
(* viewing key, each under a version, and rotates them.  Calls are signed  *)
(* in one order and reach the ledger in any order, or never.               *)
(***************************************************************************)
EXTENDS FiniteSets, Integers

CONSTANTS
    Owners,      \* addresses
    Versions,    \* versions an owner signs, a set of naturals
    Values,      \* commitments and keys
    MaxCalls     \* bound: calls signed

ASSUME RegistryAssumptions ==
    /\ Versions \subseteq Nat
    /\ MaxCalls \in Nat

Kinds == {"commitment", "enc_key"}
Keys  == [kind : Kinds, owner : Owners]   \* DataKey::Commitment, DataKey::EncKey
Calls == [key : Keys, version : Versions, value : Values]

VARIABLES
    entry,    \* entry[key]: the set of the one stored record, empty if none
    inFlight, \* calls signed and not yet applied
    applied   \* every call the ledger has seen, accepted or not

registryVars == <<entry, inFlight, applied>>

-----------------------------------------------------------------------------
StaleIfOlder(call) == \E prev \in entry[call.key] : call.version < prev.version  \* mutant of Stale

\* Error::StaleVersion
Stale(call) == \E prev \in entry[call.key] : call.version <= prev.version

SetUnderOwner(call) ==   \* mutant of Set: the two registries share a key
    entry' = [k \in Keys |-> IF k.owner = call.key.owner
                             THEN {[version |-> call.version, value |-> call.value]}
                             ELSE entry[k]]

SetAdding(call) ==   \* mutant of Set: the old record stays beside the new one
    entry' = [entry EXCEPT ![call.key] =
                 @ \cup {[version |-> call.version, value |-> call.value]}]

Set(call) ==
    entry' = [entry EXCEPT ![call.key] =
                 {[version |-> call.version, value |-> call.value]}]

(* register_commitment, register_enc_key: the owner's signature covers the *)
(* whole call, so what arrives is what was signed.                         *)
Register(call) ==
    /\ call \in inFlight
    /\ inFlight' = inFlight \ {call}
    /\ applied' = applied \cup {call}
    /\ IF Stale(call) THEN UNCHANGED entry ELSE Set(call)

(* An owner signs a call; a client may sign one version twice.             *)
Sign(call) ==
    /\ Cardinality(inFlight \cup applied) < MaxCalls
    /\ call \notin inFlight \cup applied
    /\ inFlight' = inFlight \cup {call}
    /\ UNCHANGED <<entry, applied>>

RegistryInit ==
    /\ entry = [k \in Keys |-> {}]
    /\ inFlight = {}
    /\ applied = {}

RegistryNext == \E call \in Calls : Sign(call) \/ Register(call)

RegistrySpec == RegistryInit /\ [][RegistryNext]_registryVars

-----------------------------------------------------------------------------
RegistryTypeOK ==
    /\ entry \in [Keys -> SUBSET [version : Versions, value : Values]]
    /\ \A k \in Keys : Cardinality(entry[k]) <= 1
    /\ inFlight \subseteq Calls
    /\ applied \subseteq Calls

SeenFor(k) == {call \in applied : call.key = k}

(* "a later version always supersedes an earlier one" (vault lib.rs:279),  *)
(* in whatever order calls arrive: what is stored is a call of that owner  *)
(* and kind whose version no applied call exceeds.                         *)
LatestWins ==
    \A k \in Keys :
        /\ SeenFor(k) = {} <=> entry[k] = {}
        /\ \A e \in entry[k], call \in SeenFor(k) :
              /\ call.version <= e.version
              /\ [key |-> k, version |-> e.version, value |-> e.value] \in applied

(* A version once published keeps its value: whoever read it can rely on   *)
(* it until the version grows.                                             *)
VersionIsFinal ==
    [][\A k \in Keys : \A e \in entry[k], f \in entry'[k] :
          e = f \/ e.version < f.version]_registryVars

(* One entry per owner and kind, the latest that was published.            *)
RegistryInv == RegistryTypeOK /\ LatestWins
=============================================================================
