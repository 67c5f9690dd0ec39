------------------------------ MODULE VaultTtl ------------------------------
(***************************************************************************)
(* Rent: how long the vault's ledger entries live, and the keeper that     *)
(* calls bump_ttl for them (contracts/vault bump_ttl, cmd/keeper).         *)
(*                                                                         *)
(* Each persistent entry is live until a ledger and archived after it.     *)
(* Writing an entry that exists leaves its lifetime alone, so transact     *)
(* prolongs none of these entries; extend_ttl does, when little is left.   *)
(* Time is counted in ledgers.                                             *)
(***************************************************************************)
EXTENDS Integers

CONSTANTS
    Horizon,     \* bound: the last ledger looked at
    THRESHOLD,   \* ttl::THRESHOLD
    EXTEND_TO,   \* ttl::EXTEND_TO
    MinTtl,      \* the network's lifetime of a new or restored entry
    Interval,    \* the keeper's interval
    Slack,       \* the longest a due call takes to be applied or given up
    MaxFailed    \* the most calls of the keeper that fail in a row

ASSUME RentAssumptions ==
    /\ {Horizon, THRESHOLD, EXTEND_TO, MinTtl, Slack, MaxFailed} \subseteq Nat
    /\ Interval \in Nat \ {0}
    /\ THRESHOLD <= EXTEND_TO

VARIABLES
    now,        \* the current ledger
    liveUntil,  \* the last ledger of each entry's life
    nextCall,   \* when the keeper calls next
    failed      \* its failed calls since the last one applied

rentVars == <<now, liveUntil, nextCall, failed>>

Bumped  == {"tree", "instance"}    \* bump_ttl: the MerkleKey entries, the instance
Entries == Bumped \cup {"config"}  \* Admin, Token, Domain, MaxDeposit, TvlCap, Tvl, Paused

Live(e) == now <= liveUntil[e]

-----------------------------------------------------------------------------
\* mutant of Extended: the entry gets a fixed lifetime, even a shorter one
ExtendedAlways(e) == now + EXTEND_TO

\* mutant of Extended: prolonged by the threshold only
ExtendedShort(e) ==
    IF liveUntil[e] - now <= THRESHOLD THEN liveUntil[e] + 1 ELSE liveUntil[e]

(* extend_ttl(THRESHOLD, EXTEND_TO): it never shortens a life.             *)
Extended(e) ==
    IF liveUntil[e] - now <= THRESHOLD THEN now + EXTEND_TO ELSE liveUntil[e]

(* bump_ttl; an archived entry cannot be extended and traps the call.      *)
BumpTtl ==
    /\ \A e \in Bumped : Live(e)
    /\ liveUntil' = [e \in Entries |->
                        IF e \in Bumped THEN Extended(e) ELSE liveUntil[e]]

(* Anyone may call it.                                                     *)
AnyoneBumps == BumpTtl /\ UNCHANGED <<now, nextCall, failed>>

(* The keeper's loop: success or error, the next call is an interval away. *)
KeeperBumps ==
    /\ now >= nextCall
    /\ BumpTtl
    /\ nextCall' = now + Interval
    /\ failed' = 0
    /\ UNCHANGED now

KeeperFails ==
    /\ now >= nextCall
    /\ failed < MaxFailed
    /\ nextCall' = now + Interval
    /\ failed' = failed + 1
    /\ UNCHANGED <<now, liveUntil>>

(* A restarted keeper calls at once.                                       *)
KeeperRestarts ==
    /\ now < nextCall
    /\ nextCall' = now
    /\ UNCHANGED <<now, liveUntil, failed>>

(* The network restores an archived entry for whoever pays for it.         *)
Restore(e) ==
    /\ ~Live(e)
    /\ liveUntil' = [liveUntil EXCEPT ![e] = now + MinTtl]
    /\ UNCHANGED <<now, nextCall, failed>>

(* A ledger closes; a due call of the keeper is not put off beyond Slack.  *)
LedgerCloses ==
    /\ now < Horizon
    /\ now < nextCall + Slack
    /\ now' = now + 1
    /\ UNCHANGED <<liveUntil, nextCall, failed>>

-----------------------------------------------------------------------------
(* The vault was just initialized; the keeper is somewhere in its interval. *)
RentInit ==
    /\ now = 0
    /\ liveUntil = [e \in Entries |-> MinTtl]
    /\ nextCall \in 0..Interval
    /\ failed = 0

RentNext ==
    \/ AnyoneBumps
    \/ KeeperBumps
    \/ KeeperFails
    \/ KeeperRestarts
    \/ \E e \in Entries : Restore(e)
    \/ LedgerCloses

RentSpec == RentInit /\ [][RentNext]_rentVars

-----------------------------------------------------------------------------
RentTypeOK ==
    /\ now \in Nat
    /\ liveUntil \in [Entries -> Nat]
    /\ nextCall \in Nat
    /\ failed \in 0..MaxFailed

(* The longest time between the keeper's calls, each of which may fail.    *)
Round == Interval + Slack

(* What the keeper needs: the remaining life at which extend_ttl declines  *)
(* to act, and that of a new entry, must outlast the failures allowed.     *)
Margin ==
    /\ (MaxFailed + 1) * Round <= THRESHOLD
    /\ (MaxFailed + 1) * Round <= MinTtl

(* A punctual keeper keeps the tree and the instance alive, whoever else   *)
(* calls bump_ttl and whenever the keeper restarts (keeper main.go:1).     *)
PoolLive == \A e \in Bumped : Live(e)

(* bump_ttl "only prolongs liveness" (vault lib.rs:143): no step, by the   *)
(* keeper or anyone, brings an entry's end nearer.                         *)
OnlyProlongs == [][\A e \in Entries : liveUntil'[e] >= liveUntil[e]]_rentVars

(* "extend the TTL of the tree state and the instance so the pool never    *)
(* archives" (vault lib.rs:142): every entry that transact reads is live.  *)
NeverArchives == \A e \in Entries : Live(e)

(* The strengthening that makes PoolLive inductive: what is left of each   *)
(* entry covers the next call and every failure still allowed.             *)
RentCovered ==
    /\ now <= nextCall + Slack
    /\ nextCall <= now + Interval
    /\ \A e \in Bumped : nextCall + Slack + (MaxFailed - failed) * Round <= liveUntil[e]

RentInv == RentTypeOK /\ (Margin => RentCovered)

(* What a punctual keeper achieves, with the slack it keeps.               *)
RentSafe == RentInv /\ PoolLive
=============================================================================
