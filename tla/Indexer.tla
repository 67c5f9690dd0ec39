------------------------------- MODULE Indexer -------------------------------
(***************************************************************************)
(* The indexer (offchain-go/internal/indexer): a loop that copies the      *)
(* vault's events from an RPC with a bounded history into Postgres, and    *)
(* the /health answer by which wallets decide whether to trust its leaves. *)
(*                                                                         *)
(* A transact emits two leaves and its nullifiers in one ledger; tx t      *)
(* (from 1) carries leaves 2t-2 and 2t-1, and its nullifiers are           *)
(* represented by t.  The RPC is a pool of nodes: each answer comes from a *)
(* node that may lag behind the network by what its provider lets it, and  *)
(* any call may fail.  Process memory is lost by a crash; Postgres keeps   *)
(* what was committed.                                                     *)
(***************************************************************************)
EXTENDS Integers, Sequences, FiniteSetsExt

CONSTANTS
    MaxLedger,      \* bound: ledgers that close
    MaxTxs,         \* bound: transacts on the chain
    MaxFaults,      \* bound: crashes and failed calls
    Confirmed,      \* the configured confirmations, before New clamps them
    ScanWindow,     \* scanWindow
    PageLimit,      \* pageLimit, in transacts
    Retention,      \* ledgers of history an RPC node keeps
    WalkBackSpan,   \* retentionLedgers, just under Retention
    MaxRescan,      \* maxRescan
    SyncLagLimit,   \* health's lag limit
    Providers       \* what may serve the chain: how far its nodes lag, and whether the entry that the
                    \* deploy ledger is read from is ever rewritten

ASSUME IndexerAssumptions ==
    /\ {MaxLedger, MaxTxs, MaxFaults, Confirmed} \subseteq Nat
    /\ {ScanWindow, PageLimit} \subseteq Nat \ {0}
    /\ {Retention, WalkBackSpan, MaxRescan, SyncLagLimit} \subseteq Nat
    /\ WalkBackSpan <= Retention
    /\ Providers \subseteq [lag : Nat, rewrites : BOOLEAN]

VARIABLES
    latest,      \* last closed ledger
    txLedger,    \* the ledger of each transact, in order
    instance,    \* lastModifiedLedgerSeq of the vault's instance entry
    provider,    \* the one of Providers that serves the indexer
    rows,        \* commitments: the leaf indexes stored
    nulls,       \* nullifiers: the transacts whose nullifiers are stored
    cursor,      \* cursor.last_ledger
    deploy,      \* cursor.deploy_ledger; 0 stands for NULL
    gap,         \* cursor.gap_detected
    pc,          \* where the tick is
    safe,        \* tick: last ledger to read
    windowFrom,  \* ingestRange: start of the window
    attempts,    \* tick: rescans so far
    wanted,      \* tick: the leaf a gap was reported at
    faults       \* crashes and failed calls so far

chain  == <<latest, txLedger, instance, provider>>
tables == <<rows, nulls, cursor, deploy>>
locals == <<safe, windowFrom, attempts, wanted>>
vars   == <<latest, txLedger, instance, provider, rows, nulls, cursor, deploy, gap,
            pc, safe, windowFrom, attempts, wanted, faults>>

Txs       == 1..Len(txLedger)
Leaves    == 0..(2 * Len(txLedger) - 1)
TxOf(i)   == (i \div 2) + 1
LedgerOf(i) == txLedger[TxOf(i)]
LeavesOf(T) == {i \in Leaves : TxOf(i) \in T}

Larger(a, b)  == IF a < b THEN b ELSE a
Smaller(a, b) == IF a < b THEN a ELSE b

-----------------------------------------------------------------------------
(* The chain and the RPC (external) *)

Oldest == Larger(1, latest - Retention)

\* the nodes' latest ledgers, one of which answers a call
NodeViews == Larger(1, latest - provider.lag)..latest

\* getEvents: the transacts of from..to that a node at ledger n returns
Answer(from, to, n) ==
    {t \in Txs : /\ txLedger[t] \in Larger(from, Oldest)..to
                 /\ txLedger[t] <= n}

CloseLedger(k, rewritten) ==
    /\ latest < MaxLedger
    /\ Len(txLedger) + k <= MaxTxs
    /\ rewritten => provider.rewrites
    /\ latest' = latest + 1
    /\ txLedger' = txLedger \o [j \in 1..k |-> latest + 1]
    /\ instance' = IF rewritten THEN latest + 1 ELSE instance
    /\ UNCHANGED <<provider, tables, gap, pc, locals, faults>>

-----------------------------------------------------------------------------
(* The database *)

NextLeafIndex == IF rows = {} THEN 0 ELSE Max(rows) + 1

\* ApplyBatch's running expected index after the batch's contiguous leaves
Reached(C) == Min({m \in NextLeafIndex..(2 * Len(txLedger)) : m \notin C})

\* mutant of HasGap: leaves are stored as they come
HasGapNever(C) == FALSE

HasGap(C) == \E c \in C : c > Reached(C)

\* mutant of Commit: leaves and nullifiers are not one transaction
CommitSplit(T, to) ==
    /\ rows' = rows \cup {c \in LeavesOf(T) : c >= NextLeafIndex}
    /\ nulls' \in {nulls, nulls \cup T}
    /\ cursor' = to

(* The one SQL transaction of ApplyBatch: leaves, nullifiers and cursor.   *)
Commit(T, to) ==
    /\ rows' = rows \cup {c \in LeavesOf(T) : c >= NextLeafIndex}
    /\ nulls' = nulls \cup T
    /\ cursor' = to

-----------------------------------------------------------------------------
(* The ingest loop *)

Reset ==
    /\ pc' = "idle"
    /\ safe' = 0 /\ windowFrom' = 0 /\ attempts' = 0 /\ wanted' = 0

(* Run: a tick that returns an error raises the gap flag and sleeps.       *)
Fail == Reset /\ gap' = TRUE /\ UNCHANGED <<chain, tables>>

(* deployLedgerFromWalkBack: node n has leaf 0 in the window of the        *)
(* walk-back up to upTo in which it falls, and the window is no full page. *)
WalkBackFinds(upTo, n) ==
    LET first  == Larger(1, upTo - WalkBackSpan)
        window == first + ((txLedger[1] - first) \div ScanWindow) * ScanWindow
        events == Answer(window, Smaller(window + ScanWindow - 1, upTo), n)
    IN  /\ Txs # {}
        /\ txLedger[1] >= first
        /\ 1 \in events
        /\ Cardinality(events) < PageLimit

(* tick: without a stored deploy ledger, take the instance entry's, or the *)
(* walk-back's when that read fails.                                       *)
Discover ==
    /\ pc = "idle"
    /\ deploy = 0
    /\ pc' = "plan"
    /\ \/ deploy' = instance /\ UNCHANGED faults
       \/ /\ faults < MaxFaults /\ faults' = faults + 1
          /\ \E latestSeen, n \in NodeViews : WalkBackFinds(latestSeen, n)
          /\ deploy' = txLedger[1]
    /\ UNCHANGED <<chain, rows, nulls, cursor, gap, locals>>

Begin ==
    /\ pc = "idle"
    /\ deploy # 0
    /\ pc' = "plan"
    /\ UNCHANGED <<chain, tables, gap, locals, faults>>

ConfirmationsUnclamped == Confirmed   \* mutant of Confirmations

\* New: confirmations are clamped to 1..2
Confirmations == Larger(1, Smaller(Confirmed, 2))

\* mutant of Start: an off-by-one past the cursor
StartPastCursor == IF rows = {} THEN deploy ELSE cursor + 2

\* An empty tree rescans from the deploy ledger.
Start == IF rows = {} THEN deploy ELSE cursor + 1

(* tick: choose what to read; with nothing new the tick ends at once.      *)
Plan ==
    /\ pc = "plan"
    /\ \E n \in NodeViews :
          IF Start > n - Confirmations
          THEN Reset /\ UNCHANGED <<chain, tables, gap, faults>>
          ELSE /\ pc' = "scan"
               /\ safe' = n - Confirmations
               /\ windowFrom' = Start
               /\ attempts' = 0
               /\ UNCHANGED <<chain, tables, gap, wanted, faults>>

WindowToUncut == windowFrom + ScanWindow - 1   \* mutant of WindowTo

WindowTo == Smaller(windowFrom + ScanWindow - 1, safe)

(* ingestRange: one window is fetched and applied.                         *)
ScanOk(n) ==
    LET T == Answer(windowFrom, WindowTo, n)
        C == LeavesOf(T)
    IN  /\ windowFrom <= n
        /\ windowFrom >= Oldest
        /\ Cardinality(T) < PageLimit
        /\ IF HasGap(C)
           THEN /\ pc' = "gap"
                /\ wanted' = Reached(C)
                /\ UNCHANGED <<tables, windowFrom>>
           ELSE /\ Commit(T, WindowTo)
                /\ windowFrom' = WindowTo + 1
                /\ pc' = IF WindowTo + 1 > safe THEN "finish" ELSE "scan"
                /\ UNCHANGED <<deploy, wanted>>
        /\ UNCHANGED <<chain, gap, safe, attempts, faults>>

(* The window starts before the RPC's history, after the node's ledger, or *)
(* holds a full page of events.                                            *)
ScanRefused(n) ==
    /\ \/ windowFrom > n
       \/ windowFrom < Oldest
       \/ Cardinality(Answer(windowFrom, WindowTo, n)) >= PageLimit
    /\ Fail
    /\ UNCHANGED faults

Scan == pc = "scan" /\ \E n \in NodeViews : ScanOk(n) \/ ScanRefused(n)

(* tick: a gap at leaf 0 re-anchors on leaf 0.                             *)
ReAnchor ==
    /\ pc = "gap"
    /\ wanted = 0
    /\ \E n \in NodeViews :
          IF WalkBackFinds(safe, n)
          THEN /\ deploy' = txLedger[1]
               /\ windowFrom' = txLedger[1]
               /\ pc' = "scan"
               /\ UNCHANGED <<chain, rows, nulls, cursor, gap, safe, attempts, wanted>>
          ELSE Fail
    /\ UNCHANGED faults

\* LedgerOfLeaf(expected - 1), or the deploy ledger when it is not stored
RewindTo ==
    IF wanted - 1 \in rows THEN Larger(LedgerOf(wanted - 1), deploy) ELSE deploy

(* tick: any other gap is reported and rescanned from the last good leaf.  *)
Rewind ==
    /\ pc = "gap"
    /\ wanted # 0
    /\ IF attempts + 1 > MaxRescan
       THEN Fail /\ UNCHANGED faults
       ELSE /\ attempts' = attempts + 1
            /\ gap' = TRUE
            /\ windowFrom' = RewindTo
            /\ pc' = "scan"
            /\ UNCHANGED <<chain, tables, safe, wanted, faults>>

Finish ==
    /\ pc = "finish"
    /\ gap' = FALSE
    /\ Reset
    /\ UNCHANGED <<chain, tables, faults>>

(* An RPC or database call fails (a failing database may refuse the flag   *)
(* as well), or the process stops; the next tick starts from the tables.   *)
Interrupt ==
    /\ pc # "idle"
    /\ faults < MaxFaults
    /\ faults' = faults + 1
    /\ Reset
    /\ gap' \in {gap, TRUE}
    /\ UNCHANGED <<chain, tables>>

-----------------------------------------------------------------------------
Init ==
    /\ latest = 1 /\ txLedger = <<>> /\ instance = 1 /\ provider \in Providers
    /\ rows = {} /\ nulls = {} /\ cursor = 0 /\ deploy = 0 /\ gap = FALSE
    /\ pc = "idle" /\ safe = 0 /\ windowFrom = 0 /\ attempts = 0 /\ wanted = 0
    /\ faults = 0

Tick == Discover \/ Begin \/ Plan \/ Scan \/ ReAnchor \/ Rewind \/ Finish

Next ==
    \/ \E k \in 0..2, rewritten \in BOOLEAN : CloseLedger(k, rewritten)
    \/ Tick
    \/ Interrupt

Spec == Init /\ [][Next]_vars

(* The loop never stops by itself, and ledgers keep closing.               *)
Fairness ==
    /\ WF_vars(Tick)
    /\ WF_vars(\E k \in 0..2, rewritten \in BOOLEAN : CloseLedger(k, rewritten))

FairSpec == Spec /\ Fairness

-----------------------------------------------------------------------------
(* /health *)

ReadyAnyLag(n) == ~gap   \* mutant of Ready

(* health's answer when a node at ledger n reports the latest ledger.      *)
Ready(n) == ~gap /\ n - cursor <= SyncLagLimit

-----------------------------------------------------------------------------
(* Properties *)

TypeOK ==
    /\ latest \in Nat \ {0} /\ txLedger \in Seq(1..latest) /\ instance \in 1..latest
    /\ provider \in Providers
    /\ rows \subseteq Leaves /\ nulls \subseteq Txs
    /\ cursor \in 0..latest /\ deploy \in 0..latest /\ gap \in BOOLEAN
    /\ pc \in {"idle", "plan", "scan", "gap", "rediscover", "finish"}
    /\ safe \in 0..latest /\ windowFrom \in 0..(latest + 1)
    /\ attempts \in 0..MaxRescan /\ wanted \in 0..(2 * Len(txLedger))
    /\ faults \in 0..MaxFaults

(* What is stored is a prefix of the chain's leaves, whatever the RPC left *)
(* out and wherever the process stopped: a wallet that rebuilds the tree   *)
(* from it gets a tree the vault had.                                      *)
Gapless == rows = 0..(NextLeafIndex - 1)

(* Nullifiers never run behind leaves: when the leaves of a transact are   *)
(* stored, so are its nullifiers, so a wallet that sees the change of its  *)
(* spend also sees that the input is spent.                                *)
NullifiersFollow == \A i \in rows : TxOf(i) \in nulls

(* The tables are a prefix of the chain's leaves with all their            *)
(* nullifiers.                                                             *)
TablesFollow == Gapless /\ NullifiersFollow

(* The confirmations, clamped to 1..2, cover the lag of every node, and    *)
(* the deploy ledger is not read after leaf 0.                             *)
Covered ==
    /\ provider.lag <= 1 \/ (provider.lag <= 2 /\ Confirmed >= 2)
    /\ ~provider.rewrites

(* The cursor never passes a leaf that was not stored, whichever nodes     *)
(* answer and wherever the tick stops (ingest.go:235).                     *)
CursorComplete == Covered => \A i \in Leaves : LedgerOf(i) <= cursor => i \in rows

(* A leaf of a ledger old enough for every node to confirm                 *)
Final(i) == i \in Leaves /\ LedgerOf(i) <= latest - provider.lag - Confirmations

(* What the loop reaches in the end                                        *)
FinalStored == \A i \in Leaves : Final(i) => i \in rows

(* "reports not-ready when sync lag exceeds the configured threshold so    *)
(* the wallet does not trust a partial leaf set" (offchain/README.md:49):  *)
(* an indexer that calls itself ready serves every leaf that the node it   *)
(* asked has had for longer than the threshold.                            *)
CompleteUpTo(n) == \A i \in Leaves : LedgerOf(i) <= n - SyncLagLimit => i \in rows

HealthyIsComplete == Covered => \A n \in NodeViews : Ready(n) => CompleteUpTo(n)

(* What the indexer says of itself is so: the cursor and a ready answer    *)
(* stand for stored leaves.                                                *)
ClaimsHold == TypeOK /\ CursorComplete /\ HealthyIsComplete
=============================================================================
