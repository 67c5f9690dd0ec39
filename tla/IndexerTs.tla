------------------------------ MODULE IndexerTs ------------------------------
(***************************************************************************)
(* The indexer in TypeScript (offchain/indexer/src), which the Go service  *)
(* was ported from, over the same chain and the same tables.  It differs   *)
(* in how it meets the RPC: getEvents is paged by cursor and each page may *)
(* come from another node; the deploy ledger is read from the entry of the *)
(* contract's code (instance stands for its lastModifiedLedgerSeq); and a  *)
(* gap at leaf 0 ends the tick, after which the ledger of leaf 0 is looked *)
(* for without moving the cursor.                                          *)
(***************************************************************************)
EXTENDS Indexer

\* getEvents from node n, then, as long as pages are full, by cursor from node m: a page is cut
\* between transacts, whose nullifiers are emitted before their leaves
fetchRange(from, to, n, m) ==
    LET first == {t \in Answer(from, to, n) :
                     Cardinality({u \in Answer(from, to, n) : u <= t}) <= PageLimit}
    IN  IF Cardinality(first) < PageLimit THEN first
        ELSE first \cup {t \in Answer(from, to, m) : t > Max(first)}

\* The call fails when it starts after the node's ledger.
Serves(n, from) == from <= n

\* the events of a batch, sorted into leaves and nullifiers
decode(T) == [commits |-> LeavesOf(T), nulls |-> T]

\* A leaf that leaves a gap rolls the transaction back; otherwise leaves, nullifiers and cursor
\* are committed as one.
apply(T, to) ==
    IF HasGap(decode(T).commits)
    THEN pc' = "gap" /\ wanted' = Reached(decode(T).commits) /\ UNCHANGED <<tables, windowFrom>>
    ELSE /\ Commit(decode(T).nulls, to)
         /\ windowFrom' = to + 1
         /\ pc' = IF to + 1 > safe THEN "finish" ELSE "scan"
         /\ UNCHANGED <<deploy, wanted>>

-----------------------------------------------------------------------------
(* The deploy ledger *)

\* Leaf 0 is among the events of the whole walk-back, which some providers clamp to their history.
deployLedgerFromWalkBack(upTo, n, m) ==
    LET from == Larger(1, upTo - WalkBackSpan)
    IN  Serves(n, from) /\ 1 \in fetchRange(from, upTo, n, m)

\* The entry of the code is there; or it is not, and leaf 0 is found by walking back.
discoverDeployLedger ==
    /\ pc = "idle" /\ deploy = 0
    /\ pc' = "plan"
    /\ \/ deploy' = instance /\ UNCHANGED faults
       \/ /\ faults < MaxFaults /\ faults' = faults + 1
          /\ \E upTo, n, m \in NodeViews : deployLedgerFromWalkBack(upTo, n, m)
          /\ deploy' = txLedger[1]
    /\ UNCHANGED <<chain, rows, nulls, cursor, gap, locals>>

\* DeployTooLateError: the first leaf after the deploy ledger is not leaf 0.
TooLate ==
    /\ pc = "gap" /\ wanted = 0
    /\ pc' = "rediscover" /\ gap' = TRUE
    /\ UNCHANGED <<chain, tables, locals, faults>>

\* Walk back whatever the entry says; the next tick starts over, with or without a new ledger.
Rediscover ==
    /\ pc = "rediscover"
    /\ Reset
    /\ \E upTo, n, m \in NodeViews :
          deploy' = IF deployLedgerFromWalkBack(upTo, n, m) THEN txLedger[1] ELSE deploy
    /\ UNCHANGED <<chain, rows, nulls, cursor, gap, faults>>

-----------------------------------------------------------------------------
(* ingestLoop *)

\* RetentionError: by the provider's error, or by its oldest ledger when it clamps instead; and a
\* node that has not reached the window
OutOfReach(n) == windowFrom < Oldest \/ ~Serves(n, windowFrom)

\* One window is fetched and applied.
ingestRange ==
    /\ pc = "scan"
    /\ \E n, m \in NodeViews :
          IF OutOfReach(n) THEN Fail
          ELSE /\ apply(fetchRange(windowFrom, WindowTo, n, m), WindowTo)
               /\ UNCHANGED <<chain, gap, safe, attempts>>
    /\ UNCHANGED faults

\* A call of the RPC or the database fails anywhere in the tick (the one that records it may fail as
\* well), or the process stops.
Throw ==
    /\ faults < MaxFaults /\ faults' = faults + 1
    /\ Reset
    /\ gap' \in {gap, TRUE}
    /\ UNCHANGED <<chain, tables>>

\* Planning, rescanning and clearing the flag are as in the port.
ingestLoop ==
    \/ discoverDeployLedger \/ Begin \/ Plan
    \/ ingestRange \/ TooLate \/ Rediscover \/ Rewind \/ Finish
    \/ Throw

TsNext ==
    \/ \E k \in 0..2, rewritten \in BOOLEAN : CloseLedger(k, rewritten)
    \/ ingestLoop

TsSpec == Init /\ [][TsNext]_vars

-----------------------------------------------------------------------------
\* /health: the flag, and the lag unless the probe of the RPC failed
readiness(n) == Ready(n)

\* A ready answer stands for the leaves the asked node has had for longer than the threshold, as
\* long as the deploy ledger was not after leaf 0.
ReadyIsComplete ==
    Txs # {} /\ deploy # 0 /\ deploy <= txLedger[1] =>
        \A n \in NodeViews : readiness(n) => CompleteUpTo(n)
=============================================================================
