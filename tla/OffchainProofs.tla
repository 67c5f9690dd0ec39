---------------------------- MODULE OffchainProofs ----------------------------
(***************************************************************************)
(* The services off the chain. What the indexer stores and what it sends,  *)
(* for any chain, any nodes and any failures: a prefix of the leaves with  *)
(* all their nullifiers, a cursor and a ready answer that stand for stored *)
(* leaves, and a wake-up under way for every client that is behind. And    *)
(* the relayer, for every number of clients, every set of costs and every  *)
(* margin with MinMarginBps <= MarginBps.                                  *)
(***************************************************************************)
EXTENDS IndexerTs, NoteStream, Relayer, FiniteSetTheorems, WellFoundedInduction, TLAPS

(* The leaves stored are those below one index, which the chain has        *)
(* reached.                                                                *)
Prefix == \E n \in 0..(2 * Len(txLedger)) : rows = 0..(n - 1)

TablesKept ==
    /\ txLedger \in Seq(Nat) /\ latest \in Nat
    /\ Prefix /\ NullifiersFollow

-----------------------------------------------------------------------------
LEMMA MaxOfRange ==
    ASSUME NEW m \in Nat PROVE Max(0..m) = m
<1>1. m \in 0..m /\ \A i \in 0..m : m >= i
  OBVIOUS
<1>2. \A x \in 0..m : (\A i \in 0..m : x >= i) => x = m
  <2> SUFFICES ASSUME NEW x \in 0..m, \A i \in 0..m : x >= i PROVE x = m
    OBVIOUS
  <2>1. x >= m
    BY <1>1
  <2> QED
    BY <2>1
<1> QED
  BY <1>1, <1>2, Zenon DEF Max

LEMMA NextIsLength ==
    ASSUME NEW n \in Nat, rows = 0..(n - 1) PROVE NextLeafIndex = n
<1>1. CASE n = 0
  BY <1>1 DEF NextLeafIndex
<1>2. CASE n # 0
  <2>1. n - 1 \in Nat /\ n - 1 \in rows
    BY <1>2
  <2>2. Max(rows) = n - 1
    BY <2>1, MaxOfRange
  <2> QED
    BY <2>1, <2>2 DEF NextLeafIndex
<1> QED
  BY <1>1, <1>2

(* A non-empty set of naturals has the minimum that Min chooses.           *)
LEMMA MinOfSet ==
    ASSUME NEW S \in SUBSET Nat, S # {}
    PROVE  Min(S) \in S /\ \A m \in S : Min(S) <= m
<1>1. PICK x \in S : \A y \in S : ~(<<y, x>> \in OpToRel(<, Nat))
  BY WFMin, NatLessThanWellFounded
<1>2. ASSUME NEW y \in S PROVE x <= y
  <2>1. <<y, x>> \in Nat \X Nat /\ <<y, x>>[1] = y /\ <<y, x>>[2] = x
    OBVIOUS
  <2>2. y < x => <<y, x>> \in {ss \in Nat \X Nat : ss[1] < ss[2]}
    BY <2>1
  <2>3. {ss \in Nat \X Nat : ss[1] < ss[2]} = OpToRel(<, Nat)
    BY Zenon DEF OpToRel
  <2>4. ~(y < x)
    BY <1>1, <2>2, <2>3
  <2> QED
    BY <2>4
<1> QED
  BY <1>2, Zenon DEF Min

-----------------------------------------------------------------------------
(* A batch without a gap takes the stored leaves from one prefix to the    *)
(* next, and brings the nullifiers of what it adds.                        *)
LEMMA CommitKeeps ==
    ASSUME TablesKept, NEW T \in SUBSET Txs, NEW to,
           ~HasGap(LeavesOf(T)), Commit(T, to), txLedger' = txLedger
    PROVE  Prefix' /\ NullifiersFollow'
<1> DEFINE hi == 2 * Len(txLedger)
           C  == LeavesOf(T)
<1>1. hi \in Nat /\ C \subseteq 0..(hi - 1)
  BY DEF TablesKept, LeavesOf, Leaves
<1>2. PICK n \in 0..hi : rows = 0..(n - 1)
  BY DEF TablesKept, Prefix
<1>3. NextLeafIndex = n
  BY <1>1, <1>2, NextIsLength
<1> DEFINE S == {m \in n..hi : m \notin C}
<1> HIDE DEF hi, C
<1>4. S \in SUBSET Nat /\ hi \in S
  BY <1>1, <1>2
<1>5. Reached(C) = Min(S)
  BY <1>3, Zenon DEF Reached, hi
<1>6. PICK r : r = Reached(C)
  OBVIOUS
<1>7. r \in S /\ \A m \in S : r <= m
  BY <1>4, <1>5, <1>6, MinOfSet
<1>8. r \in n..hi /\ r \notin C
  BY <1>7
<1>9. \A m \in n..(r - 1) : m \in C
  BY <1>1, <1>2, <1>7, <1>8
<1>10. \A c \in C : c < r
  <2>1. \A c \in C : ~(c > r)
    BY <1>6 DEF HasGap, C
  <2> QED
    BY <2>1, <1>1, <1>8
<1>11. rows' = rows \cup {c \in C : c >= n}
  BY <1>3 DEF Commit, C
<1>12. rows' = 0..(r - 1)
  <2>1. \A x : x \in rows' <=> x \in 0..(n - 1) \/ (x \in C /\ x >= n)
    BY <1>2, <1>11
  <2>2. \A x \in C : x >= n => x \in n..(r - 1)
    BY <1>1, <1>2, <1>8, <1>10
  <2>3. \A x : x \in rows' <=> x \in 0..(n - 1) \/ x \in n..(r - 1)
    <3>1. \A x \in n..(r - 1) : x \in C /\ x >= n
      BY <1>2, <1>8, <1>9
    <3> QED
      BY <2>1, <2>2, <3>1, Zenon
  <2>4. \A x : x \in 0..(n - 1) \/ x \in n..(r - 1) <=> x \in 0..(r - 1)
    BY <1>1, <1>2, <1>8
  <2> QED
    BY <2>3, <2>4, <1>11
<1>13. Prefix'
  BY <1>1, <1>2, <1>8, <1>12 DEF Prefix, hi
<1>14. NullifiersFollow'
  <2>1. nulls' = nulls \cup T
    BY DEF Commit
  <2>2. \A c \in C : TxOf(c) \in T
    BY DEF C, LeavesOf
  <2> QED
    BY <1>11, <2>1, <2>2 DEF NullifiersFollow, TablesKept, TxOf
<1> QED
  BY <1>13, <1>14

LEMMA CloseKeeps ==
    ASSUME TablesKept, NEW k \in 0..2, NEW rewritten \in BOOLEAN,
           CloseLedger(k, rewritten)
    PROVE  TablesKept'
<1> DEFINE new == [j \in 1..k |-> latest + 1]
<1>1. new \in Seq(Nat) /\ Len(new) = k
  BY DEF TablesKept
<1>2. txLedger' = txLedger \o new /\ latest' = latest + 1
      /\ rows' = rows /\ nulls' = nulls
  BY DEF CloseLedger, tables
<1> HIDE DEF new
<1>3. txLedger' \in Seq(Nat) /\ Len(txLedger') = Len(txLedger) + k
  BY <1>1, <1>2 DEF TablesKept
<1>4. Prefix'
  <2>1. PICK n \in 0..(2 * Len(txLedger)) : rows = 0..(n - 1)
    BY DEF TablesKept, Prefix
  <2>2. Len(txLedger) \in Nat /\ n \in 0..(2 * Len(txLedger'))
    BY <1>3, <2>1 DEF TablesKept
  <2> QED
    BY <1>2, <2>1, <2>2 DEF Prefix
<1>5. NullifiersFollow'
  BY <1>2 DEF TablesKept, NullifiersFollow, TxOf
<1> QED
  BY <1>2, <1>3, <1>4, <1>5 DEF TablesKept

LEMMA SameTables ==
    ASSUME TablesKept, UNCHANGED <<latest, txLedger, rows, nulls>>
    PROVE  TablesKept'
BY DEF TablesKept, Prefix, NullifiersFollow, TxOf

LEMMA StepKeeps ==
    ASSUME TablesKept, [Next]_vars PROVE TablesKept'
<1>1. ASSUME NEW k \in 0..2, NEW rewritten \in BOOLEAN, CloseLedger(k, rewritten)
      PROVE TablesKept'
  BY <1>1, CloseKeeps
<1>2. ASSUME NEW n \in NodeViews, ScanOk(n) PROVE TablesKept'
  <2> DEFINE T == Answer(windowFrom, WindowTo, n)
  <2>1. T \in SUBSET Txs
    BY DEF Answer
  <2>2. UNCHANGED <<latest, txLedger>>
    BY <1>2 DEF ScanOk, chain
  <2>3. CASE HasGap(LeavesOf(T))
    <3>1. UNCHANGED <<rows, nulls>>
      BY <1>2, <2>3 DEF ScanOk, tables
    <3> QED
      BY <2>2, <3>1, SameTables
  <2>4. CASE ~HasGap(LeavesOf(T))
    <3>1. Commit(T, WindowTo)
      BY <1>2, <2>4, Zenon DEF ScanOk
    <3>2. Prefix' /\ NullifiersFollow'
      BY <2>1, <2>2, <2>4, <3>1, CommitKeeps
    <3> QED
      BY <2>2, <3>2 DEF TablesKept
  <2> QED
    BY <2>3, <2>4
<1>3. CASE Fail
  BY <1>3, SameTables DEF Fail, chain, tables
<1>4. CASE Discover
  BY <1>4, SameTables DEF Discover, chain
<1>5. CASE Begin
  BY <1>5, SameTables DEF Begin, chain, tables
<1>6. CASE Plan
  BY <1>6, SameTables DEF Plan, chain, tables
<1>7. CASE ReAnchor
  BY <1>7, SameTables DEF ReAnchor, Fail, chain, tables
<1>8. CASE Rewind
  BY <1>8, SameTables DEF Rewind, Fail, chain, tables
<1>9. CASE Finish
  BY <1>9, SameTables DEF Finish, chain, tables
<1>10. CASE Interrupt
  BY <1>10, SameTables DEF Interrupt, chain, tables
<1>11. CASE UNCHANGED vars
  BY <1>11, SameTables DEF vars
<1> QED
  BY <1>1, <1>2, <1>3, <1>4, <1>5, <1>6, <1>7, <1>8, <1>9, <1>10, <1>11
     DEF Next, Tick, Scan, ScanRefused

(* The start and the end of the tables' invariant, for either loop.        *)
LEMMA TablesStart == Init => TablesKept
<1> SUFFICES ASSUME Init PROVE TablesKept
  OBVIOUS
<1>1. Len(txLedger) = 0 /\ txLedger \in Seq(Nat)
  BY DEF Init
<1>2. rows = 0..(0 - 1) /\ 0 \in 0..(2 * Len(txLedger))
  BY <1>1 DEF Init
<1>3. Prefix
  BY <1>2 DEF Prefix
<1> QED
  BY <1>1, <1>3 DEF Init, TablesKept, NullifiersFollow

LEMMA TablesEnd == TablesKept => TablesFollow
<1> SUFFICES ASSUME TablesKept PROVE TablesFollow
  OBVIOUS
<1>1. PICK n \in 0..(2 * Len(txLedger)) : rows = 0..(n - 1)
  BY DEF TablesKept, Prefix
<1>2. n \in Nat
  BY <1>1 DEF TablesKept
<1>3. NextLeafIndex = n
  BY <1>1, <1>2, NextIsLength
<1> QED
  BY <1>1, <1>3 DEF TablesKept, TablesFollow, Gapless

(* Whatever the RPC leaves out, lags or fails and wherever the process     *)
(* stops, the tables are a prefix of the chain's leaves with all their     *)
(* nullifiers (ApplyBatch, ingestRange and tick).                          *)
THEOREM TablesFollowTheChain == Spec => []TablesFollow
<1>1. TablesKept /\ [Next]_vars => TablesKept'
  BY StepKeeps
<1> QED
  BY <1>1, TablesStart, TablesEnd, PTL DEF Spec

-----------------------------------------------------------------------------
(* What the cursor and a ready answer stand for.                           *)

\* The numbers of the tick and the ledgers, and the order of transacts
Ordered ==
    /\ TypeOK
    /\ \A s, t \in Txs : s < t => txLedger[s] <= txLedger[t]
    /\ ~provider.rewrites => instance = 1
    /\ pc = "plan" => deploy # 0
    /\ pc \in {"scan", "gap", "finish"} => safe + Confirmations <= latest

\* The confirmations reach the nodes' lag.
Near == provider.lag <= 1 \/ (provider.lag <= 2 /\ Confirmed >= 2)

\* Nothing is on the chain before the deploy ledger.
Early == \A t \in Txs : deploy <= txLedger[t]

\* Every leaf up to a ledger is stored
StoredBefore(ledger) == \A i \in Leaves : LedgerOf(i) < ledger => i \in rows

\* The tick has read everything before its window, and the deploy ledger is not after leaf 0
ClaimsKept ==
    /\ Ordered /\ TablesKept
    /\ Covered => /\ \A t \in Txs : deploy <= txLedger[t]
                  /\ StoredBefore(cursor + 1)
                  /\ pc \in {"scan", "gap", "finish"} => StoredBefore(windowFrom)

LEMMA IndexerNumbers ==
    /\ ScanWindow \in Nat \ {0} /\ MaxRescan \in Nat /\ MaxFaults \in Nat /\ Confirmed \in Nat
    /\ Confirmations \in {1, 2}
    /\ \A p \in Providers : p.lag \in Nat /\ p.rewrites \in BOOLEAN
BY IndexerAssumptions DEF IndexerAssumptions, Confirmations, Larger, Smaller

(* A leaf's transact.                                                      *)
LEMMA LeafTypes ==
    ASSUME TypeOK, NEW i \in Leaves
    PROVE  i \in Nat /\ TxOf(i) \in Txs /\ LedgerOf(i) = txLedger[TxOf(i)] /\ LedgerOf(i) \in 1..latest
<1>1. txLedger \in Seq(1..latest) /\ Len(txLedger) \in Nat /\ latest \in Nat
  BY DEF TypeOK
<1>2. i \in 0..(2 * Len(txLedger) - 1)
  BY DEF Leaves
<1>3. i \in Nat /\ (i \div 2) + 1 \in 1..Len(txLedger)
  BY <1>1, <1>2
<1>4. txLedger[(i \div 2) + 1] \in 1..latest
  BY <1>1, <1>3
<1> QED
  BY <1>3, <1>4 DEF TxOf, Txs, LedgerOf

LEMMA TxTypes ==
    ASSUME TypeOK, NEW t \in Txs
    PROVE  t \in Nat /\ t >= 1 /\ 1 \in Txs /\ txLedger[t] \in 1..latest /\ txLedger[1] \in 1..latest
<1>1. txLedger \in Seq(1..latest) /\ Len(txLedger) \in Nat /\ t \in 1..Len(txLedger) /\ latest \in Nat
  BY DEF TypeOK, Txs
<1>2. 1 \in 1..Len(txLedger)
  BY <1>1
<1>3. \A j \in 1..Len(txLedger) : txLedger[j] \in 1..latest
  BY <1>1
<1>4. txLedger[t] \in 1..latest /\ txLedger[1] \in 1..latest
  BY <1>1, <1>2, <1>3, Zenon
<1>5. t \in Nat /\ t >= 1
  BY <1>1
<1> QED
  BY <1>2, <1>4, <1>5 DEF Txs

(* Nothing is on the chain before its first transact, nor before ledger 1. *)
LEMMA FirstIsFirst ==
    ASSUME Ordered, NEW t \in Txs PROVE txLedger[1] <= txLedger[t]
<1>1. t \in Nat /\ t >= 1 /\ 1 \in Txs /\ txLedger[1] \in Nat
  BY TxTypes DEF Ordered, TypeOK
<1>2. CASE t = 1
  BY <1>1, <1>2
<1>3. CASE t # 1
  <2>1. 1 < t
    BY <1>1, <1>3
  <2> QED
    BY <1>1, <2>1 DEF Ordered
<1> QED
  BY <1>2, <1>3

LEMMA NothingBefore ==
    ASSUME TypeOK, NEW d, \A t \in Txs : d <= txLedger[t], d \in Nat
    PROVE  StoredBefore(d)
<1> SUFFICES ASSUME NEW i \in Leaves, LedgerOf(i) < d PROVE FALSE
  BY DEF StoredBefore
<1>1. TxOf(i) \in Txs /\ LedgerOf(i) = txLedger[TxOf(i)] /\ LedgerOf(i) \in 1..latest /\ latest \in Nat
  BY LeafTypes DEF TypeOK
<1>2. d <= LedgerOf(i)
  BY <1>1
<1> QED
  BY <1>1, <1>2

(* Every node that may answer has what is behind the confirmations.        *)
LEMMA NodesReach ==
    ASSUME Ordered, Near, NEW n \in NodeViews, safe + Confirmations <= latest
    PROVE  n \in Nat /\ safe <= n
<1>1. provider.lag \in Nat /\ latest \in Nat \ {0} /\ safe \in Nat
  BY IndexerNumbers DEF Ordered, TypeOK
<1>2. n \in Larger(1, latest - provider.lag)..latest
  BY DEF NodeViews
<1>3. Larger(1, latest - provider.lag) \in Nat /\ Larger(1, latest - provider.lag) >= latest - provider.lag
  BY <1>1 DEF Larger
<1>4. provider.lag <= Confirmations
  BY <1>1, IndexerNumbers, IndexerAssumptions DEF Near, Confirmations, Larger, Smaller
<1> QED
  BY <1>1, <1>2, <1>3, <1>4, IndexerNumbers

-----------------------------------------------------------------------------
(* A window is complete when its answer holds the transacts of all its     *)
(* ledgers.                                                                *)
LEMMA WindowStored ==
    ASSUME TypeOK, TablesKept, StoredBefore(windowFrom), NEW T \in SUBSET Txs, NEW to \in Int,
           \A t \in Txs : txLedger[t] \in windowFrom..to => t \in T,
           Commit(T, to), UNCHANGED chain
    PROVE  StoredBefore(to + 1)'
<1> SUFFICES ASSUME NEW i \in Leaves, LedgerOf(i) < to + 1 PROVE i \in rows'
  BY DEF StoredBefore, Leaves, LedgerOf, TxOf, chain
<1>1. i \in Nat /\ TxOf(i) \in Txs /\ LedgerOf(i) = txLedger[TxOf(i)] /\ LedgerOf(i) \in 1..latest
      /\ windowFrom \in Nat /\ latest \in Nat
  BY LeafTypes DEF TypeOK
<1>2. rows' = rows \cup {c \in LeavesOf(T) : c >= NextLeafIndex}
  BY DEF Commit
<1>3. CASE LedgerOf(i) < windowFrom
  BY <1>2, <1>3 DEF StoredBefore
<1>4. CASE ~(LedgerOf(i) < windowFrom)
  <2>1. txLedger[TxOf(i)] \in windowFrom..to
    BY <1>1, <1>4
  <2>2. i \in LeavesOf(T)
    BY <1>1, <2>1 DEF LeavesOf
  <2>3. PICK n \in 0..(2 * Len(txLedger)) : rows = 0..(n - 1)
    BY DEF TablesKept, Prefix
  <2>4. n \in Nat /\ NextLeafIndex = n
    BY <2>3, NextIsLength DEF TablesKept
  <2>5. CASE i < n
    BY <1>1, <1>2, <2>3, <2>4, <2>5
  <2>6. CASE ~(i < n)
    BY <1>1, <1>2, <2>2, <2>4, <2>6
  <2> QED
    BY <2>5, <2>6
<1> QED
  BY <1>3, <1>4

(* What ScanOk and apply leave behind, gap or not.                         *)
LEMMA ReachedTyped ==
    ASSUME TablesKept, NEW T \in SUBSET Txs
    PROVE  Reached(LeavesOf(T)) \in 0..(2 * Len(txLedger))
<1> DEFINE hi == 2 * Len(txLedger)
           C  == LeavesOf(T)
<1>1. hi \in Nat /\ C \subseteq 0..(hi - 1)
  BY DEF TablesKept, LeavesOf, Leaves
<1>2. PICK n \in 0..hi : rows = 0..(n - 1)
  BY DEF TablesKept, Prefix
<1>3. NextLeafIndex = n
  BY <1>1, <1>2, NextIsLength
<1> DEFINE S == {m \in n..hi : m \notin C}
<1> HIDE DEF hi, C
<1>4. S \in SUBSET Nat /\ hi \in S
  BY <1>1, <1>2
<1>5. Reached(C) = Min(S)
  BY <1>3, Zenon DEF Reached, hi
<1>6. Min(S) \in S
  BY <1>4, MinOfSet
<1> QED
  BY <1>2, <1>5, <1>6 DEF hi, C

LEMMA WindowTypes ==
    ASSUME TypeOK
    PROVE  WindowTo \in 0..safe /\ WindowTo \in 0..latest /\ WindowTo + 1 \in 0..(latest + 1)
<1>1. safe \in 0..latest /\ latest \in Nat /\ windowFrom \in Nat /\ ScanWindow \in Nat \ {0}
  BY IndexerNumbers DEF TypeOK
<1> QED
  BY <1>1 DEF WindowTo, Smaller

\* A window that was read: a gap is reported, or the tables move past it
ReadStep(T) ==
    /\ \/ HasGap(LeavesOf(T)) /\ pc' = "gap" /\ wanted' = Reached(LeavesOf(T)) /\ UNCHANGED <<tables, windowFrom>>
       \/ /\ Commit(T, WindowTo)
          /\ windowFrom' = WindowTo + 1
          /\ pc' = IF WindowTo + 1 > safe THEN "finish" ELSE "scan"
          /\ UNCHANGED <<deploy, wanted>>
    /\ UNCHANGED <<chain, gap, safe, attempts, faults>>

LEMMA ReadKeeps ==
    ASSUME ClaimsKept, TablesKept', pc = "scan", NEW T \in SUBSET Txs, ReadStep(T),
           Covered => \A t \in Txs : txLedger[t] \in windowFrom..WindowTo => t \in T
    PROVE  ClaimsKept'
<1> USE DEF chain, tables
<1>1. TypeOK /\ Ordered /\ TablesKept
  BY DEF ClaimsKept, Ordered
<1>2. WindowTo \in 0..safe /\ WindowTo \in 0..latest /\ WindowTo + 1 \in 0..(latest + 1)
  BY <1>1, WindowTypes
<1>3. Reached(LeavesOf(T)) \in 0..(2 * Len(txLedger))
  BY <1>1, ReachedTyped
<1>4. UNCHANGED <<chain, gap, safe, attempts, faults>> /\ deploy' = deploy
  BY DEF ReadStep
<1>5. CASE HasGap(LeavesOf(T)) /\ pc' = "gap" /\ wanted' = Reached(LeavesOf(T)) /\ UNCHANGED <<tables, windowFrom>>
  <2>1. TypeOK'
    BY <1>1, <1>3, <1>4, <1>5 DEF TypeOK, Leaves, Txs
  <2>2. Ordered'
    BY <1>1, <1>4, <1>5, <2>1 DEF Ordered, Txs, Confirmations
  <2>3. Covered' => Covered
    BY <1>4 DEF Covered
  <2> QED
    BY <1>4, <1>5, <2>2, <2>3 DEF ClaimsKept, StoredBefore, Txs, Leaves, LedgerOf, TxOf
<1>6. CASE /\ Commit(T, WindowTo)
           /\ windowFrom' = WindowTo + 1
           /\ pc' = IF WindowTo + 1 > safe THEN "finish" ELSE "scan"
           /\ UNCHANGED <<deploy, wanted>>
  <2>1. rows' \subseteq Leaves /\ nulls' \subseteq Txs /\ cursor' = WindowTo /\ pc' \in {"finish", "scan"}
    BY <1>1, <1>6 DEF Commit, TypeOK, LeavesOf
  <2>2. TypeOK'
    BY <1>1, <1>2, <1>4, <1>6, <2>1 DEF TypeOK, Leaves, Txs
  <2>3. Ordered'
    BY <1>1, <1>4, <1>6, <2>1, <2>2 DEF Ordered, Txs, Confirmations
  <2>4. PICK w \in Int : w = WindowTo
    BY <1>2
  <2>5. ASSUME Covered' PROVE StoredBefore(w + 1)' /\ \A t \in Txs' : deploy' <= txLedger'[t]
    <3>1. Covered
      BY <1>4, <2>5 DEF Covered
    <3>2. StoredBefore(windowFrom) /\ \A t \in Txs : deploy <= txLedger[t]
      BY <1>6, <3>1 DEF ClaimsKept
    <3>3. Commit(T, w) /\ \A t \in Txs : txLedger[t] \in windowFrom..w => t \in T
      BY <1>6, <2>4, <3>1
    <3>4. StoredBefore(w + 1)'
      BY <1>1, <1>4, <3>2, <3>3, WindowStored
    <3> QED
      BY <1>4, <3>2, <3>4 DEF Txs
  <2>6. cursor' + 1 = w + 1 /\ windowFrom' = w + 1
    BY <1>6, <2>1, <2>4
  <2>7. ASSUME Covered' PROVE StoredBefore(cursor + 1)' /\ StoredBefore(windowFrom)'
    BY <2>5, <2>6, <2>7 DEF StoredBefore
  <2> QED
    BY <2>3, <2>5, <2>7 DEF ClaimsKept
<1> QED
  BY <1>5, <1>6 DEF ReadStep


(* A node that answers for a window answers with all of it.                *)
LEMMA AnswersHoldWindow ==
    ASSUME Ordered, Near, NEW n \in NodeViews, safe + Confirmations <= latest,
           windowFrom >= Oldest
    PROVE  \A t \in Txs : txLedger[t] \in windowFrom..WindowTo => t \in Answer(windowFrom, WindowTo, n)
<1> SUFFICES ASSUME NEW t \in Txs, txLedger[t] \in windowFrom..WindowTo
             PROVE  t \in Answer(windowFrom, WindowTo, n)
  OBVIOUS
<1>1. n \in Nat /\ safe <= n
  BY NodesReach
<1>2. WindowTo \in 0..safe /\ safe \in Nat /\ windowFrom \in Nat /\ txLedger[t] \in Nat
  BY WindowTypes, TxTypes DEF Ordered, TypeOK
<1>3. Larger(windowFrom, Oldest) = windowFrom
  <2>1. Oldest \in Int
    BY IndexerAssumptions DEF Oldest, Larger, Ordered, TypeOK, IndexerAssumptions
  <2> QED
    BY <1>2, <2>1 DEF Larger
<1> QED
  BY <1>1, <1>2, <1>3 DEF Answer

LEMMA ScanOkKeeps ==
    ASSUME ClaimsKept, TablesKept', pc = "scan", NEW n \in NodeViews, ScanOk(n) PROVE ClaimsKept'
<1> DEFINE T == Answer(windowFrom, WindowTo, n)
<1>1. T \in SUBSET Txs
  BY DEF Answer
<1>2. ReadStep(T)
  BY Zenon DEF ScanOk, ReadStep
<1>3. Covered => \A t \in Txs : txLedger[t] \in windowFrom..WindowTo => t \in T
  <2>1. Ordered /\ safe + Confirmations <= latest /\ windowFrom >= Oldest
    BY DEF ClaimsKept, Ordered, ScanOk
  <2> QED
    BY <2>1, AnswersHoldWindow DEF Covered, Near
<1> HIDE DEF T
<1> QED
  BY <1>1, <1>2, <1>3, ReadKeeps

-----------------------------------------------------------------------------
(* The other steps.                                                        *)
LEMMA ClaimsStart == Init => ClaimsKept
<1> SUFFICES ASSUME Init PROVE ClaimsKept
  OBVIOUS
<1>1. Txs = {} /\ Leaves = {} /\ txLedger = <<>> /\ Len(txLedger) = 0
  BY DEF Init, Txs, Leaves
<1>2. TypeOK
  <2>1. latest \in Nat \ {0} /\ txLedger \in Seq(1..latest) /\ instance \in 1..latest
    BY <1>1 DEF Init
  <2>2. cursor \in 0..latest /\ deploy \in 0..latest /\ safe \in 0..latest /\ windowFrom \in 0..(latest + 1)
        /\ attempts \in 0..MaxRescan /\ faults \in 0..MaxFaults /\ wanted \in 0..(2 * Len(txLedger))
    BY <1>1, IndexerNumbers DEF Init
  <2> QED
    BY <1>1, <2>1, <2>2 DEF Init, TypeOK
<1>3. Ordered
  BY <1>1, <1>2 DEF Ordered, Init
<1>4. TablesKept
  BY TablesStart
<1> QED
  BY <1>1, <1>3, <1>4 DEF ClaimsKept, StoredBefore, Init

(* What a step leaves of the claims when it moves neither chain nor        *)
(* tables.                                                                 *)
LEMMA SameClaims ==
    ASSUME ClaimsKept, TablesKept', Ordered', UNCHANGED <<chain, tables>>,
           pc' \in {"scan", "gap", "finish"} /\ Covered => StoredBefore(windowFrom')
    PROVE  ClaimsKept'
<1> USE DEF chain, tables
<1>1. UNCHANGED <<latest, txLedger, instance, provider, rows, nulls, cursor, deploy>>
  OBVIOUS
<1>2. Covered' <=> Covered
  BY <1>1 DEF Covered
<1>3. pc' \in {"scan", "gap", "finish"} /\ Covered => StoredBefore(windowFrom)'
  BY <1>1 DEF StoredBefore, Leaves, LedgerOf, TxOf
<1>4. StoredBefore(cursor + 1) => StoredBefore(cursor + 1)'
  BY <1>1 DEF StoredBefore, Leaves, LedgerOf, TxOf
<1> QED
  BY <1>1, <1>2, <1>3, <1>4 DEF ClaimsKept, Txs

LEMMA SameOrder ==
    ASSUME Ordered, TypeOK', UNCHANGED <<chain, tables>>,
           pc' \in {"idle", "scan", "gap", "finish"},
           pc' \in {"scan", "gap", "finish"} => safe' + Confirmations <= latest
    PROVE  Ordered'
BY DEF Ordered, chain, tables, Txs, Confirmations

LEMMA RestKeeps ==
    ASSUME ClaimsKept, TablesKept', Reset, gap' \in BOOLEAN, faults' \in 0..MaxFaults,
           UNCHANGED <<chain, tables>>
    PROVE  ClaimsKept'
<1>1. TypeOK'
  BY IndexerNumbers DEF ClaimsKept, Ordered, TypeOK, Reset, chain, tables, Leaves, Txs
<1>2. Ordered'
  BY <1>1, SameOrder DEF ClaimsKept, Reset
<1> QED
  BY <1>2, SameClaims DEF Reset

\* A deploy ledger taken from the entry, or from leaf 0.
LEMMA NewDeployKeeps ==
    ASSUME ClaimsKept, TablesKept', pc' = "plan", faults' \in 0..MaxFaults,
           deploy' = instance \/ (1 \in Txs /\ deploy' = txLedger[1]),
           UNCHANGED <<latest, txLedger, instance, provider, rows, nulls, cursor, gap, safe, windowFrom, attempts, wanted>>
    PROVE  ClaimsKept'
<1>1. TypeOK /\ Ordered
  BY DEF ClaimsKept, Ordered
<1>4. deploy' \in 1..latest
  <2>1. 1 \in Txs => txLedger[1] \in 1..latest
    BY <1>1, TxTypes
  <2> QED
    BY <1>1, <2>1 DEF TypeOK
<1>5. TypeOK'
  BY <1>1, <1>4 DEF TypeOK, Leaves, Txs
<1>6. Ordered'
  BY <1>1, <1>4, <1>5 DEF Ordered, Txs
<1>7. ASSUME Covered' PROVE \A t \in Txs' : deploy' <= txLedger'[t]
  <2> SUFFICES ASSUME NEW t \in Txs PROVE deploy' <= txLedger[t]
    BY <1>1 DEF Txs
  <2>1. txLedger[t] \in 1..latest /\ txLedger[1] <= txLedger[t] /\ latest \in Nat
    BY <1>1, TxTypes, FirstIsFirst DEF TypeOK
  <2>2. CASE deploy' = instance
    <3>1. instance = 1
      BY <1>1, <1>7 DEF Covered, Ordered
    <3> QED
      BY <2>1, <2>2, <3>1
  <2> QED
    BY <2>1, <2>2
<1>8. ASSUME Covered' PROVE StoredBefore(cursor + 1)'
  BY <1>1, <1>8 DEF ClaimsKept, Covered, StoredBefore, Leaves, LedgerOf, TxOf
<1> QED
  BY <1>1, <1>6, <1>7, <1>8 DEF ClaimsKept

LEMMA DiscoverKeeps ==
    ASSUME ClaimsKept, TablesKept', Discover PROVE ClaimsKept'
<1> USE DEF chain, tables
<1>1. TypeOK /\ pc' = "plan"
      /\ UNCHANGED <<latest, txLedger, instance, provider, rows, nulls, cursor, gap, safe, windowFrom, attempts, wanted>>
  BY DEF ClaimsKept, Ordered, Discover, locals
<1>2. deploy' = instance \/ (1 \in Txs /\ deploy' = txLedger[1])
  BY Zenon DEF Discover, WalkBackFinds, Answer
<1>3. faults' \in 0..MaxFaults
  BY <1>1, IndexerNumbers DEF Discover, TypeOK
<1> QED
  BY <1>1, <1>2, <1>3, NewDeployKeeps

LEMMA BeginKeeps ==
    ASSUME ClaimsKept, TablesKept', Begin PROVE ClaimsKept'
<1>1. TypeOK' /\ Ordered'
  BY DEF ClaimsKept, Ordered, TypeOK, Begin, chain, tables, locals, Leaves, Txs, Confirmations
<1> QED
  BY <1>1, SameClaims DEF Begin

LEMMA PlanKeeps ==
    ASSUME ClaimsKept, TablesKept', Plan PROVE ClaimsKept'
<1>1. PICK n \in NodeViews :
          IF Start > n - Confirmations
          THEN Reset /\ UNCHANGED <<chain, tables, gap, faults>>
          ELSE /\ pc' = "scan"
               /\ safe' = n - Confirmations
               /\ windowFrom' = Start
               /\ attempts' = 0
               /\ UNCHANGED <<chain, tables, gap, wanted, faults>>
  BY DEF Plan
<1>2. TypeOK /\ Ordered
  BY DEF ClaimsKept, Ordered
<1>3. n \in Nat /\ n <= latest /\ latest \in Nat
  <2>1. provider.lag \in Nat /\ latest \in Nat
    BY <1>2, IndexerNumbers DEF TypeOK
  <2> QED
    BY <2>1 DEF NodeViews, Larger
<1>4. CASE Start > n - Confirmations
  <2>1. gap' \in BOOLEAN /\ faults' \in 0..MaxFaults
    BY <1>1, <1>2, <1>4 DEF TypeOK
  <2> QED
    BY <1>1, <1>4, <2>1, RestKeeps
<1>5. CASE ~(Start > n - Confirmations)
  <2>1. Start \in 0..(latest + 1) /\ Start <= n - Confirmations
    BY <1>2, <1>3, <1>5, IndexerNumbers DEF Start, TypeOK
  <2>2. TypeOK'
    <3>1. safe' \in 0..latest /\ windowFrom' \in 0..(latest + 1) /\ attempts' \in 0..MaxRescan /\ pc' = "scan"
      BY <1>1, <1>3, <1>5, <2>1, IndexerNumbers
    <3>2. UNCHANGED <<chain, tables, gap, wanted, faults>>
      BY <1>1, <1>5
    <3> QED
      BY <1>2, <3>1, <3>2 DEF TypeOK, chain, tables, Leaves, Txs
  <2>3. Ordered'
    BY <1>1, <1>2, <1>3, <1>5, <2>2, IndexerNumbers, SameOrder
  <2>4. ASSUME Covered PROVE StoredBefore(Start)
    <3>1. deploy \in Nat /\ (\A t \in Txs : deploy <= txLedger[t]) /\ StoredBefore(cursor + 1)
      BY <1>2, <2>4 DEF ClaimsKept, TypeOK
    <3>2. StoredBefore(deploy)
      BY <1>2, <3>1, NothingBefore
    <3> QED
      BY <3>1, <3>2 DEF Start
  <2> QED
    BY <1>1, <1>5, <2>3, <2>4, SameClaims
<1> QED
  BY <1>4, <1>5

\* New transacts are in the ledger that closes: what was stored before a ledger the tick has seen
\* still is.
LEMMA CloseExtends ==
    ASSUME Ordered, NEW k \in 0..2, NEW rewritten \in BOOLEAN, CloseLedger(k, rewritten)
    PROVE  /\ \A t \in Txs : t \in Txs' /\ txLedger'[t] = txLedger[t] /\ txLedger[t] \in 1..latest
           /\ \A t \in Txs' : t \notin Txs => txLedger'[t] = latest + 1
           /\ \A d \in 0..(latest + 1) :
                 StoredBefore(d) => \A i \in Leaves' : LedgerOf(i)' < d => i \in rows'
<1> USE DEF chain, tables
<1> DEFINE new == [j \in 1..k |-> latest + 1]
<1>1. TypeOK
  BY DEF Ordered
<1>2. latest' = latest + 1 /\ txLedger' = txLedger \o new /\ rows' = rows
  BY DEF CloseLedger
<1>3. latest \in Nat \ {0} /\ txLedger \in Seq(1..latest) /\ Len(txLedger) \in Nat
  BY <1>1 DEF TypeOK
<1>4. new \in Seq(1..(latest + 1)) /\ Len(new) = k /\ \A j \in 1..k : new[j] = latest + 1
  BY <1>3
<1> HIDE DEF new
<1>5. txLedger \in Seq(1..(latest + 1))
  <2>1. \A j \in 1..Len(txLedger) : txLedger[j] \in 1..latest
    BY <1>3
  <2>2. \A j \in 1..Len(txLedger) : txLedger[j] \in 1..(latest + 1)
    BY <1>3, <2>1
  <2> QED
    BY <1>3, <2>2
<1>6. txLedger' \in Seq(1..latest') /\ Len(txLedger') = Len(txLedger) + k
  BY <1>2, <1>4, <1>5
<1>7. \A t \in Txs : t \in Txs' /\ txLedger'[t] = txLedger[t] /\ txLedger[t] \in 1..latest
  <2> SUFFICES ASSUME NEW t \in Txs PROVE t \in Txs' /\ txLedger'[t] = txLedger[t] /\ txLedger[t] \in 1..latest
    OBVIOUS
  <2>1. t \in 1..Len(txLedger) /\ txLedger[t] \in 1..latest
    BY <1>1, TxTypes DEF Txs
  <2> QED
    BY <1>2, <1>3, <1>4, <1>6, <2>1 DEF Txs
<1>8. \A t \in Txs' : t \notin Txs => txLedger'[t] = latest + 1
  <2> SUFFICES ASSUME NEW t \in Txs', t \notin Txs PROVE txLedger'[t] = latest + 1
    OBVIOUS
  <2>1. t \in 1..(Len(txLedger) + k) /\ t > Len(txLedger)
    BY <1>3, <1>6 DEF Txs
  <2>2. txLedger'[t] = new[t - Len(txLedger)] /\ t - Len(txLedger) \in 1..k
    BY <1>2, <1>3, <1>4, <2>1
  <2> QED
    BY <1>4, <2>2
<1>9. ASSUME NEW d \in 0..(latest + 1), StoredBefore(d)
       PROVE \A i \in Leaves' : LedgerOf(i)' < d => i \in rows'
  <2> SUFFICES ASSUME NEW i \in Leaves', LedgerOf(i)' < d PROVE i \in rows
    BY <1>2
  <2>1. TxOf(i) \in Txs' /\ LedgerOf(i)' = txLedger'[TxOf(i)] /\ i \in Nat /\ TxOf(i) = (i \div 2) + 1
    <3>1. \A j \in Leaves' : j \in Nat /\ TxOf(j) \in Txs'
      BY <1>3, <1>6 DEF Leaves, Txs, TxOf
    <3> QED
      BY <3>1 DEF LedgerOf, TxOf
  <2>2. TxOf(i) \in Txs
    <3>1. latest + 1 >= d
      BY <1>3
    <3> QED
      BY <1>3, <1>8, <2>1, <3>1
  <2>3. i \in Leaves
    BY <1>3, <2>1, <2>2 DEF Leaves, Txs
  <2>4. LedgerOf(i) < d
    BY <1>7, <2>1, <2>2 DEF LedgerOf
  <2> QED
    BY <1>9, <2>3, <2>4 DEF StoredBefore
<1> QED
  BY <1>7, <1>8, <1>9

\* New ledgers come after everything the tick has seen.
LEMMA CloseClaims ==
    ASSUME ClaimsKept, TablesKept', NEW k \in 0..2, NEW rewritten \in BOOLEAN,
           CloseLedger(k, rewritten)
    PROVE  ClaimsKept'
<1> USE DEF chain, tables
<1> DEFINE new == [j \in 1..k |-> latest + 1]
<1>1. TypeOK /\ Ordered
  BY DEF ClaimsKept, Ordered
<1>2. latest' = latest + 1 /\ txLedger' = txLedger \o new /\ (rewritten => provider.rewrites)
      /\ instance' = (IF rewritten THEN latest + 1 ELSE instance)
      /\ UNCHANGED <<provider, rows, nulls, cursor, deploy, gap, pc, safe, windowFrom, attempts, wanted, faults>>
  BY DEF CloseLedger, locals
<1>3. latest \in Nat \ {0} /\ txLedger \in Seq(1..latest) /\ Len(txLedger) \in Nat
  BY <1>1 DEF TypeOK
<1>4. new \in Seq(1..(latest + 1)) /\ Len(new) = k /\ \A j \in 1..k : new[j] = latest + 1
  BY <1>3
<1> HIDE DEF new
<1>5. txLedger \in Seq(1..(latest + 1))
  <2>1. \A j \in 1..Len(txLedger) : txLedger[j] \in 1..latest
    BY <1>3
  <2>2. \A j \in 1..Len(txLedger) : txLedger[j] \in 1..(latest + 1)
    BY <1>3, <2>1
  <2> QED
    BY <1>3, <2>2
<1>6. txLedger' \in Seq(1..latest') /\ Len(txLedger') = Len(txLedger) + k
  BY <1>2, <1>4, <1>5
<1>7. \A t \in Txs : t \in Txs' /\ txLedger'[t] = txLedger[t] /\ txLedger[t] \in 1..latest
  BY <1>1, CloseExtends, Zenon
<1>8. \A t \in Txs' : t \notin Txs => txLedger'[t] = latest + 1
  BY <1>1, CloseExtends, Zenon
<1>9. TypeOK'
  <2>1. rows' \subseteq Leaves' /\ nulls' \subseteq Txs'
    BY <1>1, <1>2, <1>3, <1>6 DEF TypeOK, Leaves, Txs
  <2>2. instance' \in 1..latest' /\ cursor' \in 0..latest' /\ deploy' \in 0..latest' /\ safe' \in 0..latest'
        /\ windowFrom' \in 0..(latest' + 1)
    BY <1>1, <1>2, <1>3 DEF TypeOK
  <2>3. wanted' \in 0..(2 * Len(txLedger'))
    BY <1>1, <1>2, <1>3, <1>6 DEF TypeOK
  <2> QED
    BY <1>1, <1>2, <1>6, <2>1, <2>2, <2>3 DEF TypeOK
<1>10. Ordered'
  <2>1. ASSUME NEW s \in Txs', NEW t \in Txs', s < t PROVE txLedger'[s] <= txLedger'[t]
    <3>1. CASE t \in Txs
      <4>1. s \in Txs
        BY <1>3, <2>1, <3>1 DEF Txs
      <4> QED
        BY <1>1, <1>7, <2>1, <3>1, <4>1 DEF Ordered
    <3>2. CASE t \notin Txs
      <4>1. txLedger'[s] \in 1..latest \/ txLedger'[s] = latest + 1
        BY <1>7, <1>8
      <4> QED
        BY <1>3, <1>8, <3>2, <4>1
    <3> QED
      BY <3>1, <3>2
  <2>2. ~provider'.rewrites => instance' = 1
    BY <1>1, <1>2 DEF Ordered
  <2>3. pc' \in {"scan", "gap", "finish"} => safe' + Confirmations <= latest'
    BY <1>1, <1>2, <1>3, IndexerNumbers DEF Ordered, TypeOK
  <2> QED
    BY <1>1, <1>2, <1>9, <2>1, <2>2, <2>3 DEF Ordered, Confirmations
<1>11. ASSUME NEW d \in 0..(latest + 1), StoredBefore(d)
       PROVE \A i \in Leaves' : LedgerOf(i)' < d => i \in rows'
  BY <1>1, <1>11, CloseExtends, Zenon
<1>12. Covered' => Covered
  BY <1>2 DEF Covered
<1>13. ASSUME Covered' PROVE \A t \in Txs' : deploy' <= txLedger'[t]
  <2> SUFFICES ASSUME NEW t \in Txs' PROVE deploy <= txLedger'[t]
    BY <1>2
  <2>1. deploy \in 0..latest
    BY <1>1 DEF TypeOK
  <2>2. CASE t \in Txs
    BY <1>7, <1>12, <1>13, <2>2 DEF ClaimsKept
  <2>3. CASE t \notin Txs
    BY <1>3, <1>8, <2>1, <2>3
  <2> QED
    BY <2>2, <2>3
<1>14. ASSUME Covered' PROVE StoredBefore(cursor + 1)'
  <2>1. cursor + 1 \in 0..(latest + 1) /\ StoredBefore(cursor + 1)
    BY <1>1, <1>3, <1>12, <1>14 DEF ClaimsKept, TypeOK
  <2>2. \A i \in Leaves' : LedgerOf(i)' < cursor + 1 => i \in rows'
    BY <1>11, <2>1
  <2> QED
    BY <1>2, <2>2 DEF StoredBefore
<1>15. ASSUME Covered', pc' \in {"scan", "gap", "finish"} PROVE StoredBefore(windowFrom)'
  <2>1. windowFrom \in 0..(latest + 1) /\ StoredBefore(windowFrom)
    BY <1>1, <1>2, <1>12, <1>15 DEF ClaimsKept, TypeOK
  <2>2. \A i \in Leaves' : LedgerOf(i)' < windowFrom => i \in rows'
    BY <1>11, <2>1
  <2> QED
    BY <1>2, <2>2 DEF StoredBefore
<1> QED
  BY <1>10, <1>13, <1>14, <1>15 DEF ClaimsKept

LEMMA ReAnchorKeeps ==
    ASSUME ClaimsKept, TablesKept', ReAnchor PROVE ClaimsKept'
<1> USE DEF chain, tables
<1>1. TypeOK /\ Ordered /\ pc = "gap"
  BY DEF ClaimsKept, Ordered, ReAnchor
<1>2. CASE Fail
  BY <1>1, <1>2, RestKeeps DEF Fail, ReAnchor, TypeOK
<1>3. CASE /\ Txs # {}
           /\ deploy' = txLedger[1]
           /\ windowFrom' = txLedger[1]
           /\ pc' = "scan"
           /\ UNCHANGED <<chain, rows, nulls, cursor, gap, safe, attempts, wanted, faults>>
  <2>1. txLedger[1] \in 1..latest /\ latest \in Nat
    BY <1>1, <1>3, TxTypes DEF TypeOK
  <2>2. TypeOK'
    BY <1>1, <1>3, <2>1 DEF TypeOK, Leaves, Txs
  <2>3. Ordered'
    BY <1>1, <1>3, <2>2 DEF Ordered, Txs, Confirmations
  <2>4. \A t \in Txs : txLedger[1] <= txLedger[t]
    BY <1>1, FirstIsFirst
  <2>5. StoredBefore(txLedger[1])
    <3>1. PICK d \in Nat : d = txLedger[1]
      BY <2>1
    <3>2. StoredBefore(d)
      BY <1>1, <2>4, <3>1, NothingBefore
    <3> QED
      BY <3>1, <3>2
  <2>6. StoredBefore(windowFrom)'
    BY <1>3, <2>5 DEF StoredBefore, Leaves, LedgerOf, TxOf
  <2>7. Covered' => StoredBefore(cursor + 1)'
    BY <1>3 DEF ClaimsKept, Covered, StoredBefore, Leaves, LedgerOf, TxOf
  <2> QED
    BY <1>3, <2>3, <2>4, <2>6, <2>7 DEF ClaimsKept, Txs
<1> QED
  BY <1>2, <1>3, Zenon DEF ReAnchor, WalkBackFinds

(* The ledger of the last good leaf: every leaf before it is stored.       *)
LEMMA RewindIsStored ==
    ASSUME Ordered, TablesKept, Early, wanted # 0
    PROVE  StoredBefore(RewindTo)
<1>1. TypeOK /\ deploy \in Nat
  BY DEF Ordered, TypeOK
<1>2. StoredBefore(deploy)
  BY <1>1, NothingBefore DEF Early
<1>3. ASSUME wanted - 1 \in rows PROVE StoredBefore(LedgerOf(wanted - 1))
  <2> SUFFICES ASSUME NEW i \in Leaves, LedgerOf(i) < LedgerOf(wanted - 1) PROVE i \in rows
    BY DEF StoredBefore
  <2>1. wanted - 1 \in Leaves
    BY <1>1, <1>3 DEF TypeOK
  <2>2. PICK w \in Leaves : w = wanted - 1
    BY <2>1
  <2>3. w \in Nat /\ TxOf(w) \in Txs /\ LedgerOf(w) = txLedger[TxOf(w)]
    BY <1>1, LeafTypes
  <2>4. i \in Nat /\ TxOf(i) \in Txs /\ LedgerOf(i) = txLedger[TxOf(i)]
    BY <1>1, LeafTypes
  <2>5. LedgerOf(i) < LedgerOf(w) /\ LedgerOf(i) \in Nat /\ LedgerOf(w) \in Nat
    BY <1>1, <2>2, <2>3, <2>4, TxTypes
  <2>6. ~(TxOf(w) < TxOf(i)) /\ TxOf(w) # TxOf(i)
    BY <1>1, <2>3, <2>4, <2>5 DEF Ordered
  <2>7. TxOf(i) < TxOf(w)
    BY <2>3, <2>4, <2>6 DEF Txs
  <2>8. i < w
    BY <2>3, <2>4, <2>7 DEF TxOf
  <2>9. PICK n \in 0..(2 * Len(txLedger)) : rows = 0..(n - 1)
    BY DEF TablesKept, Prefix
  <2> QED
    BY <1>3, <2>2, <2>3, <2>4, <2>8, <2>9
<1> QED
  BY <1>2, <1>3 DEF RewindTo, Larger

LEMMA RewindKeeps ==
    ASSUME ClaimsKept, TablesKept', Rewind PROVE ClaimsKept'
<1> USE DEF chain, tables
<1>1. TypeOK /\ Ordered /\ pc = "gap" /\ wanted # 0
  BY DEF ClaimsKept, Ordered, Rewind
<1>2. CASE Fail
  BY <1>1, <1>2, RestKeeps DEF Fail, Rewind, TypeOK
<1>3. CASE /\ attempts + 1 <= MaxRescan
           /\ attempts' = attempts + 1
           /\ gap' = TRUE
           /\ windowFrom' = RewindTo
           /\ pc' = "scan"
           /\ UNCHANGED <<chain, tables, safe, wanted, faults>>
  <2>1. RewindTo \in 0..latest
    <3>1. ASSUME wanted - 1 \in rows PROVE LedgerOf(wanted - 1) \in 1..latest
      <4>1. PICK w \in Leaves : w = wanted - 1
        BY <1>1, <3>1 DEF TypeOK
      <4>2. LedgerOf(w) \in 1..latest
        BY <1>1, LeafTypes
      <4> QED
        BY <4>1, <4>2
    <3> QED
      BY <1>1, <3>1 DEF RewindTo, Larger, TypeOK
  <2>2. TypeOK'
    <3>1. windowFrom' \in 0..(latest' + 1) /\ attempts' \in 0..MaxRescan
      BY <1>1, <1>3, <2>1, IndexerNumbers DEF TypeOK
    <3> QED
      BY <1>1, <1>3, <3>1 DEF TypeOK, Leaves, Txs
  <2>3. Ordered'
    BY <1>1, <1>3, <2>2, SameOrder DEF Ordered
  <2>4. Covered => StoredBefore(windowFrom')
    BY <1>1, <1>3, RewindIsStored DEF ClaimsKept, Early
  <2> QED
    BY <1>3, <2>3, <2>4, SameClaims
<1>4. attempts \in Nat /\ MaxRescan \in Nat
  BY <1>1, IndexerNumbers DEF TypeOK
<1>5. CASE attempts + 1 > MaxRescan
  BY <1>2, <1>5, Zenon DEF Rewind
<1>6. CASE ~(attempts + 1 > MaxRescan)
  <2>1. attempts + 1 <= MaxRescan
    BY <1>4, <1>6
  <2> QED
    BY <1>3, <1>6, <2>1, Zenon DEF Rewind
<1> QED
  BY <1>5, <1>6

LEMMA ClaimsStep ==
    ASSUME ClaimsKept, [Next]_vars PROVE ClaimsKept'
<1>1. TablesKept' /\ TypeOK
  BY StepKeeps DEF ClaimsKept, Ordered
<1>2. ASSUME NEW k \in 0..2, NEW rewritten \in BOOLEAN, CloseLedger(k, rewritten) PROVE ClaimsKept'
  BY <1>1, <1>2, CloseClaims
<1>3. CASE Discover
  BY <1>1, <1>3, DiscoverKeeps
<1>4. CASE Begin
  BY <1>1, <1>4, BeginKeeps
<1>5. CASE Plan
  BY <1>1, <1>5, PlanKeeps
<1>6. CASE Scan
  <2>1. PICK n \in NodeViews : ScanOk(n) \/ ScanRefused(n)
    BY <1>6 DEF Scan
  <2>2. pc = "scan"
    BY <1>6 DEF Scan
  <2>3. ASSUME ScanOk(n) PROVE ClaimsKept'
    BY <1>1, <2>2, <2>3, ScanOkKeeps
  <2>4. ASSUME ScanRefused(n) PROVE ClaimsKept'
    BY <1>1, <2>4, RestKeeps DEF ScanRefused, Fail, TypeOK
  <2> QED
    BY <2>1, <2>3, <2>4
<1>7. CASE ReAnchor
  BY <1>1, <1>7, ReAnchorKeeps
<1>8. CASE Rewind
  BY <1>1, <1>8, RewindKeeps
<1>9. CASE Finish
  BY <1>1, <1>9, RestKeeps DEF Finish, TypeOK
<1>10. CASE Interrupt
  <2>1. faults \in 0..MaxFaults /\ faults < MaxFaults /\ faults' = faults + 1 /\ MaxFaults \in Nat
    BY <1>1, <1>10, IndexerNumbers DEF Interrupt, TypeOK
  <2>2. faults' \in 0..MaxFaults
    BY <2>1
  <2>3. gap' \in BOOLEAN
    BY <1>1, <1>10, Zenon DEF Interrupt, TypeOK
  <2> QED
    BY <1>1, <1>10, <2>2, <2>3, RestKeeps DEF Interrupt
<1>11. CASE UNCHANGED vars
  <2>1. UNCHANGED <<chain, tables, gap, locals, pc, faults>>
    BY <1>11 DEF vars, chain, tables, locals
  <2>2. TypeOK' /\ Ordered'
    BY <2>1 DEF ClaimsKept, Ordered, TypeOK, chain, tables, locals, Leaves, Txs, Confirmations
  <2>3. pc' \in {"scan", "gap", "finish"} /\ Covered => StoredBefore(windowFrom')
    BY <2>1 DEF ClaimsKept, locals
  <2> QED
    BY <1>1, <2>1, <2>2, <2>3, SameClaims
<1> QED
  BY <1>2, <1>3, <1>4, <1>5, <1>6, <1>7, <1>8, <1>9, <1>10, <1>11 DEF Next, Tick

\* A ready answer's node has nothing older than the limit that the cursor has not passed.
LEMMA ClaimsEnd == ClaimsKept => ClaimsHold
<1> SUFFICES ASSUME ClaimsKept PROVE ClaimsHold
  OBVIOUS
<1>1. TypeOK /\ cursor \in Nat /\ latest \in Nat
  BY DEF ClaimsKept, Ordered, TypeOK
<1>2. ASSUME Covered, NEW i \in Leaves, LedgerOf(i) <= cursor PROVE i \in rows
  <2>1. StoredBefore(cursor + 1) /\ LedgerOf(i) \in Nat
    BY <1>1, <1>2, LeafTypes DEF ClaimsKept
  <2> QED
    BY <1>1, <1>2, <2>1 DEF StoredBefore
<1>3. ASSUME Covered, NEW n \in NodeViews, Ready(n) PROVE CompleteUpTo(n)
  <2> SUFFICES ASSUME NEW i \in Leaves, LedgerOf(i) <= n - SyncLagLimit PROVE i \in rows
    BY DEF CompleteUpTo
  <2>1. provider.lag \in Nat
    BY <1>1, IndexerNumbers DEF TypeOK
  <2>2. n \in Nat /\ SyncLagLimit \in Nat /\ LedgerOf(i) \in Nat
    BY <1>1, <2>1, LeafTypes, IndexerAssumptions DEF IndexerAssumptions, NodeViews, Larger
  <2>3. LedgerOf(i) <= cursor
    BY <1>1, <1>3, <2>2 DEF Ready
  <2> QED
    BY <1>2, <1>3, <2>3
<1> QED
  BY <1>1, <1>2, <1>3 DEF ClaimsHold, CursorComplete, HealthyIsComplete

(* Whatever the nodes leave out and wherever a tick stops, the cursor has  *)
(* passed stored leaves only and a ready answer stands for every leaf that *)
(* the node has had for longer than the limit, when the confirmations      *)
(* cover the nodes' lag and the deploy ledger is not read after leaf 0.    *)
THEOREM ClaimsStand == Spec => []ClaimsHold
<1>1. ClaimsKept /\ [Next]_vars => ClaimsKept'
  BY ClaimsStep
<1> QED
  BY <1>1, ClaimsStart, ClaimsEnd, PTL DEF Spec

-----------------------------------------------------------------------------
(* The loop in TypeScript: pages from different nodes are still transacts  *)
(* of the chain.                                                           *)
LEMMA PagesAreTransacts ==
    ASSUME NEW from, NEW to, NEW n, NEW m
    PROVE  fetchRange(from, to, n, m) \in SUBSET Txs
<1>1. \A v : Answer(from, to, v) \subseteq Txs
  BY DEF Answer
<1> QED
  BY <1>1, Zenon DEF fetchRange

LEMMA ApplyKeeps ==
    ASSUME TablesKept, NEW T \in SUBSET Txs, NEW to, apply(T, to),
           UNCHANGED <<latest, txLedger>>
    PROVE  TablesKept'
<1>1. decode(T).commits = LeavesOf(T) /\ decode(T).nulls = T
  BY DEF decode
<1>2. CASE HasGap(LeavesOf(T))
  BY <1>1, <1>2, SameTables DEF apply, tables
<1>3. CASE ~HasGap(LeavesOf(T))
  <2>1. Commit(T, to)
    BY <1>1, <1>3, Zenon DEF apply
  <2>2. Prefix' /\ NullifiersFollow'
    BY <1>3, <2>1, CommitKeeps
  <2> QED
    BY <2>2 DEF TablesKept
<1> QED
  BY <1>2, <1>3

LEMMA TsStepKeeps ==
    ASSUME TablesKept, [TsNext]_vars PROVE TablesKept'
<1>1. ASSUME NEW k \in 0..2, NEW rewritten \in BOOLEAN, CloseLedger(k, rewritten)
      PROVE TablesKept'
  BY <1>1, CloseKeeps
<1>2. CASE discoverDeployLedger
  BY <1>2, SameTables DEF discoverDeployLedger, chain
<1>3. CASE Begin
  BY <1>3, SameTables DEF Begin, chain, tables
<1>4. CASE Plan
  BY <1>4, SameTables DEF Plan, chain, tables
<1>5. CASE ingestRange
  <2>1. PICK n \in NodeViews, m \in NodeViews :
           IF OutOfReach(n) THEN Fail
           ELSE /\ apply(fetchRange(windowFrom, WindowTo, n, m), WindowTo)
                /\ UNCHANGED <<chain, gap, safe, attempts>>
    BY <1>5, Zenon DEF ingestRange
  <2>2. CASE OutOfReach(n)
    BY <2>1, <2>2, SameTables DEF Fail, chain, tables
  <2>3. CASE ~OutOfReach(n)
    <3>1. UNCHANGED <<latest, txLedger>>
      BY <2>1, <2>3 DEF chain
    <3>2. apply(fetchRange(windowFrom, WindowTo, n, m), WindowTo)
      BY <2>1, <2>3, Zenon
    <3> QED
      BY <3>1, <3>2, PagesAreTransacts, ApplyKeeps
  <2> QED
    BY <2>2, <2>3
<1>6. CASE TooLate
  BY <1>6, SameTables DEF TooLate, chain, tables
<1>7. CASE Rediscover
  BY <1>7, SameTables DEF Rediscover, chain
<1>8. CASE Rewind
  BY <1>8, SameTables DEF Rewind, Fail, chain, tables
<1>9. CASE Finish
  BY <1>9, SameTables DEF Finish, chain, tables
<1>10. CASE Throw
  BY <1>10, SameTables DEF Throw, chain, tables
<1>11. CASE UNCHANGED vars
  BY <1>11, SameTables DEF vars
<1> QED
  BY <1>1, <1>2, <1>3, <1>4, <1>5, <1>6, <1>7, <1>8, <1>9, <1>10, <1>11
     DEF TsNext, ingestLoop

(* The loop the Go service was ported from keeps the same promise, though  *)
(* its pages may come from different nodes (apply, ingestLoop).            *)
THEOREM TsTablesFollowTheChain == TsSpec => []TablesFollow
<1>1. TablesKept /\ [TsNext]_vars => TablesKept'
  BY TsStepKeeps
<1> QED
  BY <1>1, TablesStart, TablesEnd, PTL DEF TsSpec

-----------------------------------------------------------------------------
(* Pages: a first page that is not full is the whole answer, and what a    *)
(* full one leaves out comes after all of it.                              *)
Upto(A, m)   == {u \in A : u <= m}
FirstPage(A) == {t \in A : Cardinality(Upto(A, t)) <= PageLimit}

LEMMA UptoIsFinite ==
    ASSUME NEW A \in SUBSET (Nat \ {0}), IsFiniteSet(A), NEW m \in Nat, NEW k \in Nat, k <= m
    PROVE  /\ IsFiniteSet(Upto(A, m)) /\ Cardinality(Upto(A, m)) \in Nat
           /\ Cardinality(Upto(A, k)) \in Nat /\ Cardinality(Upto(A, k)) <= Cardinality(Upto(A, m))
<1>0. \A u \in A : u \in Nat \ {0}
  OBVIOUS
<1>1. Upto(A, m) \in SUBSET A /\ Upto(A, k) \in SUBSET Upto(A, m)
  <2>1. \A u \in A : u <= k => u <= m
    BY <1>0
  <2> QED
    BY <2>1, Zenon DEF Upto
<1>2. IsFiniteSet(Upto(A, m))
  BY <1>1, FS_Subset, Zenon
<1>3. IsFiniteSet(Upto(A, k)) /\ Cardinality(Upto(A, k)) <= Cardinality(Upto(A, m))
  BY <1>1, <1>2, FS_Subset, Zenon
<1> QED
  BY <1>2, <1>3, FS_CardinalityType

LEMMA ShortPageIsAll ==
    ASSUME NEW A \in SUBSET (Nat \ {0}), IsFiniteSet(A), NEW t \in A, t \notin FirstPage(A)
    PROVE  IsFiniteSet(FirstPage(A)) /\ Cardinality(FirstPage(A)) \in Nat /\ Cardinality(FirstPage(A)) >= PageLimit
<1>0. PageLimit \in Nat \ {0}
  BY IndexerAssumptions DEF IndexerAssumptions
<1> DEFINE S == {m \in Nat : Cardinality(Upto(A, m)) > PageLimit}
<1>1. t \in S
  <2>1. Cardinality(Upto(A, t)) \in Nat /\ t \in Nat
    BY UptoIsFinite
  <2> QED
    BY <1>0, <2>1 DEF FirstPage
<1>2. PICK m \in S : \A k \in S : m <= k
  <2>1. S \in SUBSET Nat /\ S # {}
    BY <1>1
  <2> HIDE DEF S
  <2> QED
    BY <2>1, MinOfSet
<1>3. m # 0
  <2>1. Upto(A, 0) = {}
    <3>1. \A u \in A : u \in Nat \ {0}
      OBVIOUS
    <3>2. \A u \in A : ~(u <= 0)
      BY <3>1
    <3> QED
      BY <3>2, Zenon DEF Upto
  <2>2. Cardinality(Upto(A, 0)) = 0
    BY <2>1, FS_EmptySet
  <2> QED
    BY <1>0, <1>2, <2>2
<1>4. PICK p \in Nat : m = p + 1
  BY <1>2, <1>3
<1>5. IsFiniteSet(Upto(A, p)) /\ Cardinality(Upto(A, p)) \in Nat
  BY <1>4, UptoIsFinite
<1>6. Cardinality(Upto(A, p)) = PageLimit
  <2>1. p \notin S
    BY <1>2, <1>4
  <2>2. Cardinality(Upto(A, p)) <= PageLimit
    BY <1>0, <1>5, <2>1
  <2>3. IsFiniteSet(Upto(A, p) \cup {m}) /\ Cardinality(Upto(A, p) \cup {m}) <= Cardinality(Upto(A, p)) + 1
        /\ Cardinality(Upto(A, p) \cup {m}) \in Nat
    <3>1. IsFiniteSet(Upto(A, p) \cup {m})
          /\ Cardinality(Upto(A, p) \cup {m}) = IF m \in Upto(A, p) THEN Cardinality(Upto(A, p)) ELSE Cardinality(Upto(A, p)) + 1
      BY <1>5, FS_AddElement, Zenon
    <3> QED
      BY <1>5, <3>1
  <2>4. Upto(A, m) \in SUBSET (Upto(A, p) \cup {m})
    <3>1. \A u \in A : u \in Nat \ {0}
      OBVIOUS
    <3>2. \A u \in A : u <= m => u <= p \/ u = m
      BY <1>4, <3>1
    <3> QED
      BY <3>2, Zenon DEF Upto
  <2>5. Cardinality(Upto(A, m)) <= Cardinality(Upto(A, p) \cup {m})
    BY <2>3, <2>4, FS_Subset, Zenon
  <2>6. Cardinality(Upto(A, m)) > PageLimit /\ Cardinality(Upto(A, m)) \in Nat
    BY <1>2, UptoIsFinite
  <2> QED
    BY <1>0, <1>5, <2>2, <2>3, <2>5, <2>6
<1>7. Upto(A, p) \in SUBSET FirstPage(A)
  <2> SUFFICES ASSUME NEW u \in Upto(A, p) PROVE u \in FirstPage(A)
    OBVIOUS
  <2>1. u \in A /\ u \in Nat /\ u <= p
    BY DEF Upto
  <2>2. Cardinality(Upto(A, u)) <= Cardinality(Upto(A, p))
    BY <2>1, UptoIsFinite
  <2> QED
    BY <1>6, <2>1, <2>2 DEF FirstPage
<1>8. IsFiniteSet(FirstPage(A))
  <2>1. FirstPage(A) \in SUBSET A
    BY DEF FirstPage
  <2> QED
    BY <2>1, FS_Subset, Zenon
<1>9. Cardinality(Upto(A, p)) <= Cardinality(FirstPage(A))
  BY <1>7, <1>8, FS_Subset, Zenon
<1> QED
  BY <1>6, <1>8, <1>9, FS_CardinalityType

\* What is not on the first page comes after its last transact.
LEMMA AfterFirstPage ==
    ASSUME NEW A \in SUBSET (Nat \ {0}), IsFiniteSet(A), NEW t \in A, t \notin FirstPage(A)
    PROVE  t > Max(FirstPage(A))
<1>0. PageLimit \in Nat \ {0}
  BY IndexerAssumptions DEF IndexerAssumptions
<1>1. \A f \in FirstPage(A) : f \in Nat \ {0} /\ f < t
  <2> SUFFICES ASSUME NEW f \in FirstPage(A), ~(f < t) PROVE FALSE
    BY DEF FirstPage
  <2>1. f \in A /\ f \in Nat /\ t \in Nat /\ t <= f /\ Cardinality(Upto(A, f)) <= PageLimit
    BY DEF FirstPage
  <2>2. Cardinality(Upto(A, t)) <= Cardinality(Upto(A, f)) /\ Cardinality(Upto(A, t)) \in Nat /\ Cardinality(Upto(A, f)) \in Nat
    BY <2>1, UptoIsFinite
  <2> QED
    BY <1>0, <2>1, <2>2 DEF FirstPage
<1>2. FirstPage(A) # {}
  BY <1>0, ShortPageIsAll, FS_EmptySet
<1> DEFINE F == FirstPage(A)
           S == {m \in Nat : \A f \in F : f <= m}
<1> HIDE DEF F
<1>3. t \in S
  BY <1>1 DEF F
<1>4. PICK m \in S : \A k \in S : m <= k
  <2>1. S \in SUBSET Nat /\ S # {}
    BY <1>3
  <2> HIDE DEF S
  <2> QED
    BY <2>1, MinOfSet
<1>5. m \in F
  <2> SUFFICES ASSUME m \notin F PROVE FALSE
    OBVIOUS
  <2>1. \A f \in F : f \in Nat \ {0} /\ f <= m /\ f # m
    BY <1>1, <1>4 DEF F
  <2>2. m \in Nat /\ m # 0
    BY <1>2, <1>4, <2>1 DEF F
  <2>3. PICK p \in Nat : m = p + 1
    BY <2>2
  <2>4. \A f \in F : f <= p
    BY <2>1, <2>3
  <2>5. p \in S
    BY <2>4
  <2> QED
    BY <1>4, <2>3, <2>5
<1>6. \A x \in F : (\A f \in F : x >= f) => x = m
  <2> SUFFICES ASSUME NEW x \in F, \A f \in F : x >= f PROVE x = m
    OBVIOUS
  <2>1. x >= m /\ x <= m /\ x \in Nat
    BY <1>1, <1>4, <1>5 DEF F
  <2> QED
    BY <1>4, <2>1
<1>7. \A f \in F : m >= f
  BY <1>1, <1>4 DEF F
<1>8. Max(F) = m
  BY <1>5, <1>6, <1>7, Zenon DEF Max
<1> QED
  BY <1>1, <1>5, <1>8 DEF F

\* Pages from two nodes are together all of the window.
LEMMA PagesHoldWindow ==
    ASSUME Ordered, Near, NEW n \in NodeViews, NEW m \in NodeViews, safe + Confirmations <= latest,
           windowFrom >= Oldest
    PROVE  \A t \in Txs : txLedger[t] \in windowFrom..WindowTo => t \in fetchRange(windowFrom, WindowTo, n, m)
<1> SUFFICES ASSUME NEW t \in Txs, txLedger[t] \in windowFrom..WindowTo
             PROVE  t \in fetchRange(windowFrom, WindowTo, n, m)
  OBVIOUS
<1> DEFINE A == Answer(windowFrom, WindowTo, n)
           B == Answer(windowFrom, WindowTo, m)
<1>1. t \in A /\ t \in B
  BY AnswersHoldWindow
<1>2. A \in SUBSET (Nat \ {0}) /\ IsFiniteSet(A)
  <2>1. Len(txLedger) \in Int /\ A \in SUBSET (1..Len(txLedger))
    BY DEF Answer, Txs, Ordered, TypeOK
  <2>2. IsFiniteSet(1..Len(txLedger))
    BY <2>1, FS_Interval
  <2>3. IsFiniteSet(A)
    BY <2>1, <2>2, FS_Subset, Zenon
  <2> QED
    BY <2>1, <2>3
<1>3. fetchRange(windowFrom, WindowTo, n, m) =
          IF Cardinality(FirstPage(A)) < PageLimit THEN FirstPage(A)
          ELSE FirstPage(A) \cup {u \in B : u > Max(FirstPage(A))}
  BY Zenon DEF fetchRange, FirstPage, Upto
<1> HIDE DEF A, B
<1>4. CASE t \in FirstPage(A)
  BY <1>3, <1>4
<1>5. CASE t \notin FirstPage(A)
  <2>1. t > Max(FirstPage(A))
    BY <1>1, <1>2, <1>5, AfterFirstPage
  <2>2. Cardinality(FirstPage(A)) \in Nat /\ Cardinality(FirstPage(A)) >= PageLimit /\ PageLimit \in Nat
    BY <1>1, <1>2, <1>5, ShortPageIsAll, IndexerAssumptions DEF IndexerAssumptions
  <2>3. ~(Cardinality(FirstPage(A)) < PageLimit)
    BY <2>2
  <2> QED
    BY <1>1, <1>3, <2>1, <2>3
<1> QED
  BY <1>4, <1>5

LEMMA TsDiscoverKeeps ==
    ASSUME ClaimsKept, TablesKept', discoverDeployLedger PROVE ClaimsKept'
<1> USE DEF chain, tables
<1>1. TypeOK /\ Ordered /\ deploy = 0 /\ pc' = "plan"
      /\ UNCHANGED <<latest, txLedger, instance, provider, rows, nulls, cursor, gap, safe, windowFrom, attempts, wanted>>
  BY DEF ClaimsKept, Ordered, discoverDeployLedger, locals
<1>2. deploy' = instance \/ (1 \in Txs /\ deploy' = txLedger[1])
  <2>1. \A from, to, n, m : fetchRange(from, to, n, m) \subseteq Txs
    BY PagesAreTransacts
  <2> QED
    BY <2>1, Zenon DEF discoverDeployLedger, deployLedgerFromWalkBack
<1>3. faults' \in 0..MaxFaults
  BY <1>1, IndexerNumbers DEF discoverDeployLedger, TypeOK
<1> QED
  BY <1>1, <1>2, <1>3, NewDeployKeeps

LEMMA RediscoverKeeps ==
    ASSUME ClaimsKept, TablesKept', Rediscover PROVE ClaimsKept'
<1> USE DEF chain, tables
<1>1. TypeOK /\ Ordered /\ Reset
      /\ UNCHANGED <<latest, txLedger, instance, provider, rows, nulls, cursor, gap, faults>>
  BY DEF ClaimsKept, Ordered, Rediscover
<1>2. deploy' = deploy \/ (1 \in Txs /\ deploy' = txLedger[1])
  <2>1. \A from, to, n, m : fetchRange(from, to, n, m) \subseteq Txs
    BY PagesAreTransacts
  <2> QED
    BY <2>1, Zenon DEF Rediscover, deployLedgerFromWalkBack
<1>3. CASE deploy' = deploy
  BY <1>1, <1>3, RestKeeps DEF TypeOK
<1>4. CASE 1 \in Txs /\ deploy' = txLedger[1]
  <2>1. txLedger[1] \in 1..latest
    BY <1>1, <1>4, TxTypes
  <2>2. TypeOK'
    BY <1>1, <1>4, <2>1, IndexerNumbers DEF TypeOK, Reset, Leaves, Txs
  <2>3. Ordered'
    BY <1>1, <1>4, <2>2 DEF Ordered, Reset, Txs, Confirmations
  <2>4. \A t \in Txs : txLedger[1] <= txLedger[t]
    BY <1>1, FirstIsFirst
  <2>5. Covered' => StoredBefore(cursor + 1)'
    BY <1>1 DEF ClaimsKept, Covered, StoredBefore, Leaves, LedgerOf, TxOf
  <2> QED
    BY <1>1, <1>4, <2>3, <2>4, <2>5 DEF ClaimsKept, Reset, Txs
<1> QED
  BY <1>2, <1>3, <1>4

LEMMA IngestRangeKeeps ==
    ASSUME ClaimsKept, TablesKept', ingestRange PROVE ClaimsKept'
<1>1. PICK n \in NodeViews, m \in NodeViews :
         IF OutOfReach(n) THEN Fail
         ELSE /\ apply(fetchRange(windowFrom, WindowTo, n, m), WindowTo)
              /\ UNCHANGED <<chain, gap, safe, attempts>>
  BY Zenon DEF ingestRange
<1>2. UNCHANGED faults /\ pc = "scan" /\ TypeOK /\ Ordered
  BY DEF ingestRange, ClaimsKept, Ordered
<1>3. CASE OutOfReach(n)
  BY <1>1, <1>2, <1>3, RestKeeps DEF Fail, TypeOK
<1>4. CASE ~OutOfReach(n)
  <2> DEFINE T == fetchRange(windowFrom, WindowTo, n, m)
  <2>1. T \in SUBSET Txs
    BY PagesAreTransacts
  <2>2. apply(T, WindowTo) /\ UNCHANGED <<chain, gap, safe, attempts, faults>>
    BY <1>1, <1>2, <1>4
  <2>3. Covered => \A t \in Txs : txLedger[t] \in windowFrom..WindowTo => t \in T
    <3>1. safe + Confirmations <= latest
      BY <1>2 DEF Ordered
    <3>2. windowFrom >= Oldest
      <4>0. latest \in Nat /\ Retention \in Nat /\ windowFrom \in Nat
        BY <1>2, IndexerAssumptions DEF TypeOK, IndexerAssumptions
      <4>1. Oldest \in Int /\ windowFrom \in Int
        BY <4>0 DEF Oldest, Larger
      <4> QED
        BY <1>4, <4>1 DEF OutOfReach
    <3> QED
      BY <1>2, <3>1, <3>2, PagesHoldWindow DEF Covered, Near
  <2> HIDE DEF T
  <2>4. ReadStep(T)
    <3>1. decode(T).commits = LeavesOf(T) /\ decode(T).nulls = T
      BY DEF decode
    <3> QED
      BY <2>2, <3>1, Zenon DEF apply, ReadStep
  <2> QED
    BY <1>2, <2>1, <2>3, <2>4, ReadKeeps
<1> QED
  BY <1>3, <1>4

LEMMA TsClaimsStep ==
    ASSUME ClaimsKept, [TsNext]_vars PROVE ClaimsKept'
<1>1. TablesKept' /\ TypeOK
  BY TsStepKeeps DEF ClaimsKept, Ordered
<1>2. ASSUME NEW k \in 0..2, NEW rewritten \in BOOLEAN, CloseLedger(k, rewritten) PROVE ClaimsKept'
  BY <1>1, <1>2, CloseClaims
<1>3. CASE discoverDeployLedger
  BY <1>1, <1>3, TsDiscoverKeeps
<1>4. CASE Begin
  BY <1>1, <1>4, BeginKeeps
<1>5. CASE Plan
  BY <1>1, <1>5, PlanKeeps
<1>6. CASE ingestRange
  BY <1>1, <1>6, IngestRangeKeeps
<1>7. CASE TooLate
  <2>1. TypeOK' /\ Ordered'
    BY <1>7 DEF ClaimsKept, Ordered, TypeOK, TooLate, chain, tables, locals, Leaves, Txs, Confirmations
  <2> QED
    BY <1>1, <1>7, <2>1, SameClaims DEF TooLate
<1>8. CASE Rediscover
  BY <1>1, <1>8, RediscoverKeeps
<1>9. CASE Rewind
  BY <1>1, <1>9, RewindKeeps
<1>10. CASE Finish
  BY <1>1, <1>10, RestKeeps DEF Finish, TypeOK
<1>11. CASE Throw
  <2>1. faults \in 0..MaxFaults /\ faults < MaxFaults /\ faults' = faults + 1 /\ MaxFaults \in Nat
    BY <1>1, <1>11, IndexerNumbers DEF Throw, TypeOK
  <2>2. faults' \in 0..MaxFaults
    BY <2>1
  <2>3. gap' \in BOOLEAN
    BY <1>1, <1>11, Zenon DEF Throw, TypeOK
  <2> QED
    BY <1>1, <1>11, <2>2, <2>3, RestKeeps DEF Throw
<1>12. CASE UNCHANGED vars
  BY <1>12, ClaimsStep
<1> QED
  BY <1>2, <1>3, <1>4, <1>5, <1>6, <1>7, <1>8, <1>9, <1>10, <1>11, <1>12 DEF TsNext, ingestLoop

(* The TypeScript loop's claims stand as well: its pages, whichever nodes  *)
(* they come from, are together every transact of the window.              *)
THEOREM TsClaimsStand == TsSpec => []ClaimsHold
<1>1. ClaimsKept /\ [TsNext]_vars => ClaimsKept'
  BY TsClaimsStep
<1> QED
  BY <1>1, ClaimsStart, ClaimsEnd, PTL DEF TsSpec

-----------------------------------------------------------------------------
(* A ready answer of the TypeScript loop over any entry, rewritten or not. *)

Scanning == {"scan", "gap", "finish"}

\* Once anything is stored the deploy ledger is not after leaf 0; and as long as it is not, only a
\* raised flag goes with a cursor that has passed a leaf.
ReadyKept ==
    /\ deploy = 0 => cursor = 0 /\ pc = "idle" /\ rows = {}
    /\ pc = "rediscover" => gap
    /\ Near =>
        /\ rows # {} => Early
        /\ rows = {} /\ pc \in Scanning => deploy <= windowFrom /\ deploy <= safe
        /\ Early => /\ gap \/ StoredBefore(cursor + 1)
                    /\ rows # {} \/ pc = "finish" => StoredBefore(cursor + 1)
                    /\ pc \in Scanning => StoredBefore(windowFrom)

LEMMA ReadyStart == Init => ReadyKept
<1> SUFFICES ASSUME Init PROVE ReadyKept
  OBVIOUS
<1>1. Leaves = {}
  BY DEF Init, Leaves
<1> QED
  BY <1>1 DEF Init, ReadyKept, StoredBefore, Scanning

\* A step that leaves the window and keeps the flag up
LEMMA ReadyRests ==
    ASSUME ReadyKept, UNCHANGED <<chain, tables>>, pc' \in {"idle", "plan", "rediscover"},
           deploy # 0 \/ pc' = "idle", gap => gap', pc' = "rediscover" => gap'
    PROVE  ReadyKept'
<1>1. UNCHANGED <<latest, txLedger, instance, provider, rows, nulls, cursor, deploy>>
  BY DEF chain, tables
<1>2. StoredBefore(cursor + 1) => StoredBefore(cursor + 1)'
  BY <1>1 DEF StoredBefore, Leaves, LedgerOf, TxOf
<1>3. (Near' <=> Near) /\ (Early' <=> Early)
  BY <1>1 DEF Near, Early, Txs
<1> QED
  BY <1>1, <1>2, <1>3 DEF ReadyKept, Scanning

\* A step that starts or restarts a window
LEMMA ReadyWindow ==
    ASSUME ReadyKept, UNCHANGED <<chain, tables>>, pc' \in {"scan", "gap"}, deploy # 0, gap => gap',
           Near => /\ rows = {} => deploy <= windowFrom' /\ deploy <= safe'
                   /\ Early => StoredBefore(windowFrom')
    PROVE  ReadyKept'
<1>1. UNCHANGED <<latest, txLedger, instance, provider, rows, nulls, cursor, deploy>>
  BY DEF chain, tables
<1>2. StoredBefore(cursor + 1) => StoredBefore(cursor + 1)'
  BY <1>1 DEF StoredBefore, Leaves, LedgerOf, TxOf
<1>3. StoredBefore(windowFrom') => StoredBefore(windowFrom)'
  BY <1>1 DEF StoredBefore, Leaves, LedgerOf, TxOf
<1>4. (Near' <=> Near) /\ (Early' <=> Early)
  BY <1>1 DEF Near, Early, Txs
<1> QED
  BY <1>1, <1>2, <1>3, <1>4 DEF ReadyKept, Scanning

LEMMA ReadyCloses ==
    ASSUME ClaimsKept, ReadyKept, NEW k \in 0..2, NEW rewritten \in BOOLEAN, CloseLedger(k, rewritten)
    PROVE  ReadyKept'
<1>1. TypeOK /\ latest \in Nat
  BY DEF ClaimsKept, Ordered, TypeOK
<1>2. UNCHANGED <<provider, rows, nulls, cursor, deploy, gap, pc, safe, windowFrom>>
  BY DEF CloseLedger, tables, locals
<1>3. /\ Txs \subseteq Txs' /\ \A t \in Txs : txLedger'[t] = txLedger[t]
      /\ \A d \in 0..(latest + 1) : StoredBefore(d) => \A i \in Leaves' : LedgerOf(i)' < d => i \in rows'
  BY CloseExtends DEF ClaimsKept, Ordered
<1>4. Near' <=> Near
  BY <1>2 DEF Near
<1>5. Early' => Early
  BY <1>2, <1>3 DEF Early
<1>6. Early => Early'
  <2> SUFFICES ASSUME Early, NEW t \in Txs' PROVE deploy <= txLedger'[t]
    BY <1>2 DEF Early
  <2>1. deploy \in 0..latest
    BY <1>1 DEF TypeOK
  <2>2. Ordered
    BY DEF ClaimsKept
  <2>3. CASE t \in Txs
    BY <1>3, <2>3 DEF Early
  <2>4. CASE t \notin Txs
    <3>1. txLedger'[t] = latest + 1
      BY <2>2, <2>4, CloseExtends, Zenon
    <3> QED
      BY <1>1, <2>1, <3>1
  <2> QED
    BY <2>3, <2>4
<1>7. StoredBefore(cursor + 1) => StoredBefore(cursor + 1)'
  <2>1. cursor + 1 \in 0..(latest + 1)
    BY <1>1 DEF TypeOK
  <2>2. StoredBefore(cursor + 1) => \A i \in Leaves' : LedgerOf(i)' < cursor + 1 => i \in rows'
    BY <1>3, <2>1
  <2> QED
    BY <1>2, <2>2 DEF StoredBefore
<1>8. StoredBefore(windowFrom) => StoredBefore(windowFrom)'
  <2>1. windowFrom \in 0..(latest + 1)
    BY <1>1 DEF TypeOK
  <2>2. StoredBefore(windowFrom) => \A i \in Leaves' : LedgerOf(i)' < windowFrom => i \in rows'
    BY <1>3, <2>1
  <2> QED
    BY <1>2, <2>2 DEF StoredBefore
<1> QED
  BY <1>2, <1>4, <1>5, <1>6, <1>7, <1>8 DEF ReadyKept

\* A batch holds nothing before its window.
LEMMA PagesFollowWindow ==
    ASSUME TypeOK, NEW to, NEW n, NEW m, NEW t \in fetchRange(windowFrom, to, n, m)
    PROVE  windowFrom <= txLedger[t]
<1>1. windowFrom \in Nat /\ Oldest \in Int
  BY IndexerAssumptions DEF TypeOK, IndexerAssumptions, Oldest, Larger
<1>2. \E v : t \in Answer(windowFrom, to, v)
  BY Zenon DEF fetchRange
<1>3. PICK v : t \in Answer(windowFrom, to, v)
  BY <1>2
<1>4. t \in Txs /\ txLedger[t] >= Larger(windowFrom, Oldest)
  BY <1>3 DEF Answer
<1>5. txLedger[t] \in Nat
  BY <1>4, TxTypes
<1> QED
  BY <1>1, <1>4, <1>5 DEF Larger

LEMMA ReadyReads ==
    ASSUME ClaimsKept, ReadyKept, TablesKept', pc = "scan", NEW T \in SUBSET Txs, ReadStep(T),
           \A t \in T : windowFrom <= txLedger[t],
           Near => \A t \in Txs : txLedger[t] \in windowFrom..WindowTo => t \in T
    PROVE  ReadyKept'
<1>1. TypeOK /\ Ordered /\ TablesKept /\ deploy # 0 /\ deploy \in Nat /\ safe \in Nat /\ windowFrom \in Nat
  BY DEF ClaimsKept, Ordered, ReadyKept, TypeOK
<1>2. UNCHANGED <<chain, gap, safe>> /\ pc \in Scanning
  BY DEF ReadStep, Scanning
<1>3. CASE HasGap(LeavesOf(T)) /\ pc' = "gap" /\ wanted' = Reached(LeavesOf(T)) /\ UNCHANGED <<tables, windowFrom>>
  <2>1. Near => /\ rows = {} => deploy <= windowFrom' /\ deploy <= safe'
                /\ Early => StoredBefore(windowFrom')
    BY <1>2, <1>3 DEF ReadyKept
  <2> QED
    BY <1>1, <1>2, <1>3, <2>1, ReadyWindow
<1>4. CASE /\ Commit(T, WindowTo)
           /\ windowFrom' = WindowTo + 1
           /\ pc' = IF WindowTo + 1 > safe THEN "finish" ELSE "scan"
           /\ UNCHANGED <<deploy, wanted>>
  <2>1. PICK w \in Int : w = WindowTo
    BY <1>1, WindowTypes
  <2>2. cursor' = w /\ windowFrom' = w + 1 /\ pc' \in {"scan", "finish"} /\ deploy' = deploy
        /\ rows' = rows \cup {c \in LeavesOf(T) : c >= NextLeafIndex}
    BY <1>4, <2>1 DEF Commit
  <2>3. (Near' <=> Near) /\ (Early' <=> Early) /\ Txs' = Txs
    BY <1>2, <2>2 DEF Near, Early, Txs, chain
  <2>4. ASSUME Near, rows' # {} PROVE Early
    <3>1. CASE rows # {}
      BY <2>4, <3>1 DEF ReadyKept
    <3>2. CASE rows = {}
      <4>1. 0 \in rows'
        <5>1. PICK n \in 0..(2 * Len(txLedger)) : rows' = 0..(n - 1)
          BY <1>2 DEF TablesKept, Prefix, chain
        <5>2. n \in Nat
          BY <1>1, <5>1 DEF TablesKept
        <5> QED
          BY <2>4, <5>1, <5>2
      <4>2. TxOf(0) \in T /\ TxOf(0) = 1
        BY <2>2, <3>2, <4>1 DEF LeavesOf, TxOf
      <4>3. deploy <= txLedger[1]
        <5>1. deploy <= windowFrom /\ windowFrom <= txLedger[1] /\ 1 \in Txs
          BY <1>2, <2>4, <3>2, <4>2 DEF ReadyKept
        <5>2. txLedger[1] \in Nat
          BY <1>1, <5>1, TxTypes
        <5> QED
          BY <1>1, <5>1, <5>2
      <4>4. \A t \in Txs : txLedger[1] <= txLedger[t] /\ txLedger[1] \in Nat /\ txLedger[t] \in Nat
        BY <1>1, FirstIsFirst, TxTypes
      <4> QED
        BY <1>1, <4>3, <4>4 DEF Early
    <3> QED
      BY <3>1, <3>2
  <2>5. ASSUME Near, rows' = {} PROVE deploy <= windowFrom' /\ deploy <= safe'
    <3>1. rows = {}
      BY <2>2, <2>5
    <3>2. deploy <= windowFrom /\ deploy <= safe
      BY <1>2, <2>5, <3>1 DEF ReadyKept
    <3>3. ScanWindow \in Nat \ {0}
      BY IndexerNumbers
    <3>4. deploy <= w + 1
      BY <1>1, <2>1, <3>2, <3>3 DEF WindowTo, Smaller
    <3> QED
      BY <1>2, <2>2, <3>2, <3>4
  <2>6. ASSUME Near, Early PROVE StoredBefore(w + 1)'
    <3>1. StoredBefore(windowFrom)
      BY <1>2, <2>6 DEF ReadyKept
    <3>2. Commit(T, w) /\ \A t \in Txs : txLedger[t] \in windowFrom..w => t \in T
      BY <1>4, <2>1, <2>6
    <3> QED
      BY <1>1, <1>2, <3>1, <3>2, WindowStored
  <2>7. ASSUME Near, Early PROVE StoredBefore(cursor + 1)' /\ StoredBefore(windowFrom)'
    BY <2>2, <2>6, <2>7 DEF StoredBefore
  <2> QED
    BY <1>1, <2>2, <2>3, <2>4, <2>5, <2>7 DEF ReadyKept
<1> QED
  BY <1>3, <1>4 DEF ReadStep

LEMMA ReadyIngests ==
    ASSUME ClaimsKept, ReadyKept, TablesKept', ingestRange PROVE ReadyKept'
<1>1. PICK n \in NodeViews, m \in NodeViews :
         IF OutOfReach(n) THEN Fail
         ELSE /\ apply(fetchRange(windowFrom, WindowTo, n, m), WindowTo)
              /\ UNCHANGED <<chain, gap, safe, attempts>>
  BY Zenon DEF ingestRange
<1>2. UNCHANGED faults /\ pc = "scan" /\ TypeOK /\ Ordered
  BY DEF ingestRange, ClaimsKept, Ordered
<1>3. CASE OutOfReach(n)
  BY <1>1, <1>3, ReadyRests DEF Fail, Reset
<1>4. CASE ~OutOfReach(n)
  <2> DEFINE T == fetchRange(windowFrom, WindowTo, n, m)
  <2>1. T \in SUBSET Txs
    BY PagesAreTransacts
  <2>2. apply(T, WindowTo) /\ UNCHANGED <<chain, gap, safe, attempts, faults>>
    BY <1>1, <1>2, <1>4
  <2>3. \A t \in T : windowFrom <= txLedger[t]
    BY <1>2, PagesFollowWindow
  <2>4. Near => \A t \in Txs : txLedger[t] \in windowFrom..WindowTo => t \in T
    <3>1. safe + Confirmations <= latest
      BY <1>2 DEF Ordered
    <3>2. windowFrom >= Oldest
      <4>1. latest \in Nat /\ Retention \in Nat /\ windowFrom \in Nat
        BY <1>2, IndexerAssumptions DEF TypeOK, IndexerAssumptions
      <4>2. Oldest \in Int /\ windowFrom \in Int
        BY <4>1 DEF Oldest, Larger
      <4> QED
        BY <1>4, <4>2 DEF OutOfReach
    <3> QED
      BY <1>2, <3>1, <3>2, PagesHoldWindow
  <2> HIDE DEF T
  <2>5. ReadStep(T)
    <3>1. decode(T).commits = LeavesOf(T) /\ decode(T).nulls = T
      BY DEF decode
    <3> QED
      BY <2>2, <3>1, Zenon DEF apply, ReadStep
  <2> QED
    BY <1>2, <2>1, <2>3, <2>4, <2>5, ReadyReads
<1> QED
  BY <1>3, <1>4

LEMMA ReadyDiscovers ==
    ASSUME ClaimsKept, ReadyKept, discoverDeployLedger PROVE ReadyKept'
<1>1. TypeOK /\ Ordered /\ deploy = 0 /\ pc' = "plan" /\ cursor = 0 /\ rows = {}
      /\ UNCHANGED <<latest, txLedger, provider, rows, cursor>>
  BY DEF ClaimsKept, Ordered, ReadyKept, discoverDeployLedger, chain
<1>2. deploy' = instance \/ (1 \in Txs /\ deploy' = txLedger[1])
  <2>1. \A from, to, n, m : fetchRange(from, to, n, m) \subseteq Txs
    BY PagesAreTransacts
  <2> QED
    BY <2>1, Zenon DEF discoverDeployLedger, deployLedgerFromWalkBack
<1>3. deploy' # 0
  <2>1. 1 \in Txs => txLedger[1] \in 1..latest
    BY <1>1, TxTypes
  <2> QED
    BY <1>1, <1>2, <2>1 DEF TypeOK
<1>4. StoredBefore(1)
  <2>1. \A t \in Txs : 1 <= txLedger[t]
    BY <1>1, TxTypes
  <2> QED
    BY <1>1, <2>1, NothingBefore
<1>5. StoredBefore(cursor + 1)'
  BY <1>1, <1>4 DEF StoredBefore, Leaves, LedgerOf, TxOf
<1> QED
  BY <1>1, <1>3, <1>5 DEF ReadyKept, Scanning

LEMMA ReadyRediscovers ==
    ASSUME ClaimsKept, ReadyKept, Rediscover PROVE ReadyKept'
<1>1. TypeOK /\ Ordered /\ gap /\ gap' /\ pc' = "idle"
      /\ UNCHANGED <<chain, latest, txLedger, provider, rows, nulls, cursor>>
  BY DEF ClaimsKept, Ordered, ReadyKept, Rediscover, Reset, chain
<1>2. deploy' = deploy \/ (1 \in Txs /\ deploy' = txLedger[1])
  <2>1. \A from, to, n, m : fetchRange(from, to, n, m) \subseteq Txs
    BY PagesAreTransacts
  <2> QED
    BY <2>1, Zenon DEF Rediscover, deployLedgerFromWalkBack
<1>3. CASE deploy' = deploy
  BY <1>1, <1>3, ReadyRests DEF tables
<1>4. CASE 1 \in Txs /\ deploy' = txLedger[1]
  <2>1. deploy' # 0
    BY <1>1, <1>4, TxTypes
  <2>2. Early'
    BY <1>1, <1>4, FirstIsFirst DEF Early, Txs
  <2>3. Near' => Near
    BY <1>1 DEF Near
  <2>4. StoredBefore(cursor + 1) => StoredBefore(cursor + 1)'
    BY <1>1 DEF StoredBefore, Leaves, LedgerOf, TxOf
  <2> QED
    BY <1>1, <2>1, <2>2, <2>3, <2>4 DEF ReadyKept, Scanning
<1> QED
  BY <1>2, <1>3, <1>4

LEMMA ReadyPlans ==
    ASSUME ClaimsKept, ReadyKept, Plan PROVE ReadyKept'
<1>1. PICK n \in NodeViews :
          IF Start > n - Confirmations
          THEN Reset /\ UNCHANGED <<chain, tables, gap, faults>>
          ELSE /\ pc' = "scan"
               /\ safe' = n - Confirmations
               /\ windowFrom' = Start
               /\ attempts' = 0
               /\ UNCHANGED <<chain, tables, gap, wanted, faults>>
  BY DEF Plan
<1>2. TypeOK /\ Ordered /\ deploy # 0 /\ deploy \in Nat /\ cursor \in Nat
  BY DEF ClaimsKept, Ordered, Plan, TypeOK
<1>3. CASE Start > n - Confirmations
  BY <1>1, <1>3, ReadyRests DEF Reset
<1>4. CASE ~(Start > n - Confirmations)
  <2>1. n \in Int /\ Confirmations \in Int /\ Start \in Int
    <3>1. provider.lag \in Nat /\ latest \in Nat
      BY <1>2, IndexerNumbers DEF TypeOK
    <3> QED
      BY <1>2, <3>1, IndexerNumbers DEF NodeViews, Larger, Start
  <2>2. rows = {} => deploy <= windowFrom' /\ deploy <= safe'
    BY <1>1, <1>2, <1>4, <2>1 DEF Start
  <2>3. ASSUME Near, Early PROVE StoredBefore(Start)
    <3>1. StoredBefore(deploy)
      BY <1>2, <2>3, NothingBefore DEF Early
    <3>2. rows # {} => StoredBefore(cursor + 1)
      BY <2>3 DEF ReadyKept
    <3> QED
      BY <3>1, <3>2 DEF Start
  <2> QED
    BY <1>1, <1>2, <1>4, <2>2, <2>3, ReadyWindow
<1> QED
  BY <1>3, <1>4

LEMMA ReadyRewinds ==
    ASSUME ClaimsKept, ReadyKept, Rewind PROVE ReadyKept'
<1>1. TypeOK /\ Ordered /\ TablesKept /\ pc = "gap" /\ wanted # 0 /\ deploy # 0 /\ deploy \in Nat
  BY DEF ClaimsKept, Ordered, Rewind, ReadyKept, TypeOK
<1>2. CASE Fail
  BY <1>1, <1>2, ReadyRests DEF Fail, Reset
<1>3. CASE /\ gap' = TRUE /\ windowFrom' = RewindTo /\ pc' = "scan"
           /\ UNCHANGED <<chain, tables, safe>>
  <2>1. ASSUME Near, rows = {} PROVE deploy <= RewindTo /\ deploy <= safe
    <3>1. RewindTo = deploy
      BY <2>1 DEF RewindTo
    <3> QED
      BY <1>1, <2>1, <3>1 DEF ReadyKept, Scanning
  <2>2. Early => StoredBefore(RewindTo)
    BY <1>1, RewindIsStored
  <2> QED
    BY <1>1, <1>3, <2>1, <2>2, ReadyWindow
<1> QED
  BY <1>2, <1>3, Zenon DEF Rewind

LEMMA ReadyFinishes ==
    ASSUME ReadyKept, Finish PROVE ReadyKept'
<1>1. UNCHANGED <<latest, txLedger, provider, rows, nulls, cursor, deploy>> /\ pc = "finish" /\ pc' = "idle"
  BY DEF Finish, Reset, chain, tables
<1>2. (Near' <=> Near) /\ (Early' <=> Early)
  BY <1>1 DEF Near, Early, Txs
<1>3. StoredBefore(cursor + 1) => StoredBefore(cursor + 1)'
  BY <1>1 DEF StoredBefore, Leaves, LedgerOf, TxOf
<1> QED
  BY <1>1, <1>2, <1>3 DEF ReadyKept, Scanning

LEMMA ReadyStep ==
    ASSUME ClaimsKept, ReadyKept, [TsNext]_vars PROVE ReadyKept'
<1>1. TablesKept'
  BY TsStepKeeps DEF ClaimsKept
<1>2. ASSUME NEW k \in 0..2, NEW rewritten \in BOOLEAN, CloseLedger(k, rewritten) PROVE ReadyKept'
  BY <1>2, ReadyCloses
<1>3. CASE Begin
  BY <1>3, ReadyRests DEF Begin
<1>4. CASE TooLate
  BY <1>4, ReadyRests DEF TooLate, ReadyKept
<1>5. CASE Throw
  <2>1. pc' = "idle" /\ UNCHANGED <<chain, tables>>
    BY <1>5 DEF Throw, Reset
  <2>2. gap => gap'
    BY <1>5, Zenon DEF Throw
  <2>3. pc' \in {"idle", "plan", "rediscover"} /\ (deploy # 0 \/ pc' = "idle") /\ (pc' = "rediscover" => gap')
    BY <2>1
  <2> QED
    BY <2>1, <2>2, <2>3, ReadyRests
<1>6. CASE UNCHANGED vars
  <2>1. UNCHANGED <<latest, txLedger, provider, rows, nulls, cursor, deploy, gap, pc, safe, windowFrom>>
    BY <1>6 DEF vars
  <2>2. (Near' <=> Near) /\ (Early' <=> Early)
    BY <2>1 DEF Near, Early, Txs
  <2>3. (StoredBefore(cursor + 1) => StoredBefore(cursor + 1)')
        /\ (StoredBefore(windowFrom) => StoredBefore(windowFrom)')
    BY <2>1 DEF StoredBefore, Leaves, LedgerOf, TxOf
  <2> QED
    BY <2>1, <2>2, <2>3 DEF ReadyKept
<1> QED
  BY <1>1, <1>2, <1>3, <1>4, <1>5, <1>6, ReadyDiscovers, ReadyPlans, ReadyIngests, ReadyRediscovers,
     ReadyRewinds, ReadyFinishes DEF TsNext, ingestLoop

LEMMA ReadyEnd == ClaimsKept /\ ReadyKept => (Near => ReadyIsComplete)
<1> SUFFICES ASSUME ClaimsKept, ReadyKept, Near, Txs # {}, deploy <= txLedger[1],
                    NEW n \in NodeViews, Ready(n), NEW i \in Leaves, LedgerOf(i) <= n - SyncLagLimit
             PROVE  i \in rows
  BY DEF ReadyIsComplete, readiness, CompleteUpTo
<1>1. TypeOK /\ Ordered /\ cursor \in Nat /\ latest \in Nat /\ deploy \in Nat
  BY DEF ClaimsKept, Ordered, TypeOK
<1>2. Early
  <2>1. \A t \in Txs : txLedger[1] <= txLedger[t] /\ txLedger[1] \in Nat /\ txLedger[t] \in Nat
    BY <1>1, FirstIsFirst, TxTypes
  <2> QED
    BY <1>1, <2>1 DEF Early
<1>3. StoredBefore(cursor + 1)
  BY <1>2 DEF ReadyKept, Ready
<1>4. n \in Nat /\ SyncLagLimit \in Nat /\ LedgerOf(i) \in Nat
  <2>1. provider.lag \in Nat
    BY <1>1, IndexerNumbers DEF TypeOK
  <2> QED
    BY <1>1, <2>1, LeafTypes, IndexerAssumptions DEF IndexerAssumptions, NodeViews, Larger
<1>5. LedgerOf(i) < cursor + 1
  BY <1>1, <1>4 DEF Ready
<1> QED
  BY <1>3, <1>5 DEF StoredBefore

(* Even when the contract's entry is rewritten and the ledger read from it *)
(* is after leaf 0, a ready answer of the TypeScript loop stands for every *)
(* leaf that the node has had for longer than the limit once the deploy    *)
(* ledger is right again: the tick that finds it late raises the flag, and *)
(* only a scan that starts from the new one takes it down.                 *)
THEOREM TsReadyStands == TsSpec => [](Near => ReadyIsComplete)
<1>1. ClaimsKept /\ [TsNext]_vars => ClaimsKept'
  BY TsClaimsStep
<1>2. ClaimsKept /\ ReadyKept /\ [TsNext]_vars => ReadyKept'
  BY ReadyStep
<1> QED
  BY <1>1, <1>2, ClaimsStart, ReadyStart, ReadyEnd, PTL DEF TsSpec

-----------------------------------------------------------------------------
(* What the hub holds is typed, and whoever is behind is woken: the        *)
(* notifications still on the listener's connection, those in a client's   *)
(* own channel, its own pending scan, or none because one was lost to it.  *)
StreamKept ==
    /\ stored \in Nat /\ backlog \in Nat
    /\ channel \in [Clients -> Nat] /\ seen \in [Clients -> Nat]
    /\ client \in [Clients -> {"off", "open", "subscribed"}]
    /\ scans \in [Clients -> BOOLEAN] /\ missed \in [Clients -> BOOLEAN]
    /\ ~listening => backlog = 0
    /\ WakePending

(* A push leaves a notification in the channel, whether or not it was      *)
(* full.                                                                   *)
LEMMA PushedLeavesOne ==
    ASSUME NEW n \in Nat PROVE Pushed(n) \in Nat \ {0}
BY StreamAssumption DEF Pushed

LEMMA StreamStepKeeps ==
    ASSUME StreamKept, [StreamNext]_streamVars PROVE StreamKept'
<1> USE DEF StreamKept, WakePending
<1>1. CASE Store
  <2>1. stored' \in Nat /\ UNCHANGED <<listening, client, channel, scans, seen>>
    BY <1>1 DEF Store
  <2>2. \/ backlog' = backlog + 1 /\ missed' = missed
        \/ backlog' = backlog /\ missed' = [c \in Clients |-> TRUE]
    BY <1>1 DEF Store
  <2>3. backlog' \in Nat /\ missed' \in [Clients -> BOOLEAN]
    <3>1. backlog' \in Nat
      BY <2>2
    <3>2. [c \in Clients |-> TRUE] \in [Clients -> BOOLEAN]
      BY Zenon
    <3> QED
      BY <2>2, <3>1, <3>2
  <2>4. backlog' > 0 \/ \A c \in Clients : missed'[c]
    <3>1. CASE backlog' = backlog + 1
      BY <3>1
    <3>2. CASE missed' = [c \in Clients |-> TRUE]
      BY <3>2, Zenon
    <3> QED
      BY <2>2, <3>1, <3>2
  <2>5. ~listening' => backlog' = 0
    BY <1>1 DEF Store
  <2> QED
    BY <2>1, <2>3, <2>4, <2>5
<1>2. CASE Listen
  BY <1>2 DEF Listen
<1>3. CASE ListenerBreaks
  BY <1>3 DEF ListenerBreaks
<1>4. CASE broadcast
  <2>1. backlog' \in Nat /\ channel' \in [Clients -> Nat]
        /\ missed' \in [Clients -> BOOLEAN]
        /\ UNCHANGED <<stored, listening, client, scans, seen>>
    BY <1>4, PushedLeavesOne DEF broadcast
  <2>2. \A c \in Clients : client[c] = "subscribed" => channel'[c] > 0
    BY <1>4, PushedLeavesOne DEF broadcast
  <2>3. \A c \in Clients : client[c] = "open" => missed'[c]
    BY <1>4 DEF broadcast
  <2>4. listening
    BY <1>4 DEF broadcast
  <2>5. \A c \in Clients : client[c] # "off" => client[c] = "open" \/ client[c] = "subscribed"
    OBVIOUS
  <2> QED
    BY <2>1, <2>2, <2>3, <2>4, <2>5
<1>5. ASSUME NEW c \in Clients, Open(c) PROVE StreamKept'
  BY <1>5 DEF Open
<1>6. ASSUME NEW c \in Clients, sub(c) PROVE StreamKept'
  BY <1>6 DEF sub
<1>7. ASSUME NEW c \in Clients, Deliver(c) PROVE StreamKept'
  BY <1>7 DEF Deliver
<1>8. ASSUME NEW c \in Clients, Rescan(c) PROVE StreamKept'
  BY <1>8 DEF Rescan
<1>9. ASSUME NEW c \in Clients, unsub(c) PROVE StreamKept'
  BY <1>9 DEF unsub
<1>10. CASE UNCHANGED streamVars
  BY <1>10 DEF streamVars
<1> QED
  BY <1>1, <1>2, <1>3, <1>4, <1>5, <1>6, <1>7, <1>8, <1>9, <1>10 DEF StreamNext, Serve

(* For any number of clients and any buffer, a notification dropped by a   *)
(* full channel leaves nobody behind (api.go's hub).                       *)
THEOREM DroppedWakesAreHarmless == StreamSpec => []WakePending
<1>1. StreamInit => StreamKept
  BY DEF StreamInit, StreamKept, WakePending
<1>2. StreamKept /\ [StreamNext]_streamVars => StreamKept'
  BY StreamStepKeeps
<1>3. StreamKept => WakePending
  BY DEF StreamKept
<1> QED
  BY <1>1, <1>2, <1>3, PTL DEF StreamSpec

-----------------------------------------------------------------------------
LEMMA ConstantTypes ==
    /\ Costs \subseteq Nat /\ Bids \subseteq Nat /\ Notes # {}
    /\ NetCost \in Nat /\ MarginBps \in Nat /\ MinMarginBps \in Nat
    /\ QuoteBufferBps \in Nat /\ RatePPM \in Nat /\ MaxRestarts \in Nat
    /\ MinMarginBps <= MarginBps
BY RelayerAssumptions DEF RelayerAssumptions

-----------------------------------------------------------------------------
(* Arithmetic of fees *)

LEMMA ProductMonotone ==
    ASSUME NEW a \in Nat, NEW b \in Nat, NEW r \in Nat, a <= b
    PROVE  a * r \in Nat /\ b * r \in Nat /\ a * r <= b * r
OBVIOUS

LEMMA ToAssetMonotone ==
    ASSUME NEW a \in Nat, NEW b \in Nat, a <= b
    PROVE  ToAsset(a) \in Nat /\ ToAsset(b) \in Nat /\ ToAsset(a) <= ToAsset(b)
<1>1. a * RatePPM \in Nat /\ b * RatePPM \in Nat /\ a * RatePPM <= b * RatePPM
  BY ConstantTypes, ProductMonotone
<1>2. \A p, q \in Nat : p <= q => /\ p \div 1000000 \in Nat /\ q \div 1000000 \in Nat
                                  /\ p \div 1000000 <= q \div 1000000
  OBVIOUS
<1> QED
  BY <1>1, <1>2 DEF ToAsset

LEMMA BpsMonotone ==
    ASSUME NEW a \in Nat, NEW b \in Nat, NEW m \in Nat, NEW r \in Nat, a <= b, m <= r
    PROVE  Bps(a, m) \in Nat /\ Bps(b, r) \in Nat /\ Bps(a, m) <= Bps(b, r)
<1>1. a * m \in Nat /\ b * m \in Nat /\ a * m <= b * m
  BY ProductMonotone
<1>2. m * b \in Nat /\ r * b \in Nat /\ m * b <= r * b
  BY ProductMonotone
<1>3. m * b = b * m /\ r * b = b * r
  OBVIOUS
<1>4. a * m \in Nat /\ b * r \in Nat /\ a * m <= b * r
  BY <1>1, <1>2, <1>3
<1>5. \A p, q \in Nat : p <= q => /\ p \div 10000 \in Nat /\ q \div 10000 \in Nat
                                  /\ p \div 10000 <= q \div 10000
  OBVIOUS
<1> QED
  BY <1>4, <1>5 DEF Bps

LEMMA BpsType ==
    ASSUME NEW a \in Nat, NEW m \in Nat
    PROVE  Bps(a, m) \in Nat
<1>1. a * m \in Nat
  OBVIOUS
<1>2. \A p \in Nat : p \div 10000 \in Nat
  OBVIOUS
<1> QED
  BY <1>1, <1>2 DEF Bps

(* A quote covers what it is asked for: any cost within its headroom.      *)
LEMMA QuoteCovers ==
    ASSUME NEW quoted \in Nat, NEW cost \in Nat, ~Beyond(cost, quoted)
    PROVE  /\ QuoteFee(quoted) \in Nat
           /\ ToAsset(cost) <= QuoteFee(quoted)
           /\ Required(cost) <= QuoteFee(quoted)
<1> DEFINE top   == quoted + Bps(quoted, QuoteBufferBps)
           basis == ToAsset(top)
<1>1. Bps(quoted, QuoteBufferBps) \in Nat
  BY BpsType, ConstantTypes
<1>2. top \in Nat /\ cost <= top
  BY <1>1 DEF Beyond
<1>3. ToAsset(cost) \in Nat /\ basis \in Nat /\ ToAsset(cost) <= basis
  BY <1>2, ToAssetMonotone
<1> HIDE DEF top, basis
<1>4. /\ Bps(ToAsset(cost), MinMarginBps) \in Nat /\ Bps(basis, MarginBps) \in Nat
      /\ Bps(ToAsset(cost), MinMarginBps) <= Bps(basis, MarginBps)
  BY <1>3, BpsMonotone, ConstantTypes
<1>5. QuoteFee(quoted) = basis + Bps(basis, MarginBps)
  BY DEF QuoteFee, QuoteBasis, basis, top
<1> QED
  BY <1>3, <1>4, <1>5 DEF Required

LEMMA FeeTypes ==
    ASSUME NEW cost \in Nat
    PROVE  QuoteFee(cost) \in Nat
<1>1. ~Beyond(cost, cost)
  <2>1. Bps(cost, QuoteBufferBps) \in Nat
    BY BpsType, ConstantTypes
  <2> QED BY <2>1 DEF Beyond
<1> QED BY <1>1, QuoteCovers

(* The observed cost moves towards the cost met, and never past it.        *)
LEMMA LearnedBetween ==
    ASSUME NEW cost \in Nat, observed \in Nat
    PROVE  /\ Learned(cost) \in Nat
           /\ \/ cost <= Learned(cost) /\ Learned(cost) <= observed
              \/ Learned(cost) = cost /\ cost > observed
<1>1. CASE cost > observed
  BY <1>1 DEF Learned
<1>2. CASE cost <= observed
  <2>1. \A d \in Nat : d \div 8 \in Nat /\ d \div 8 <= d
    OBVIOUS
  <2>2. observed - cost \in Nat
    BY <1>2
  <2>3. (observed - cost) \div 8 \in Nat /\ (observed - cost) \div 8 <= observed - cost
    BY <2>1, <2>2
  <2> QED
    BY <1>2, <2>3 DEF Learned
<1> QED BY <1>1, <1>2

-----------------------------------------------------------------------------
(* Types *)

LEMMA InitNew == RelayerInit => \A c \in Submitters : reqs[c].pc = "new"
<1> SUFFICES ASSUME RelayerInit, NEW c \in Submitters PROVE reqs[c].pc = "new"
  OBVIOUS
<1>1. reqs[c] = Idle
  BY DEF RelayerInit
<1> QED
  BY <1>1 DEF Idle

(* Requests with new fields. *)

Stages == {"new", "asked", "prepare", "simulate", "learn", "decide", "send", "sent",
           "landed", "reverted", "low", "refused"}

LEMMA WithStage ==
    ASSUME NEW q \in Request, NEW p \in Stages
    PROVE  LET s == [q EXCEPT !.pc = p] IN
           /\ s \in Request /\ s.pc = p /\ s.fee = q.fee /\ s.ours = q.ours
           /\ s.seq = q.seq /\ s.cost = q.cost /\ s.quoted = q.quoted /\ s.peak = q.peak
BY DEF Request, Stages

LEMMA WithSeq ==
    ASSUME NEW q \in Request, NEW k \in Nat
    PROVE  LET s == [q EXCEPT !.pc = "simulate", !.seq = k] IN
           /\ s \in Request /\ s.pc = "simulate" /\ s.fee = q.fee /\ s.ours = q.ours
           /\ s.seq = k /\ s.cost = q.cost /\ s.quoted = q.quoted /\ s.peak = q.peak
BY DEF Request

LEMMA WithCost ==
    ASSUME NEW q \in Request, NEW k \in Nat
    PROVE  LET s == [q EXCEPT !.pc = "learn", !.cost = k] IN
           /\ s \in Request /\ s.pc = "learn" /\ s.fee = q.fee /\ s.ours = q.ours
           /\ s.seq = q.seq /\ s.cost = k /\ s.quoted = q.quoted /\ s.peak = q.peak
BY DEF Request

LEMMA WithPeak ==
    ASSUME NEW q \in Request, NEW k \in Nat
    PROVE  /\ Peak(q, k) \in Request /\ Peak(q, k).pc = q.pc
           /\ Peak(q, k).fee = q.fee /\ Peak(q, k).ours = q.ours
           /\ Peak(q, k).seq = q.seq /\ Peak(q, k).cost = q.cost
           /\ Peak(q, k).quoted = q.quoted
           /\ Peak(q, k).peak >= k /\ Peak(q, k).peak >= q.peak
BY DEF Request, Peak, Greater

LEMMA Restarted ==
    ASSUME NEW q \in Request
    PROVE  LET lost == {"prepare", "simulate", "learn", "decide", "send"}
               s == Peak([q EXCEPT !.pc = IF @ \in lost THEN "refused" ELSE @], NetCost) IN
           /\ s \in Request /\ s.pc = IF q.pc \in lost THEN "refused" ELSE q.pc
           /\ s.fee = q.fee /\ s.ours = q.ours /\ s.seq = q.seq /\ s.cost = q.cost
           /\ s.quoted = q.quoted /\ s.peak >= q.peak /\ s.peak >= NetCost
<1> DEFINE lost == {"prepare", "simulate", "learn", "decide", "send"}
           p == IF q.pc \in lost THEN "refused" ELSE q.pc
           r == [q EXCEPT !.pc = p]
<1>1. p \in Stages
  BY DEF Request, Stages
<1>2. /\ r \in Request /\ r.pc = p /\ r.fee = q.fee /\ r.ours = q.ours
      /\ r.seq = q.seq /\ r.cost = q.cost /\ r.quoted = q.quoted /\ r.peak = q.peak
  BY <1>1, WithStage
<1>3. [q EXCEPT !.pc = IF @ \in lost THEN "refused" ELSE @] = r
  OBVIOUS
<1> HIDE DEF r, p
<1>4. LET s == Peak(r, NetCost) IN
      /\ s \in Request /\ s.pc = p /\ s.fee = q.fee /\ s.ours = q.ours
      /\ s.seq = q.seq /\ s.cost = q.cost /\ s.quoted = q.quoted
      /\ s.peak >= q.peak /\ s.peak >= NetCost
  BY <1>2, WithPeak, ConstantTypes
<1> QED
  BY <1>3, <1>4 DEF p

LEMMA InitType == RelayerInit => RelayerTypeOK
<1>1. RelayerInit => Idle \in Request
  <2>1. (CHOOSE k \in Notes : TRUE) \in Notes
    BY ConstantTypes
  <2> QED
    BY <2>1 DEF Idle, Request
<1> QED
  BY <1>1, InitNew, ConstantTypes DEF RelayerInit, RelayerTypeOK

(* A handler's step replaces one request.                                  *)
LEMMA Replaced ==
    ASSUME NEW c \in Submitters, NEW r, reqs \in [Submitters -> Request],
           reqs' = [reqs EXCEPT ![c] = r]
    PROVE  /\ reqs'[c] = r
           /\ \A d \in Submitters \ {c} : reqs'[d] = reqs[d]
           /\ r \in Request => reqs' \in [Submitters -> Request]
OBVIOUS

(* A request that is not past the precheck owes the types nothing more.    *)
LEMMA Elsewhere ==
    ASSUME RelayerTypeOK, NEW c \in Submitters, NEW r \in Request,
           r.pc \notin {"simulate", "learn", "decide", "send"},
           reqs' = [reqs EXCEPT ![c] = r],
           UNCHANGED <<observed, seq, spent, restarts>>
    PROVE  RelayerTypeOK'
<1>1. /\ reqs'[c] = r /\ reqs' \in [Submitters -> Request]
      /\ \A d \in Submitters \ {c} : reqs'[d] = reqs[d]
  BY Replaced DEF RelayerTypeOK
<1> QED
  BY <1>1 DEF RelayerTypeOK

(* Every step keeps the types.                                             *)
LEMMA StepType ==
    ASSUME RelayerTypeOK, [RelayerNext]_relayerVars
    PROVE  RelayerTypeOK'
<1> USE DEF RelayerTypeOK, At, Goto
<1>1. ASSUME NEW c \in Submitters, NEW note \in Notes, GetQuote(c, note)
      PROVE  RelayerTypeOK'
  <2>1. QuoteFee(observed) \in Nat
    BY FeeTypes
  <2> DEFINE r == [reqs[c] EXCEPT !.pc = "asked", !.note = note, !.fee = QuoteFee(observed),
                                  !.quoted = observed, !.peak = observed]
  <2>2. r \in Request /\ r.pc = "asked"
    <3>1. reqs[c] \in Request /\ observed \in Nat
      OBVIOUS
    <3> QED
      BY <2>1, <3>1 DEF Request
  <2>3. reqs' = [reqs EXCEPT ![c] = r] /\ UNCHANGED <<observed, seq, spent, restarts>>
    BY <1>1 DEF GetQuote
  <2> HIDE DEF r
  <2> QED
    BY <2>2, <2>3, Elsewhere
<1>2. ASSUME NEW c \in Submitters, NEW note \in Notes, NEW fee \in Bids, NEW ours \in BOOLEAN,
             Bid(c, note, fee, ours)
      PROVE  RelayerTypeOK'
  <2> DEFINE r == [reqs[c] EXCEPT !.pc = "asked", !.note = note, !.fee = fee, !.ours = ours]
  <2>1. r \in Request /\ r.pc = "asked"
    <3>1. reqs[c] \in Request /\ fee \in Nat
      BY ConstantTypes
    <3> QED
      BY <3>1 DEF Request
  <2>2. reqs' = [reqs EXCEPT ![c] = r] /\ UNCHANGED <<observed, seq, spent, restarts>>
    BY <1>2 DEF Bid
  <2> HIDE DEF r
  <2> QED
    BY <2>1, <2>2, Elsewhere
<1>3. ASSUME NEW c \in Submitters, Precheck(c)
      PROVE  RelayerTypeOK'
  BY <1>3 DEF Precheck, Request
<1>4. ASSUME NEW c \in Submitters, Load(c)
      PROVE  RelayerTypeOK'
  <2> DEFINE r == [reqs[c] EXCEPT !.pc = "simulate", !.seq = seq + 1]
  <2>1. r \in Request /\ r.pc = "simulate" /\ r.seq = seq + 1
    <3>1. reqs[c] \in Request /\ seq + 1 \in Nat
      OBVIOUS
    <3> QED
      BY <3>1, WithSeq
  <2>2. reqs' = [reqs EXCEPT ![c] = r]
    BY <1>4 DEF Load
  <2> HIDE DEF r
  <2>3. /\ reqs'[c] = r /\ reqs' \in [Submitters -> Request]
        /\ \A d \in Submitters \ {c} : reqs'[d] = reqs[d]
    BY <2>1, <2>2, Replaced
  <2> QED
    BY <1>4, <2>1, <2>3 DEF Load
<1>5. ASSUME NEW c \in Submitters, Simulate(c)
      PROVE  RelayerTypeOK'
  <2> PICK cost \in Costs :
             reqs' = [reqs EXCEPT ![c] = [@ EXCEPT !.pc = "learn", !.cost = cost]]
    BY <1>5 DEF Simulate
  <2> DEFINE r == [reqs[c] EXCEPT !.pc = "learn", !.cost = cost]
  <2>1. r \in Request /\ r.pc = "learn" /\ r.cost = cost /\ r.seq = reqs[c].seq
    BY ConstantTypes DEF Request
  <2>2. reqs' = [reqs EXCEPT ![c] = r]
    OBVIOUS
  <2> HIDE DEF r
  <2>3. /\ reqs'[c] = r /\ reqs' \in [Submitters -> Request]
        /\ \A d \in Submitters \ {c} : reqs'[d] = reqs[d]
    BY <2>1, <2>2, Replaced
  <2> QED
    BY <1>5, <2>1, <2>3 DEF Simulate
<1>6. ASSUME NEW c \in Submitters, PrepareFails(c)
      PROVE  RelayerTypeOK'
  BY <1>6 DEF PrepareFails, Request
<1>7. ASSUME NEW c \in Submitters, Learn(c)
      PROVE  RelayerTypeOK'
  <2>1. reqs[c].cost \in Nat
    BY <1>7, ConstantTypes DEF Learn, Request
  <2>2. Learned(reqs[c].cost) \in Nat
    BY <2>1, LearnedBetween
  <2> QED
    <3>3. ASSUME NEW d \in Submitters
          PROVE  /\ reqs'[d] \in Request
                 /\ reqs'[d].seq = reqs[d].seq /\ reqs'[d].cost = reqs[d].cost
                 /\ reqs'[d].pc = IF d = c THEN "decide" ELSE reqs[d].pc
      <4> DEFINE p == IF d = c THEN "decide" ELSE reqs[d].pc
                 q == [reqs[d] EXCEPT !.pc = p]
      <4>1. reqs[d] \in Request /\ p \in Stages
        BY DEF Request, Stages
      <4>2. q \in Request /\ q.pc = p /\ q.seq = reqs[d].seq /\ q.cost = reqs[d].cost
        BY <4>1, WithStage
      <4>3. reqs'[d] = Peak(q, reqs[c].cost)
        BY <1>7 DEF Learn
      <4> HIDE DEF q
      <4>4. /\ Peak(q, reqs[c].cost) \in Request /\ Peak(q, reqs[c].cost).pc = q.pc
            /\ Peak(q, reqs[c].cost).seq = q.seq /\ Peak(q, reqs[c].cost).cost = q.cost
        BY <2>1, <4>2, WithPeak
      <4> QED
        BY <4>2, <4>3, <4>4
    <3>4. reqs' \in [Submitters -> Request]
      BY <1>7, <3>3 DEF Learn
    <3> QED
      BY <1>7, <2>2, <3>3, <3>4 DEF Learn
<1>8. ASSUME NEW c \in Submitters, Decide(c)
      PROVE  RelayerTypeOK'
  BY <1>8 DEF Decide, Request
<1>9. ASSUME NEW c \in Submitters, Send(c)
      PROVE  RelayerTypeOK'
  BY <1>9 DEF Send, Request
<1>10. ASSUME NEW c \in Submitters, Dropped(c)
      PROVE  RelayerTypeOK'
  BY <1>10 DEF Dropped, Request
<1>11. ASSUME NEW c \in Submitters, Apply(c)
      PROVE  RelayerTypeOK'
  BY <1>11 DEF Apply, Request
<1>12. ASSUME NEW note \in Notes, SpendElsewhere(note)
      PROVE  RelayerTypeOK'
  BY <1>12 DEF SpendElsewhere
<1>13. ASSUME Restart
      PROVE  RelayerTypeOK'
  <2>1. ASSUME NEW d \in Submitters
        PROVE  /\ reqs'[d] \in Request
               /\ reqs'[d].seq = reqs[d].seq /\ reqs'[d].cost = reqs[d].cost
               /\ reqs'[d].pc \in {reqs[d].pc, "refused"}
    <3>1. reqs[d] \in Request
      OBVIOUS
    <3> QED
      BY <1>13, <3>1, Restarted DEF Restart
  <2>2. reqs' \in [Submitters -> Request]
    BY <1>13, <2>1 DEF Restart
  <2> QED
    BY <1>13, <2>1, <2>2, ConstantTypes DEF Restart
<1>14. ASSUME UNCHANGED relayerVars
      PROVE  RelayerTypeOK'
  BY <1>14 DEF relayerVars
<1> QED
  BY <1>1, <1>2, <1>3, <1>4, <1>5, <1>6, <1>7, <1>8, <1>9, <1>10, <1>11, <1>12, <1>13, <1>14
  DEF RelayerNext, Handle

(* Types hold in every behaviour.                                          *)
THEOREM TypeCorrect == RelayerSpec => []RelayerTypeOK
<1>1. RelayerInit => RelayerTypeOK
  BY InitType
<1>2. RelayerTypeOK /\ [RelayerNext]_relayerVars => RelayerTypeOK'
  BY StepType
<1> QED
  BY <1>1, <1>2, PTL DEF RelayerSpec
-----------------------------------------------------------------------------
(* A spend that lands was checked against the cost simulated for it.       *)

Checked(c) ==
    /\ reqs[c].pc \in {"prepare", "simulate", "learn", "decide", "send", "sent", "landed"}
          => reqs[c].ours
    /\ reqs[c].pc \in {"send", "sent", "landed"} => reqs[c].fee >= Required(reqs[c].cost)

AllChecked == \A c \in Submitters : Checked(c)

LEMMA StepChecked ==
    ASSUME RelayerTypeOK, AllChecked, [RelayerNext]_relayerVars
    PROVE  AllChecked'
<1> SUFFICES ASSUME NEW d \in Submitters PROVE Checked(d)'
  BY DEF AllChecked
<1>0. Checked(d) /\ reqs \in [Submitters -> Request]
  BY DEF AllChecked, RelayerTypeOK
<1> USE <1>0 DEF Checked, At, Goto
<1>1. ASSUME NEW c \in Submitters, NEW note \in Notes,
             GetQuote(c, note) \/ (\E fee \in Bids, ours \in BOOLEAN : Bid(c, note, fee, ours))
      PROVE  Checked(d)'
  <2>1. CASE c = d
    <3>1. CASE GetQuote(d, note)
      BY <3>1 DEF GetQuote, Request
    <3>2. ASSUME NEW fee \in Bids, NEW ours \in BOOLEAN, Bid(d, note, fee, ours)
          PROVE  Checked(d)'
      BY <3>2 DEF Bid, Request
    <3> QED BY <1>1, <2>1, <3>1, <3>2
  <2>2. CASE c # d
    BY <1>1, <2>2 DEF GetQuote, Bid
  <2> QED BY <2>1, <2>2
<1>2. ASSUME NEW c \in Submitters, Precheck(c)
      PROVE  Checked(d)'
  <2>1. CASE c = d
    BY <1>2, <2>1 DEF Precheck, Request
  <2>2. CASE c # d
    BY <1>2, <2>2 DEF Precheck
  <2> QED BY <2>1, <2>2
<1>3. ASSUME NEW c \in Submitters,
             Load(c) \/ Simulate(c) \/ PrepareFails(c) \/ Send(c) \/ Dropped(c) \/ Apply(c)
      PROVE  Checked(d)'
  <2>1. CASE c = d
    <3>1. CASE Load(d)
      BY <3>1 DEF Load, Request
    <3>2. CASE Simulate(d)
      BY <3>2 DEF Simulate, Request
    <3>3. CASE PrepareFails(d) \/ Dropped(d)
      BY <3>3 DEF PrepareFails, Dropped, Request
    <3>4. CASE Send(d)
      BY <3>4 DEF Send, Request
    <3>5. CASE Apply(d)
      BY <3>5 DEF Apply, Request
    <3> QED BY <1>3, <2>1, <3>1, <3>2, <3>3, <3>4, <3>5
  <2>2. CASE c # d
    BY <1>3, <2>2 DEF Load, Simulate, PrepareFails, Send, Dropped, Apply
  <2> QED BY <2>1, <2>2
<1>4. ASSUME NEW c \in Submitters, Learn(c)
      PROVE  Checked(d)'
  BY <1>4 DEF Learn, Peak, Request
<1>5. ASSUME NEW c \in Submitters, Decide(c)
      PROVE  Checked(d)'
  BY <1>5 DEF Decide, Enough
<1>6. ASSUME Restart
      PROVE  Checked(d)'
  BY <1>6 DEF Restart, Peak, Request
<1>7. ASSUME reqs' = reqs
      PROVE  Checked(d)'
  BY <1>7
<1> QED
  BY <1>1, <1>2, <1>3, <1>4, <1>5, <1>6, <1>7 DEF RelayerNext, Handle, SpendElsewhere, relayerVars

(* Every spend that lands pays this relayer the floor over its own cost.   *)
THEOREM RelayerPaid == RelayerSpec => []LandedPays
<1>1. RelayerInit => AllChecked
  BY InitNew DEF AllChecked, Checked
<1>2. RelayerTypeOK /\ AllChecked /\ [RelayerNext]_relayerVars => AllChecked'
  BY StepChecked
<1>3. AllChecked => LandedPays
  BY DEF AllChecked, Checked, LandedPays, At
<1> QED
  BY <1>1, <1>2, <1>3, TypeCorrect, PTL DEF RelayerSpec

-----------------------------------------------------------------------------
(* The observed cost stays among the costs met. *)

LEMMA StepInRange ==
    ASSUME RelayerTypeOK, ObservedInRange, [RelayerNext]_relayerVars
    PROVE  ObservedInRange'
<1>1. Known \subseteq Nat /\ NetCost \in Known /\ Costs \subseteq Known
  BY ConstantTypes DEF Known
<1>2. CASE UNCHANGED observed
  BY <1>2 DEF ObservedInRange
<1>3. ASSUME NEW c \in Submitters, Learn(c)
      PROVE  ObservedInRange'
  <2> DEFINE cost == reqs[c].cost
  <2>1. cost \in Known /\ cost \in Nat /\ observed \in Nat /\ observed' = Learned(cost)
    BY <1>1, <1>3 DEF Learn, RelayerTypeOK, At
  <2> HIDE DEF cost
  <2>2. /\ observed' \in Nat
        /\ \/ cost <= observed' /\ observed' <= observed
           \/ observed' = cost /\ cost > observed
    BY <2>1, LearnedBetween
  <2>3. ASSUME NEW bound \in Known
        PROVE  /\ (\A k \in Known : bound <= k) => bound <= observed'
               /\ (\A k \in Known : k <= bound) => observed' <= bound
    <3>1. /\ (\A k \in Known : bound <= k) => bound <= observed
          /\ (\A k \in Known : k <= bound) => observed <= bound
      BY DEF ObservedInRange
    <3>2. bound \in Nat
      BY <1>1
    <3> QED BY <2>1, <2>2, <3>1, <3>2
  <2> QED BY <2>3 DEF ObservedInRange
<1>4. CASE Restart
  BY <1>1, <1>4 DEF Restart, ObservedInRange
<1> QED
  BY <1>2, <1>3, <1>4 DEF RelayerNext, Handle, GetQuote, Bid, Precheck, Load, Simulate, PrepareFails,
     Decide, Send, Dropped, Apply, SpendElsewhere, relayerVars

(* The mutex is enough: however learnCost calls interleave, the observed   *)
(* cost stays between the lowest and the highest cost there is.            *)
THEOREM ObservedBounded == RelayerSpec => []ObservedInRange
<1>1. RelayerInit => ObservedInRange
  BY DEF RelayerInit, ObservedInRange, Known
<1>2. RelayerTypeOK /\ ObservedInRange /\ [RelayerNext]_relayerVars => ObservedInRange'
  BY StepInRange
<1> QED
  BY <1>1, <1>2, TypeCorrect, PTL DEF RelayerSpec

-----------------------------------------------------------------------------
(* A quoted fee is refused only for a cost beyond the quote's headroom.    *)

Active == {"asked", "prepare", "simulate", "learn", "decide"}

InCover(q, obs) ==
    q.quoted >= 0 =>
        /\ q.pc # "new"
        /\ q.pc \in Active => q.fee = QuoteFee(q.quoted)
        /\ obs <= q.peak
        /\ q.pc = "decide" => q.cost <= q.peak
        /\ q.pc = "low" => Beyond(q.peak, q.quoted)

AllCovered == \A c \in Submitters : InCover(reqs[c], observed)

LEMMA BeyondMonotone ==
    ASSUME NEW a \in Nat, NEW b \in Nat, NEW quoted \in Nat, a <= b, Beyond(a, quoted)
    PROVE  Beyond(b, quoted)
<1>1. Bps(quoted, QuoteBufferBps) \in Nat
  BY BpsType, ConstantTypes
<1> QED
  BY <1>1 DEF Beyond

(* What is met after the quote moves no request out of its cover.          *)
LEMMA StillCovered ==
    ASSUME NEW q \in Request, NEW r \in Request, NEW obs \in Nat, NEW now \in Nat,
           InCover(q, obs), r.quoted = q.quoted, r.fee = q.fee, now <= r.peak \/ now = obs,
           r.peak >= q.peak,
           r.pc \in Active => q.pc \in Active,
           r.pc = "decide" => r.cost <= r.peak \/ (q.pc = "decide" /\ r.cost = q.cost),
           r.pc = "low" => q.pc = "low",
           r.pc = "new" => q.pc = "new"
    PROVE  InCover(r, now)
<1> SUFFICES ASSUME r.quoted >= 0 PROVE InCover(r, now)
  BY DEF InCover
<1>1. /\ q.quoted \in Nat /\ q.peak \in Nat /\ r.peak \in Nat
      /\ q.cost \in Nat /\ r.cost \in Nat
  BY DEF Request
<1>2. /\ q.pc # "new"
      /\ q.pc \in Active => q.fee = QuoteFee(q.quoted)
      /\ obs <= q.peak
      /\ q.pc = "decide" => q.cost <= q.peak
      /\ q.pc = "low" => Beyond(q.peak, q.quoted)
  BY <1>1 DEF InCover
<1>3. r.pc \in Active => r.fee = QuoteFee(r.quoted)
  BY <1>2
<1>4. now <= r.peak
  BY <1>1, <1>2
<1>5. r.pc = "decide" => r.cost <= r.peak
  BY <1>1, <1>2
<1>6. r.pc = "low" => Beyond(r.peak, r.quoted)
  BY <1>1, <1>2, BeyondMonotone
<1> QED
  BY <1>2, <1>3, <1>4, <1>5, <1>6 DEF InCover

(* The two checks that refuse a fee refuse a quoted one for a cause.       *)
LEMMA RefusedForCause ==
    ASSUME NEW q \in Request, NEW obs \in Nat, NEW cost \in Nat,
           InCover(q, obs), q.pc \in Active, q.quoted >= 0, cost <= q.peak,
           q.fee < ToAsset(cost) \/ ~(q.fee >= Required(cost))
    PROVE  Beyond(q.peak, q.quoted)
<1>1. q.quoted \in Nat /\ q.peak \in Nat /\ q.fee = QuoteFee(q.quoted)
  BY DEF InCover, Request
<1>2. Beyond(cost, q.quoted)
  <2> SUFFICES ASSUME ~Beyond(cost, q.quoted) PROVE FALSE
    OBVIOUS
  <2>1. /\ QuoteFee(q.quoted) \in Nat /\ ToAsset(cost) <= QuoteFee(q.quoted)
        /\ Required(cost) <= QuoteFee(q.quoted)
    BY <1>1, QuoteCovers
  <2>2. ToAsset(cost) \in Nat
    BY ToAssetMonotone
  <2>3. Required(cost) \in Nat
    <3>1. Bps(ToAsset(cost), MinMarginBps) \in Nat
      BY <2>2, BpsType, ConstantTypes
    <3> QED BY <2>2, <3>1 DEF Required
  <2> QED BY <1>1, <2>1, <2>2, <2>3
<1> QED
  BY <1>1, <1>2, BeyondMonotone

LEMMA StepCovered ==
    ASSUME RelayerTypeOK, AllCovered, [RelayerNext]_relayerVars
    PROVE  AllCovered'
<1> SUFFICES ASSUME NEW d \in Submitters PROVE InCover(reqs'[d], observed')
  BY DEF AllCovered
<1> DEFINE q == reqs[d]
           r == reqs'[d]
<1>0. /\ InCover(q, observed) /\ q \in Request /\ r \in Request
      /\ observed \in Nat /\ observed' \in Nat /\ reqs \in [Submitters -> Request]
  BY StepType DEF AllCovered, RelayerTypeOK
<1>1. ASSUME r = q, observed' = observed
      PROVE  InCover(r, observed')
  BY <1>0, <1>1
<1>2. ASSUME NEW note \in Notes, GetQuote(d, note)
      PROVE  InCover(r, observed')
  <2>1. /\ r.pc = "asked" /\ r.quoted = observed /\ r.fee = QuoteFee(observed)
        /\ r.peak = observed /\ observed' = observed
    BY <1>0, <1>2 DEF GetQuote, Request
  <2> QED BY <1>0, <2>1 DEF InCover
<1>3. ASSUME NEW note \in Notes, NEW fee \in Bids, NEW ours \in BOOLEAN,
             Bid(d, note, fee, ours)
      PROVE  InCover(r, observed')
  <2>1. r.pc = "asked" /\ r.quoted = q.quoted /\ q.pc = "new"
    BY <1>0, <1>3 DEF Bid, Request, At
  <2> QED BY <1>0, <2>1 DEF InCover
<1>4. ASSUME Precheck(d)
      PROVE  InCover(r, observed')
  <2>1. /\ r.quoted = q.quoted /\ r.fee = q.fee /\ r.peak = q.peak /\ observed' = observed
        /\ q.pc = "asked" /\ r.pc \in {"refused", "low", "prepare"}
        /\ r.pc = "low" => q.fee < ToAsset(observed)
    BY <1>0, <1>4 DEF Precheck, Request, At, Goto
  <2>2. CASE r.pc # "low"
    <3>1. q.peak \in Nat
      BY <1>0 DEF Request
    <3> QED BY <1>0, <2>1, <2>2, <3>1, StillCovered DEF Active
  <2>3. CASE r.pc = "low"
    <3> SUFFICES ASSUME r.quoted >= 0 PROVE InCover(r, observed')
      BY DEF InCover
    <3>1. q.quoted >= 0 /\ observed <= q.peak /\ q.pc \in Active
      BY <1>0, <2>1 DEF InCover, Active
    <3>2. Beyond(q.peak, q.quoted)
      BY <1>0, <2>1, <2>3, <3>1, RefusedForCause
    <3> QED BY <2>1, <2>3, <3>1, <3>2 DEF InCover, Active
  <2> QED BY <2>2, <2>3
<1>5. ASSUME Decide(d)
      PROVE  InCover(r, observed')
  <2>1. /\ r.quoted = q.quoted /\ r.fee = q.fee /\ r.peak = q.peak /\ observed' = observed
        /\ q.pc = "decide" /\ r.pc \in {"send", "low"}
        /\ r.pc = "low" => ~(q.fee >= Required(q.cost))
    BY <1>0, <1>5 DEF Decide, Enough, Request, At, Goto
  <2>2. CASE r.pc # "low"
    <3>1. q.peak \in Nat
      BY <1>0 DEF Request
    <3> QED BY <1>0, <2>1, <2>2, <3>1, StillCovered DEF Active
  <2>3. CASE r.pc = "low"
    <3> SUFFICES ASSUME r.quoted >= 0 PROVE InCover(r, observed')
      BY DEF InCover
    <3>1. q.quoted >= 0 /\ observed <= q.peak /\ q.cost <= q.peak /\ q.pc \in Active
      BY <1>0, <2>1 DEF InCover, Active
    <3>2. q.cost \in Nat
      BY <1>0 DEF Request
    <3>3. Beyond(q.peak, q.quoted)
      BY <1>0, <2>1, <2>3, <3>1, <3>2, RefusedForCause
    <3> QED BY <2>1, <2>3, <3>1, <3>3 DEF InCover, Active
  <2> QED BY <2>2, <2>3
<1>6. ASSUME Load(d) \/ Simulate(d) \/ PrepareFails(d) \/ Send(d) \/ Dropped(d) \/ Apply(d)
      PROVE  InCover(r, observed')
  <2>1. /\ r.quoted = q.quoted /\ r.fee = q.fee /\ r.peak = q.peak /\ observed' = observed
        /\ r.pc \in {"simulate", "learn"} => q.pc \in {"prepare", "simulate"}
        /\ r.pc \in {"simulate", "learn", "refused", "sent", "reverted", "landed"}
    <3>1. CASE Load(d)
      BY <1>0, <3>1 DEF Load, Request, At
    <3>2. CASE Simulate(d)
      BY <1>0, <3>2 DEF Simulate, Request, At
    <3>3. CASE PrepareFails(d) \/ Dropped(d)
      BY <1>0, <3>3 DEF PrepareFails, Dropped, Request, At, Goto
    <3>4. CASE Send(d)
      BY <1>0, <3>4 DEF Send, Request, At, Goto
    <3>5. CASE Apply(d)
      BY <1>0, <3>5 DEF Apply, Request, At, Goto
    <3> QED BY <1>6, <3>1, <3>2, <3>3, <3>4, <3>5
  <2>2. q.peak \in Nat
    BY <1>0 DEF Request
  <2> QED BY <1>0, <2>1, <2>2, StillCovered DEF Active
<1>7. ASSUME NEW c \in Submitters, Learn(c)
      PROVE  InCover(r, observed')
  <2> DEFINE cost == reqs[c].cost
             p == IF d = c THEN "decide" ELSE q.pc
             moved == [q EXCEPT !.pc = p]
  <2>1. cost \in Nat /\ p \in Stages /\ q.peak \in Nat
    BY <1>0 DEF Request, Stages
  <2>2. /\ moved \in Request /\ moved.pc = p /\ moved.quoted = q.quoted
        /\ moved.fee = q.fee /\ moved.peak = q.peak /\ moved.cost = q.cost
    BY <1>0, <2>1, WithStage
  <2>3. r = Peak(moved, cost) /\ observed' = Learned(cost) /\ reqs[c].pc = "learn"
    BY <1>7 DEF Learn, At
  <2>4. d = c => q.cost = cost /\ q.pc = "learn"
    BY <2>3
  <2> HIDE DEF moved, cost
  <2>5. /\ r.pc = p /\ r.quoted = q.quoted /\ r.fee = q.fee /\ r.cost = q.cost
        /\ r.peak >= cost /\ r.peak >= q.peak
    BY <2>1, <2>2, <2>3, WithPeak
  <2>6. r.peak \in Nat
    BY <1>0 DEF Request
  <2>7. q.quoted >= 0 => observed <= q.peak
    BY <1>0 DEF InCover
  <2>8. q.quoted >= 0 => observed' <= r.peak
    BY <1>0, <2>1, <2>3, <2>5, <2>6, <2>7, LearnedBetween
  <2>9. r.pc = "decide" => r.cost <= r.peak \/ (q.pc = "decide" /\ r.cost = q.cost)
    BY <2>4, <2>5, <2>6, <2>1
  <2> QED
    BY <1>0, <2>4, <2>5, <2>8, <2>9, StillCovered DEF Active, InCover
<1>8. ASSUME Restart
      PROVE  InCover(r, observed')
  <2>1. /\ r.pc \in {q.pc, "refused"} /\ r.quoted = q.quoted /\ r.fee = q.fee
        /\ r.cost = q.cost /\ r.peak >= q.peak
    BY <1>0, <1>8, Restarted DEF Restart
  <2>2. observed' = NetCost /\ r.peak >= NetCost
    BY <1>0, <1>8, Restarted DEF Restart
  <2>3. r.peak \in Nat /\ NetCost \in Nat
    BY <1>0, ConstantTypes DEF Request
  <2> QED BY <1>0, <2>1, <2>2, <2>3, StillCovered DEF Active
<1>9. ASSUME NEW c \in Submitters \ {d},
             \/ \E note \in Notes : GetQuote(c, note)
             \/ \E note \in Notes, fee \in Bids, ours \in BOOLEAN : Bid(c, note, fee, ours)
             \/ Precheck(c) \/ Load(c) \/ Simulate(c) \/ PrepareFails(c) \/ Decide(c)
             \/ Send(c) \/ Dropped(c) \/ Apply(c)
      PROVE  r = q /\ observed' = observed
  BY <1>0, <1>9 DEF GetQuote, Bid, Precheck, Load, Simulate, PrepareFails, Decide, Send,
     Dropped, Apply, Goto
<1>10. ASSUME \/ \E note \in Notes : SpendElsewhere(note)
              \/ UNCHANGED relayerVars
       PROVE  r = q /\ observed' = observed
  BY <1>10 DEF SpendElsewhere, relayerVars
<1> QED
  BY <1>1, <1>2, <1>3, <1>4, <1>5, <1>6, <1>7, <1>8, <1>9, <1>10 DEF RelayerNext, Handle

(* A fee that was quoted is refused only after a cost beyond its headroom, *)
(* however many other spends taught the relayer in between.                *)
THEOREM QuotesHonoured == RelayerSpec => []QuoteHonoured
<1>1. RelayerInit => AllCovered
  <2> SUFFICES ASSUME RelayerInit, NEW c \in Submitters PROVE InCover(reqs[c], observed)
    BY DEF AllCovered
  <2>1. reqs[c].quoted = -1
    BY DEF RelayerInit, Idle
  <2> QED BY <2>1 DEF InCover
<1>2. RelayerTypeOK /\ AllCovered /\ [RelayerNext]_relayerVars => AllCovered'
  BY StepCovered
<1>3. AllCovered => QuoteHonoured
  BY DEF AllCovered, InCover, QuoteHonoured, At
<1> QED
  BY <1>1, <1>2, <1>3, TypeCorrect, PTL DEF RelayerSpec

-----------------------------------------------------------------------------
(* One cheap spend.  The deployed margins leave a quote above the floor of *)
(* what was observed before, if no cost is so small that the truncations   *)
(* outweigh them.                                                          *)
LargeCost(cost) == cost >= 21 /\ cost * RatePPM >= 40 * 1000000
OutlierMargins ==
    /\ MarginBps >= 2000 /\ MinMarginBps <= 500 /\ QuoteBufferBps >= 1000
    /\ \A cost \in Known : LargeCost(cost)

LEMMA Truncated ==
    ASSUME NEW p \in Nat
    PROVE  /\ p \div 10000 \in Nat /\ 10000 * (p \div 10000) <= p /\ p <= 10000 * (p \div 10000) + 9999
           /\ p \div 1000000 \in Nat /\ 1000000 * (p \div 1000000) <= p
           /\ p <= 1000000 * (p \div 1000000) + 999999
BY SMT

LEMMA MarginOutweighs ==
    ASSUME OutlierMargins, NEW o \in Nat, NEW low \in Nat, 8 * low >= 7 * o, LargeCost(o)
    PROVE  QuoteFee(low) >= Required(o)
<1> DEFINE top == low + Bps(low, QuoteBufferBps)
           basis == ToAsset(top)
           floor == ToAsset(o)
<1>1. RatePPM \in Nat /\ MarginBps \in Nat /\ MinMarginBps \in Nat /\ QuoteBufferBps \in Nat
      /\ MarginBps >= 2000 /\ MinMarginBps <= 500 /\ QuoteBufferBps >= 1000
  BY SMT, ConstantTypes DEF OutlierMargins
<1>2. top \in Nat /\ 80 * top >= 77 * o - 72
  <2>1. Bps(low, 1000) \in Nat /\ Bps(low, QuoteBufferBps) \in Nat /\ Bps(low, 1000) <= Bps(low, QuoteBufferBps)
    BY SMT, <1>1, BpsMonotone
  <2>2. 10 * Bps(low, 1000) >= low - 9
    <3>1. low * 1000 \in Nat
      OBVIOUS
    <3> QED
      BY SMT, <3>1, Truncated DEF Bps
  <2> QED
    BY SMT, <2>1, <2>2
<1> HIDE DEF top
<1>3. o * RatePPM \in Nat /\ top * RatePPM \in Nat /\ o * RatePPM >= 21 * RatePPM /\ o * RatePPM >= 40 * 1000000
  <2>1. 21 * RatePPM <= o * RatePPM
    BY SMT, <1>1, ProductMonotone DEF LargeCost
  <2> QED
    BY SMT, <1>1, <1>2, <2>1 DEF LargeCost
<1>4. 80 * (top * RatePPM) >= 77 * (o * RatePPM) - 72 * RatePPM
  <2>1. 77 * o \in Nat /\ 80 * top + 72 \in Nat /\ 77 * o <= 80 * top + 72
    BY SMT, <1>2
  <2>2. (77 * o) * RatePPM <= (80 * top + 72) * RatePPM
    BY SMT, <1>1, <2>1, ProductMonotone
  <2>3. (77 * o) * RatePPM = 77 * (o * RatePPM)
    BY SMT, <1>1
  <2>4. (80 * top + 72) * RatePPM = 80 * (top * RatePPM) + 72 * RatePPM
    BY SMT, <1>1, <1>2
  <2> QED
    BY SMT, <1>1, <1>3, <2>2, <2>3, <2>4
<1>5. basis \in Nat /\ 1000000 * basis >= top * RatePPM - 999999
  BY SMT, <1>3, Truncated DEF ToAsset
<1>6. floor \in Nat /\ 1000000 * floor <= o * RatePPM
  BY SMT, <1>3, Truncated DEF ToAsset
<1> HIDE DEF basis, floor
<1>7. 5 * Bps(basis, MarginBps) >= basis - 4 /\ Bps(basis, MarginBps) \in Nat
  <2>1. Bps(basis, 2000) \in Nat /\ Bps(basis, MarginBps) \in Nat /\ Bps(basis, 2000) <= Bps(basis, MarginBps)
    <3>1. basis \in Nat /\ MarginBps \in Nat /\ 2000 <= MarginBps
      BY SMT, <1>1, <1>5
    <3> QED
      BY SMTT(30), <3>1, BpsMonotone
  <2>2. 5 * Bps(basis, 2000) >= basis - 4
    <3>1. basis * 2000 \in Nat
      BY SMT, <1>5
    <3> QED
      BY SMT, <1>5, <3>1, Truncated DEF Bps
  <2> QED
    BY SMT, <1>5, <2>1, <2>2
<1>8. 20 * Bps(floor, MinMarginBps) <= floor /\ Bps(floor, MinMarginBps) \in Nat
  <2>1. Bps(floor, MinMarginBps) \in Nat /\ Bps(floor, 500) \in Nat /\ Bps(floor, MinMarginBps) <= Bps(floor, 500)
    BY SMT, <1>1, <1>6, BpsMonotone
  <2>2. 20 * Bps(floor, 500) <= floor
    <3>1. floor * 500 \in Nat
      BY SMT, <1>6
    <3> QED
      BY SMT, <1>6, <3>1, Truncated DEF Bps
  <2> QED
    BY SMT, <1>6, <2>1, <2>2
<1>9. basis + Bps(basis, MarginBps) >= floor + Bps(floor, MinMarginBps)
  <2>1. PICK p \in Nat, s \in Nat, r \in Nat : p = top * RatePPM /\ s = o * RatePPM /\ r = RatePPM
    BY SMT, <1>1, <1>3
  <2>2. /\ 80 * p >= 77 * s - 72 * r /\ s >= 21 * r /\ s >= 40 * 1000000
        /\ 1000000 * basis >= p - 999999 /\ 1000000 * floor <= s
    BY SMT, <1>1, <1>3, <1>4, <1>5, <1>6, <2>1
  <2>3. 24 * basis - 16 >= 21 * floor
    BY SMT, <1>5, <1>6, <2>1, <2>2
  <2> QED
    BY SMT, <1>5, <1>6, <1>7, <1>8, <2>3
<1>10. QuoteFee(low) = basis + Bps(basis, MarginBps)
  BY DEF QuoteFee, QuoteBasis, basis, top
<1>11. Required(o) = floor + Bps(floor, MinMarginBps)
  BY DEF Required, floor
<1> QED
  BY SMT, <1>9, <1>10, <1>11

LEMMA LearnedSlowly ==
    ASSUME NEW cost \in Nat, observed \in Nat
    PROVE  8 * Learned(cost) >= 7 * observed
<1>1. CASE cost > observed
  BY <1>1 DEF Learned
<1>2. CASE cost <= observed
  <2>1. \A d \in Nat : d \div 8 \in Nat /\ 8 * (d \div 8) <= d
    OBVIOUS
  <2>2. observed - cost \in Nat
    BY <1>2
  <2>3. (observed - cost) \div 8 \in Nat /\ 8 * ((observed - cost) \div 8) <= observed - cost
    BY <2>1, <2>2
  <2> QED
    BY <1>2, <2>3 DEF Learned
<1> QED
  BY <1>1, <1>2

LEMMA ObservedSteps ==
    ASSUME RelayerTypeOK, [RelayerNext]_relayerVars
    PROVE  \/ observed' = observed
           \/ \E cost \in Costs : observed' = Learned(cost)
           \/ observed' = NetCost /\ restarts' # restarts
<1>1. ASSUME NEW c \in Submitters, Learn(c)
      PROVE  \E cost \in Costs : observed' = Learned(cost)
  BY <1>1 DEF Learn, RelayerTypeOK, At
<1>2. CASE Restart
  BY <1>2 DEF Restart, RelayerTypeOK
<1> QED
  BY <1>1, <1>2 DEF RelayerNext, Handle, GetQuote, Bid, Precheck, Load, Simulate, PrepareFails,
     Decide, Send, Dropped, Apply, SpendElsewhere, relayerVars

\* "a cheap outlier cannot drop the quote below real gas" (relayer.go:63): with the deployed margins and
\* costs that are not tiny, the quote after any spend clears the floor over what was observed before it.
THEOREM OutliersAreSafe ==
    ASSUME OutlierMargins
    PROVE  RelayerSpec => OutlierSafe
<1>1. Known \subseteq Nat /\ Costs \subseteq Known /\ NetCost \in Known /\ \A cost \in Known : LargeCost(cost)
  BY ConstantTypes DEF Known, OutlierMargins
<1>2. RelayerInit => LargeCost(observed)
  BY <1>1 DEF RelayerInit
<1>3. RelayerTypeOK /\ LargeCost(observed) /\ [RelayerNext]_relayerVars => LargeCost(observed)'
  <2> SUFFICES ASSUME RelayerTypeOK, LargeCost(observed), [RelayerNext]_relayerVars PROVE LargeCost(observed')
    BY DEF LargeCost
  <2>1. observed \in Nat /\ RatePPM \in Nat
    BY ConstantTypes DEF RelayerTypeOK
  <2>2. ASSUME NEW cost \in Costs, observed' = Learned(cost) PROVE LargeCost(observed')
    <3>1. cost \in Nat /\ LargeCost(cost)
      BY <1>1
    <3>2. Learned(cost) \in Nat /\ (cost <= Learned(cost))
      BY <2>1, <3>1, LearnedBetween
    <3>3. cost * RatePPM <= Learned(cost) * RatePPM /\ Learned(cost) * RatePPM \in Nat /\ cost * RatePPM \in Nat
      BY <2>1, <3>1, <3>2, ProductMonotone
    <3> QED
      BY <2>2, <3>1, <3>2, <3>3 DEF LargeCost
  <2> QED
    BY <1>1, <2>2, ObservedSteps
<1>4. RelayerTypeOK /\ LargeCost(observed) /\ [RelayerNext]_relayerVars =>
         [restarts' = restarts => QuoteFee(observed') >= Required(observed)]_relayerVars
  <2> SUFFICES ASSUME RelayerTypeOK, LargeCost(observed), RelayerNext, restarts' = restarts
               PROVE  QuoteFee(observed') >= Required(observed)
    BY DEF relayerVars
  <2>1. observed \in Nat
    BY DEF RelayerTypeOK
  <2>2. CASE observed' = observed
    BY <2>1, <2>2, MarginOutweighs
  <2>3. ASSUME NEW cost \in Costs, observed' = Learned(cost)
        PROVE  QuoteFee(observed') >= Required(observed)
    <3>1. cost \in Nat
      BY <1>1
    <3>2. observed' \in Nat /\ 8 * observed' >= 7 * observed
      BY <2>1, <2>3, <3>1, LearnedBetween, LearnedSlowly
    <3> QED
      BY <2>1, <3>2, MarginOutweighs
  <2> QED
    BY <2>2, <2>3, ObservedSteps
<1> QED
  BY <1>2, <1>3, <1>4, TypeCorrect, PTL DEF RelayerSpec, OutlierSafe

(* Types, payment for every landed spend, and the bounds of the learned    *)
(* cost, together.                                                         *)
THEOREM RelayerIsSafe == RelayerSpec => []RelayerSafe
BY TypeCorrect, RelayerPaid, ObservedBounded, PTL DEF RelayerSafe
=============================================================================
