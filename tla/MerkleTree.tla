------------------------------ MODULE MerkleTree ------------------------------
(***************************************************************************)
(* The tree of commitments, computed three times: by the contract, which   *)
(* keeps a frontier and a ring of roots (merkle.rs); by the wallet, which  *)
(* rebuilds it from the indexer or, page by page, from the events of RPC   *)
(* nodes that may lag (tree.ts); and by the circuit, which climbs from a   *)
(* leaf (merkleProof.circom).  A hash is the pair of its arguments.        *)
(***************************************************************************)
EXTENDS Naturals, Sequences, FiniteSetsExt

CONSTANTS
    DEPTH, ROOT_HISTORY,
    Commitments,  \* values of leaves; two leaves may have the same
    WINDOW,       \* ledgers that the scan moves on by
    Span,         \* ledgers that one query of a node covers
    SCAN_BACK,
    PageSize,     \* events of a full page
    NodeLag,      \* bound: how far behind a node's answer may be
    Kept,         \* ledgers whose events a node still has
    Ledgers       \* bound: the last ledger

ASSUME TreeAssumptions ==
    /\ {DEPTH, ROOT_HISTORY, WINDOW, PageSize} \subseteq Nat \ {0} /\ ROOT_HISTORY > 1
    /\ 0 \notin Commitments /\ WINDOW <= Span
    /\ {Span, SCAN_BACK, NodeLag, Kept, Ledgers} \subseteq Nat

VARIABLES
    leaves,    \* the commitments inserted, which the contract only publishes
    calls,     \* the ledger of each transact, which inserts two leaves
    ledger,    \* the last ledger
    frontier, ring, ringAt,
    scan,      \* the wallet's scan of events, st = "idle" when there is none
    tree       \* the leaf indices the wallet builds on, NoTree before

merkleVars == <<leaves, calls, ledger, frontier, ring, ringAt, scan, tree>>
chainVars == <<leaves, calls, ledger, frontier, ring, ringAt>>

Levels == 0 .. DEPTH - 1
Pow2[l \in 0..DEPTH] == IF l = 0 THEN 1 ELSE 2 * Pow2[l - 1]
Width == Pow2[DEPTH]
Row(l) == 0 .. Pow2[DEPTH - l] - 1     \* the nodes of a level
NoTree == {Width}
Idle == [st |-> "idle", latest |-> 0, from |-> 0, seen |-> 0, out |-> {}]

Leaf(v) == <<v>>
HashPair(l, r) == <<l, r>>
\* A leaf's index is halved at each level
Halved[l \in 0..DEPTH] == IF l = 0 THEN [i \in Row(0) |-> i] ELSE [i \in Row(0) |-> Halved[l - 1][i] \div 2]
Ancestor(i, l) == Halved[l][i]
IsLeft(i, l) == Ancestor(i, l) % 2 = 0

\* The hash of an empty subtree of each height; the last is the empty root
Zeros[l \in 0..DEPTH] == IF l = 0 THEN Leaf(0) ELSE HashPair(Zeros[l - 1], Zeros[l - 1])

\* The climb from a leaf: the node above index i at each level, given the siblings on the way
Climb(i, bottom, sibling) ==
    LET node[l \in 0..DEPTH] ==
            IF l = 0 THEN bottom
            ELSE IF IsLeft(i, l - 1) THEN HashPair(node[l - 1], sibling[l - 1])
                                     ELSE HashPair(sibling[l - 1], node[l - 1])
    IN  node

-----------------------------------------------------------------------------
\* insert climbs with the frontier on the left and empty subtrees on the right
Inserted(f, i, v) ==
    Climb(i, Leaf(v), [l \in Levels |-> IF IsLeft(i, l) THEN Zeros[l] ELSE f[l]])

\* mutant of Advanced: the frontier also takes nodes that are right children
AdvancedAlways(f, i, v) == [l \in Levels |-> Inserted(f, i, v)[l]]
Advanced(f, i, v) == [l \in Levels |-> IF IsLeft(i, l) THEN Inserted(f, i, v)[l] ELSE f[l]]

\* transact inserts two leaves in one ledger; is_full refuses it when fewer are left
InsertPair(a, b) ==
    LET i == Len(leaves)
        f == Advanced(frontier, i, a)
        one == (ringAt + 1) % ROOT_HISTORY
        two == (ringAt + 2) % ROOT_HISTORY
    IN  /\ i + 2 <= Width /\ ledger < Ledgers
        /\ ledger' = ledger + 1 /\ calls' = Append(calls, ledger + 1)
        /\ leaves' = leaves \o <<a, b>>
        /\ frontier' = Advanced(f, i + 1, b)
        /\ ring' = [ring EXCEPT ![one] = Inserted(frontier, i, a)[DEPTH], ![two] = Inserted(f, i + 1, b)[DEPTH]]
        /\ ringAt' = two
        /\ UNCHANGED <<scan, tree>>

QuietLedger == ledger < Ledgers /\ ledger' = ledger + 1 /\ UNCHANGED <<leaves, calls, frontier, ring, ringAt, scan, tree>>

-----------------------------------------------------------------------------
\* A transact publishes two nullifiers, then its two commitments: events 4k+1 .. 4k+4
EventLedger(e) == calls[(e - 1) \div 4 + 1]
IsCommitment(e) == ((e - 1) % 4) >= 2
LeafOfEvent(e) == 2 * ((e - 1) \div 4) + ((e - 1) % 4) - 2
Events == 1 .. 4 * Len(calls)
Views == {v \in 1..ledger : v + NodeLag >= ledger}

\* The indexer answers: /health says that it is complete, up to what its own node showed it
FromIndexer ==
    /\ scan = Idle
    /\ \E v \in Views : tree' = {i \in 0 .. Len(leaves) - 1 : calls[(i \div 2) + 1] <= v}
    /\ UNCHANGED <<chainVars, scan>>

StartScan ==
    /\ scan = Idle
    /\ \E v \in Views :
          scan' = [Idle EXCEPT !.st = "window", !.latest = v, !.from = IF v > SCAN_BACK THEN v - SCAN_BACK ELSE 1]
    /\ tree' = NoTree /\ UNCHANGED chainVars

\* The first page of a window starts at its ledger, the next ones after the last event seen
StartsAt == IF scan.seen = 0 THEN scan.from ELSE EventLedger(scan.seen)
Served(v) == {e \in Events : /\ e > scan.seen /\ EventLedger(e) \in StartsAt..v
                             /\ EventLedger(e) < StartsAt + Span}
Answers(v) == StartsAt <= v /\ StartsAt + Kept > v

Page ==
    /\ scan.st = "window" /\ scan.from <= scan.latest
    /\ \E v \in Views :
          /\ Answers(v)
          /\ LET page == {e \in Served(v) : Cardinality({x \in Served(v) : x < e}) < PageSize}
                 out == scan.out \cup {LeafOfEvent(e) : e \in {x \in page : IsCommitment(x)}}
             IN  scan' = IF Cardinality(page) < PageSize
                         THEN [scan EXCEPT !.from = @ + WINDOW, !.seen = 0, !.out = out]
                         ELSE [scan EXCEPT !.seen = Max(page), !.out = out]
    /\ UNCHANGED <<chainVars, tree>>

\* A query fails, or asks for ledgers the node has not or no longer: the error is passed on
ScanThrows ==
    /\ scan.st = "window" /\ scan.from <= scan.latest
    /\ scan' = Idle /\ UNCHANGED <<chainVars, tree>>

\* mutant of Contiguous: no gap between leaves, wherever they start
ContiguousAnywhere(out) == \A i \in out : i = 0 \/ i - 1 \in out \/ \A j \in out : j >= i
Contiguous(out) == \A i \in out : \A j \in 0..i : j \in out

EndScan ==
    /\ scan.st = "window" /\ scan.from > scan.latest
    /\ scan' = Idle
    /\ tree' = IF Contiguous(scan.out) THEN scan.out ELSE NoTree
    /\ UNCHANGED chainVars

-----------------------------------------------------------------------------
TreeInit ==
    /\ leaves = <<>> /\ calls = <<>> /\ ledger = 1
    /\ frontier = [l \in Levels |-> Zeros[l]]
    /\ ring = [k \in 0 .. ROOT_HISTORY - 1 |-> IF k = 0 THEN Zeros[DEPTH] ELSE Leaf(0)] /\ ringAt = 0
    /\ scan = Idle /\ tree = NoTree

TreeNext ==
    \/ \E a, b \in Commitments : InsertPair(a, b)
    \/ QuietLedger \/ FromIndexer \/ StartScan \/ Page \/ ScanThrows \/ EndScan

TreeSpec == TreeInit /\ [][TreeNext]_merkleVars

-----------------------------------------------------------------------------
\* buildTree: leaf after leaf, each climbs through the nodes there are so far
EmptyTree == [l \in 0..DEPTH |-> [k \in Row(l) |-> Zeros[l]]]
SiblingOf(i, l) == IF IsLeft(i, l) THEN Ancestor(i, l) + 1 ELSE Ancestor(i, l) - 1
PutLeaf(nodes, i) ==
    LET up == Climb(i, Leaf(leaves[i + 1]), [l \in Levels |-> nodes[l][SiblingOf(i, l)]])
    IN  [l \in 0..DEPTH |-> [nodes[l] EXCEPT ![Ancestor(i, l)] = up[l]]]
BuildTree(is) ==
    LET after[n \in 0..Width] ==
            IF n = 0 THEN EmptyTree
            ELSE IF n - 1 \in is THEN PutLeaf(after[n - 1], n - 1) ELSE after[n - 1]
    IN  after[Width]

\* mutant of PathOf: leaves counted from one
PathOfNext(nodes, i) == [l \in Levels |-> nodes[l][SiblingOf((i + 1) % Width, l)]]
PathOf(nodes, i) == [l \in Levels |-> nodes[l][SiblingOf(i, l)]]

\* mutant of MerkleProof: the selector bit of the lowest level is dropped
MerkleProofUnordered(node, path, i) == Climb(i - (i % 2), node, path)[DEPTH]
MerkleProof(node, path, i) == Climb(i, node, path)[DEPTH]

-----------------------------------------------------------------------------
\* The reference: the full binary tree over the first n of the leaves s and empty ones
FullTree(s, n) ==
    LET row[l \in 0..DEPTH] ==
            IF l = 0 THEN [k \in Row(0) |-> Leaf(IF k < n THEN s[k + 1] ELSE 0)]
            ELSE [k \in Row(l) |-> HashPair(row[l - 1][2 * k], row[l - 1][2 * k + 1])]
    IN  row
RootOf(n) == FullTree(leaves, n)[DEPTH][0]

\* The frontier stands for the leaves that the contract does not store: after every insert the newest
\* roots are those of the full tree over all leaves, and over all but one (merkle.rs insert).
RingIsOfTree ==
    /\ ring[ringAt] = RootOf(Len(leaves))
    /\ leaves # <<>> => ring[(ringAt + ROOT_HISTORY - 1) % ROOT_HISTORY] = RootOf(Len(leaves) - 1)

\* "a swallowed window drops events and a dropped tail builds a stale root that passes the contiguity
\* guard" (tree.ts:76): whatever nodes answered, a tree that is built is one the contract had.
BuiltIsPast == tree # NoTree => \E n \in 0..Len(leaves) : BuildTree(tree)[DEPTH][0] = RootOf(n)

\* Every leaf the wallet found has a path that the circuit climbs to the root the wallet proves against.
PathsProve ==
    tree # NoTree =>
        LET nodes == BuildTree(tree)
        IN  \A i \in tree : MerkleProof(Leaf(leaves[i + 1]), PathOf(nodes, i), i) = nodes[DEPTH][0]

\* What stands behind a proof is a leaf: no commitment climbs to the current root from an index that does
\* not hold it, whichever nodes of the tree are offered as its path (merkleProof.circom).
OnlyLeavesProve ==
    scan = Idle /\ tree = NoTree =>
        LET nodes == BuildTree({i - 1 : i \in DOMAIN leaves})
            Offered == [Levels -> UNION {{nodes[l][k] : k \in DOMAIN nodes[l]} : l \in Levels}]
        IN  \A i \in Row(0), v \in Commitments : \A path \in Offered :
                MerkleProof(Leaf(v), path, i) = ring[ringAt] => i < Len(leaves) /\ leaves[i + 1] = v

\* The tree of the contract, of the wallet and of the circuit is one tree.
TreeSound == RingIsOfTree /\ BuiltIsPast /\ PathsProve /\ OnlyLeavesProve
==============================================================================
