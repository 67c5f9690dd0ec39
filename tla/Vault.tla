-------------------------------- MODULE Vault --------------------------------
(***************************************************************************)
(* The shielded-pool contract (contracts/vault, contracts/types), the      *)
(* statement its verifier checks (circuits/src/transaction.circom) and the *)
(* token ledger it moves funds on.                                         *)
(*                                                                         *)
(* Data abstraction.  A leaf is represented by the amount its commitment   *)
(* hides; its index gives it an identity, so the nullifier of leaf i,      *)
(* H(commitment, i, nk), is i itself.  A Merkle root is represented by the *)
(* number of leaves it commits to: the tree is append-only and the hash is *)
(* taken to be injective, so the two determine each other.  A proof is the *)
(* assignment it proves; it stays valid for ever, so a step that accepts   *)
(* any provable assignment covers a proof that was made long ago, one that *)
(* is replayed and one that is delivered by somebody else.                 *)
(*                                                                         *)
(* A contract call that returns an error, or whose token transfer fails,   *)
(* is rolled back by the host with everything it wrote (the reentrancy     *)
(* lock included): it is a step that changes nothing, so each action below *)
(* states the calls that succeed.                                          *)
(***************************************************************************)
EXTENDS Integers, FiniteSetsExt

CONSTANTS
    Users,         \* accounts that pay in, are paid out and relay
    Supply,        \* what each account holds before the pool opens
    Dummies,       \* nullifiers of zero-amount padding inputs
    Capacity,      \* leaves of the tree, 2^DEPTH
    RootHistory,   \* ROOT_HISTORY, slots of the ring of past roots
    MaxNote,       \* the circuit's range bound on an amount, 2^248 - 1
    FieldP,        \* the BN254 scalar modulus
    NoteAmounts,   \* amounts a prover may try to put in an output
    ExtAmounts,    \* ext_amount: > 0 deposit, < 0 withdrawal, 0 transfer
    Fees,          \* fee argument
    MaxDeposits,   \* max_deposit arguments of init
    TvlCaps        \* tvl_cap arguments of init

LeafIds == 0..(Capacity - 1)
Slots   == 0..(RootHistory - 1)
NoRoot  == -1   \* the field element 0, which is never a known root

ASSUME VaultAssumptions ==
    /\ Capacity \in Nat /\ Capacity % 2 = 0
    /\ RootHistory \in Nat \ {0}
    /\ Supply \in Nat
    /\ MaxNote \in Nat /\ FieldP \in Nat
    /\ ExtAmounts \subseteq Int /\ Fees \subseteq Int
    /\ MaxDeposits \subseteq Int /\ TvlCaps \subseteq Int
    /\ NoteAmounts \subseteq 0..(FieldP - 1)
    \* a dummy nullifier is a hash of fresh randomness, never that of a leaf
    /\ Dummies \cap Int = {}
    \* 4 * 2^248 and every public amount fit in the field together
    /\ \A x \in ExtAmounts, f \in Fees :
          /\ x - f + 2 * MaxNote < FieldP
          /\ f - x + 2 * MaxNote < FieldP

VARIABLES
    initialized, \* whether DataKey::Admin, Token and Domain are stored
    maxDeposit,  \* DataKey::MaxDeposit
    tvlCap,      \* DataKey::TvlCap
    paused,      \* DataKey::Paused
    tvl,         \* DataKey::Tvl
    nullifiers,  \* NullifierKey::Spent entries
    leaf,        \* amounts hidden by the leaves
    next,        \* MerkleKey::NextLeafIndex
    roots,       \* MerkleKey::Roots
    current,     \* MerkleKey::CurrentRootIndex
    custody,     \* token balance of the contract
    bal,         \* token balances of the accounts
    spends,      \* history: accepted spends of each leaf
    owed         \* history: balances as the bound ext data prescribe them

configVars   == <<initialized, maxDeposit, tvlCap>>
ledgerVars   == <<custody, bal>>
treeVars     == <<leaf, next, roots, current>>
historyVars  == <<spends, owed>>
vars == <<initialized, maxDeposit, tvlCap, paused, tvl, nullifiers, leaf, next, roots, current,
          custody, bal, spends, owed>>

-----------------------------------------------------------------------------
(* Calls *)

\* types::ExtData; only the fields that move funds
ExtData == [amount : ExtAmounts, fee : Fees, recipient : Users, relayer : Users]

Inputs == LeafIds \cup Dummies

\* types::TxProof: root, the two nullifiers, the amounts of the two output
\* notes and the ext data whose hash the proof carries
Proofs == [root : 0..Capacity, ins : Inputs \X Inputs,
           outs : NoteAmounts \X NoteAmounts, bound : ExtData]

SignedIgnoringFee(ext) == ext.amount   \* mutant of Signed

(* The token units a call adds to the pool (ext_amount - fee). *)
Signed(ext) == ext.amount - ext.fee

(* calc_public_amount: a negative amount wraps to modulus - |signed|. *)
PublicAmount(signed) == IF signed >= 0 THEN signed ELSE FieldP - (-signed)

(* What an input contributes to sumIns. *)
InAmount(i) == IF i \in LeafIds THEN leaf[i] ELSE 0

(* The only public amount for which sumIns + publicAmount === sumOuts. *)
ProvedAmount(p) ==
    (p.outs[1] + p.outs[2] - InAmount(p.ins[1]) - InAmount(p.ins[2])) % FieldP

\* mutant of JoinSplit: no range check on the outputs
JoinSplitUnranged(p) ==
    /\ \A k \in 1..2 : p.ins[k] \in LeafIds => p.ins[k] < p.root
    /\ p.ins[1] # p.ins[2]

\* mutant of JoinSplit: both inputs may be the same note
JoinSplitSameInputs(p) ==
    /\ \A k \in 1..2 : p.ins[k] \in LeafIds => p.ins[k] < p.root
    /\ \A k \in 1..2 : p.outs[k] <= MaxNote

(* The joinsplit statement: inputs are padding or leaves under the root    *)
(* the proof names, nullifiers differ and output amounts are in range.     *)
JoinSplit(p) ==
    /\ \A k \in 1..2 : p.ins[k] \in LeafIds => p.ins[k] < p.root
    /\ p.ins[1] # p.ins[2]
    /\ \A k \in 1..2 : p.outs[k] <= MaxNote

IsKnownRoot(r) == r # NoRoot /\ \E k \in Slots : roots[k] = r

IsFullLate == next > Capacity   \* mutant of IsFull

IsFull == next + 2 > Capacity

-----------------------------------------------------------------------------
(* transact *)

(* Token transfers, in the contract's order; one that its payer cannot     *)
(* cover reverts the call.                                                 *)
Covered(ext, sender) ==
    /\ ext.amount > 0 => bal[sender] >= ext.amount
    /\ custody + ext.amount >= 0
    /\ custody + ext.amount - ext.fee >= 0

\* mutant of Admissible: the last unit of the TVL cannot leave
AdmissibleKeepsOne(ext, sender) ==
    /\ ~paused
    /\ initialized
    /\ ext.fee >= 0
    /\ ext.amount <= maxDeposit
    /\ tvl + Signed(ext) > 0
    /\ tvl + Signed(ext) <= tvlCap
    /\ ~IsFull
    /\ Covered(ext, sender)

(* The checks that look at the call and the pool's own state only.         *)
Admissible(ext, sender) ==
    /\ ~paused
    /\ initialized
    /\ ext.fee >= 0
    /\ ext.amount <= maxDeposit
    /\ tvl + Signed(ext) >= 0
    /\ tvl + Signed(ext) <= tvlCap
    /\ ~IsFull
    /\ Covered(ext, sender)

UnspentFirstOnly(p) == p.ins[1] \notin nullifiers   \* mutant of Unspent

Unspent(p) == \A k \in 1..2 : p.ins[k] \notin nullifiers

HashIgnored(bound, ext) == TRUE   \* mutant of HashMatches

(* hash_ext_data: the proof binds the external data it was made for.       *)
HashMatches(bound, ext) == bound = ext

(* Every check of transact, for a proof p delivered with the data ext.     *)
Accepts(p, ext, sender) ==
    /\ Admissible(ext, sender)
    /\ IsKnownRoot(p.root)
    /\ Unspent(p)
    /\ HashMatches(p.bound, ext)
    /\ PublicAmount(Signed(ext)) = ProvedAmount(p)
    /\ JoinSplit(p)

(* merkle::insert, twice: each insert takes the next slot of the ring.     *)
NextSlot(k) == (k + 1) % RootHistory

\* mutant of InsertBoth: one root per call
InsertBothOneRoot(outs) ==
    LET first == NextSlot(current)
    IN  /\ leaf' = [leaf EXCEPT ![next] = outs[1], ![next + 1] = outs[2]]
        /\ roots' = [roots EXCEPT ![first] = next + 2]
        /\ current' = first
        /\ next' = next + 2

InsertBoth(outs) ==
    LET first  == NextSlot(current)
        second == NextSlot(first)
    IN  /\ leaf' = [leaf EXCEPT ![next] = outs[1], ![next + 1] = outs[2]]
        /\ roots' = [roots EXCEPT ![first] = next + 1, ![second] = next + 2]
        /\ current' = second
        /\ next' = next + 2

(* Balances after ext is paid from and to the accounts it names.           *)
Paid(book, ext, sender) ==
    [u \in Users |-> book[u]
        - (IF u = sender /\ ext.amount > 0 THEN ext.amount ELSE 0)
        + (IF u = ext.recipient /\ ext.amount < 0 THEN -ext.amount ELSE 0)
        + (IF u = ext.relayer THEN ext.fee ELSE 0)]

Transact(p, ext, sender) ==
    /\ Accepts(p, ext, sender)
    /\ tvl' = tvl + Signed(ext)
    /\ nullifiers' = nullifiers \cup {p.ins[1], p.ins[2]}
    /\ InsertBoth(p.outs)
    /\ custody' = custody + ext.amount - ext.fee
    /\ bal' = Paid(bal, ext, sender)
    /\ spends' = [i \in LeafIds |->
                     spends[i] + (IF i \in {p.ins[1], p.ins[2]} THEN 1 ELSE 0)]
    /\ owed' = Paid(owed, p.bound, sender)
    /\ UNCHANGED <<configVars, paused>>

-----------------------------------------------------------------------------
(* init and set_paused *)

\* mutant of InitPool: init may be called again
InitPoolAgain(max, cap) ==
    /\ max > 0
    /\ cap >= max
    /\ initialized' = TRUE
    /\ maxDeposit' = max
    /\ tvlCap' = cap
    /\ tvl' = 0
    /\ paused' = FALSE
    /\ roots' = [k \in Slots |-> IF k = 0 THEN 0 ELSE NoRoot]
    /\ current' = 0
    /\ next' = 0
    /\ UNCHANGED <<nullifiers, leaf, ledgerVars, historyVars>>

InitPool(max, cap) ==
    /\ ~initialized
    /\ max > 0
    /\ cap >= max
    /\ initialized' = TRUE
    /\ maxDeposit' = max
    /\ tvlCap' = cap
    /\ tvl' = 0
    /\ paused' = FALSE
    /\ roots' = [k \in Slots |-> IF k = 0 THEN 0 ELSE NoRoot]
    /\ current' = 0
    /\ next' = 0
    /\ UNCHANGED <<nullifiers, leaf, ledgerVars, historyVars>>

SetPaused(b) ==
    /\ initialized
    /\ paused' = b
    /\ UNCHANGED <<configVars, tvl, nullifiers, treeVars, ledgerVars, historyVars>>

-----------------------------------------------------------------------------
Init ==
    /\ initialized = FALSE
    /\ maxDeposit = 0
    /\ tvlCap = 0
    /\ paused = FALSE
    /\ tvl = 0
    /\ nullifiers = {}
    /\ leaf = [i \in LeafIds |-> 0]
    /\ next = 0
    /\ roots = [k \in Slots |-> NoRoot]
    /\ current = 0
    /\ custody = 0
    /\ bal = [u \in Users |-> Supply]
    /\ spends = [i \in LeafIds |-> 0]
    /\ owed = [u \in Users |-> Supply]

(* Some call to transact succeeds.  The first two lines repeat guards of   *)
(* Transact so that TLC enumerates proofs for admissible calls only.       *)
AnyTransact ==
    \E ext \in ExtData, sender \in Users :
        /\ Admissible(ext, sender)
        /\ \E bound \in ExtData : 
              /\ HashMatches(bound, ext)
              /\ \E root \in 0..Capacity, in1, in2 \in Inputs,
                    out1, out2 \in NoteAmounts :
                    Transact([root |-> root, ins |-> <<in1, in2>>,
                              outs |-> <<out1, out2>>, bound |-> bound],
                             ext, sender)

Next ==
    \/ \E m \in MaxDeposits, c \in TvlCaps : InitPool(m, c)
    \/ \E b \in BOOLEAN : SetPaused(b)
    \/ AnyTransact

Spec == Init /\ [][Next]_vars

-----------------------------------------------------------------------------
(* Properties *)

Spendable == {i \in LeafIds : i < next /\ i \notin nullifiers}

ValueOf(S) == FoldSet(LAMBDA i, acc : leaf[i] + acc, 0, S)

(* Every variable keeps its type; accepted amounts stay in the circuit's   *)
(* range.                                                                  *)
TypeOK ==
    /\ initialized \in BOOLEAN
    /\ maxDeposit \in Int
    /\ tvlCap \in Int
    /\ paused \in BOOLEAN
    /\ tvl \in Nat
    /\ nullifiers \subseteq Inputs
    /\ leaf \in [LeafIds -> 0..MaxNote]
    /\ next \in 0..Capacity
    /\ roots \in [Slots -> 0..Capacity \cup {NoRoot}]
    /\ current \in Slots
    /\ custody \in Int
    /\ bal \in [Users -> Int]
    /\ spends \in [LeafIds -> Nat]
    /\ owed \in [Users -> Int]

(* Conservation: whatever sequence of deposits, transfers, withdrawals,    *)
(* replays and stale proofs reaches the contract, the TVL it keeps is the  *)
(* value of the notes that can still be spent, to the unit.                *)
Backed == tvl = ValueOf(Spendable)

(* Custody: the token balance of the contract is its TVL, so every note it *)
(* owes is covered by tokens it holds ("TVL tracks real custody").         *)
Custody == custody = tvl

(* No note is spent twice, and a leaf's nullifier is recorded exactly when *)
(* the leaf was spent.                                                     *)
SpentOnce ==
    \A i \in LeafIds : spends[i] = (IF i \in nullifiers THEN 1 ELSE 0)

(* The ring of roots holds exactly the last RootHistory trees: a proof     *)
(* made against the tree of n leaves is refused for its root only once     *)
(* RootHistory further leaves were inserted, and no root is ever known     *)
(* that the tree did not have ("Older roots stay valid within the history  *)
(* window", contracts/vault/src/test.rs).                                  *)
RootWindow ==
    initialized =>
        \A n \in 0..Capacity :
            IsKnownRoot(n) <=> n <= next /\ next - n < RootHistory

(* Why RootWindow holds, slot by slot: the root of n leaves lives in slot  *)
(* n % RootHistory and is overwritten by that of n + RootHistory leaves.   *)
RingHolds(ring, n) ==
    /\ \A k \in Slots : ring[k] # NoRoot =>
           ring[k] \in 0..n /\ ring[k] % RootHistory = k /\ n - ring[k] < RootHistory
    /\ \A m \in 0..n : n - m < RootHistory => ring[m % RootHistory] = m

RootRing ==
    initialized => current = next % RootHistory /\ RingHolds(roots, next)

(* Nothing is held, spent or inserted before init.                         *)
FreshBeforeInit ==
    ~initialized => tvl = 0 /\ custody = 0 /\ next = 0 /\ nullifiers = {}

(* Tokens go only where the data bound by an accepted proof sends them.    *)
PaidAsBound == bal = owed

(* A withdrawal of leaf i in full, at the current root, without a fee.     *)
FullExit(i, u) ==
    LET ext == [amount |-> -leaf[i], fee |-> 0, recipient |-> u, relayer |-> u]
    IN  [root |-> next, ins |-> <<i, CHOOSE d \in Dummies : d \notin nullifiers>>,
         outs |-> <<0, 0>>, bound |-> ext]

(* No note is stuck: while the pool is not paused and the tree has room,   *)
(* the owner of any unspent note can withdraw all of it at once.           *)
Exitable ==
    (initialized /\ ~paused /\ ~IsFull /\ ~(Dummies \subseteq nullifiers)) =>
        \A i \in Spendable, u \in Users :
            Accepts(FullExit(i, u), FullExit(i, u).bound, u)

(* The inductive invariant behind the theorems of VaultProofs.             *)
VaultInv ==
    /\ TypeOK
    /\ FreshBeforeInit
    /\ RootRing
    /\ Custody
    /\ SpentOnce
    /\ PaidAsBound
    /\ \A i \in LeafIds : i >= next => i \notin nullifiers

(* The pool is safe: one spend per leaf, payments as bound, custody equal  *)
(* to TVL, and a ring that knows exactly the recent roots.                 *)
VaultSafe == VaultInv /\ RootWindow

(* Refinement: the contract behaves as a book of coins with a reserve.     *)
(* Roots, proofs, padding, the ring and the pause flag are invisible in it *)
(* and every accepted call is one movement of coins: it consumes at most   *)
(* two live coins, creates two, and the reserve absorbs the difference.    *)
Ledger == INSTANCE ShieldedLedger WITH
    CoinIds <- LeafIds,
    Padding <- NoRoot,
    unspent <- [i \in Spendable |-> leaf[i]],
    issued  <- {i \in LeafIds : i < next},
    reserve <- tvl

ImplementsLedger == Ledger!Spec
=============================================================================
