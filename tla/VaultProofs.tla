---------------------------- MODULE VaultProofs ----------------------------
(***************************************************************************)
(* Theorems about the contract.  The shielded pool: for every tree         *)
(* capacity, ring size, amount range, set of accounts and configuration.   *)
(* The keeper of its entries: for every threshold, interval, slack and     *)
(* number of failures allowed.  The key registries: for any owners,        *)
(* versions and values and for calls applied in any order.  The tree of    *)
(* commitments: for every depth, ring and window of the wallet's scan.     *)
(***************************************************************************)
EXTENDS Vault, VaultTtl, Registry, MerkleTree, Sums


-----------------------------------------------------------------------------
(* Remainders: what the ring of roots and the circuit's sums need.         *)

(* Quotient and remainder.                                                 *)
LEMMA DivMod ==
    ASSUME NEW H \in Nat \ {0}, NEW n \in Int
    PROVE  /\ n \div H \in Int /\ n % H \in 0..(H - 1)
           /\ n = H * (n \div H) + (n % H)
OBVIOUS

(* They are the only ones.                                                 *)
LEMMA ModIs ==
    ASSUME NEW H \in Nat \ {0}, NEW q \in Int, NEW r \in 0..(H - 1)
    PROVE  (H * q + r) % H = r
<1> DEFINE n == H * q + r
<1>1. n \in Int
  OBVIOUS
<1>2. n = H * (n \div H) + (n % H) /\ n \div H \in Int /\ n % H \in 0..(H - 1)
  BY <1>1, DivMod
<1> HIDE DEF n
<1>3. n = H * q + r
  BY DEF n
<1>4. H * q - H * (n \div H) < H /\ H * q - H * (n \div H) > -H
  BY <1>1, <1>2, <1>3
<1>5. q = n \div H
  BY <1>2, <1>4
<1> QED
  BY <1>2, <1>3, <1>5

(* The remainder of the next number.                                       *)
LEMMA ModSucc ==
    ASSUME NEW H \in Nat \ {0}, NEW n \in Nat
    PROVE  (n + 1) % H = IF (n % H) + 1 = H THEN 0 ELSE (n % H) + 1
<1>1. n \div H \in Int /\ n % H \in 0..(H - 1) /\ n = H * (n \div H) + (n % H)
  BY DivMod
<1>2. CASE (n % H) + 1 = H
  <2>1. n + 1 = H * ((n \div H) + 1) + 0
    BY <1>1, <1>2
  <2>2. (H * ((n \div H) + 1) + 0) % H = 0
    BY <1>1, ModIs
  <2> QED
    BY <1>2, <2>1, <2>2
<1>3. CASE (n % H) + 1 # H
  <2>1. n + 1 = H * (n \div H) + ((n % H) + 1)
    BY <1>1
  <2>2. (n % H) + 1 \in 0..(H - 1)
    BY <1>1, <1>3
  <2>3. (H * (n \div H) + ((n % H) + 1)) % H = (n % H) + 1
    BY <1>1, <2>2, ModIs
  <2> QED
    BY <1>3, <2>1, <2>3
<1> QED
  BY <1>2, <1>3

(* The ring slot after the slot of n is the slot of n + 1.                 *)
LEMMA ModNext ==
    ASSUME NEW H \in Nat \ {0}, NEW n \in Nat
    PROVE  ((n % H) + 1) % H = (n + 1) % H
<1>1. n % H \in 0..(H - 1)
  BY DivMod
<1>2. CASE (n % H) + 1 = H
  <2>1. (n + 1) % H = 0
    BY <1>2, ModSucc
  <2>2. ((n % H) + 1) % H = 0
    BY <1>2
  <2> QED
    BY <2>1, <2>2
<1>3. CASE (n % H) + 1 # H
  <2>1. (n + 1) % H = (n % H) + 1
    BY <1>3, ModSucc
  <2>2. (H * 0 + ((n % H) + 1)) % H = (n % H) + 1
    BY <1>1, <1>3, ModIs
  <2> QED
    BY <1>1, <2>1, <2>2
<1> QED
  BY <1>2, <1>3

(* Adding the divisor changes nothing.                                     *)
LEMMA ModPlus ==
    ASSUME NEW H \in Nat \ {0}, NEW n \in Int
    PROVE  (n + H) % H = n % H
<1>1. n \div H \in Int /\ n % H \in 0..(H - 1) /\ n = H * (n \div H) + (n % H)
  BY DivMod
<1>2. n + H = H * ((n \div H) + 1) + (n % H)
  BY <1>1
<1>3. \A q \in Int, r \in 0..(H - 1) : (H * q + r) % H = r
  BY ModIs
<1>4. (n \div H) + 1 \in Int
  BY <1>1
<1> QED
  BY <1>1, <1>2, <1>3, <1>4

(* Two numbers less than a divisor apart with one remainder are equal.     *)
LEMMA ModUnique ==
    ASSUME NEW H \in Nat \ {0}, NEW a \in Int, NEW b \in Int,
           a - b < H, b - a < H, a % H = b % H
    PROVE  a = b
<1>1. a = H * (a \div H) + (a % H) /\ b = H * (b \div H) + (b % H)
  BY DivMod
<1>2. a \div H \in Int /\ b \div H \in Int /\ a % H \in Int
  BY DivMod
<1>3. H * (b \div H) - H * (a \div H) < H /\ H * (b \div H) - H * (a \div H) > -H
  BY <1>1, <1>2
<1>4. a \div H = b \div H
  BY <1>2, <1>3
<1> QED
  BY <1>1, <1>4

-----------------------------------------------------------------------------
(* The shielded pool.                                                      *)

(* The parts of the assumption on the constants, stated one by one: most   *)
(* steps need only that the constants are numbers.                         *)
LEMMA ConstTypes ==
    /\ Capacity \in Nat /\ RootHistory \in Nat /\ RootHistory # 0
    /\ Supply \in Nat /\ MaxNote \in Nat /\ FieldP \in Nat
BY VaultAssumptions

LEMMA ArgTypes ==
    /\ ExtAmounts \subseteq Int /\ Fees \subseteq Int
    /\ MaxDeposits \subseteq Int /\ TvlCaps \subseteq Int
    /\ NoteAmounts \subseteq 0..(FieldP - 1)
BY VaultAssumptions, Zenon

(* The fields of the data a call carries are numbers.                      *)
LEMMA ExtTypes ==
    ASSUME NEW ext \in ExtData
    PROVE  ext.amount \in Int /\ ext.fee \in Int /\ Signed(ext) \in Int
<1>1. ext.amount \in ExtAmounts /\ ext.fee \in Fees
  BY DEF ExtData
<1>2. ext.amount \in Int /\ ext.fee \in Int
  BY <1>1, ArgTypes
<1> QED
  BY <1>2 DEF Signed

(* A step of the pool is a deployment call, a pause call or an accepted    *)
(* transact.                                                               *)
LEMMA NextCases ==
    [Next]_vars =>
        \/ \E m \in MaxDeposits, c \in TvlCaps : InitPool(m, c)
        \/ \E b \in BOOLEAN : SetPaused(b)
        \/ \E p \in Proofs, ext \in ExtData, sender \in Users :
              Transact(p, ext, sender)
        \/ UNCHANGED vars
<1>1. AnyTransact => \E p \in Proofs, ext \in ExtData, sender \in Users :
                        Transact(p, ext, sender)
  BY DEF AnyTransact, Proofs
<1> QED
  BY <1>1 DEF Next

(* The pool starts in a state of the right type.                           *)
LEMMA InitTyped == Init => TypeOK
  <1> SUFFICES ASSUME Init PROVE TypeOK
    OBVIOUS
  <1>1. initialized \in BOOLEAN /\ paused \in BOOLEAN
    BY Zenon DEF Init
  <1>2. tvl \in Nat /\ maxDeposit \in Int /\ tvlCap \in Int /\ custody \in Int
    BY DEF Init
  <1>3. nullifiers \subseteq Inputs
    BY DEF Init
  <1>4. leaf \in [LeafIds -> 0..MaxNote]
    BY ConstTypes, ArgTypes DEF Init
  <1>5. roots \in [Slots -> 0..Capacity \cup {NoRoot}]
    BY DEF Init
  <1>6. next \in 0..Capacity /\ current \in Slots
    BY ConstTypes, ArgTypes DEF Init, Slots
  <1>7. bal \in [Users -> Int] /\ owed \in [Users -> Int] /\ spends \in [LeafIds -> Nat]
    BY ConstTypes, ArgTypes DEF Init
  <1> QED
    BY <1>1, <1>2, <1>3, <1>4, <1>5, <1>6, <1>7 DEF TypeOK

(* The type invariant is inductive: an accepted call never takes an amount *)
(* out of the circuit's range, a root index out of the ring or a leaf out  *)
(* of the tree.                                                            *)
THEOREM Typing == Spec => []TypeOK
<1>1. TypeOK /\ [Next]_vars => TypeOK'
  <2> SUFFICES ASSUME TypeOK, [Next]_vars PROVE TypeOK'
    OBVIOUS
  <2>1. ASSUME NEW m \in MaxDeposits, NEW c \in TvlCaps, InitPool(m, c)
        PROVE  TypeOK'
    <3>1. initialized' \in BOOLEAN /\ paused' \in BOOLEAN
      BY <2>1, Zenon DEF InitPool
    <3>2. maxDeposit' \in Int /\ tvlCap' \in Int /\ tvl' \in Nat
      BY <2>1, ConstTypes, ArgTypes DEF InitPool
    <3>3. roots' \in [Slots -> 0..Capacity \cup {NoRoot}]
      BY <2>1, ConstTypes, ArgTypes DEF InitPool
    <3>4. next' \in 0..Capacity /\ current' \in Slots
      BY <2>1, ConstTypes, ArgTypes DEF InitPool, Slots
    <3>5. UNCHANGED <<nullifiers, leaf, custody, bal, spends, owed>>
      BY <2>1 DEF InitPool, ledgerVars, historyVars
    <3> QED
      BY <3>1, <3>2, <3>3, <3>4, <3>5 DEF TypeOK
  <2>2. ASSUME NEW b \in BOOLEAN, SetPaused(b)
        PROVE  TypeOK'
    <3>1. paused' \in BOOLEAN
      BY <2>2, Zenon DEF SetPaused
    <3>2. UNCHANGED <<configVars, tvl, nullifiers, treeVars, ledgerVars, historyVars>>
      BY <2>2 DEF SetPaused
    <3> QED
      BY <3>1, <3>2 DEF TypeOK, configVars, treeVars, ledgerVars, historyVars
  <2>3. ASSUME NEW p \in Proofs, NEW ext \in ExtData, NEW sender \in Users,
               Transact(p, ext, sender)
        PROVE  TypeOK'
    <3>1. Signed(ext) \in Int
      BY ExtTypes
    <3>2. tvl + Signed(ext) >= 0 /\ next + 2 <= Capacity
      <4>1. tvl + Signed(ext) >= 0 /\ ~IsFull
        BY <2>3, Zenon DEF Transact, Accepts, Admissible
      <4> QED
        BY <4>1, ConstTypes, ArgTypes DEF IsFull, TypeOK
    <3>3. tvl' \in Nat /\ custody' \in Int
      BY <2>3, <3>1, <3>2, ExtTypes DEF Transact, TypeOK
    <3>4. nullifiers' \subseteq Inputs
      BY <2>3 DEF Transact, Proofs, TypeOK
    <3>5. p.outs[1] \in 0..MaxNote /\ p.outs[2] \in 0..MaxNote
      <4>1. JoinSplit(p)
        BY <2>3, Zenon DEF Transact, Accepts
      <4>2. p.outs[1] \in NoteAmounts /\ p.outs[2] \in NoteAmounts
        BY DEF Proofs
      <4>3. p.outs[1] <= MaxNote /\ p.outs[2] <= MaxNote
        BY <4>1 DEF JoinSplit
      <4>4. p.outs[1] \in 0..(FieldP - 1) /\ p.outs[2] \in 0..(FieldP - 1)
        BY <4>2, ArgTypes
      <4> QED
        BY <4>3, <4>4, ConstTypes
    <3>6. InsertBoth(p.outs)
      BY <2>3 DEF Transact
    <3>7. next' \in 0..Capacity /\ leaf' \in [LeafIds -> 0..MaxNote]
      <4>1. next \in LeafIds /\ next + 1 \in LeafIds /\ next + 2 \in 0..Capacity
        BY <3>2, ConstTypes DEF LeafIds, TypeOK
      <4>2. leaf \in [LeafIds -> 0..MaxNote]
        BY DEF TypeOK
      <4>3. leaf' = [leaf EXCEPT ![next] = p.outs[1], ![next + 1] = p.outs[2]]
        BY <3>6 DEF InsertBoth
      <4>4. next' = next + 2
        BY <3>6 DEF InsertBoth
      <4> QED
        BY <3>5, <4>1, <4>2, <4>3, <4>4
    <3>8. roots' \in [Slots -> 0..Capacity \cup {NoRoot}] /\ current' \in Slots
      <4>1. next + 1 \in 0..Capacity /\ next + 2 \in 0..Capacity
        BY <3>2, ConstTypes, ArgTypes DEF TypeOK
      <4>2. \A k \in Slots : NextSlot(k) \in Slots
        BY ConstTypes, ArgTypes DEF NextSlot, Slots
      <4> QED
        BY <3>6, <4>1, <4>2 DEF InsertBoth, TypeOK
    <3>9. bal' \in [Users -> Int] /\ owed' \in [Users -> Int]
      <4>1. \A book \in [Users -> Int], e \in ExtData :
               Paid(book, e, sender) \in [Users -> Int]
        BY ExtTypes DEF Paid
      <4>2. p.bound \in ExtData
        BY DEF Proofs
      <4> QED
        BY <2>3, <4>1, <4>2 DEF Transact, TypeOK
    <3>10. spends' \in [LeafIds -> Nat]
      BY <2>3 DEF Transact, TypeOK
    <3>11. UNCHANGED <<initialized, maxDeposit, tvlCap, paused>>
      BY <2>3 DEF Transact, configVars
    <3> QED
      BY <3>3, <3>4, <3>7, <3>8, <3>9, <3>10, <3>11 DEF TypeOK
  <2>4. CASE UNCHANGED vars
    BY <2>4 DEF vars, TypeOK
  <2> QED
    BY <2>1, <2>2, <2>3, <2>4, NextCases
<1> QED
  BY InitTyped, <1>1, PTL DEF Spec

-----------------------------------------------------------------------------
(* The ring of past roots *)

(* One insert keeps the ring: the slot it overwrites held the one root that *)
(* drops out of the window.                                                *)
LEMMA InsertOne ==
    ASSUME NEW held \in [Slots -> Int], NEW n \in Nat, RingHolds(held, n)
    PROVE  RingHolds([held EXCEPT ![(n + 1) % RootHistory] = n + 1], n + 1)
<1> DEFINE H == RootHistory
           top == (n + 1) % H
           held2 == [held EXCEPT ![top] = n + 1]
<1>0. H \in Nat \ {0}
  BY ConstTypes
<1> HIDE DEF H
<1>1. top \in Slots
  BY <1>0, DivMod DEF Slots, H
<1>2. \A k \in Slots : held2[k] = IF k = top THEN n + 1 ELSE held[k]
  BY <1>1
<1> HIDE DEF held2
<1>3. ASSUME NEW k \in Slots, held2[k] # NoRoot
      PROVE  held2[k] \in 0..(n + 1) /\ held2[k] % H = k /\ n + 1 - held2[k] < H
  <2>1. CASE k = top
    BY <1>0, <1>2, <2>1
  <2>2. CASE k # top
    <3>1. held2[k] = held[k]
      BY <1>2, <2>2
    <3>2. held[k] \in 0..n /\ held[k] % H = k /\ n - held[k] < H
      BY <1>3, <3>1 DEF RingHolds, H
    <3>3. n + 1 - held[k] # H
      <4>1. SUFFICES ASSUME n + 1 = held[k] + H PROVE FALSE
        BY <1>0, <3>2
      <4>2. (held[k] + H) % H = held[k] % H
        BY <1>0, <3>2, ModPlus
      <4> QED
        BY <2>2, <3>2, <4>1, <4>2
    <3> QED
      BY <1>0, <3>1, <3>2, <3>3
  <2> QED
    BY <2>1, <2>2
<1>4. ASSUME NEW m \in 0..(n + 1), n + 1 - m < H
      PROVE  held2[m % H] = m
  <2>1. m % H \in Slots
    BY <1>0, DivMod DEF Slots, H
  <2>2. CASE m = n + 1
    BY <1>2, <2>1, <2>2
  <2>3. CASE m # n + 1
    <3>1. m \in 0..n /\ n - m < H
      BY <1>0, <1>4, <2>3
    <3>2. m % H # top
      <4>1. SUFFICES ASSUME m % H = (n + 1) % H PROVE FALSE
        OBVIOUS
      <4>2. m - (n + 1) < H /\ m \in Int /\ n + 1 \in Int
        BY <1>0
      <4>3. \A a, b \in Int : a - b < H /\ b - a < H /\ a % H = b % H => a = b
        BY <1>0, ModUnique
      <4>4. (n + 1) - m < H
        BY <1>4
      <4> QED
        BY <2>3, <4>1, <4>2, <4>3, <4>4
    <3>3. held[m % H] = m
      BY <3>1 DEF RingHolds, H
    <3> QED
      BY <1>2, <2>1, <3>2, <3>3
  <2> QED
    BY <2>2, <2>3
<1> QED
  BY <1>3, <1>4 DEF RingHolds, H, held2

(* transact inserts twice.                                                 *)
LEMMA InsertTwice ==
    ASSUME TypeOK, RingHolds(roots, next), current = next % RootHistory,
           NEW outs, InsertBoth(outs)
    PROVE  RingHolds(roots', next') /\ current' = next' % RootHistory
<1> DEFINE first == (next + 1) % RootHistory
           second == (next + 2) % RootHistory
           once == [roots EXCEPT ![first] = next + 1]
<1>1. RootHistory \in Nat \ {0} /\ next \in Nat /\ next + 1 \in Nat
  BY ConstTypes DEF TypeOK
<1>2. NextSlot(current) = first
  BY <1>1, ModNext DEF NextSlot
<1>3. NextSlot(first) = second
  <2>1. (((next + 1) % RootHistory) + 1) % RootHistory = (next + 1 + 1) % RootHistory
    BY <1>1, ModNext
  <2>2. next + 1 + 1 = next + 2
    BY <1>1
  <2> QED
    BY <2>1, <2>2 DEF NextSlot
<1>4. first \in Slots /\ second \in Slots
  BY <1>1, DivMod DEF Slots
<1>5. roots \in [Slots -> Int]
  BY DEF TypeOK, NoRoot
<1>6. once \in [Slots -> Int]
  BY <1>1, <1>4, <1>5
<1>7. RingHolds(once, next + 1)
  BY <1>1, <1>5, InsertOne
<1>8. RingHolds([once EXCEPT ![second] = next + 2], next + 2)
  <2>1. RingHolds([once EXCEPT ![(next + 1 + 1) % RootHistory] = next + 1 + 1],
                  next + 1 + 1)
    BY <1>1, <1>6, <1>7, InsertOne
  <2>2. next + 1 + 1 = next + 2
    BY <1>1
  <2> QED
    BY <2>1, <2>2
<1>9. /\ roots' = [once EXCEPT ![second] = next + 2]
      /\ next' = next + 2
      /\ current' = second
  BY <1>2, <1>3, Zenon DEF InsertBoth
<1> QED
  BY <1>8, <1>9

-----------------------------------------------------------------------------
(* Roots *)

(* A known root is that of a tree the contract already had.                *)
LEMMA KnownRoots ==
    ASSUME TypeOK, RootRing, initialized, NEW r, IsKnownRoot(r)
    PROVE  r \in 0..next
<1>1. RingHolds(roots, next)
  BY Zenon DEF RootRing
<1> QED
  BY <1>1 DEF IsKnownRoot, RingHolds

-----------------------------------------------------------------------------
(* The inductive invariant *)

LEMMA InvInit == Init => VaultInv
<1> SUFFICES ASSUME Init PROVE VaultInv
  OBVIOUS
<1>1. TypeOK
  BY InitTyped
<1>2. FreshBeforeInit /\ Custody
  BY DEF Init, FreshBeforeInit, Custody
<1>3. RootRing
  BY Zenon DEF Init, RootRing
<1>4. SpentOnce
  BY DEF Init, SpentOnce
<1>5. PaidAsBound
  BY DEF Init, PaidAsBound
<1>6. \A i \in LeafIds : i >= next => i \notin nullifiers
  BY DEF Init
<1> QED
  BY <1>1, <1>2, <1>3, <1>4, <1>5, <1>6 DEF VaultInv

LEMMA InvInitPool ==
    ASSUME VaultInv, NEW m \in MaxDeposits, NEW c \in TvlCaps, InitPool(m, c), TypeOK'
    PROVE  VaultInv'
<1>1. ~initialized
  BY Zenon DEF InitPool
<1>2. tvl = 0 /\ custody = 0 /\ next = 0 /\ nullifiers = {}
  BY <1>1, Zenon DEF VaultInv, FreshBeforeInit
<1>3. /\ tvl' = 0 /\ next' = 0 /\ current' = 0
      /\ roots' = [k \in Slots |-> IF k = 0 THEN 0 ELSE NoRoot]
      /\ UNCHANGED <<nullifiers, leaf, custody, bal, spends, owed>>
  BY DEF InitPool, ledgerVars, historyVars
<1>4. FreshBeforeInit' /\ Custody'
  BY <1>2, <1>3 DEF FreshBeforeInit, Custody
<1>5. RootRing'
  <2>1. 0 % RootHistory = 0 /\ 0 \in Slots
    BY ConstTypes DEF Slots
  <2>2. \A k \in Slots : roots'[k] = IF k = 0 THEN 0 ELSE -1
    BY <1>3 DEF NoRoot
  <2>3. RingHolds(roots', 0)
    BY <2>1, <2>2, ConstTypes DEF RingHolds, NoRoot
  <2> QED
    BY <1>3, <2>1, <2>3 DEF RootRing, RingHolds
<1>6. SpentOnce' /\ PaidAsBound'
  BY <1>3 DEF VaultInv, SpentOnce, PaidAsBound
<1>7. (\A i \in LeafIds : i >= next => i \notin nullifiers)'
  BY <1>2, <1>3
<1> QED
  BY <1>4, <1>5, <1>6, <1>7 DEF VaultInv

LEMMA InvTransact ==
    ASSUME VaultInv, TypeOK',
           NEW p \in Proofs, NEW ext \in ExtData, NEW sender \in Users,
           Transact(p, ext, sender)
    PROVE  VaultInv'
<1>1. TypeOK /\ FreshBeforeInit /\ RootRing /\ Custody /\ SpentOnce /\ PaidAsBound
  BY Zenon DEF VaultInv
<1>2. Accepts(p, ext, sender) /\ InsertBoth(p.outs)
  BY Zenon DEF Transact
<1>3. initialized /\ initialized'
  BY <1>2, Zenon DEF Accepts, Admissible, Transact, configVars
<1>4. next' = next + 2
  BY <1>2 DEF InsertBoth
<1>5. FreshBeforeInit'
  BY <1>3, Zenon DEF FreshBeforeInit
<1>6. Custody'
  <2>1. custody' = custody + ext.amount - ext.fee /\ tvl' = tvl + Signed(ext)
    BY Zenon DEF Transact
  <2>2. custody = tvl /\ tvl \in Int /\ ext.amount \in Int /\ ext.fee \in Int
    BY <1>1, ExtTypes DEF Custody, TypeOK
  <2> QED
    BY <2>1, <2>2 DEF Custody, Signed
<1>7. RootRing'
  <2>1. RingHolds(roots, next) /\ current = next % RootHistory
    BY <1>1, <1>3, Zenon DEF RootRing
  <2>2. RingHolds(roots', next') /\ current' = next' % RootHistory
    BY <1>1, <1>2, <2>1, InsertTwice
  <2> QED
    BY <2>2 DEF RootRing, RingHolds
<1>8. SpentOnce'
  <2>1. p.ins[1] \notin nullifiers /\ p.ins[2] \notin nullifiers
    BY <1>2 DEF Accepts, Unspent
  <2>2. nullifiers' = nullifiers \cup {p.ins[1], p.ins[2]}
    BY DEF Transact
  <2>3. \A i \in LeafIds :
           spends'[i] = spends[i] + (IF i \in {p.ins[1], p.ins[2]} THEN 1 ELSE 0)
    BY DEF Transact
  <2> QED
    BY <1>1, <2>1, <2>2, <2>3 DEF SpentOnce
<1>9. PaidAsBound'
  <2>1. p.bound = ext
    BY <1>2 DEF Accepts, HashMatches
  <2> QED
    BY <1>1, <2>1 DEF Transact, PaidAsBound
<1>10. (\A i \in LeafIds : i >= next => i \notin nullifiers)'
  <2>1. p.root \in 0..next
    BY <1>1, <1>2, <1>3, KnownRoots DEF Accepts
  <2>2. \A k \in 1..2 : p.ins[k] \in LeafIds => p.ins[k] < p.root
    BY <1>2 DEF Accepts, JoinSplit
  <2>3. nullifiers' = nullifiers \cup {p.ins[1], p.ins[2]}
    BY DEF Transact
  <2>4. \A i \in LeafIds : i >= next => i \notin nullifiers
    BY Zenon DEF VaultInv
  <2>5. next \in Nat
    BY <1>1, ConstTypes DEF TypeOK
  <2> SUFFICES ASSUME NEW i \in LeafIds, i >= next + 2 PROVE i \notin nullifiers'
    BY <1>4
  <2>6. i \in Int
    BY ConstTypes DEF LeafIds
  <2>7. i # p.ins[1] /\ i # p.ins[2]
    BY <2>1, <2>2, <2>5, <2>6
  <2>8. i \notin nullifiers
    BY <2>4, <2>5, <2>6
  <2> QED
    BY <2>3, <2>7, <2>8
<1> QED
  BY <1>5, <1>6, <1>7, <1>8, <1>9, <1>10 DEF VaultInv

(* The inductive invariant holds in every reachable state.                 *)
THEOREM Invariance == Spec => []VaultInv
<1>1. VaultInv /\ TypeOK' /\ [Next]_vars => VaultInv'
  <2> SUFFICES ASSUME VaultInv, TypeOK', [Next]_vars PROVE VaultInv'
    OBVIOUS
  <2>1. ASSUME NEW b \in BOOLEAN, SetPaused(b) PROVE VaultInv'
    <3>1. UNCHANGED <<initialized, maxDeposit, tvlCap, tvl, nullifiers, leaf, next,
                      roots, current, custody, bal, spends, owed>>
      BY <2>1 DEF SetPaused, configVars, treeVars, ledgerVars, historyVars
    <3> QED
      BY <3>1 DEF VaultInv, FreshBeforeInit, RootRing, Custody, SpentOnce, PaidAsBound
  <2>2. CASE UNCHANGED vars
    BY <2>2 DEF vars, VaultInv, FreshBeforeInit, RootRing, Custody, SpentOnce,
                PaidAsBound
  <2> QED
    BY <2>1, <2>2, InvInitPool, InvTransact, NextCases
<1> QED
  BY <1>1, InvInit, Typing, PTL DEF Spec

(* Custody: the tokens the contract holds are its TVL, for every           *)
(* configuration and every sequence of calls.                              *)
THEOREM CustodyHolds == Spec => []Custody
BY Invariance, PTL DEF VaultInv

(* No leaf is ever spent twice.                                            *)
THEOREM NoDoubleSpend == Spec => []SpentOnce
BY Invariance, PTL DEF VaultInv

(* Every account holds exactly what the data bound by the accepted proofs  *)
(* prescribe.                                                              *)
THEOREM PaymentsBound == Spec => []PaidAsBound
BY Invariance, PTL DEF VaultInv

(* The roots known to the contract are those of the last RootHistory trees.*)
THEOREM WindowExact == Spec => []RootWindow
<1>1. VaultInv => RootWindow
  <2> SUFFICES ASSUME VaultInv, initialized, NEW n \in 0..Capacity
               PROVE  IsKnownRoot(n) <=> n <= next /\ next - n < RootHistory
    BY DEF RootWindow
  <2>1. RingHolds(roots, next) /\ next \in Nat /\ n \in Nat
    BY ConstTypes DEF VaultInv, RootRing, TypeOK
  <2>2. ASSUME IsKnownRoot(n) PROVE n <= next /\ next - n < RootHistory
    BY <2>1, <2>2 DEF IsKnownRoot, RingHolds
  <2>3. ASSUME n <= next, next - n < RootHistory PROVE IsKnownRoot(n)
    <3>1. n % RootHistory \in Slots
      BY <2>1, ConstTypes, DivMod DEF Slots
    <3>2. roots[n % RootHistory] = n /\ n # NoRoot
      BY <2>1, <2>3 DEF RingHolds, NoRoot
    <3> QED
      BY <3>1, <3>2 DEF IsKnownRoot
  <2> QED
    BY <2>2, <2>3
<1> QED
  BY <1>1, Invariance, PTL

-----------------------------------------------------------------------------
(* Refinement *)

(* Within the amounts the circuit allows, equality of the sums in the      *)
(* field is equality of the sums: nothing is created by wrapping around p. *)
LEMMA FieldSum ==
    ASSUME NEW x \in ExtAmounts, NEW f \in Fees,
           NEW i1 \in 0..MaxNote, NEW i2 \in 0..MaxNote,
           NEW o1 \in 0..MaxNote, NEW o2 \in 0..MaxNote,
           PublicAmount(x - f) = (o1 + o2 - i1 - i2) % FieldP
    PROVE  o1 + o2 - i1 - i2 = x - f
<1> DEFINE s == x - f
           d == o1 + o2 - i1 - i2
<1>1. x \in Int /\ f \in Int /\ s \in Int /\ d \in Int
  BY ConstTypes, ArgTypes
<1>2. s + 2 * MaxNote < FieldP /\ 2 * MaxNote - s < FieldP
  <2>1. x - f + 2 * MaxNote < FieldP /\ f - x + 2 * MaxNote < FieldP
    BY VaultAssumptions, Zenon
  <2> QED
    BY <1>1, <2>1, ConstTypes
<1>3. d - s < FieldP /\ s - d < FieldP
  BY <1>1, <1>2, ConstTypes
<1>4. FieldP \in Nat \ {0}
  BY <1>1, <1>2, ConstTypes
<1>5. s % FieldP = d % FieldP
  <2>1. PublicAmount(s) = d % FieldP
    OBVIOUS
  <2>2. \A q \in Int, r \in 0..(FieldP - 1) : (FieldP * q + r) % FieldP = r
    BY <1>4, ModIs
  <2>3. CASE s >= 0
    <3>1. PublicAmount(s) = s /\ s \in 0..(FieldP - 1)
      BY <1>1, <1>2, <2>3, ConstTypes DEF PublicAmount
    <3>2. FieldP * 0 + s = s /\ (FieldP * 0 + s) % FieldP = s
      BY <1>4, <2>2, <3>1
    <3> QED
      BY <2>1, <3>1, <3>2
  <2>4. CASE s < 0
    <3>1. PublicAmount(s) = s + FieldP /\ s + FieldP \in 0..(FieldP - 1)
      BY <1>1, <1>2, <2>4, ConstTypes DEF PublicAmount
    <3>2. FieldP * 0 + (s + FieldP) = s + FieldP
      BY <1>1, <1>4
    <3>3. (s + FieldP) % FieldP = s + FieldP
      BY <2>2, <3>1, <3>2
    <3>4. (s + FieldP) % FieldP = s % FieldP
      BY <1>1, <1>4, ModPlus
    <3> QED
      BY <2>1, <3>1, <3>3, <3>4
  <2> QED
    BY <1>1, <2>3, <2>4
<1> HIDE DEF s, d
<1>6. s = d
  BY <1>1, <1>3, <1>4, <1>5, ModUnique
<1> QED
  BY <1>6 DEF s, d

(* An input of an accepted proof is padding or a leaf that can be spent.   *)
LEMMA InputsSpendable ==
    ASSUME VaultInv, NEW p \in Proofs, NEW ext \in ExtData, NEW sender \in Users,
           Accepts(p, ext, sender)
    PROVE  \A k \in 1..2 : p.ins[k] \in LeafIds => p.ins[k] \in Spendable
<1>1. TypeOK /\ RootRing /\ initialized
  BY Zenon DEF VaultInv, Accepts, Admissible
<1>2. p.root \in 0..next
  BY <1>1, KnownRoots DEF Accepts
<1>3. \A k \in 1..2 : p.ins[k] \notin nullifiers
  BY DEF Accepts, Unspent
<1>4. \A k \in 1..2 : p.ins[k] \in LeafIds => p.ins[k] < p.root
  BY DEF Accepts, JoinSplit
<1>5. next \in Nat
  BY <1>1, ConstTypes DEF TypeOK
<1> QED
  BY <1>2, <1>3, <1>4, <1>5, ConstTypes DEF Spendable, LeafIds

(* How the ledger names an input, and what it is worth.                    *)
Coin(i)  == IF i \in LeafIds THEN i ELSE NoRoot
Worth(i) == IF i \in Spendable THEN leaf[i] ELSE 0

(* What an accepted call does to the notes: at most two of those that can  *)
(* be spent go, two come, and the field's equation is one of integers.     *)
LEMMA Movement ==
    ASSUME VaultInv, NEW p \in Proofs, NEW ext \in ExtData, NEW sender \in Users,
           Transact(p, ext, sender)
    PROVE  LET c1 == Coin(p.ins[1])
               c2 == Coin(p.ins[2])
           IN  /\ next \in Nat /\ next \in LeafIds /\ next + 1 \in LeafIds /\ next' = next + 2
               /\ next \notin Spendable /\ next + 1 \notin Spendable
               /\ p.outs[1] \in 0..MaxNote /\ p.outs[2] \in 0..MaxNote
               /\ c1 \in Spendable \cup {NoRoot} /\ c2 \in Spendable \cup {NoRoot}
               /\ c1 = c2 => c1 = NoRoot
               /\ p.outs[1] + p.outs[2] - Worth(c1) - Worth(c2) = Signed(ext)
               /\ tvl' = tvl + Signed(ext) /\ tvl + Signed(ext) >= 0
               /\ Spendable' = (Spendable \ {c1, c2}) \cup {next, next + 1}
               /\ \A i \in Spendable' : leaf'[i] = IF i = next THEN p.outs[1]
                                                  ELSE IF i = next + 1 THEN p.outs[2] ELSE leaf[i]
<1> DEFINE in1 == Coin(p.ins[1])
           in2 == Coin(p.ins[2])
<1>0. TypeOK /\ Accepts(p, ext, sender) /\ InsertBoth(p.outs)
  BY Zenon DEF VaultInv, Transact
<1>1. /\ next \in Nat /\ next + 2 <= Capacity
      /\ next \in LeafIds /\ next + 1 \in LeafIds
  <2>1. next \in 0..Capacity /\ ~IsFull
    BY <1>0, Zenon DEF Accepts, Admissible, TypeOK
  <2> QED
    BY <2>1, ConstTypes DEF IsFull, LeafIds
<1>2. p.outs[1] \in 0..MaxNote /\ p.outs[2] \in 0..MaxNote
  <2>1. JoinSplit(p)
    BY <1>0, Zenon DEF Accepts
  <2>2. p.outs[1] \in NoteAmounts /\ p.outs[2] \in NoteAmounts
    BY DEF Proofs
  <2>3. p.outs[1] <= MaxNote /\ p.outs[2] <= MaxNote
    BY <2>1 DEF JoinSplit
  <2>4. p.outs[1] \in 0..(FieldP - 1) /\ p.outs[2] \in 0..(FieldP - 1)
    BY <2>2, ArgTypes
  <2> QED
    BY <2>3, <2>4, ConstTypes
<1>3. NoRoot \notin LeafIds
  BY ConstTypes DEF NoRoot, LeafIds
<1>4. in1 \in Spendable \cup {NoRoot} /\ in2 \in Spendable \cup {NoRoot}
  BY <1>0, InputsSpendable DEF Coin
<1>5. in1 = in2 => in1 = NoRoot
  <2>1. p.ins[1] # p.ins[2]
    BY <1>0 DEF Accepts, JoinSplit
  <2> QED
    BY <2>1, <1>3 DEF Coin
<1>6. \A i \in LeafIds : i \in {p.ins[1], p.ins[2]} <=> i \in {in1, in2}
  BY <1>3 DEF Coin
<1>7. InAmount(p.ins[1]) = Worth(in1) /\ InAmount(p.ins[2]) = Worth(in2)
  <2>1. NoRoot \notin Spendable
    BY <1>3 DEF Spendable
  <2> QED
    BY <1>0, <2>1, InputsSpendable DEF InAmount, Coin, Worth
<1>8. Worth(in1) \in 0..MaxNote /\ Worth(in2) \in 0..MaxNote
  <2>1. leaf \in [LeafIds -> 0..MaxNote] /\ Spendable \subseteq LeafIds
    BY <1>0, Zenon DEF TypeOK, Spendable
  <2> QED
    BY <2>1, ConstTypes DEF Worth
<1>9. p.outs[1] + p.outs[2] - Worth(in1) - Worth(in2) = Signed(ext)
  <2>1. ext.amount \in ExtAmounts /\ ext.fee \in Fees
    BY DEF ExtData
  <2>2. PublicAmount(Signed(ext)) = ProvedAmount(p)
    BY <1>0, Zenon DEF Accepts
  <2>3. PublicAmount(ext.amount - ext.fee)
          = (p.outs[1] + p.outs[2] - Worth(in1) - Worth(in2)) % FieldP
    BY <1>7, <2>2, Zenon DEF ProvedAmount, Signed
  <2> HIDE DEF in1, in2
  <2> QED
    BY <1>2, <1>8, <2>1, <2>3, FieldSum DEF Signed
<1>10. /\ tvl' = tvl + Signed(ext) /\ tvl + Signed(ext) >= 0
       /\ next' = next + 2
       /\ leaf' = [leaf EXCEPT ![next] = p.outs[1], ![next + 1] = p.outs[2]]
       /\ nullifiers' = nullifiers \cup {p.ins[1], p.ins[2]}
  BY <1>0, Zenon DEF Transact, Accepts, Admissible, InsertBoth
<1>11. Spendable' = (Spendable \ {in1, in2}) \cup {next, next + 1}
  <2>1. \A i \in LeafIds : i >= next => i \notin nullifiers
    BY Zenon DEF VaultInv
  <2>2. Spendable' = {i \in LeafIds : i < next + 2 /\ i \notin nullifiers'}
    BY <1>10, Zenon DEF Spendable
  <2>3. \A i \in LeafIds : i \in nullifiers' <=> i \in nullifiers \/ i \in {in1, in2}
    BY <1>6, <1>10
  <2>4. in1 # next /\ in1 # next + 1 /\ in2 # next /\ in2 # next + 1
    BY <1>1, <1>4 DEF Spendable, NoRoot
  <2>5. LeafIds \subseteq Int
    BY DEF LeafIds
  <2> HIDE DEF in1, in2
  <2>6. \A i \in LeafIds :
           i < next + 2 <=> i < next \/ i = next \/ i = next + 1
    BY <1>1, <2>5
  <2>7. next \notin nullifiers /\ next + 1 \notin nullifiers
    BY <1>1, <2>1
  <2> QED
    BY <1>1, <2>2, <2>3, <2>4, <2>6, <2>7 DEF Spendable
<1>12. \A i \in Spendable' :
          leaf'[i] = IF i = next THEN p.outs[1]
                     ELSE IF i = next + 1 THEN p.outs[2] ELSE leaf[i]
  <2>1. leaf \in [LeafIds -> 0..MaxNote] /\ Spendable' \subseteq LeafIds
    BY <1>0, Zenon DEF TypeOK, Spendable
  <2> QED
    BY <1>1, <1>10, <2>1
<1>13. next \notin Spendable /\ next + 1 \notin Spendable
  BY <1>1 DEF Spendable
<1> QED
  BY <1>1, <1>2, <1>4, <1>5, <1>9, <1>10, <1>11, <1>12, <1>13

(* An accepted call moves coins exactly as the ledger allows.              *)
LEMMA TransactMoves ==
    ASSUME VaultInv, NEW p \in Proofs, NEW ext \in ExtData, NEW sender \in Users,
           Transact(p, ext, sender)
    PROVE  Ledger!Next
<1> DEFINE in1 == Coin(p.ins[1])
           in2 == Coin(p.ins[2])
           kept == Spendable \ {in1, in2}
<1>1. /\ next \in Nat /\ next \in LeafIds /\ next + 1 \in LeafIds /\ next' = next + 2
      /\ next \notin Spendable /\ next + 1 \notin Spendable
      /\ p.outs[1] \in 0..MaxNote /\ p.outs[2] \in 0..MaxNote
  BY Movement, Zenon
<1>2. /\ in1 \in Spendable \cup {NoRoot} /\ in2 \in Spendable \cup {NoRoot}
      /\ in1 = in2 => in1 = NoRoot
      /\ p.outs[1] + p.outs[2] - Worth(in1) - Worth(in2) = Signed(ext)
      /\ tvl' = tvl + Signed(ext) /\ tvl + Signed(ext) >= 0
  BY Movement, Zenon
<1>3. /\ Spendable' = kept \cup {next, next + 1}
      /\ \A i \in Spendable' : leaf'[i] = IF i = next THEN p.outs[1]
                                         ELSE IF i = next + 1 THEN p.outs[2] ELSE leaf[i]
  BY Movement, Zenon
<1> HIDE DEF in1, in2
<1>4. {i \in LeafIds : i < next}' = {i \in LeafIds : i < next} \cup {next, next + 1}
  <2>1. \A i \in LeafIds : i < next + 2 <=> i < next \/ i = next \/ i = next + 1
    BY <1>1 DEF LeafIds
  <2> QED
    BY <1>1, <2>1
<1>5. next \in LeafIds \ {i \in LeafIds : i < next} /\ next + 1 \in LeafIds \ {i \in LeafIds : i < next}
  BY <1>1
<1>6. Ledger!Live = Spendable
  BY DEF Ledger!Live
<1>7. \A i : Ledger!Worth(i) = Worth(i)
  BY <1>6 DEF Ledger!Worth, Worth
<1>8. [i \in Spendable |-> leaf[i]]' =
        [c \in kept \cup {next, next + 1} |->
            IF c = next THEN p.outs[1]
            ELSE IF c = next + 1 THEN p.outs[2]
            ELSE [i \in Spendable |-> leaf[i]][c]]
  <2>1. \A i \in kept : i # next /\ i # next + 1 /\ [j \in Spendable |-> leaf[j]][i] = leaf[i]
    BY <1>1
  <2> QED
    BY <1>3, <2>1
<1>9. Ledger!Move(in1, in2, next, next + 1, p.outs[1], p.outs[2])
  <2>1. next # next + 1
    BY <1>1
  <2>2. p.outs[1] + p.outs[2] - Ledger!Worth(in1) - Ledger!Worth(in2) = Signed(ext)
    BY <1>2, <1>7
  <2> QED
    BY <1>2, <1>4, <1>6, <1>8, <2>1, <2>2 DEF Ledger!Move, Ledger!Live
<1> QED
  BY <1>1, <1>2, <1>5, <1>6, <1>9 DEF Ledger!Next

(* The contract implements the book of coins: every accepted call is one   *)
(* movement of live coins, whatever roots, padding and proofs it used.     *)
THEOREM Refinement == Spec => ImplementsLedger
<1>1. Init => Ledger!Init
  <2> SUFFICES ASSUME Init PROVE Ledger!Init
    OBVIOUS
  <2>1. next = 0 /\ tvl = 0
    BY DEF Init
  <2>2. {i \in LeafIds : i < next} = {} /\ Spendable = {}
    BY <2>1, ConstTypes DEF LeafIds, Spendable
  <2> QED
    BY <2>1, <2>2 DEF Ledger!Init
<1>2. VaultInv /\ [Next]_vars => [Ledger!Next]_(Ledger!vars)
  <2> SUFFICES ASSUME VaultInv, [Next]_vars
               PROVE  Ledger!Next \/ UNCHANGED <<tvl, leaf, next, nullifiers>>
    BY DEF Ledger!vars, Spendable
  <2>1. ASSUME NEW m \in MaxDeposits, NEW c \in TvlCaps, InitPool(m, c)
        PROVE  UNCHANGED <<tvl, leaf, next, nullifiers>>
    <3>1. ~initialized
      BY <2>1, Zenon DEF InitPool
    <3>2. tvl = 0 /\ next = 0
      BY <3>1, Zenon DEF VaultInv, FreshBeforeInit
    <3> QED
      BY <2>1, <3>2 DEF InitPool
  <2>2. ASSUME NEW b \in BOOLEAN, SetPaused(b)
        PROVE  UNCHANGED <<tvl, leaf, next, nullifiers>>
    BY <2>2 DEF SetPaused, treeVars
  <2>3. CASE UNCHANGED vars
    BY <2>3 DEF vars
  <2> QED
    BY <2>1, <2>2, <2>3, NextCases, TransactMoves
<1> QED
  BY <1>1, <1>2, Invariance, PTL DEF Spec, ImplementsLedger, Ledger!Spec

(* What is checked of the contract as one: the invariant with its types,   *)
(* spends and custody, and a root that stays known for its window.         *)
THEOREM VaultIsSafe == Spec => []VaultSafe
BY Invariance, WindowExact, PTL DEF VaultSafe

-----------------------------------------------------------------------------
(* Conservation                                                            *)

LEMMA FiniteLeaves ==
    /\ IsFiniteSet(LeafIds) /\ NoRoot \notin LeafIds
    /\ \A S \in SUBSET LeafIds : IsFiniteSet(S)
<1>1. IsFiniteSet(LeafIds)
  BY FS_Interval, ConstTypes DEF LeafIds
<1>2. NoRoot \notin LeafIds
  BY DEF LeafIds, NoRoot
<1> QED
  BY <1>1, <1>2, FS_Subset

LEMMA ValueIsSum == \A S : ValueOf(S) = SumOf(leaf, S)
BY DEF ValueOf, SumOf

LEMMA BackedIsSum ==
    /\ Backed <=> tvl = SumOf(leaf, Spendable)
    /\ Backed' <=> tvl' = SumOf(leaf', Spendable')
<1>1. Backed <=> tvl = SumOf(leaf, Spendable)
  BY ValueIsSum DEF Backed
<1>2. Backed' <=> tvl' = SumOf(leaf', Spendable')
  BY DEF Backed, ValueOf, SumOf, FoldSet, MapThenFoldSet
<1> QED
  BY <1>1, <1>2

(* One input goes out of a set of notes with what it is worth.             *)
LEMMA TakeOut ==
    ASSUME NEW w, \A i \in LeafIds : w[i] \in Nat,
           NEW S \in SUBSET LeafIds, NEW c \in S \cup {NoRoot}
    PROVE  /\ SumOf(w, S) = (IF c \in S THEN w[c] ELSE 0) + SumOf(w, S \ {c})
           /\ SumOf(w, S \ {c}) \in Nat
<1>1. IsFiniteSet(S) /\ IsFiniteSet(S \ {c}) /\ S \ {c} \in SUBSET LeafIds /\ NoRoot \notin S
  BY FiniteLeaves
<1>2. \A R \in SUBSET LeafIds : IsFiniteSet(R) => SumOf(w, R) \in Nat
  BY SumNat, Zenon
<1>3. SumOf(w, S \ {c}) \in Nat
  BY <1>1, <1>2
<1>4. CASE c \in S
  <2>1. \A i \in LeafIds : w[i] \in Int
    OBVIOUS
  <2>2. \A R \in SUBSET LeafIds : IsFiniteSet(R) =>
           \A x \in R : SumOf(w, R) = w[x] + SumOf(w, R \ {x})
    <3> DEFINE D == LeafIds
    <3>1. \A i \in D : w[i] \in Int
      BY <2>1
    <3> HIDE DEF D
    <3>2. \A R \in SUBSET D : IsFiniteSet(R) => \A x \in R : SumOf(w, R) = w[x] + SumOf(w, R \ {x})
      BY <3>1, SumSplit, Zenon
    <3> QED
      BY <3>2, Zenon DEF D
  <2>3. SumOf(w, S) = w[c] + SumOf(w, S \ {c})
    BY <1>1, <1>4, <2>2
  <2> QED
    BY <1>3, <1>4, <2>3
<1>5. CASE c = NoRoot
  <2>1. S \ {c} = S
    BY <1>1, <1>5
  <2>2. (IF c \in S THEN w[c] ELSE 0) = 0
    BY <1>1, <1>5
  <2>3. SumOf(w, S) = SumOf(w, S \ {c})
    BY <2>1
  <2> QED
    BY <1>3, <2>2, <2>3
<1> QED
  BY <1>4, <1>5

(* Two outputs come in.                                                    *)
LEMMA PutIn ==
    ASSUME NEW w, \A i \in LeafIds : w[i] \in Nat,
           NEW S \in SUBSET LeafIds, NEW x \in LeafIds \ S, NEW y \in LeafIds \ S, x # y
    PROVE  SumOf(w, S \cup {x, y}) = w[x] + w[y] + SumOf(w, S)
<1>0. \A i \in LeafIds : w[i] \in Int
  OBVIOUS
<1>1. IsFiniteSet(S) /\ IsFiniteSet(S \cup {x}) /\ S \cup {x} \in SUBSET LeafIds /\ y \in LeafIds \ (S \cup {x})
  BY FiniteLeaves
<1>2. SumOf(w, S \cup {x}) = w[x] + SumOf(w, S)
  BY <1>0, <1>1, SumAdd
<1>3. SumOf(w, (S \cup {x}) \cup {y}) = w[y] + SumOf(w, S \cup {x})
  BY <1>0, <1>1, SumAdd
<1>4. (S \cup {x}) \cup {y} = S \cup {x, y}
  OBVIOUS
<1>5. \A R \in SUBSET LeafIds : IsFiniteSet(R) => SumOf(w, R) \in Nat
  BY SumNat, Zenon
<1>6. SumOf(w, S) \in Nat /\ w[x] \in Nat /\ w[y] \in Nat
  BY <1>1, <1>5
<1>7. SumOf(w, S \cup {x, y}) = w[y] + (w[x] + SumOf(w, S))
  BY <1>2, <1>3, <1>4
<1> DEFINE a == SumOf(w, S)
           b == SumOf(w, S \cup {x, y})
<1>8. b = w[y] + (w[x] + a) /\ a \in Nat
  BY <1>6, <1>7
<1> HIDE DEF a, b
<1>9. b = w[x] + w[y] + a
  BY <1>6, <1>8
<1> QED
  BY <1>9 DEF a, b

(* Backed, with what Exitable needs beside it: limits that bind, and       *)
(* amounts that fit the field.                                             *)
Limits ==
    initialized => maxDeposit > 0 /\ maxDeposit <= tvlCap /\ tvl <= tvlCap
Amounts == \A i \in LeafIds : i < next => leaf[i] \in NoteAmounts
Books == Backed /\ Limits /\ Amounts

LEMMA BackedMoves ==
    ASSUME VaultInv, TypeOK', Backed, NEW p \in Proofs, NEW ext \in ExtData, NEW sender \in Users,
           Transact(p, ext, sender)
    PROVE  Backed'
<1> DEFINE c1 == Coin(p.ins[1])
           c2 == Coin(p.ins[2])
           kept == Spendable \ {c1, c2}
           x == next
           y == next + 1
<1>1. /\ next \in Nat /\ x \in LeafIds /\ y \in LeafIds /\ next' = next + 2
      /\ x \notin Spendable /\ y \notin Spendable
      /\ p.outs[1] \in 0..MaxNote /\ p.outs[2] \in 0..MaxNote
  BY Movement, Zenon
<1>2. /\ c1 \in Spendable \cup {NoRoot} /\ c2 \in Spendable \cup {NoRoot}
      /\ c1 = c2 => c1 = NoRoot
      /\ p.outs[1] + p.outs[2] - Worth(c1) - Worth(c2) = Signed(ext)
      /\ tvl' = tvl + Signed(ext)
  BY Movement, Zenon
<1>3. /\ Spendable' = kept \cup {x, y}
      /\ \A i \in Spendable' : leaf'[i] = IF i = x THEN p.outs[1] ELSE IF i = y THEN p.outs[2] ELSE leaf[i]
  BY Movement, Zenon
<1> HIDE DEF c1, c2
<1>4. /\ \A i \in LeafIds : leaf[i] \in Nat /\ leaf'[i] \in Nat
      /\ Spendable \in SUBSET LeafIds /\ kept \in SUBSET LeafIds
  BY ConstTypes DEF VaultInv, TypeOK, Spendable
<1>5. SumOf(leaf, Spendable) = Worth(c1) + Worth(c2) + SumOf(leaf, kept) /\ SumOf(leaf, kept) \in Nat
  <2> DEFINE S == Spendable
             T == S \ {c1}
  <2>1. SumOf(leaf, S) = (IF c1 \in S THEN leaf[c1] ELSE 0) + SumOf(leaf, T) /\ SumOf(leaf, T) \in Nat
    BY <1>2, <1>4, TakeOut
  <2>2. T \in SUBSET LeafIds /\ c2 \in T \cup {NoRoot}
    BY <1>2, <1>4
  <2>3. SumOf(leaf, T) = (IF c2 \in T THEN leaf[c2] ELSE 0) + SumOf(leaf, T \ {c2}) /\ SumOf(leaf, T \ {c2}) \in Nat
    <3> HIDE DEF T
    <3> QED
      BY <1>4, <2>2, TakeOut
  <2>4. T \ {c2} = kept
    OBVIOUS
  <2>5. (IF c1 \in S THEN leaf[c1] ELSE 0) = Worth(c1)
    BY DEF Worth
  <2>6. (IF c2 \in T THEN leaf[c2] ELSE 0) = Worth(c2)
    <3>1. c2 \in T <=> c2 \in S
      BY <1>2, <1>4, FiniteLeaves
    <3> QED
      BY <3>1 DEF Worth
  <2>7. Worth(c1) \in Nat /\ Worth(c2) \in Nat
    BY <1>4 DEF Worth
  <2> DEFINE a == SumOf(leaf, S)
             b == SumOf(leaf, T)
             c == SumOf(leaf, kept)
  <2>8. a = Worth(c1) + b /\ b = Worth(c2) + c /\ c \in Nat
    BY <2>1, <2>3, <2>4, <2>5, <2>6
  <2> HIDE DEF a, b, c, S, T
  <2>9. a = Worth(c1) + Worth(c2) + c
    BY <2>7, <2>8
  <2> QED
    BY <2>8, <2>9 DEF a, c, S
<1>6. SumOf(leaf', kept) = SumOf(leaf, kept)
  <2>1. \A i \in kept : leaf'[i] = leaf[i]
    BY <1>1, <1>3
  <2>2. kept \in SUBSET kept /\ IsFiniteSet(kept)
    BY <1>4, FiniteLeaves
  <2>3. \A R \in SUBSET kept : IsFiniteSet(R) => SumOf(leaf', R) = SumOf(leaf, R)
    BY <2>1, SumSame, Zenon
  <2> QED
    BY <2>2, <2>3
<1>7. SumOf(leaf', Spendable') = p.outs[1] + p.outs[2] + SumOf(leaf, kept)
  <2>1. x \in LeafIds \ kept /\ y \in LeafIds \ kept /\ x # y
    BY <1>1
  <2>2. SumOf(leaf', kept \cup {x, y}) = leaf'[x] + leaf'[y] + SumOf(leaf', kept)
    <3> HIDE DEF kept, x, y
    <3> QED
      BY <1>4, <2>1, PutIn
  <2>3. leaf'[x] = p.outs[1] /\ leaf'[y] = p.outs[2]
    BY <1>1, <1>3
  <2> QED
    BY <1>3, <1>6, <2>2, <2>3
<1>8. tvl = SumOf(leaf, Spendable) /\ (Backed' <=> tvl' = SumOf(leaf', Spendable'))
  BY BackedIsSum
<1>9. Worth(c1) \in Nat /\ Worth(c2) \in Nat
  BY <1>4 DEF Worth
<1> DEFINE k == SumOf(leaf, kept)
<1>10. tvl = Worth(c1) + Worth(c2) + k /\ k \in Nat /\ SumOf(leaf', Spendable') = p.outs[1] + p.outs[2] + k
  BY <1>5, <1>7, <1>8
<1> HIDE DEF k, kept
<1>11. Signed(ext) \in Int
  BY ExtTypes
<1> QED
  BY <1>1, <1>2, <1>8, <1>9, <1>10, <1>11, ConstTypes

LEMMA BooksStep ==
    ASSUME VaultInv, TypeOK', Books, [Next]_vars PROVE Books'
<1>1. Backed /\ Limits /\ Amounts /\ TypeOK
  BY DEF Books, VaultInv
<1>2. ASSUME NEW m \in MaxDeposits, NEW c \in TvlCaps, InitPool(m, c) PROVE Books'
  <2>1. /\ maxDeposit' = m /\ tvlCap' = c /\ m > 0 /\ c >= m /\ tvl' = 0 /\ next' = 0
    BY <1>2 DEF InitPool
  <2>2. m \in Int /\ c \in Int
    BY ArgTypes
  <2>3. Spendable' = {}
    BY <2>1 DEF Spendable, LeafIds
  <2>4. Backed'
    BY <2>1, <2>3, SumEmpty, BackedIsSum
  <2> QED
    BY <2>1, <2>2, <2>4 DEF Books, Limits, Amounts, LeafIds
<1>3. ASSUME NEW b \in BOOLEAN, SetPaused(b) PROVE Books'
  <2>1. UNCHANGED <<initialized, maxDeposit, tvlCap, tvl, nullifiers, leaf, next>>
    BY <1>3 DEF SetPaused, configVars, treeVars
  <2>2. Spendable' = Spendable
    BY <2>1 DEF Spendable
  <2>3. Backed'
    BY <1>1, <2>1, <2>2, BackedIsSum
  <2> QED
    BY <1>1, <2>1, <2>3 DEF Books, Limits, Amounts
<1>4. ASSUME NEW p \in Proofs, NEW ext \in ExtData, NEW sender \in Users, Transact(p, ext, sender)
      PROVE  Books'
  <2>1. Backed'
    BY <1>1, <1>4, BackedMoves
  <2>2. Limits'
    <3>1. /\ initialized /\ tvl + Signed(ext) <= tvlCap /\ tvl' = tvl + Signed(ext)
          /\ maxDeposit' = maxDeposit /\ tvlCap' = tvlCap
      BY <1>4, Zenon DEF Transact, Accepts, Admissible, configVars
    <3> QED
      BY <1>1, <3>1 DEF Limits
  <2>3. Amounts'
    <3>1. InsertBoth(p.outs)
      BY <1>4, Zenon DEF Transact
    <3>2. next \in Nat /\ next \in LeafIds /\ next + 1 \in LeafIds
      BY <1>4, Movement, Zenon
    <3>3. leaf' = [leaf EXCEPT ![next] = p.outs[1], ![next + 1] = p.outs[2]] /\ next' = next + 2
      BY <3>1, Zenon DEF InsertBoth
    <3>4. p.outs[1] \in NoteAmounts /\ p.outs[2] \in NoteAmounts
      BY DEF Proofs
    <3> SUFFICES ASSUME NEW i \in LeafIds, i < next + 2 PROVE leaf'[i] \in NoteAmounts
      BY <3>3 DEF Amounts
    <3>5. i < next \/ i = next \/ i = next + 1
      BY <3>2 DEF LeafIds
    <3>6. leaf \in [LeafIds -> 0..MaxNote] /\ (i < next => leaf[i] \in NoteAmounts)
      BY <1>1 DEF Amounts, TypeOK
    <3> QED
      BY <3>2, <3>3, <3>4, <3>5, <3>6
  <2> QED
    BY <2>1, <2>2, <2>3 DEF Books
<1>5. CASE UNCHANGED vars
  <2>1. UNCHANGED <<initialized, maxDeposit, tvlCap, tvl, nullifiers, leaf, next>>
    BY <1>5 DEF vars
  <2>2. Spendable' = Spendable
    BY <2>1 DEF Spendable
  <2>3. Backed'
    BY <1>1, <2>1, <2>2, BackedIsSum
  <2> QED
    BY <1>1, <2>1, <2>3 DEF Books, Limits, Amounts
<1> QED
  BY <1>2, <1>3, <1>4, <1>5, NextCases

THEOREM BooksHold == Spec => []Books
<1>1. Init => Books
  <2> SUFFICES ASSUME Init PROVE Books
    OBVIOUS
  <2>1. next = 0 /\ tvl = 0 /\ initialized = FALSE
    BY DEF Init
  <2>2. Spendable = {}
    BY <2>1 DEF Spendable, LeafIds
  <2>3. Backed
    BY <2>1, <2>2, SumEmpty, ValueIsSum DEF Backed
  <2> QED
    BY <2>1, <2>3 DEF Books, Limits, Amounts, LeafIds
<1>2. VaultInv /\ TypeOK' /\ Books /\ [Next]_vars => Books'
  BY BooksStep
<1> QED
  BY <1>1, <1>2, Invariance, Typing, PTL DEF Spec

(* Nothing is minted or lost: after any calls, in any order, with any      *)
(* proofs, the TVL is the value of the notes that can still be spent.      *)
THEOREM ValueConserved == Spec => []Backed
BY BooksHold, PTL DEF Books

(* The exit is provable: the public amount of a withdrawal of one whole    *)
(* note is what the circuit computes from it.                              *)
LEMMA ExitBalances ==
    ASSUME NEW l \in 0..(FieldP - 1) PROVE PublicAmount(0 - l) = (0 + 0 - l - 0) % FieldP
<1>1. FieldP \in Nat \ {0} /\ l \in Nat
  BY ConstTypes
<1>2. CASE l = 0
  <2>1. PublicAmount(0 - l) = 0 /\ 0 + 0 - l - 0 = FieldP * 0 + 0
    BY <1>1, <1>2 DEF PublicAmount
  <2>2. (FieldP * 0 + 0) % FieldP = 0
    BY <1>1, ModIs
  <2> QED
    BY <2>1, <2>2
<1>3. CASE l # 0
  <2>1. PublicAmount(0 - l) = FieldP - l /\ FieldP - l \in 0..(FieldP - 1)
    BY <1>1, <1>3 DEF PublicAmount
  <2>2. 0 + 0 - l - 0 = FieldP * (-1) + (FieldP - l)
    BY <1>1
  <2>3. (FieldP * (-1) + (FieldP - l)) % FieldP = FieldP - l
    BY <1>1, <2>1, ModIs
  <2> QED
    BY <2>1, <2>2, <2>3
<1> QED
  BY <1>2, <1>3

(* Every check of transact lets the exit of an unspent note pass.          *)
LEMMA ExitPasses ==
    ASSUME VaultInv, Books, initialized, ~paused, ~IsFull, ~(Dummies \subseteq nullifiers),
           NEW i \in Spendable, NEW u \in Users
    PROVE  Accepts(FullExit(i, u), FullExit(i, u).bound, u)
<1> DEFINE ext == [amount |-> -leaf[i], fee |-> 0, recipient |-> u, relayer |-> u]
           d == CHOOSE e \in Dummies : e \notin nullifiers
           p == [root |-> next, ins |-> <<i, d>>, outs |-> <<0, 0>>, bound |-> ext]
<1>1. FullExit(i, u) = p /\ p.bound = ext /\ p.root = next /\ p.outs = <<0, 0>>
  BY DEF FullExit
<1>2. d \in Dummies /\ d \notin nullifiers
  OBVIOUS
<1>3. i \in LeafIds /\ i < next /\ i \notin nullifiers /\ next \in Nat /\ i \in Nat
  BY ConstTypes DEF VaultInv, TypeOK, Spendable, LeafIds
<1>4. d \notin LeafIds /\ d # i
  <2>1. d \notin Int
    BY <1>2, VaultAssumptions, Zenon
  <2> HIDE DEF d
  <2> QED
    BY <1>3, <2>1 DEF LeafIds
<1> HIDE DEF d
<1>5. leaf[i] \in 0..(FieldP - 1) /\ leaf[i] \in Nat /\ leaf[i] <= tvl
  <2>1. leaf[i] \in NoteAmounts
    BY <1>3 DEF Books, Amounts
  <2>2. leaf[i] \in 0..(FieldP - 1)
    BY <2>1, ArgTypes
  <2>3. \A j \in LeafIds : leaf[j] \in Nat
    BY ConstTypes DEF VaultInv, TypeOK
  <2>4. Spendable \in SUBSET LeafIds /\ IsFiniteSet(Spendable)
    BY FiniteLeaves DEF Spendable
  <2>5. leaf[i] <= SumOf(leaf, Spendable)
    BY <2>3, <2>4, SumCovers
  <2>6. tvl = SumOf(leaf, Spendable)
    BY BackedIsSum DEF Books
  <2> QED
    BY <2>2, <2>5, <2>6, ConstTypes
<1>6. ext.amount = -leaf[i] /\ ext.fee = 0 /\ Signed(ext) = 0 - leaf[i]
  BY <1>5 DEF Signed
<1>7. /\ tvl \in Nat /\ custody = tvl /\ maxDeposit \in Int /\ tvlCap \in Int
      /\ maxDeposit > 0 /\ maxDeposit <= tvlCap /\ tvl <= tvlCap
  BY DEF VaultInv, TypeOK, Custody, Books, Limits
<1> HIDE DEF ext
<1>8. Admissible(ext, u)
  <2>1. Covered(ext, u)
    BY <1>5, <1>6, <1>7 DEF Covered
  <2>2. ext.fee >= 0 /\ ext.amount <= maxDeposit /\ tvl + Signed(ext) >= 0 /\ tvl + Signed(ext) <= tvlCap
    BY <1>5, <1>6, <1>7
  <2> QED
    BY <2>1, <2>2 DEF Admissible
<1>9. IsKnownRoot(next)
  <2>1. RingHolds(roots, next)
    BY DEF VaultInv, RootRing
  <2>2. next \in 0..next /\ next - next < RootHistory /\ next % RootHistory \in Slots
    BY <1>3, ConstTypes, DivMod DEF Slots
  <2>3. roots[next % RootHistory] = next
    BY <2>1, <2>2 DEF RingHolds
  <2> QED
    BY <1>3, <2>2, <2>3 DEF IsKnownRoot, NoRoot
<1>10. p.ins[1] = i /\ p.ins[2] = d /\ p.outs[1] = 0 /\ p.outs[2] = 0
  OBVIOUS
<1>11. Unspent(p)
  BY <1>2, <1>3, <1>10 DEF Unspent
<1>12. PublicAmount(Signed(ext)) = ProvedAmount(p)
  <2>1. InAmount(p.ins[1]) = leaf[i] /\ InAmount(p.ins[2]) = 0
    BY <1>3, <1>4, <1>10 DEF InAmount
  <2>2. ProvedAmount(p) = (0 + 0 - leaf[i] - 0) % FieldP
    BY <1>10, <2>1, Zenon DEF ProvedAmount
  <2>3. PublicAmount(0 - leaf[i]) = (0 + 0 - leaf[i] - 0) % FieldP
    BY <1>5, ExitBalances
  <2> QED
    BY <1>6, <2>2, <2>3
<1>13. JoinSplit(p)
  BY <1>1, <1>3, <1>4, <1>10, ConstTypes DEF JoinSplit
<1> QED
  BY <1>1, <1>8, <1>9, <1>11, <1>12, <1>13 DEF Accepts, HashMatches

(* No note is stuck: whoever holds an unspent note of an open pool with    *)
(* room in its tree can withdraw all of it at once, whatever limits the    *)
(* pool was given and whatever happened before.                            *)
THEOREM NoNoteStuck == Spec => []Exitable
<1>1. VaultInv /\ Books => Exitable
  BY ExitPasses DEF Exitable
<1> QED
  BY <1>1, Invariance, BooksHold, PTL

-----------------------------------------------------------------------------
(* The keeper.                                                             *)

(* The constants, one by one.                                              *)
LEMMA RentTypes ==
    /\ Horizon \in Nat /\ THRESHOLD \in Nat /\ EXTEND_TO \in Nat
    /\ MinTtl \in Nat /\ Slack \in Nat /\ MaxFailed \in Nat
    /\ Interval \in Nat /\ Interval > 0
    /\ THRESHOLD <= EXTEND_TO
BY RentAssumptions DEF RentAssumptions

(* What a call must leave, for each count of failures so far.              *)
LEMMA Budget ==
    /\ \A k \in Nat : (MaxFailed - k) * Round \in Int
    /\ \A k \in Nat : (MaxFailed - k) * Round = (MaxFailed - (k + 1)) * Round + Round
    /\ (MaxFailed + 1) * Round = (MaxFailed - 0) * Round + Round
    /\ \A k \in 0..MaxFailed : (MaxFailed - k) * Round >= 0
<1> DEFINE R == Round
<1>1. R \in Nat
  BY RentTypes DEF Round
<1>2. MaxFailed \in Nat
  BY RentTypes
<1>3. \A k \in Nat : (MaxFailed - k) * R \in Int
  BY <1>1, <1>2
<1>4. \A k \in Nat : (MaxFailed - k) * R = (MaxFailed - (k + 1)) * R + R
  BY <1>1, <1>2
<1>5. (MaxFailed + 1) * R = (MaxFailed - 0) * R + R
  BY <1>1, <1>2
<1>6. \A k \in 0..MaxFailed : (MaxFailed - k) * R >= 0
  BY <1>1, <1>2
<1> QED
  BY <1>3, <1>4, <1>5, <1>6

(* extend_ttl returns a ledger that is no earlier, and far enough away.    *)
LEMMA ExtendedBounds ==
    ASSUME RentTypeOK, NEW e \in Entries
    PROVE  /\ Extended(e) \in Nat
           /\ Extended(e) >= liveUntil[e]
           /\ Extended(e) >= now + THRESHOLD
BY RentTypes DEF RentTypeOK, Extended

(* The types are inductive.                                                *)
LEMMA TypingStep == RentTypeOK /\ [RentNext]_rentVars => RentTypeOK'
<1> SUFFICES ASSUME RentTypeOK, [RentNext]_rentVars PROVE RentTypeOK'
  OBVIOUS
<1>1. ASSUME BumpTtl PROVE liveUntil' \in [Entries -> Nat]
  BY <1>1, ExtendedBounds DEF BumpTtl, RentTypeOK
<1>2. CASE AnyoneBumps
  BY <1>1, <1>2 DEF AnyoneBumps, RentTypeOK
<1>3. CASE KeeperBumps
  BY <1>1, <1>3, RentTypes DEF KeeperBumps, RentTypeOK
<1>4. CASE KeeperFails
  BY <1>4, RentTypes DEF KeeperFails, RentTypeOK
<1>5. CASE KeeperRestarts
  BY <1>5 DEF KeeperRestarts, RentTypeOK
<1>6. CASE \E e \in Entries : Restore(e)
  BY <1>6, RentTypes DEF Restore, RentTypeOK
<1>7. CASE LedgerCloses
  BY <1>7 DEF LedgerCloses, RentTypeOK
<1>8. CASE UNCHANGED rentVars
  BY <1>8 DEF rentVars, RentTypeOK
<1> QED
  BY <1>2, <1>3, <1>4, <1>5, <1>6, <1>7, <1>8 DEF RentNext

(* An entry bump_ttl extends has, after the call, all that a keeper with   *)
(* enough margin needs until its next call.                                *)
LEMMA BumpCovers ==
    ASSUME RentTypeOK, Margin, BumpTtl, NEW e \in Bumped
    PROVE  /\ liveUntil'[e] >= liveUntil[e]
           /\ now + (MaxFailed - 0) * Round + Round <= liveUntil'[e]
<1>1. liveUntil'[e] = Extended(e) /\ e \in Entries
  BY DEF BumpTtl, Entries
<1>2. (MaxFailed - 0) * Round + Round <= THRESHOLD
  BY Budget DEF Margin
<1>3. (MaxFailed - 0) * Round \in Int /\ Round \in Nat /\ now \in Nat
  BY Budget, RentTypes DEF Round, RentTypeOK
<1>4. Extended(e) \in Nat /\ Extended(e) >= liveUntil[e] /\ Extended(e) >= now + THRESHOLD
  BY <1>1, ExtendedBounds
<1> QED
  BY <1>1, <1>2, <1>3, <1>4, RentTypes

(* Coverage is inductive, action by action.                                *)
LEMMA CoverageStep == RentTypeOK /\ Margin /\ RentCovered /\ [RentNext]_rentVars => RentCovered'
<1> SUFFICES ASSUME RentTypeOK, Margin, RentCovered, [RentNext]_rentVars PROVE RentCovered'
  OBVIOUS
<1> DEFINE B(k) == (MaxFailed - k) * Round
<1>1. /\ \A k \in Nat : B(k) \in Int
      /\ \A k \in Nat : B(k) = B(k + 1) + Round
      /\ \A k \in 0..MaxFailed : B(k) >= 0
  BY Budget
<1>2. Round = Interval + Slack /\ Interval \in Nat /\ Slack \in Nat /\ MaxFailed \in Nat
  BY RentTypes DEF Round
<1>3. /\ now \in Nat /\ nextCall \in Nat /\ failed \in 0..MaxFailed
      /\ \A e \in Bumped : liveUntil[e] \in Nat
  BY DEF RentTypeOK, Entries
<1>4. /\ now <= nextCall + Slack /\ nextCall <= now + Interval
      /\ \A e \in Bumped : nextCall + Slack + B(failed) <= liveUntil[e]
  BY DEF RentCovered
<1>5. SUFFICES /\ now' <= nextCall' + Slack /\ nextCall' <= now' + Interval
               /\ \A e \in Bumped : nextCall' + Slack + B(failed') <= liveUntil'[e]
  BY DEF RentCovered
<1>6. ASSUME BumpTtl
      PROVE  \A e \in Bumped : /\ liveUntil'[e] >= liveUntil[e]
                               /\ now + B(0) + Round <= liveUntil'[e]
                               /\ liveUntil'[e] \in Nat
  BY <1>6, BumpCovers, ExtendedBounds DEF BumpTtl, Entries
<1> HIDE DEF B
<1>7. CASE AnyoneBumps
  <2>1. now' = now /\ nextCall' = nextCall /\ failed' = failed /\ BumpTtl
    BY <1>7 DEF AnyoneBumps
  <2> QED
    BY <2>1, <1>1, <1>2, <1>3, <1>4, <1>6
<1>8. CASE KeeperBumps
  <2>1. now' = now /\ nextCall' = now + Interval /\ failed' = 0 /\ BumpTtl
    BY <1>8 DEF KeeperBumps
  <2> QED
    BY <2>1, <1>1, <1>2, <1>3, <1>6
<1>9. CASE KeeperFails
  <2>1. /\ now' = now /\ nextCall' = now + Interval /\ failed' = failed + 1
        /\ liveUntil' = liveUntil /\ B(failed) = B(failed + 1) + Round
        /\ B(failed + 1) \in Int
    BY <1>9, <1>1, <1>3 DEF KeeperFails
  <2> QED
    BY <2>1, <1>2, <1>3, <1>4
<1>10. CASE KeeperRestarts
  <2>1. now < nextCall /\ now' = now /\ nextCall' = now /\ failed' = failed /\ liveUntil' = liveUntil
    BY <1>10 DEF KeeperRestarts
  <2> QED
    BY <2>1, <1>1, <1>2, <1>3, <1>4
<1>11. CASE \E e \in Entries : Restore(e)
  <2>1. PICK r \in Entries : Restore(r)
    BY <1>11
  <2>2. now' = now /\ nextCall' = nextCall /\ failed' = failed /\ now > liveUntil[r]
    BY <2>1, <1>3 DEF Restore, Live, RentTypeOK
  <2>3. r \notin Bumped
    BY <2>2, <1>1, <1>2, <1>3, <1>4
  <2>4. \A e \in Bumped : liveUntil'[e] = liveUntil[e]
    BY <2>1, <2>3 DEF Restore, RentTypeOK, Entries
  <2> QED
    BY <2>2, <2>4, <1>4
<1>12. CASE LedgerCloses
  BY <1>12, <1>1, <1>2, <1>3, <1>4 DEF LedgerCloses
<1>13. CASE UNCHANGED rentVars
  BY <1>13, <1>4 DEF rentVars
<1> QED
  BY <1>7, <1>8, <1>9, <1>10, <1>11, <1>12, <1>13 DEF RentNext

(* The inductive invariant: types, and coverage given enough margin.       *)
THEOREM RentInvariance == RentSpec => []RentInv
<1>1. RentInit => RentInv
  <2> SUFFICES ASSUME RentInit PROVE RentInv
    OBVIOUS
  <2>1. RentTypeOK
    BY RentTypes DEF RentInit, RentTypeOK
  <2>2. ASSUME Margin PROVE RentCovered
    <3>1. (MaxFailed - 0) * Round + Round <= MinTtl
      BY <2>2, Budget DEF Margin
    <3>2. (MaxFailed - 0) * Round \in Int
      BY Budget
    <3> DEFINE b == (MaxFailed - 0) * Round
    <3>3. \A e \in Bumped : liveUntil[e] = MinTtl
      BY DEF RentInit, Entries
    <3> HIDE DEF b
    <3>4. now = 0 /\ nextCall \in 0..Interval /\ failed = 0
      BY DEF RentInit
    <3>5. nextCall + Slack + b <= MinTtl
      BY <3>1, <3>2, <3>4, RentTypes DEF b, Round
    <3> QED
      BY <3>3, <3>4, <3>5, RentTypes DEF RentCovered, b
  <2> QED
    BY <2>1, <2>2 DEF RentInv
<1>2. RentInv /\ [RentNext]_rentVars => RentInv'
  <2>1. Margin' = Margin
    BY DEF Margin, Round
  <2> QED
    BY <2>1, TypingStep, CoverageStep DEF RentInv
<1> QED
  BY <1>1, <1>2, PTL DEF RentSpec

(* With enough margin, the tree and the instance never archive, whoever    *)
(* else bumps them, whenever the keeper restarts and whichever of the      *)
(* allowed failures happen.                                                *)
THEOREM KeeperSuffices == Margin => (RentSpec => []PoolLive)
<1> SUFFICES ASSUME Margin PROVE RentSpec => []PoolLive
  OBVIOUS
<1>1. RentInv => PoolLive
  <2> SUFFICES ASSUME RentInv, NEW e \in Bumped PROVE now <= liveUntil[e]
    BY DEF PoolLive, Live
  <2>1. RentTypeOK /\ RentCovered
    BY DEF RentInv
  <2>2. (MaxFailed - failed) * Round \in Int /\ (MaxFailed - failed) * Round >= 0
    BY <2>1, Budget, RentTypes DEF RentTypeOK
  <2> DEFINE b == (MaxFailed - failed) * Round
  <2>3. now <= nextCall + Slack /\ nextCall + Slack + b <= liveUntil[e] /\ b >= 0 /\ b \in Int
    BY <2>1, <2>2 DEF RentCovered
  <2> HIDE DEF b
  <2>4. now \in Nat /\ nextCall \in Nat /\ liveUntil[e] \in Nat
    BY <2>1 DEF RentTypeOK, Entries
  <2> QED
    BY <2>3, <2>4, RentTypes
<1> QED
  BY <1>1, RentInvariance, PTL

(* No step, by the keeper or anyone, brings an entry's end nearer.         *)
THEOREM BumpOnlyProlongs == RentSpec => OnlyProlongs
<1>1. RentTypeOK /\ [RentNext]_rentVars => [\A e \in Entries : liveUntil'[e] >= liveUntil[e]]_rentVars
  <2> SUFFICES ASSUME RentTypeOK, RentNext, NEW e \in Entries PROVE liveUntil'[e] >= liveUntil[e]
    BY DEF rentVars
  <2>1. ASSUME BumpTtl PROVE liveUntil'[e] >= liveUntil[e]
    BY <2>1, ExtendedBounds DEF BumpTtl, RentTypeOK
  <2>2. ASSUME NEW r \in Entries, Restore(r) PROVE liveUntil'[e] >= liveUntil[e]
    BY <2>2, RentTypes DEF Restore, Live, RentTypeOK
  <2>3. ASSUME liveUntil' = liveUntil PROVE liveUntil'[e] >= liveUntil[e]
    BY <2>3 DEF RentTypeOK
  <2> QED
    BY <2>1, <2>2, <2>3 DEF RentNext, AnyoneBumps, KeeperBumps, KeeperFails, KeeperRestarts, LedgerCloses
<1>2. RentInv => RentTypeOK
  BY DEF RentInv
<1> QED
  BY <1>1, <1>2, RentInvariance, PTL DEF RentSpec, OnlyProlongs

(* The rent invariant and the liveness of the entries it is for, together. *)
THEOREM RentIsSafe == Margin => (RentSpec => []RentSafe)
BY RentInvariance, KeeperSuffices, PTL DEF RentSafe

-----------------------------------------------------------------------------
(* The key registries.                                                     *)

Records == [version : Versions, value : Values]

(* At most one record per key, without counting.                           *)
Single == \A k \in Keys : \A e, f \in entry[k] : e = f

Typed ==
    /\ entry \in [Keys -> SUBSET Records]
    /\ inFlight \subseteq Calls
    /\ applied \subseteq Calls

(* Single makes LatestWins inductive: a call that is stale against one     *)
(* record is stale against every record of its key.                        *)
Inductive == Typed /\ Single /\ LatestWins

RecordOf(call) == [version |-> call.version, value |-> call.value]

-----------------------------------------------------------------------------
LEMMA CallFields ==
    ASSUME NEW call \in Calls
    PROVE  /\ call.key \in Keys /\ call.version \in Int /\ RecordOf(call) \in Records
           /\ call = [key |-> call.key, version |-> call.version, value |-> call.value]
<1>1. call.key \in Keys /\ call.version \in Versions /\ call.value \in Values
  BY DEF Calls
<1>2. call = [key |-> call.key, version |-> call.version, value |-> call.value]
  BY DEF Calls
<1> QED
  BY <1>1, <1>2, RegistryAssumptions DEF Records, RecordOf

(* What an accepted call leaves: its own record under its key.             *)
LEMMA SetEntry ==
    ASSUME NEW call \in Calls, Set(call), Typed
    PROVE  /\ entry' \in [Keys -> SUBSET Records]
           /\ entry'[call.key] = {RecordOf(call)}
           /\ \A k \in Keys \ {call.key} : entry'[k] = entry[k]
  BY CallFields DEF Set, Typed, RecordOf

LEMMA TypedStep ==
    ASSUME Typed, [RegistryNext]_registryVars PROVE Typed'
<1>1. ASSUME NEW call \in Calls, Sign(call) PROVE Typed'
  BY <1>1 DEF Sign, Typed
<1>2. ASSUME NEW call \in Calls, Register(call) PROVE Typed'
  BY <1>2, SetEntry DEF Register, Typed
<1>3. CASE UNCHANGED registryVars
  BY <1>3 DEF registryVars, Typed
<1> QED
  BY <1>1, <1>2, <1>3 DEF RegistryNext

LEMMA SingleStep ==
    ASSUME Inductive, [RegistryNext]_registryVars PROVE Single'
<1> SUFFICES ASSUME NEW k \in Keys, NEW e \in entry'[k], NEW f \in entry'[k] PROVE e = f
  BY DEF Single
<1>1. ASSUME NEW call \in Calls, Register(call), Set(call) PROVE e = f
  BY <1>1, SetEntry DEF Inductive, Single
<1>2. ASSUME entry' = entry PROVE e = f
  BY <1>2 DEF Inductive, Single
<1> QED
  BY <1>1, <1>2 DEF RegistryNext, Register, Sign, registryVars

(* LatestWins, one key at a time.                                          *)
Wins(k, stored, seen) ==
    /\ {call \in seen : call.key = k} = {} <=> stored = {}
    /\ \A e \in stored, call \in seen :
          call.key = k => /\ call.version <= e.version
                          /\ [key |-> k, version |-> e.version, value |-> e.value] \in seen

LEMMA LatestIsWins == LatestWins <=> \A k \in Keys : Wins(k, entry[k], applied)
  BY DEF LatestWins, Wins, SeenFor

LEMMA LatestStep ==
    ASSUME Inductive, [RegistryNext]_registryVars PROVE LatestWins'
<1>0. \A k \in Keys : Wins(k, entry[k], applied)
  BY LatestIsWins DEF Inductive
<1> SUFFICES ASSUME NEW k \in Keys PROVE Wins(k, entry'[k], applied')
  BY DEF LatestWins, Wins, SeenFor
<1>1. ASSUME NEW call \in Calls, Register(call), Stale(call) PROVE Wins(k, entry'[k], applied')
  <2>1. entry' = entry /\ applied' = applied \cup {call}
    BY <1>1 DEF Register
  <2>2. CASE k # call.key
    BY <1>0, <2>1, <2>2 DEF Wins
  <2>3. CASE k = call.key
    <3>1. PICK prev \in entry[k] : call.version <= prev.version
      BY <1>1, <2>3 DEF Stale
    <3>2. \A e \in entry[k] : call.version <= e.version
      BY <3>1 DEF Inductive, Single
    <3>3. \E seen \in applied : seen.key = k
      BY <1>0, <3>1 DEF Wins
    <3> QED
      BY <1>0, <2>1, <2>3, <3>1, <3>2, <3>3 DEF Wins
  <2> QED
    BY <2>2, <2>3
<1>2. ASSUME NEW call \in Calls, Register(call), ~Stale(call) PROVE Wins(k, entry'[k], applied')
  <2>1. Set(call) /\ applied' = applied \cup {call}
    BY <1>2 DEF Register
  <2>2. CASE k # call.key
    <3>1. entry'[k] = entry[k]
      BY <2>1, <2>2, SetEntry DEF Inductive
    <3> QED
      BY <1>0, <2>1, <2>2, <3>1 DEF Wins
  <2>3. CASE k = call.key
    <3>1. entry'[k] = {RecordOf(call)}
      BY <2>1, <2>3, SetEntry DEF Inductive
    <3>2. ASSUME NEW seen \in applied, seen.key = k PROVE seen.version <= call.version
      <4>0. seen \in {c \in applied : c.key = k}
        BY <3>2
      <4>5. {c \in applied : c.key = k} = {} <=> entry[k] = {}
        BY <1>0, Zenon DEF Wins
      <4>6. entry[k] # {}
        BY <4>0, <4>5, Zenon
      <4>1. PICK e \in entry[k] : TRUE
        BY <4>6, Zenon
      <4>4. seen.version <= e.version
        BY <1>0, <3>2, <4>1, Zenon DEF Wins
      <4>2. ~(call.version <= e.version)
        BY <1>2, <2>3 DEF Stale
      <4>3. e.version \in Int /\ seen.version \in Int /\ call.version \in Int
        BY RegistryAssumptions, CallFields DEF Inductive, Typed, Records
      <4> QED
        BY <4>2, <4>3, <4>4
    <3>3. call.version <= call.version
      BY CallFields
    <3>4. [key |-> k, version |-> RecordOf(call).version, value |-> RecordOf(call).value] = call
      BY <2>3, CallFields DEF RecordOf
    <3>5. RecordOf(call).version = call.version
      BY DEF RecordOf
    <3> QED
      BY <2>1, <2>3, <3>1, <3>2, <3>3, <3>4, <3>5 DEF Wins
  <2> QED
    BY <2>2, <2>3
<1>3. ASSUME entry' = entry, applied' = applied PROVE Wins(k, entry'[k], applied')
  BY <1>0, <1>3
<1> QED
  BY <1>1, <1>2, <1>3 DEF RegistryNext, Register, Sign, registryVars

(* One record at most is a cardinality of at most one.                     *)
LEMMA SingleCounts ==
    ASSUME Inductive, NEW k \in Keys PROVE Cardinality(entry[k]) <= 1
<1>1. CASE entry[k] = {}
  BY <1>1, FS_EmptySet
<1>2. CASE entry[k] # {}
  <2>1. PICK e \in entry[k] : TRUE
    BY <1>2
  <2>2. entry[k] = {e}
    BY <2>1 DEF Inductive, Single
  <2> QED
    BY <2>2, FS_Singleton
<1> QED
  BY <1>1, <1>2

LEMMA RegistryInductive == RegistrySpec => []Inductive
<1>1. RegistryInit => Inductive
  BY DEF RegistryInit, Inductive, Typed, Single, LatestWins, SeenFor, Records
<1>2. Inductive /\ [RegistryNext]_registryVars => Inductive'
  BY TypedStep, SingleStep, LatestStep DEF Inductive
<1> QED
  BY <1>1, <1>2, PTL DEF RegistrySpec

(* One record per owner and kind, the latest applied, in whatever order    *)
(* the owner's calls reach the ledger.                                     *)
THEOREM LatestStored == RegistrySpec => []RegistryInv
<1>1. Inductive => RegistryInv
  BY SingleCounts DEF Inductive, Typed, Records, RegistryInv, RegistryTypeOK
<1> QED
  BY <1>1, RegistryInductive, PTL

(* A published version keeps its value: the record changes only to one of  *)
(* a later version.                                                        *)
THEOREM PublishedIsFinal == RegistrySpec => VersionIsFinal
<1>1. Inductive /\ [RegistryNext]_registryVars
        => [\A k \in Keys : \A e \in entry[k], f \in entry'[k] : e = f \/ e.version < f.version]_registryVars
  <2> SUFFICES ASSUME Inductive, RegistryNext, NEW k \in Keys, NEW e \in entry[k], NEW f \in entry'[k]
               PROVE  e = f \/ e.version < f.version
    BY DEF registryVars
  <2>1. ASSUME NEW call \in Calls, Register(call), ~Stale(call) PROVE e = f \/ e.version < f.version
    <3>1. Set(call)
      BY <2>1 DEF Register
    <3>2. CASE k = call.key
      <4>1. f.version = call.version
        BY <3>1, <3>2, SetEntry DEF Inductive, RecordOf
      <4>2. ~(call.version <= e.version)
        BY <2>1, <3>2 DEF Stale
      <4>3. e.version \in Int /\ call.version \in Int
        BY RegistryAssumptions, CallFields DEF Inductive, Typed, Records
      <4> QED
        BY <4>1, <4>2, <4>3
    <3>3. CASE k # call.key
      BY <3>1, <3>3, SetEntry DEF Inductive, Single
    <3> QED
      BY <3>2, <3>3
  <2>2. ASSUME entry' = entry PROVE e = f
    BY <2>2 DEF Inductive, Single
  <2> QED
    BY <2>1, <2>2 DEF RegistryNext, Register, Sign
<1> QED
  BY <1>1, RegistryInductive, PTL DEF RegistrySpec, VersionIsFinal

-----------------------------------------------------------------------------
(* The tree of commitments.  Recursive functions are known by their        *)
(* equations only once they are known to exist: each is made here from a   *)
(* function on 0..n that is extended to n + 1.                             *)

(* What the constants are.                                                 *)
LEMMA TreeNumbers == DEPTH \in Nat \ {0} /\ ROOT_HISTORY \in Nat \ {0} /\ ROOT_HISTORY > 1 /\ 0 \notin Commitments
BY TreeAssumptions DEF TreeAssumptions

(* Powers of two, level by level. *)
LEMMA PowersExist ==
    Pow2 = [l \in 0..DEPTH |-> IF l = 0 THEN 1 ELSE 2 * Pow2[l - 1]]
<1> DEFINE Above(l, x) == 2 * x
           Is(f, q) == f = [l \in 0..q |-> IF l = 0 THEN 1 ELSE Above(l, f[l - 1])]
           G == {q \in Nat : \E f : Is(f, q)}
<1> HIDE DEF Above
<1>1. 0 \in G
  <2>1. Is([l \in 0..0 |-> 1], 0)
    OBVIOUS
  <2> QED
    BY <2>1
<1>2. ASSUME NEW q \in Nat, q \in G PROVE q + 1 \in G
  <2>1. PICK h : Is(h, q)
    BY <1>2
  <2> DEFINE g == [l \in 0..(q + 1) |-> IF l = q + 1 THEN Above(q + 1, h[q]) ELSE h[l]]
  <2>2. ASSUME NEW l \in 0..(q + 1) PROVE g[l] = IF l = 0 THEN 1 ELSE Above(l, g[l - 1])
    <3>1. CASE l = q + 1
      <4>1. l # 0 /\ l - 1 = q /\ q \in 0..(q + 1) /\ q # q + 1
        BY <3>1
      <4>2. g[l - 1] = h[q]
        BY <4>1
      <4> QED
        BY <3>1, <4>1, <4>2
    <3>2. CASE l # q + 1
      <4>1. l \in 0..q /\ g[l] = h[l]
        BY <3>2
      <4>2. h[l] = IF l = 0 THEN 1 ELSE Above(l, h[l - 1])
        BY <2>1, <4>1
      <4>3. l # 0 => g[l - 1] = h[l - 1]
        BY <4>1
      <4> QED
        BY <4>1, <4>2, <4>3
    <3> QED
      BY <3>1, <3>2
  <2>3. g = [l \in 0..(q + 1) |-> g[l]]
    OBVIOUS
  <2>4. Is(g, q + 1)
    <3> HIDE DEF g
    <3>1. [l \in 0..(q + 1) |-> g[l]] = [l \in 0..(q + 1) |-> IF l = 0 THEN 1 ELSE Above(l, g[l - 1])]
      BY <2>2
    <3> QED
      BY <2>3, <3>1
  <2> HIDE DEF g
  <2>5. q + 1 \in Nat /\ \E f : Is(f, q + 1)
    BY <2>4
  <2> QED
    BY <2>5
<1> HIDE DEF G
<1>3. DEPTH \in G
  BY <1>1, <1>2, SetInduction, TreeNumbers
<1>4. \E f : Is(f, DEPTH)
  BY <1>3 DEF G
<1> QED
  BY <1>4, Zenon DEF Above, Pow2

(* Halving an index, level by level. *)
LEMMA HalvedExist ==
    Halved = [l \in 0..DEPTH |-> IF l = 0 THEN [i \in Row(0) |-> i] ELSE [i \in Row(0) |-> Halved[l - 1][i] \div 2]]
<1> DEFINE Above(l, x) == [i \in Row(0) |-> x[i] \div 2]
           Is(f, q) == f = [l \in 0..q |-> IF l = 0 THEN [i \in Row(0) |-> i] ELSE Above(l, f[l - 1])]
           G == {q \in Nat : \E f : Is(f, q)}
<1> HIDE DEF Above
<1>1. 0 \in G
  <2>1. Is([l \in 0..0 |-> [i \in Row(0) |-> i]], 0)
    OBVIOUS
  <2> QED
    BY <2>1
<1>2. ASSUME NEW q \in Nat, q \in G PROVE q + 1 \in G
  <2>1. PICK h : Is(h, q)
    BY <1>2
  <2> DEFINE g == [l \in 0..(q + 1) |-> IF l = q + 1 THEN Above(q + 1, h[q]) ELSE h[l]]
  <2>2. ASSUME NEW l \in 0..(q + 1) PROVE g[l] = IF l = 0 THEN [i \in Row(0) |-> i] ELSE Above(l, g[l - 1])
    <3>1. CASE l = q + 1
      <4>1. l # 0 /\ l - 1 = q /\ q \in 0..(q + 1) /\ q # q + 1
        BY <3>1
      <4>2. g[l - 1] = h[q]
        BY <4>1
      <4> QED
        BY <3>1, <4>1, <4>2
    <3>2. CASE l # q + 1
      <4>1. l \in 0..q /\ g[l] = h[l]
        BY <3>2
      <4>2. h[l] = IF l = 0 THEN [i \in Row(0) |-> i] ELSE Above(l, h[l - 1])
        BY <2>1, <4>1
      <4>3. l # 0 => g[l - 1] = h[l - 1]
        BY <4>1
      <4> QED
        BY <4>1, <4>2, <4>3
    <3> QED
      BY <3>1, <3>2
  <2>3. g = [l \in 0..(q + 1) |-> g[l]]
    OBVIOUS
  <2>4. Is(g, q + 1)
    <3> HIDE DEF g
    <3>1. [l \in 0..(q + 1) |-> g[l]] = [l \in 0..(q + 1) |-> IF l = 0 THEN [i \in Row(0) |-> i] ELSE Above(l, g[l - 1])]
      BY <2>2
    <3> QED
      BY <2>3, <3>1
  <2> HIDE DEF g
  <2>5. q + 1 \in Nat /\ \E f : Is(f, q + 1)
    BY <2>4
  <2> QED
    BY <2>5
<1> HIDE DEF G
<1>3. DEPTH \in G
  BY <1>1, <1>2, SetInduction, TreeNumbers
<1>4. \E f : Is(f, DEPTH)
  BY <1>3 DEF G
<1> QED
  BY <1>4, Zenon DEF Above, Halved

(* The hashes of empty subtrees, level by level. *)
LEMMA ZerosExist ==
    Zeros = [l \in 0..DEPTH |-> IF l = 0 THEN Leaf(0) ELSE HashPair(Zeros[l - 1], Zeros[l - 1])]
<1> DEFINE Above(l, x) == HashPair(x, x)
           Is(f, q) == f = [l \in 0..q |-> IF l = 0 THEN Leaf(0) ELSE Above(l, f[l - 1])]
           G == {q \in Nat : \E f : Is(f, q)}
<1> HIDE DEF Above
<1>1. 0 \in G
  <2>1. Is([l \in 0..0 |-> Leaf(0)], 0)
    OBVIOUS
  <2> QED
    BY <2>1
<1>2. ASSUME NEW q \in Nat, q \in G PROVE q + 1 \in G
  <2>1. PICK h : Is(h, q)
    BY <1>2
  <2> DEFINE g == [l \in 0..(q + 1) |-> IF l = q + 1 THEN Above(q + 1, h[q]) ELSE h[l]]
  <2>2. ASSUME NEW l \in 0..(q + 1) PROVE g[l] = IF l = 0 THEN Leaf(0) ELSE Above(l, g[l - 1])
    <3>1. CASE l = q + 1
      <4>1. l # 0 /\ l - 1 = q /\ q \in 0..(q + 1) /\ q # q + 1
        BY <3>1
      <4>2. g[l - 1] = h[q]
        BY <4>1
      <4> QED
        BY <3>1, <4>1, <4>2
    <3>2. CASE l # q + 1
      <4>1. l \in 0..q /\ g[l] = h[l]
        BY <3>2
      <4>2. h[l] = IF l = 0 THEN Leaf(0) ELSE Above(l, h[l - 1])
        BY <2>1, <4>1
      <4>3. l # 0 => g[l - 1] = h[l - 1]
        BY <4>1
      <4> QED
        BY <4>1, <4>2, <4>3
    <3> QED
      BY <3>1, <3>2
  <2>3. g = [l \in 0..(q + 1) |-> g[l]]
    OBVIOUS
  <2>4. Is(g, q + 1)
    <3> HIDE DEF g
    <3>1. [l \in 0..(q + 1) |-> g[l]] = [l \in 0..(q + 1) |-> IF l = 0 THEN Leaf(0) ELSE Above(l, g[l - 1])]
      BY <2>2
    <3> QED
      BY <2>3, <3>1
  <2> HIDE DEF g
  <2>5. q + 1 \in Nat /\ \E f : Is(f, q + 1)
    BY <2>4
  <2> QED
    BY <2>5
<1> HIDE DEF G
<1>3. DEPTH \in G
  BY <1>1, <1>2, SetInduction, TreeNumbers
<1>4. \E f : Is(f, DEPTH)
  BY <1>3 DEF G
<1> QED
  BY <1>4, Zenon DEF Above, Zeros

(* The climb from a leaf, level by level. *)
LEMMA ClimbExists ==
    ASSUME NEW i, NEW bottom, NEW sibling
    PROVE  Climb(i, bottom, sibling) =
               [l \in 0..DEPTH |-> IF l = 0 THEN bottom
                    ELSE IF IsLeft(i, l - 1) THEN HashPair(Climb(i, bottom, sibling)[l - 1], sibling[l - 1])
                                             ELSE HashPair(sibling[l - 1], Climb(i, bottom, sibling)[l - 1])]
<1> DEFINE Above(l, x) == IF IsLeft(i, l - 1) THEN HashPair(x, sibling[l - 1]) ELSE HashPair(sibling[l - 1], x)
           Is(f, q) == f = [l \in 0..q |-> IF l = 0 THEN bottom ELSE Above(l, f[l - 1])]
           G == {q \in Nat : \E f : Is(f, q)}
<1> HIDE DEF Above
<1>1. 0 \in G
  <2>1. Is([l \in 0..0 |-> bottom], 0)
    OBVIOUS
  <2> QED
    BY <2>1
<1>2. ASSUME NEW q \in Nat, q \in G PROVE q + 1 \in G
  <2>1. PICK h : Is(h, q)
    BY <1>2
  <2> DEFINE g == [l \in 0..(q + 1) |-> IF l = q + 1 THEN Above(q + 1, h[q]) ELSE h[l]]
  <2>2. ASSUME NEW l \in 0..(q + 1) PROVE g[l] = IF l = 0 THEN bottom ELSE Above(l, g[l - 1])
    <3>1. CASE l = q + 1
      <4>1. l # 0 /\ l - 1 = q /\ q \in 0..(q + 1) /\ q # q + 1
        BY <3>1
      <4>2. g[l - 1] = h[q]
        BY <4>1
      <4> QED
        BY <3>1, <4>1, <4>2
    <3>2. CASE l # q + 1
      <4>1. l \in 0..q /\ g[l] = h[l]
        BY <3>2
      <4>2. h[l] = IF l = 0 THEN bottom ELSE Above(l, h[l - 1])
        BY <2>1, <4>1
      <4>3. l # 0 => g[l - 1] = h[l - 1]
        BY <4>1
      <4> QED
        BY <4>1, <4>2, <4>3
    <3> QED
      BY <3>1, <3>2
  <2>3. g = [l \in 0..(q + 1) |-> g[l]]
    OBVIOUS
  <2>4. Is(g, q + 1)
    <3> HIDE DEF g
    <3>1. [l \in 0..(q + 1) |-> g[l]] = [l \in 0..(q + 1) |-> IF l = 0 THEN bottom ELSE Above(l, g[l - 1])]
      BY <2>2
    <3> QED
      BY <2>3, <3>1
  <2> HIDE DEF g
  <2>5. q + 1 \in Nat /\ \E f : Is(f, q + 1)
    BY <2>4
  <2> QED
    BY <2>5
<1> HIDE DEF G
<1>3. DEPTH \in G
  BY <1>1, <1>2, SetInduction, TreeNumbers
<1>4. \E f : Is(f, DEPTH)
  BY <1>3 DEF G
<1> QED
  BY <1>4, Zenon DEF Above, Climb

(* The rows of the full tree, from the leaves up. *)
LEMMA FullTreeExists ==
    ASSUME NEW s, NEW n
    PROVE  FullTree(s, n) =
               [l \in 0..DEPTH |-> IF l = 0 THEN [k \in Row(0) |-> Leaf(IF k < n THEN s[k + 1] ELSE 0)]
                    ELSE [k \in Row(l) |-> HashPair(FullTree(s, n)[l - 1][2 * k], FullTree(s, n)[l - 1][2 * k + 1])]]
<1> DEFINE Above(l, x) == [k \in Row(l) |-> HashPair(x[2 * k], x[2 * k + 1])]
           Is(f, q) == f = [l \in 0..q |-> IF l = 0 THEN [k \in Row(0) |-> Leaf(IF k < n THEN s[k + 1] ELSE 0)] ELSE Above(l, f[l - 1])]
           G == {q \in Nat : \E f : Is(f, q)}
<1> HIDE DEF Above
<1>1. 0 \in G
  <2>1. Is([l \in 0..0 |-> [k \in Row(0) |-> Leaf(IF k < n THEN s[k + 1] ELSE 0)]], 0)
    OBVIOUS
  <2> QED
    BY <2>1
<1>2. ASSUME NEW q \in Nat, q \in G PROVE q + 1 \in G
  <2>1. PICK h : Is(h, q)
    BY <1>2
  <2> DEFINE g == [l \in 0..(q + 1) |-> IF l = q + 1 THEN Above(q + 1, h[q]) ELSE h[l]]
  <2>2. ASSUME NEW l \in 0..(q + 1) PROVE g[l] = IF l = 0 THEN [k \in Row(0) |-> Leaf(IF k < n THEN s[k + 1] ELSE 0)] ELSE Above(l, g[l - 1])
    <3>1. CASE l = q + 1
      <4>1. l # 0 /\ l - 1 = q /\ q \in 0..(q + 1) /\ q # q + 1
        BY <3>1
      <4>2. g[l - 1] = h[q]
        BY <4>1
      <4> QED
        BY <3>1, <4>1, <4>2
    <3>2. CASE l # q + 1
      <4>1. l \in 0..q /\ g[l] = h[l]
        BY <3>2
      <4>2. h[l] = IF l = 0 THEN [k \in Row(0) |-> Leaf(IF k < n THEN s[k + 1] ELSE 0)] ELSE Above(l, h[l - 1])
        BY <2>1, <4>1
      <4>3. l # 0 => g[l - 1] = h[l - 1]
        BY <4>1
      <4> QED
        BY <4>1, <4>2, <4>3
    <3> QED
      BY <3>1, <3>2
  <2>3. g = [l \in 0..(q + 1) |-> g[l]]
    OBVIOUS
  <2>4. Is(g, q + 1)
    <3> HIDE DEF g
    <3>1. [l \in 0..(q + 1) |-> g[l]] = [l \in 0..(q + 1) |-> IF l = 0 THEN [k \in Row(0) |-> Leaf(IF k < n THEN s[k + 1] ELSE 0)] ELSE Above(l, g[l - 1])]
      BY <2>2
    <3> QED
      BY <2>3, <3>1
  <2> HIDE DEF g
  <2>5. q + 1 \in Nat /\ \E f : Is(f, q + 1)
    BY <2>4
  <2> QED
    BY <2>5
<1> HIDE DEF G
<1>3. DEPTH \in G
  BY <1>1, <1>2, SetInduction, TreeNumbers
<1>4. \E f : Is(f, DEPTH)
  BY <1>3 DEF G
<1> QED
  BY <1>4, Zenon DEF Above, FullTree

(* The powers double from level to level.                                  *)
LEMMA Powers ==
    /\ Pow2[0] = 1
    /\ \A l \in Levels : l + 1 \in 0..DEPTH /\ l \in 0..DEPTH /\ Pow2[l + 1] = 2 * Pow2[l]
    /\ \A l \in 0..DEPTH : Pow2[l] \in Nat \ {0}
<1>1. 0 \in 0..DEPTH /\ Pow2[0] = 1
  BY PowersExist, TreeNumbers
<1>2. ASSUME NEW l \in Levels PROVE l + 1 \in 0..DEPTH /\ l \in 0..DEPTH /\ Pow2[l + 1] = 2 * Pow2[l]
  <2>1. l + 1 \in 0..DEPTH /\ l \in 0..DEPTH /\ l + 1 # 0 /\ (l + 1) - 1 = l
    BY TreeNumbers DEF Levels
  <2>2. Pow2[l + 1] = 2 * Pow2[(l + 1) - 1]
    BY <2>1, PowersExist
  <2> QED
    BY <2>1, <2>2
<1> DEFINE G == {q \in Nat : q <= DEPTH => Pow2[q] \in Nat \ {0}}
<1>3. 0 \in G
  BY <1>1
<1>4. ASSUME NEW q \in Nat, q \in G PROVE q + 1 \in G
  <2> SUFFICES ASSUME q + 1 <= DEPTH PROVE Pow2[q + 1] \in Nat \ {0}
    OBVIOUS
  <2>a. q \in Levels /\ q \in 0..DEPTH /\ q <= DEPTH
    BY TreeNumbers DEF Levels
  <2>1. q \in Levels /\ q \in 0..DEPTH /\ Pow2[q] \in Nat \ {0}
    BY <2>a, <1>4
  <2>2. Pow2[q + 1] = 2 * Pow2[q]
    BY <2>1, <1>2
  <2> QED
    BY <2>1, <2>2
<1> HIDE DEF G
<1>5. \A q \in Nat : q \in G
  BY <1>3, <1>4, SetInduction
<1> QED
  BY <1>1, <1>2, <1>5, TreeNumbers DEF G

(* A row has two nodes for each node of the row above.                     *)
LEMMA Rows ==
    /\ Row(DEPTH) = {0} /\ Row(0) = 0 .. Width - 1 /\ Width \in Nat \ {0} /\ DEPTH \in 0..DEPTH /\ 0 \in 0..DEPTH
    /\ \A l \in Levels : \A k \in Row(l + 1) : k \in Nat /\ 2 * k \in Row(l) /\ 2 * k + 1 \in Row(l)
    /\ \A l \in Levels : \A k \in Row(l) : k \in Nat /\ k \div 2 \in Row(l + 1)
<1>1. DEPTH \in 0..DEPTH /\ 0 \in 0..DEPTH /\ DEPTH - DEPTH = 0 /\ DEPTH - 0 = DEPTH
  BY TreeNumbers
<1>2. Row(DEPTH) = {0} /\ Row(0) = 0 .. Width - 1 /\ Width \in Nat \ {0}
  BY <1>1, Powers DEF Row, Width
<1>3. ASSUME NEW l \in Levels
      PROVE  Pow2[DEPTH - l] = 2 * Pow2[DEPTH - (l + 1)] /\ Pow2[DEPTH - (l + 1)] \in Nat \ {0}
  <2>1. DEPTH - (l + 1) \in Levels /\ (DEPTH - (l + 1)) + 1 = DEPTH - l
    BY TreeNumbers DEF Levels
  <2>2. Pow2[(DEPTH - (l + 1)) + 1] = 2 * Pow2[DEPTH - (l + 1)] /\ DEPTH - (l + 1) \in 0..DEPTH
    BY <2>1, Powers
  <2> QED
    BY <2>1, <2>2, Powers
<1>4. ASSUME NEW l \in Levels, NEW k \in Row(l + 1)
      PROVE  k \in Nat /\ 2 * k \in Row(l) /\ 2 * k + 1 \in Row(l)
  <2> DEFINE P == Pow2[DEPTH - (l + 1)]
             R == Pow2[DEPTH - l]
  <2>1. R = 2 * P /\ P \in Nat \ {0}
    BY <1>3
  <2>2. k \in 0 .. P - 1
    BY DEF Row
  <2> HIDE DEF P, R
  <2>3. k \in Nat /\ 2 * k \in 0 .. R - 1 /\ 2 * k + 1 \in 0 .. R - 1
    BY <2>1, <2>2
  <2> QED
    BY <2>3 DEF R, Row
<1>5. ASSUME NEW l \in Levels, NEW k \in Row(l)
      PROVE  k \in Nat /\ k \div 2 \in Row(l + 1)
  <2> DEFINE P == Pow2[DEPTH - (l + 1)]
             R == Pow2[DEPTH - l]
  <2>1. R = 2 * P /\ P \in Nat \ {0}
    BY <1>3
  <2>2. k \in 0 .. R - 1
    BY DEF Row
  <2> HIDE DEF P, R
  <2>3. k \in Nat /\ k \div 2 \in 0 .. P - 1
    BY <2>1, <2>2
  <2> QED
    BY <2>3 DEF P, Row
<1> QED
  BY <1>1, <1>2, <1>4, <1>5

(* The ancestors of an index, and the sibling of each.                     *)
LEMMA Ancestors ==
    ASSUME NEW i \in Row(0)
    PROVE  /\ Ancestor(i, 0) = i
           /\ \A l \in Levels : Ancestor(i, l + 1) = Ancestor(i, l) \div 2
           /\ \A l \in 0..DEPTH : Ancestor(i, l) \in Row(l)
           /\ Ancestor(i, DEPTH) = 0
<1>1. Ancestor(i, 0) = i
  <2>1. Halved[0] = [j \in Row(0) |-> j]
    BY HalvedExist, Rows
  <2> QED
    BY <2>1 DEF Ancestor
<1>2. ASSUME NEW l \in Levels PROVE Ancestor(i, l + 1) = Ancestor(i, l) \div 2
  <2>1. l + 1 \in 0..DEPTH /\ l + 1 # 0 /\ (l + 1) - 1 = l
    BY TreeNumbers DEF Levels
  <2>2. Halved[l + 1] = [j \in Row(0) |-> Halved[l][j] \div 2]
    BY <2>1, HalvedExist
  <2> QED
    BY <2>2 DEF Ancestor
<1> DEFINE G == {q \in Nat : q <= DEPTH => Ancestor(i, q) \in Row(q)}
<1>3. 0 \in G
  BY <1>1
<1>4. ASSUME NEW q \in Nat, q \in G PROVE q + 1 \in G
  <2> SUFFICES ASSUME q + 1 <= DEPTH PROVE Ancestor(i, q + 1) \in Row(q + 1)
    OBVIOUS
  <2>a. q \in Levels /\ q \in 0..DEPTH /\ q <= DEPTH
    BY TreeNumbers DEF Levels
  <2>1. q \in Levels /\ q \in 0..DEPTH /\ Ancestor(i, q) \in Row(q)
    BY <2>a, <1>4
  <2>2. Ancestor(i, q) \div 2 \in Row(q + 1)
    BY <2>1, Rows
  <2> QED
    BY <2>1, <2>2, <1>2
<1> HIDE DEF G
<1>5. \A q \in Nat : q \in G
  BY <1>3, <1>4, SetInduction
<1>6. \A l \in 0..DEPTH : Ancestor(i, l) \in Row(l)
  BY <1>5, TreeNumbers DEF G
<1>7. Ancestor(i, DEPTH) = 0
  BY <1>6, Rows
<1> QED
  BY <1>1, <1>2, <1>6, <1>7

LEMMA Siblings ==
    ASSUME NEW i \in Row(0), NEW l \in Levels
    PROVE  /\ l \in 0..DEPTH /\ l + 1 \in 0..DEPTH
           /\ Ancestor(i, l) \in Row(l) /\ Ancestor(i, l + 1) \in Row(l + 1)
           /\ SiblingOf(i, l) \in Row(l) /\ SiblingOf(i, l) # Ancestor(i, l)
           /\ IsLeft(i, l) => /\ Ancestor(i, l) = 2 * Ancestor(i, l + 1)
                              /\ SiblingOf(i, l) = 2 * Ancestor(i, l + 1) + 1
                              /\ SiblingOf(i, l) = Ancestor(i, l) + 1
           /\ ~IsLeft(i, l) => /\ Ancestor(i, l) = 2 * Ancestor(i, l + 1) + 1
                               /\ SiblingOf(i, l) = 2 * Ancestor(i, l + 1)
                               /\ SiblingOf(i, l) = Ancestor(i, l) - 1
<1> DEFINE a == Ancestor(i, l)
           p == Ancestor(i, l + 1)
<1>1. l \in 0..DEPTH /\ l + 1 \in 0..DEPTH
  BY Powers
<1>2. a \in Row(l) /\ p = a \div 2 /\ p \in Row(l + 1)
  BY <1>1, Ancestors
<1>3. a \in Nat /\ 2 * p \in Row(l) /\ 2 * p + 1 \in Row(l) /\ p \in Nat
  BY <1>2, Rows
<1>4. SiblingOf(i, l) = (IF a % 2 = 0 THEN a + 1 ELSE a - 1) /\ (IsLeft(i, l) <=> a % 2 = 0)
  BY DEF SiblingOf, IsLeft
<1> HIDE DEF a, p
<1>5. a % 2 = 0 => a = 2 * p /\ a + 1 = 2 * p + 1
  BY <1>2, <1>3
<1>6. a % 2 # 0 => a = 2 * p + 1 /\ a - 1 = 2 * p
  BY <1>2, <1>3
<1>7. SiblingOf(i, l) \in Row(l) /\ SiblingOf(i, l) # a
  BY <1>3, <1>4, <1>5, <1>6
<1> QED
  BY <1>1, <1>2, <1>4, <1>5, <1>6, <1>7 DEF a, p

(* The next index has the same ancestor or the next one.                   *)
LEMMA NextAncestor ==
    ASSUME NEW i \in Row(0), i + 1 \in Row(0)
    PROVE  \A l \in 0..DEPTH : Ancestor(i + 1, l) \in {Ancestor(i, l), Ancestor(i, l) + 1}
<1> DEFINE G == {q \in Nat : q <= DEPTH => Ancestor(i + 1, q) \in {Ancestor(i, q), Ancestor(i, q) + 1}}
<1>1. 0 \in G
  BY Ancestors
<1>2. ASSUME NEW q \in Nat, q \in G PROVE q + 1 \in G
  <2> SUFFICES ASSUME q + 1 <= DEPTH PROVE Ancestor(i + 1, q + 1) \in {Ancestor(i, q + 1), Ancestor(i, q + 1) + 1}
    OBVIOUS
  <2>a. q \in Levels /\ q \in 0..DEPTH /\ q <= DEPTH
    BY TreeNumbers DEF Levels
  <2>1. q \in Levels /\ q \in 0..DEPTH /\ Ancestor(i + 1, q) \in {Ancestor(i, q), Ancestor(i, q) + 1}
    BY <2>a, <1>2
  <2>2. Ancestor(i, q + 1) = Ancestor(i, q) \div 2 /\ Ancestor(i, q) \in Row(q)
    BY <2>1, Ancestors
  <2>3. Ancestor(i + 1, q + 1) = Ancestor(i + 1, q) \div 2
    BY <2>1, Ancestors
  <2>4. Ancestor(i, q) \in Nat
    BY <2>1, <2>2, Rows
  <2> QED
    BY <2>1, <2>2, <2>3, <2>4
<1> HIDE DEF G
<1>3. \A q \in Nat : q \in G
  BY <1>1, <1>2, SetInduction
<1> QED
  BY <1>3, TreeNumbers DEF G

(* One step of the climb.                                                  *)
LEMMA Climbs ==
    ASSUME NEW i, NEW bottom, NEW sibling
    PROVE  /\ Climb(i, bottom, sibling)[0] = bottom
           /\ \A l \in Levels :
                 Climb(i, bottom, sibling)[l + 1] =
                     IF IsLeft(i, l) THEN HashPair(Climb(i, bottom, sibling)[l], sibling[l])
                                     ELSE HashPair(sibling[l], Climb(i, bottom, sibling)[l])
<1> DEFINE c == Climb(i, bottom, sibling)
<1>1. c = [l \in 0..DEPTH |-> IF l = 0 THEN bottom
                    ELSE IF IsLeft(i, l - 1) THEN HashPair(c[l - 1], sibling[l - 1])
                                             ELSE HashPair(sibling[l - 1], c[l - 1])]
  BY ClimbExists
<1> HIDE DEF c
<1>2. c[0] = bottom
  BY <1>1, Rows
<1>3. ASSUME NEW l \in Levels
      PROVE  c[l + 1] = IF IsLeft(i, l) THEN HashPair(c[l], sibling[l]) ELSE HashPair(sibling[l], c[l])
  <2>1. l + 1 \in 0..DEPTH /\ l + 1 # 0 /\ (l + 1) - 1 = l
    BY TreeNumbers DEF Levels
  <2> QED
    BY <1>1, <2>1
<1> QED
  BY <1>2, <1>3 DEF c

(* The rows of the full tree.                                              *)
LEMMA TreeRows ==
    ASSUME NEW s, NEW n
    PROVE  /\ \A k \in Row(0) : FullTree(s, n)[0][k] = Leaf(IF k < n THEN s[k + 1] ELSE 0)
           /\ \A l \in Levels : \A k \in Row(l + 1) :
                 FullTree(s, n)[l + 1][k] = HashPair(FullTree(s, n)[l][2 * k], FullTree(s, n)[l][2 * k + 1])
           /\ FullTree(s, n) = [l \in 0..DEPTH |-> FullTree(s, n)[l]]
           /\ \A l \in 0..DEPTH : FullTree(s, n)[l] = [k \in Row(l) |-> FullTree(s, n)[l][k]]
<1> DEFINE t == FullTree(s, n)
<1>1. t = [l \in 0..DEPTH |-> IF l = 0 THEN [k \in Row(0) |-> Leaf(IF k < n THEN s[k + 1] ELSE 0)]
                    ELSE [k \in Row(l) |-> HashPair(t[l - 1][2 * k], t[l - 1][2 * k + 1])]]
  BY FullTreeExists
<1> HIDE DEF t
<1>2. t[0] = [k \in Row(0) |-> Leaf(IF k < n THEN s[k + 1] ELSE 0)]
  BY <1>1, Rows
<1>3. ASSUME NEW l \in Levels
      PROVE  t[l + 1] = [k \in Row(l + 1) |-> HashPair(t[l][2 * k], t[l][2 * k + 1])]
  <2>1. l + 1 \in 0..DEPTH /\ l + 1 # 0 /\ (l + 1) - 1 = l
    BY TreeNumbers DEF Levels
  <2> QED
    BY <1>1, <2>1
<1>4. \A k \in Row(0) : t[0][k] = Leaf(IF k < n THEN s[k + 1] ELSE 0)
  BY <1>2
<1>5. \A l \in Levels : \A k \in Row(l + 1) : t[l + 1][k] = HashPair(t[l][2 * k], t[l][2 * k + 1])
  BY <1>3
<1>6. t = [l \in 0..DEPTH |-> t[l]]
  BY <1>1
<1>7. ASSUME NEW l \in 0..DEPTH PROVE t[l] = [k \in Row(l) |-> t[l][k]]
  <2>1. CASE l = 0
    BY <1>2, <2>1
  <2>2. CASE l # 0
    <3>1. l - 1 \in Levels /\ (l - 1) + 1 = l
      BY <2>2, TreeNumbers DEF Levels
    <3>2. t[l] = [k \in Row(l) |-> HashPair(t[l - 1][2 * k], t[l - 1][2 * k + 1])]
      BY <1>3, <3>1
    <3> QED
      BY <3>2
  <2> QED
    BY <2>1, <2>2
<1> QED
  BY <1>4, <1>5, <1>6, <1>7 DEF t

LEMMA ZeroRows == Zeros[0] = Leaf(0) /\ \A l \in Levels : Zeros[l + 1] = HashPair(Zeros[l], Zeros[l])
<1>1. Zeros[0] = Leaf(0)
  BY ZerosExist, Rows
<1>2. ASSUME NEW l \in Levels PROVE Zeros[l + 1] = HashPair(Zeros[l], Zeros[l])
  <2>1. l + 1 \in 0..DEPTH /\ l + 1 # 0 /\ (l + 1) - 1 = l
    BY TreeNumbers DEF Levels
  <2> QED
    BY <2>1, ZerosExist
<1> QED
  BY <1>1, <1>2

(* A subtree to the right of all leaves is empty.                          *)
LEMMA EmptySubtree ==
    ASSUME NEW s, NEW n \in 0..Width
    PROVE  \A l \in 0..DEPTH : \A k \in Row(l) :
               n = 0 \/ Ancestor(n - 1, l) < k => FullTree(s, n)[l][k] = Zeros[l]
<1> DEFINE Right(q, k) == n = 0 \/ Ancestor(n - 1, q) < k
           G == {q \in Nat : q <= DEPTH => \A k \in Row(q) : Right(q, k) => FullTree(s, n)[q][k] = Zeros[q]}
<1>1. 0 \in G
  <2> SUFFICES ASSUME NEW k \in Row(0), Right(0, k) PROVE FullTree(s, n)[0][k] = Zeros[0]
    OBVIOUS
  <2>1. n \in Nat /\ k \in Nat /\ (n # 0 => n - 1 \in Row(0))
    BY Rows
  <2>2. ~(k < n)
    BY <2>1, Ancestors
  <2> QED
    BY <2>2, TreeRows, ZeroRows
<1>2. ASSUME NEW q \in Nat, q \in G PROVE q + 1 \in G
  <2> SUFFICES ASSUME q + 1 <= DEPTH, NEW k \in Row(q + 1), Right(q + 1, k)
               PROVE  FullTree(s, n)[q + 1][k] = Zeros[q + 1]
    OBVIOUS
  <2>1. q \in Levels /\ q <= DEPTH
    BY TreeNumbers DEF Levels
  <2>2. \A j \in Row(q) : Right(q, j) => FullTree(s, n)[q][j] = Zeros[q]
    BY <2>1, <1>2
  <2>3. k \in Nat /\ 2 * k \in Row(q) /\ 2 * k + 1 \in Row(q)
    BY <2>1, Rows
  <2>4. Right(q, 2 * k) /\ Right(q, 2 * k + 1)
    <3> SUFFICES ASSUME n # 0 PROVE Ancestor(n - 1, q) < 2 * k
      <4>1. n # 0 => n - 1 \in Row(0)
        BY Rows
      <4>2. n # 0 => Ancestor(n - 1, q) \in Nat
        BY <4>1, Siblings, Rows, <2>1
      <4> QED
        BY <2>3, <4>2
    <3>1. n - 1 \in Row(0)
      BY Rows
    <3>2. Ancestor(n - 1, q + 1) = Ancestor(n - 1, q) \div 2 /\ Ancestor(n - 1, q) \in Row(q)
      BY <3>1, Ancestors, Siblings, <2>1
    <3>3. Ancestor(n - 1, q) \in Nat
      BY <3>2, Rows, <2>1
    <3>4. Ancestor(n - 1, q) \div 2 < k
      BY <3>2
    <3> QED
      BY <2>3, <3>3, <3>4
  <2>5. FullTree(s, n)[q][2 * k] = Zeros[q] /\ FullTree(s, n)[q][2 * k + 1] = Zeros[q]
    BY <2>2, <2>3, <2>4
  <2>6. FullTree(s, n)[q + 1][k] = HashPair(FullTree(s, n)[q][2 * k], FullTree(s, n)[q][2 * k + 1])
    BY <2>1, TreeRows
  <2> QED
    BY <2>1, <2>5, <2>6, ZeroRows
<1> HIDE DEF G
<1>3. \A q \in Nat : q \in G
  BY <1>1, <1>2, SetInduction
<1> QED
  BY <1>3, TreeNumbers DEF G

(* A leaf changes nothing but its ancestors.                               *)
LEMMA OnlyAncestors ==
    ASSUME NEW s, NEW n \in Row(0)
    PROVE  \A l \in 0..DEPTH : \A k \in Row(l) :
               k # Ancestor(n, l) => FullTree(s, n + 1)[l][k] = FullTree(s, n)[l][k]
<1> DEFINE G == {q \in Nat : q <= DEPTH => \A k \in Row(q) :
                     k # Ancestor(n, q) => FullTree(s, n + 1)[q][k] = FullTree(s, n)[q][k]}
<1>1. 0 \in G
  <2> SUFFICES ASSUME NEW k \in Row(0), k # Ancestor(n, 0) PROVE FullTree(s, n + 1)[0][k] = FullTree(s, n)[0][k]
    OBVIOUS
  <2>1. n \in Nat /\ k \in Nat /\ k # n
    BY Rows, Ancestors
  <2>2. k < n + 1 <=> k < n
    BY <2>1
  <2> QED
    BY <2>2, TreeRows
<1>2. ASSUME NEW q \in Nat, q \in G PROVE q + 1 \in G
  <2> SUFFICES ASSUME q + 1 <= DEPTH, NEW k \in Row(q + 1), k # Ancestor(n, q + 1)
               PROVE  FullTree(s, n + 1)[q + 1][k] = FullTree(s, n)[q + 1][k]
    OBVIOUS
  <2>1. q \in Levels /\ q <= DEPTH
    BY TreeNumbers DEF Levels
  <2>2. \A j \in Row(q) : j # Ancestor(n, q) => FullTree(s, n + 1)[q][j] = FullTree(s, n)[q][j]
    BY <2>1, <1>2
  <2>3. k \in Nat /\ 2 * k \in Row(q) /\ 2 * k + 1 \in Row(q)
    BY <2>1, Rows
  <2>4. 2 * k # Ancestor(n, q) /\ 2 * k + 1 # Ancestor(n, q)
    <3>1. Ancestor(n, q + 1) = Ancestor(n, q) \div 2 /\ Ancestor(n, q) \in Row(q)
      BY <2>1, Ancestors, Siblings
    <3> QED
      BY <2>3, <3>1
  <2>5. FullTree(s, n + 1)[q + 1][k] = HashPair(FullTree(s, n + 1)[q][2 * k], FullTree(s, n + 1)[q][2 * k + 1])
    BY <2>1, TreeRows
  <2>6. FullTree(s, n)[q + 1][k] = HashPair(FullTree(s, n)[q][2 * k], FullTree(s, n)[q][2 * k + 1])
    BY <2>1, TreeRows
  <2>7. FullTree(s, n + 1)[q][2 * k] = FullTree(s, n)[q][2 * k]
    BY <2>2, <2>3, <2>4
  <2>8. FullTree(s, n + 1)[q][2 * k + 1] = FullTree(s, n)[q][2 * k + 1]
    BY <2>2, <2>3, <2>4
  <2> QED
    BY <2>5, <2>6, <2>7, <2>8
<1> HIDE DEF G
<1>3. \A q \in Nat : q \in G
  BY <1>1, <1>2, SetInduction
<1> QED
  BY <1>3, TreeNumbers DEF G

(* The tree over n leaves looks at no other.                               *)
LEMMA SamePrefix ==
    ASSUME NEW s, NEW t, NEW n \in Nat, \A j \in 1..n : s[j] = t[j]
    PROVE  \A l \in 0..DEPTH : \A k \in Row(l) : FullTree(s, n)[l][k] = FullTree(t, n)[l][k]
<1> DEFINE G == {q \in Nat : q <= DEPTH => \A k \in Row(q) : FullTree(s, n)[q][k] = FullTree(t, n)[q][k]}
<1>1. 0 \in G
  <2> SUFFICES ASSUME NEW k \in Row(0) PROVE FullTree(s, n)[0][k] = FullTree(t, n)[0][k]
    OBVIOUS
  <2>1. k \in Nat /\ (k < n => k + 1 \in 1..n)
    BY Rows
  <2>2. k < n => s[k + 1] = t[k + 1]
    BY <2>1
  <2> QED
    BY <2>2, TreeRows
<1>2. ASSUME NEW q \in Nat, q \in G PROVE q + 1 \in G
  <2> SUFFICES ASSUME q + 1 <= DEPTH, NEW k \in Row(q + 1)
               PROVE  FullTree(s, n)[q + 1][k] = FullTree(t, n)[q + 1][k]
    OBVIOUS
  <2>1. q \in Levels /\ q <= DEPTH
    BY TreeNumbers DEF Levels
  <2>2. \A j \in Row(q) : FullTree(s, n)[q][j] = FullTree(t, n)[q][j]
    BY <2>1, <1>2
  <2>3. 2 * k \in Row(q) /\ 2 * k + 1 \in Row(q)
    BY <2>1, Rows
  <2>4. FullTree(s, n)[q + 1][k] = HashPair(FullTree(s, n)[q][2 * k], FullTree(s, n)[q][2 * k + 1])
    BY <2>1, TreeRows
  <2>5. FullTree(t, n)[q + 1][k] = HashPair(FullTree(t, n)[q][2 * k], FullTree(t, n)[q][2 * k + 1])
    BY <2>1, TreeRows
  <2> QED
    BY <2>2, <2>3, <2>4, <2>5
<1> HIDE DEF G
<1>3. \A q \in Nat : q \in G
  BY <1>1, <1>2, SetInduction
<1> QED
  BY <1>3, TreeNumbers DEF G

-----------------------------------------------------------------------------
(* A climb from leaf n of the full tree, given the right siblings, passes  *)
(* its ancestors.                                                          *)
LEMMA ClimbsTree ==
    ASSUME NEW s, NEW m, NEW i \in Row(0), NEW b, NEW sib,
           b = FullTree(s, m)[0][i],
           \A l \in Levels : sib[l] = FullTree(s, m)[l][SiblingOf(i, l)]
    PROVE  \A l \in 0..DEPTH : Climb(i, b, sib)[l] = FullTree(s, m)[l][Ancestor(i, l)]
<1> DEFINE c == Climb(i, b, sib)
           t == FullTree(s, m)
           G == {q \in Nat : q <= DEPTH => c[q] = t[q][Ancestor(i, q)]}
<1>1. 0 \in G
  BY Climbs, Ancestors
<1>2. ASSUME NEW q \in Nat, q \in G PROVE q + 1 \in G
  <2> SUFFICES ASSUME q + 1 <= DEPTH PROVE c[q + 1] = t[q + 1][Ancestor(i, q + 1)]
    OBVIOUS
  <2>1. q \in Levels /\ q <= DEPTH
    BY TreeNumbers DEF Levels
  <2>2. c[q] = t[q][Ancestor(i, q)] /\ sib[q] = t[q][SiblingOf(i, q)]
    BY <2>1, <1>2
  <2>3. c[q + 1] = IF IsLeft(i, q) THEN HashPair(c[q], sib[q]) ELSE HashPair(sib[q], c[q])
    BY <2>1, Climbs
  <2> DEFINE p == Ancestor(i, q + 1)
  <2>4. t[q + 1][p] = HashPair(t[q][2 * p], t[q][2 * p + 1])
    BY <2>1, TreeRows, Siblings
  <2>5. /\ IsLeft(i, q) => Ancestor(i, q) = 2 * p /\ SiblingOf(i, q) = 2 * p + 1
        /\ ~IsLeft(i, q) => Ancestor(i, q) = 2 * p + 1 /\ SiblingOf(i, q) = 2 * p
    BY <2>1, Siblings
  <2> HIDE DEF p, c, t
  <2> QED
    BY <2>2, <2>3, <2>4, <2>5 DEF p
<1> HIDE DEF G
<1>3. \A q \in Nat : q \in G
  BY <1>1, <1>2, SetInduction
<1> QED
  BY <1>3, TreeNumbers DEF G

LEMMA OnePair == ASSUME NEW v, NEW w, NEW x, NEW y, HashPair(v, w) = HashPair(x, y) PROVE v = x /\ w = y
BY DEF HashPair

(* The reverse: a climb that ends in the root of the tree started from a   *)
(* leaf of it, because a hash is made of one pair only.                    *)
LEMMA RootsOnlyFromLeaves ==
    ASSUME NEW s, NEW m, NEW i \in Row(0), NEW b, NEW sib,
           Climb(i, b, sib)[DEPTH] = FullTree(s, m)[DEPTH][0]
    PROVE  b = FullTree(s, m)[0][i]
<1> DEFINE c == Climb(i, b, sib)
           t == FullTree(s, m)
           G == {q \in Nat : q <= DEPTH => c[DEPTH - q] = t[DEPTH - q][Ancestor(i, DEPTH - q)]}
<1>1. 0 \in G
  BY Ancestors, TreeNumbers
<1>2. ASSUME NEW q \in Nat, q \in G PROVE q + 1 \in G
  <2> SUFFICES ASSUME q + 1 <= DEPTH PROVE c[DEPTH - (q + 1)] = t[DEPTH - (q + 1)][Ancestor(i, DEPTH - (q + 1))]
    OBVIOUS
  <2> DEFINE l == DEPTH - (q + 1)
             p == Ancestor(i, l + 1)
  <2>1. l \in Levels /\ q <= DEPTH /\ l + 1 = DEPTH - q
    BY TreeNumbers DEF Levels
  <2>2. c[l + 1] = t[l + 1][p]
    BY <2>1, <1>2
  <2>3. c[l + 1] = IF IsLeft(i, l) THEN HashPair(c[l], sib[l]) ELSE HashPair(sib[l], c[l])
    BY <2>1, Climbs
  <2>4. t[l + 1][p] = HashPair(t[l][2 * p], t[l][2 * p + 1])
    BY <2>1, TreeRows, Siblings
  <2>5. /\ IsLeft(i, l) => Ancestor(i, l) = 2 * p
        /\ ~IsLeft(i, l) => Ancestor(i, l) = 2 * p + 1
    BY <2>1, Siblings
  <2> HIDE DEF p, c, t, l
  <2>6. c[l] = t[l][Ancestor(i, l)]
    <3>1. CASE IsLeft(i, l)
      <4>1. HashPair(c[l], sib[l]) = HashPair(t[l][2 * p], t[l][2 * p + 1])
        BY <2>2, <2>3, <2>4, <3>1
      <4>2. c[l] = t[l][2 * p]
        BY <4>1, OnePair
      <4> QED
        BY <4>2, <2>5, <3>1
    <3>2. CASE ~IsLeft(i, l)
      <4>1. HashPair(sib[l], c[l]) = HashPair(t[l][2 * p], t[l][2 * p + 1])
        BY <2>2, <2>3, <2>4, <3>2
      <4>2. c[l] = t[l][2 * p + 1]
        BY <4>1, OnePair
      <4> QED
        BY <4>2, <2>5, <3>2
    <3> QED
      BY <3>1, <3>2
  <2> QED
    BY <2>6 DEF l
<1> HIDE DEF G
<1>3. \A q \in Nat : q \in G
  BY <1>1, <1>2, SetInduction
<1>4. DEPTH \in Nat /\ DEPTH <= DEPTH /\ DEPTH - DEPTH = 0
  BY TreeNumbers
<1>5. c[0] = t[0][Ancestor(i, 0)]
  BY <1>3, <1>4 DEF G
<1> QED
  BY <1>5, Climbs, Ancestors

(* Building a tree leaf by leaf. *)
LEMMA BuildingExists ==
    ASSUME NEW is
    PROVE  \E f : /\ f = [l \in 0..Width |-> IF l = 0 THEN EmptyTree
                       ELSE IF l - 1 \in is THEN PutLeaf(f[l - 1], l - 1) ELSE f[l - 1]]
                 /\ BuildTree(is) = f[Width]
<1> DEFINE Above(l, x) == IF l - 1 \in is THEN PutLeaf(x, l - 1) ELSE x
           Is(f, q) == f = [l \in 0..q |-> IF l = 0 THEN EmptyTree ELSE Above(l, f[l - 1])]
           G == {q \in Nat : \E f : Is(f, q)}
<1> HIDE DEF Above
<1>1. 0 \in G
  <2>1. Is([l \in 0..0 |-> EmptyTree], 0)
    OBVIOUS
  <2> QED
    BY <2>1
<1>2. ASSUME NEW q \in Nat, q \in G PROVE q + 1 \in G
  <2>1. PICK h : Is(h, q)
    BY <1>2
  <2> DEFINE g == [l \in 0..(q + 1) |-> IF l = q + 1 THEN Above(q + 1, h[q]) ELSE h[l]]
  <2>2. ASSUME NEW l \in 0..(q + 1) PROVE g[l] = IF l = 0 THEN EmptyTree ELSE Above(l, g[l - 1])
    <3>1. CASE l = q + 1
      <4>1. l # 0 /\ l - 1 = q /\ q \in 0..(q + 1) /\ q # q + 1
        BY <3>1
      <4>2. g[l - 1] = h[q]
        BY <4>1
      <4> QED
        BY <3>1, <4>1, <4>2
    <3>2. CASE l # q + 1
      <4>1. l \in 0..q /\ g[l] = h[l]
        BY <3>2
      <4>2. h[l] = IF l = 0 THEN EmptyTree ELSE Above(l, h[l - 1])
        BY <2>1, <4>1
      <4>3. l # 0 => g[l - 1] = h[l - 1]
        BY <4>1
      <4> QED
        BY <4>1, <4>2, <4>3
    <3> QED
      BY <3>1, <3>2
  <2>3. g = [l \in 0..(q + 1) |-> g[l]]
    OBVIOUS
  <2>4. Is(g, q + 1)
    <3> HIDE DEF g
    <3>1. [l \in 0..(q + 1) |-> g[l]] = [l \in 0..(q + 1) |-> IF l = 0 THEN EmptyTree ELSE Above(l, g[l - 1])]
      BY <2>2
    <3> QED
      BY <2>3, <3>1
  <2> HIDE DEF g
  <2>5. q + 1 \in Nat /\ \E f : Is(f, q + 1)
    BY <2>4
  <2> QED
    BY <2>5
<1> HIDE DEF G
<1>3. Width \in G
  BY <1>1, <1>2, SetInduction, Rows
<1>4. \E f : Is(f, Width)
  BY <1>3 DEF G
<1> QED
  BY <1>4, Zenon DEF Above, BuildTree

-----------------------------------------------------------------------------
\* What the frontier holds when n leaves of s are inserted: the left siblings that leaf n will need
Front(f, s, n) ==
    n \in Row(0) => \A l \in Levels : ~IsLeft(n, l) => f[l] = FullTree(s, n)[l][Ancestor(n, l) - 1]

(* An insert computes the new ancestors of the leaf, the root among them.  *)
LEMMA InsertClimbs ==
    ASSUME NEW s, NEW f, NEW n \in Row(0), Front(f, s, n)
    PROVE  /\ \A l \in 0..DEPTH : Inserted(f, n, s[n + 1])[l] = FullTree(s, n + 1)[l][Ancestor(n, l)]
           /\ Inserted(f, n, s[n + 1])[DEPTH] = FullTree(s, n + 1)[DEPTH][0]
<1> DEFINE sib == [l \in Levels |-> IF IsLeft(n, l) THEN Zeros[l] ELSE f[l]]
<1>1. n \in Nat /\ n + 1 \in 0..Width /\ n + 1 # 0 /\ (n + 1) - 1 = n
  BY Rows
<1>2. Leaf(s[n + 1]) = FullTree(s, n + 1)[0][n]
  <2>1. n < n + 1
    BY <1>1
  <2> QED
    BY <2>1, TreeRows
<1>3. ASSUME NEW l \in Levels PROVE sib[l] = FullTree(s, n + 1)[l][SiblingOf(n, l)]
  <2>1. l \in 0..DEPTH /\ Ancestor(n, l) \in Row(l) /\ SiblingOf(n, l) \in Row(l) /\ SiblingOf(n, l) # Ancestor(n, l)
    BY Siblings
  <2>2. CASE IsLeft(n, l)
    <3>1. SiblingOf(n, l) = Ancestor(n, l) + 1
      BY <2>2, Siblings
    <3>2. Ancestor(n, l) \in Nat
      BY <2>1, Rows
    <3>3. Ancestor((n + 1) - 1, l) < SiblingOf(n, l)
      BY <1>1, <3>1, <3>2
    <3>4. FullTree(s, n + 1)[l][SiblingOf(n, l)] = Zeros[l]
      BY <1>1, <2>1, <3>3, EmptySubtree
    <3> QED
      BY <2>2, <3>4
  <2>3. CASE ~IsLeft(n, l)
    <3>1. SiblingOf(n, l) = Ancestor(n, l) - 1
      BY <2>3, Siblings
    <3>2. f[l] = FullTree(s, n)[l][SiblingOf(n, l)]
      BY <2>3, <3>1 DEF Front
    <3>3. FullTree(s, n + 1)[l][SiblingOf(n, l)] = FullTree(s, n)[l][SiblingOf(n, l)]
      BY <2>1, OnlyAncestors
    <3> QED
      BY <2>3, <3>2, <3>3
  <2> QED
    BY <2>2, <2>3
<1>4. Inserted(f, n, s[n + 1]) = Climb(n, Leaf(s[n + 1]), sib)
  BY DEF Inserted
<1> HIDE DEF sib
<1>5. \A l \in 0..DEPTH : Climb(n, Leaf(s[n + 1]), sib)[l] = FullTree(s, n + 1)[l][Ancestor(n, l)]
  BY <1>2, <1>3, ClimbsTree
<1> QED
  BY <1>4, <1>5, Ancestors, Rows

(* The frontier is again what the next leaf needs.                         *)
LEMMA FrontAdvances ==
    ASSUME NEW s, NEW f, NEW n \in Row(0), Front(f, s, n)
    PROVE  Front(Advanced(f, n, s[n + 1]), s, n + 1)
<1> DEFINE g == Advanced(f, n, s[n + 1])
<1> SUFFICES ASSUME n + 1 \in Row(0), NEW l \in Levels, ~IsLeft(n + 1, l)
             PROVE  g[l] = FullTree(s, n + 1)[l][Ancestor(n + 1, l) - 1]
  BY DEF Front
<1>1. l \in 0..DEPTH /\ Ancestor(n, l) \in Row(l) /\ Ancestor(n, l) \in Nat
  BY Siblings, Rows
<1>2. Ancestor(n + 1, l) \in {Ancestor(n, l), Ancestor(n, l) + 1}
  BY <1>1, NextAncestor
<1>3. g[l] = IF IsLeft(n, l) THEN Inserted(f, n, s[n + 1])[l] ELSE f[l]
  BY DEF Advanced
<1> HIDE DEF g
<1>4. CASE Ancestor(n + 1, l) = Ancestor(n, l)
  <2>1. ~IsLeft(n, l)
    BY <1>4 DEF IsLeft
  <2>2. SiblingOf(n, l) = Ancestor(n, l) - 1 /\ SiblingOf(n, l) \in Row(l) /\ SiblingOf(n, l) # Ancestor(n, l)
    BY <2>1, Siblings
  <2>3. FullTree(s, n + 1)[l][SiblingOf(n, l)] = FullTree(s, n)[l][SiblingOf(n, l)]
    BY <1>1, <2>2, OnlyAncestors
  <2>4. f[l] = FullTree(s, n)[l][Ancestor(n, l) - 1]
    BY <2>1 DEF Front
  <2> QED
    BY <1>3, <1>4, <2>1, <2>2, <2>3, <2>4
<1>5. CASE Ancestor(n + 1, l) = Ancestor(n, l) + 1
  <2>1. IsLeft(n, l) /\ Ancestor(n + 1, l) - 1 = Ancestor(n, l)
    BY <1>1, <1>5 DEF IsLeft
  <2>2. Inserted(f, n, s[n + 1])[l] = FullTree(s, n + 1)[l][Ancestor(n, l)]
    BY <1>1, InsertClimbs
  <2> QED
    BY <1>3, <2>1, <2>2
<1> QED
  BY <1>2, <1>4, <1>5

(* The frontier depends on the inserted leaves only.                       *)
LEMMA FrontOfPrefix ==
    ASSUME NEW s, NEW t, NEW f, NEW n \in Nat, \A j \in 1..n : s[j] = t[j], Front(f, s, n)
    PROVE  Front(f, t, n)
<1> SUFFICES ASSUME n \in Row(0), NEW l \in Levels, ~IsLeft(n, l)
             PROVE  f[l] = FullTree(t, n)[l][Ancestor(n, l) - 1]
  BY DEF Front
<1>1. f[l] = FullTree(s, n)[l][Ancestor(n, l) - 1]
  BY DEF Front
<1>2. l \in 0..DEPTH /\ Ancestor(n, l) - 1 \in Row(l)
  BY Siblings
<1>3. \A k \in Row(l) : FullTree(s, n)[l][k] = FullTree(t, n)[l][k]
  BY <1>2, SamePrefix
<1> QED
  BY <1>1, <1>2, <1>3

(* The empty tree is the full tree over no leaf.                           *)
LEMMA EmptyIs ==
    ASSUME NEW s
    PROVE  EmptyTree = FullTree(s, 0) /\ FullTree(s, 0)[DEPTH][0] = Zeros[DEPTH]
<1>1. 0 \in 0..Width
  BY Rows
<1>2. \A l \in 0..DEPTH : \A k \in Row(l) : FullTree(s, 0)[l][k] = Zeros[l]
  BY <1>1, EmptySubtree
<1>3. \A l \in 0..DEPTH : FullTree(s, 0)[l] = [k \in Row(l) |-> Zeros[l]]
  <2> TAKE l \in 0..DEPTH
  <2>1. FullTree(s, 0)[l] = [k \in Row(l) |-> FullTree(s, 0)[l][k]]
    BY TreeRows
  <2>2. [k \in Row(l) |-> FullTree(s, 0)[l][k]] = [k \in Row(l) |-> Zeros[l]]
    BY <1>2
  <2> QED
    BY <2>1, <2>2
<1>4. FullTree(s, 0) = [l \in 0..DEPTH |-> FullTree(s, 0)[l]]
  BY TreeRows
<1>5. [l \in 0..DEPTH |-> FullTree(s, 0)[l]] = EmptyTree
  BY <1>3 DEF EmptyTree
<1>6. FullTree(s, 0)[DEPTH][0] = Zeros[DEPTH]
  BY <1>2, Rows
<1> QED
  BY <1>4, <1>5, <1>6

(* Putting the next leaf makes the next full tree.                         *)
LEMMA PutNext ==
    ASSUME NEW n \in Row(0)
    PROVE  PutLeaf(FullTree(leaves, n), n) = FullTree(leaves, n + 1)
<1> DEFINE t == FullTree(leaves, n)
           u == FullTree(leaves, n + 1)
           sib == [l \in Levels |-> t[l][SiblingOf(n, l)]]
           up == Climb(n, Leaf(leaves[n + 1]), sib)
<1>1. PutLeaf(t, n) = [l \in 0..DEPTH |-> [t[l] EXCEPT ![Ancestor(n, l)] = up[l]]]
  BY DEF PutLeaf
<1>2. Leaf(leaves[n + 1]) = u[0][n]
  <2>1. n < n + 1
    BY Rows
  <2> QED
    BY <2>1, TreeRows
<1>3. ASSUME NEW l \in Levels PROVE sib[l] = u[l][SiblingOf(n, l)]
  BY Siblings, OnlyAncestors
<1>4. \A l \in 0..DEPTH : up[l] = u[l][Ancestor(n, l)]
  <2> HIDE DEF sib, u
  <2> QED
    BY <1>2, <1>3, ClimbsTree DEF u
<1>5. ASSUME NEW l \in 0..DEPTH PROVE [t[l] EXCEPT ![Ancestor(n, l)] = up[l]] = u[l]
  <2>1. t[l] = [k \in Row(l) |-> t[l][k]] /\ u[l] = [k \in Row(l) |-> u[l][k]]
    BY TreeRows
  <2>2. Ancestor(n, l) \in Row(l) /\ up[l] = u[l][Ancestor(n, l)]
    BY <1>4, Ancestors
  <2>3. \A k \in Row(l) : k # Ancestor(n, l) => u[l][k] = t[l][k]
    BY OnlyAncestors
  <2> HIDE DEF t, u, up
  <2>4. [t[l] EXCEPT ![Ancestor(n, l)] = up[l]] = [k \in Row(l) |-> IF k = Ancestor(n, l) THEN up[l] ELSE t[l][k]]
    BY <2>1
  <2>5. [k \in Row(l) |-> IF k = Ancestor(n, l) THEN up[l] ELSE t[l][k]] = [k \in Row(l) |-> u[l][k]]
    BY <2>2, <2>3
  <2> QED
    BY <2>1, <2>4, <2>5
<1>6. u = [l \in 0..DEPTH |-> u[l]]
  BY TreeRows
<1> HIDE DEF t, u, up
<1>7. [l \in 0..DEPTH |-> [t[l] EXCEPT ![Ancestor(n, l)] = up[l]]] = [l \in 0..DEPTH |-> u[l]]
  BY <1>5
<1> QED
  BY <1>1, <1>6, <1>7 DEF t, u

(* So the tree built on the first m leaves is the full tree over them.     *)
LEMMA BuiltIsFull ==
    ASSUME NEW m \in 0..Width
    PROVE  BuildTree(0 .. m - 1) = FullTree(leaves, m)
<1> DEFINE is == 0 .. m - 1
<1>1. PICK f : /\ f = [l \in 0..Width |-> IF l = 0 THEN EmptyTree
                           ELSE IF l - 1 \in is THEN PutLeaf(f[l - 1], l - 1) ELSE f[l - 1]]
               /\ BuildTree(is) = f[Width]
  BY BuildingExists
<1> DEFINE G == {q \in Nat : q <= Width => f[q] = IF q <= m THEN FullTree(leaves, q) ELSE FullTree(leaves, m)}
<1>2. 0 \in G
  <2>1. f[0] = EmptyTree
    BY <1>1, Rows
  <2>2. 0 <= m
    OBVIOUS
  <2> QED
    BY <2>1, <2>2, EmptyIs
<1>3. ASSUME NEW q \in Nat, q \in G PROVE q + 1 \in G
  <2> SUFFICES ASSUME q + 1 <= Width
               PROVE  f[q + 1] = IF q + 1 <= m THEN FullTree(leaves, q + 1) ELSE FullTree(leaves, m)
    OBVIOUS
  <2>1. q <= Width /\ q + 1 \in 0..Width /\ q + 1 # 0 /\ (q + 1) - 1 = q /\ q \in Row(0)
    BY Rows
  <2>2. f[q] = IF q <= m THEN FullTree(leaves, q) ELSE FullTree(leaves, m)
    BY <2>1, <1>3
  <2>3. f[q + 1] = IF q \in is THEN PutLeaf(f[q], q) ELSE f[q]
    BY <1>1, <2>1
  <2>4. CASE q + 1 <= m
    <3>1. q <= m /\ q \in is
      BY <2>4
    <3> QED
      BY <2>1, <2>2, <2>3, <2>4, <3>1, PutNext
  <2>5. CASE ~(q + 1 <= m)
    <3>1. q \notin is /\ (q <= m => q = m)
      BY <2>5
    <3> QED
      BY <2>2, <2>3, <2>5, <3>1
  <2> QED
    BY <2>4, <2>5
<1> HIDE DEF G
<1>4. \A q \in Nat : q \in G
  BY <1>2, <1>3, SetInduction
<1>5. Width \in Nat /\ (Width <= m => m = Width)
  BY Rows
<1>6. f[Width] = IF Width <= m THEN FullTree(leaves, Width) ELSE FullTree(leaves, m)
  BY <1>4, <1>5 DEF G
<1> QED
  BY <1>1, <1>5, <1>6

-----------------------------------------------------------------------------
(* The two slots of the ring that an insertion of two leaves takes.        *)
LEMMA RingSlots ==
    ASSUME NEW H \in Nat, H > 1, NEW x \in 0 .. H - 1
    PROVE  /\ (x + 1) % H \in 0 .. H - 1 /\ (x + 2) % H \in 0 .. H - 1
           /\ (x + 1) % H # (x + 2) % H
           /\ (((x + 2) % H) + H - 1) % H = (x + 1) % H
<1> DEFINE M(q, r) == H * q + r
<1>1. \A q \in Int, r \in 0 .. H - 1 : M(q, r) % H = r
  BY ModIs
<1>2. CASE x + 2 <= H - 1
  <2>1. M(0, x + 1) = x + 1 /\ M(0, x + 2) = x + 2 /\ M(1, x + 1) = (x + 2) + H - 1
    OBVIOUS
  <2>2. x + 1 \in 0 .. H - 1 /\ x + 2 \in 0 .. H - 1
    BY <1>2
  <2> HIDE DEF M
  <2> QED
    BY <1>1, <2>1, <2>2
<1>3. CASE x + 2 = H
  <2>1. M(0, x + 1) = x + 1 /\ M(1, 0) = x + 2 /\ M(0, x + 1) = 0 + H - 1
    BY <1>3
  <2>2. x + 1 \in 0 .. H - 1 /\ 0 \in 0 .. H - 1 /\ x + 1 # 0
    BY <1>3
  <2> HIDE DEF M
  <2> QED
    BY <1>1, <2>1, <2>2
<1>4. CASE x + 1 = H
  <2>1. M(1, 0) = x + 1 /\ M(1, 1) = x + 2 /\ M(1, 0) = 1 + H - 1
    BY <1>4
  <2>2. 0 \in 0 .. H - 1 /\ 1 \in 0 .. H - 1
    OBVIOUS
  <2> HIDE DEF M
  <2> QED
    BY <1>1, <2>1, <2>2
<1> QED
  BY <1>2, <1>3, <1>4

\* What is so after every step: of the contract, of the ring, of the scan, of the tree built on
CallsKept ==
    /\ calls \in Seq(Nat) /\ leaves \in Seq(Commitments) /\ ledger \in Nat
    /\ Len(leaves) = 2 * Len(calls) /\ Len(leaves) <= Width
    /\ \A j \in 1 .. Len(calls) : calls[j] <= ledger
    /\ \A j, k \in 1 .. Len(calls) : j < k => calls[j] < calls[k]
RingKept ==
    /\ ring = [k \in 0 .. ROOT_HISTORY - 1 |-> ring[k]] /\ ringAt \in 0 .. ROOT_HISTORY - 1
    /\ Front(frontier, leaves, Len(leaves)) /\ RingIsOfTree
ScanKept ==
    /\ scan = [st |-> scan.st, latest |-> scan.latest, from |-> scan.from, seen |-> scan.seen, out |-> scan.out]
    /\ scan.out \subseteq 0 .. Len(leaves) - 1
BuiltKept == tree = NoTree \/ \E m \in 0 .. Len(leaves) : tree = 0 .. m - 1
TreeKept == CallsKept /\ RingKept /\ ScanKept /\ BuiltKept

LEMMA TreeInitKept == TreeInit => TreeKept
<1> SUFFICES ASSUME TreeInit PROVE TreeKept
  OBVIOUS
<1> USE DEF TreeInit
<1>1. Len(leaves) = 0 /\ Len(calls) = 0
  OBVIOUS
<1>2. CallsKept
  BY <1>1, Rows DEF CallsKept
<1>3. Front(frontier, leaves, Len(leaves))
  <2> SUFFICES ASSUME 0 \in Row(0), NEW l \in Levels, ~IsLeft(0, l) PROVE FALSE
    BY <1>1 DEF Front
  <2>1. SiblingOf(0, l) \in Row(l) /\ SiblingOf(0, l) = Ancestor(0, l) - 1 /\ l \in 0..DEPTH
    BY Siblings
  <2> DEFINE G == {q \in Nat : q <= DEPTH => Ancestor(0, q) = 0}
  <2>2. 0 \in G
    BY Ancestors
  <2>3. ASSUME NEW q \in Nat, q \in G PROVE q + 1 \in G
    <3> SUFFICES ASSUME q + 1 <= DEPTH PROVE Ancestor(0, q + 1) = 0
      OBVIOUS
    <3>1. q \in Levels /\ q <= DEPTH
      BY TreeNumbers DEF Levels
    <3>2. Ancestor(0, q) = 0
      BY <3>1, <2>3
    <3>3. Ancestor(0, q + 1) = Ancestor(0, q) \div 2
      BY <3>1, Ancestors
    <3> QED
      BY <3>2, <3>3
  <2> HIDE DEF G
  <2>4. \A q \in Nat : q \in G
    BY <2>2, <2>3, SetInduction
  <2>5. Ancestor(0, l) = 0
    BY <2>1, <2>4, TreeNumbers DEF G
  <2> QED
    BY <2>1, <2>5, Rows, Siblings
<1>4. RingIsOfTree
  <2>1. ring[0] = Zeros[DEPTH]
    BY TreeNumbers
  <2> QED
    BY <1>1, <2>1, EmptyIs DEF RingIsOfTree, RootOf
<1>5. RingKept
  BY <1>3, <1>4, TreeNumbers DEF RingKept
<1>6. ScanKept
  BY DEF ScanKept, Idle
<1>7. BuiltKept
  BY DEF BuiltKept
<1> QED
  BY <1>2, <1>5, <1>6, <1>7 DEF TreeKept

(* One more call, a ledger after the last.                            *)
LEMMA OneMoreCall ==
    ASSUME NEW c \in Seq(Nat), NEW last \in Nat, NEW d, d = Append(c, last + 1),
           \A j \in 1 .. Len(c) : c[j] <= last,
           \A j, k \in 1 .. Len(c) : j < k => c[j] < c[k]
    PROVE  /\ d \in Seq(Nat) /\ Len(d) = Len(c) + 1
           /\ \A j \in 1 .. Len(d) : d[j] <= last + 1
           /\ \A j, k \in 1 .. Len(d) : j < k => d[j] < d[k]
<1>1. /\ d \in Seq(Nat) /\ Len(c) \in Nat /\ Len(d) = Len(c) + 1 /\ d[Len(c) + 1] = last + 1
      /\ \A j \in 1 .. Len(c) : d[j] = c[j] /\ c[j] \in Nat
  OBVIOUS
<1>2. \A j \in 1 .. Len(d) : j \in 1 .. Len(c) \/ j = Len(c) + 1
  BY <1>1
<1>3. \A j \in 1 .. Len(c) : d[j] <= last /\ d[j] \in Nat
  BY <1>1
<1>4. ASSUME NEW j \in 1 .. Len(d) PROVE d[j] <= last + 1
  BY <1>1, <1>2, <1>3
<1>5. ASSUME NEW j \in 1 .. Len(d), NEW k \in 1 .. Len(d), j < k PROVE d[j] < d[k]
  <2>1. j \in 1 .. Len(c)
    BY <1>1, <1>5
  <2>2. CASE k \in 1 .. Len(c)
    BY <1>1, <1>5, <2>1, <2>2
  <2>3. CASE k = Len(c) + 1
    BY <1>1, <1>3, <2>1, <2>3
  <2> QED
    BY <1>2, <2>2, <2>3
<1> QED
  BY <1>1, <1>4, <1>5

(* Two more leaves.                                                        *)
LEMMA Concatenated ==
    ASSUME NEW s \in Seq(Commitments), NEW t \in Seq(Commitments), NEW q, q = s \o t
    PROVE  /\ q \in Seq(Commitments) /\ Len(q) = Len(s) + Len(t)
           /\ \A i \in 1..Len(s) : q[i] = s[i]
           /\ \A i \in 1..Len(t) : q[Len(s) + i] = t[i]
OBVIOUS

LEMMA TwoMore ==
    ASSUME NEW s \in Seq(Commitments), NEW a \in Commitments, NEW b \in Commitments,
           NEW q, q = s \o <<a, b>>
    PROVE  /\ q \in Seq(Commitments) /\ Len(q) = Len(s) + 2
           /\ \A j \in 1 .. Len(s) : s[j] = q[j]
           /\ q[Len(s) + 1] = a /\ q[Len(s) + 2] = b
<1> DEFINE t == <<a, b>>
<1>1. t \in Seq(Commitments) /\ Len(t) = 2 /\ t[1] = a /\ t[2] = b /\ q = s \o t
  OBVIOUS
<1> HIDE DEF t
<1>2. /\ q \in Seq(Commitments) /\ Len(q) = Len(s) + Len(t)
      /\ \A i \in 1..Len(s) : q[i] = s[i]
      /\ \A i \in 1..Len(t) : q[Len(s) + i] = t[i]
  BY <1>1, Concatenated
<1> QED
  BY <1>1, <1>2

(* transact: the two new roots and the new frontier.                       *)
LEMMA PairKept ==
    ASSUME TreeKept, NEW a \in Commitments, NEW b \in Commitments, InsertPair(a, b)
    PROVE  TreeKept'
<1> DEFINE i == Len(leaves)
           s == leaves'
           f == Advanced(frontier, i, a)
           one == (ringAt + 1) % ROOT_HISTORY
           two == (ringAt + 2) % ROOT_HISTORY
<1>1. /\ i + 2 <= Width /\ ledger' = ledger + 1 /\ calls' = Append(calls, ledger + 1)
      /\ s = leaves \o <<a, b>>
      /\ frontier' = Advanced(f, i + 1, b)
      /\ ring' = [ring EXCEPT ![one] = Inserted(frontier, i, a)[DEPTH], ![two] = Inserted(f, i + 1, b)[DEPTH]]
      /\ ringAt' = two
      /\ UNCHANGED <<scan, tree>>
  BY Zenon DEF InsertPair
<1>2. CallsKept /\ RingKept /\ ScanKept /\ BuiltKept
  BY DEF TreeKept
<1>3. leaves \in Seq(Commitments) /\ i \in Nat /\ i = 2 * Len(calls) /\ calls \in Seq(Nat) /\ ledger \in Nat
  BY <1>2 DEF CallsKept
<1>4. /\ s \in Seq(Commitments) /\ Len(s) = i + 2
      /\ \A j \in 1 .. i : leaves[j] = s[j]
      /\ s[i + 1] = a /\ s[i + 2] = b
  BY <1>1, <1>3, TwoMore
<1>5. i \in Row(0) /\ i + 1 \in Row(0) /\ (i + 1) + 1 = i + 2
  BY <1>1, <1>3, Rows
<1>6. CallsKept'
  <2>1. /\ \A j \in 1 .. Len(calls) : calls[j] <= ledger
        /\ \A j, k \in 1 .. Len(calls) : j < k => calls[j] < calls[k]
    BY <1>2 DEF CallsKept
  <2>2. calls' = Append(calls, ledger + 1) /\ ledger' = ledger + 1 /\ ledger \in Nat /\ calls \in Seq(Nat)
    BY <1>1, <1>3
  <2>3. /\ calls' \in Seq(Nat) /\ Len(calls') = Len(calls) + 1
        /\ \A j \in 1 .. Len(calls') : calls'[j] <= ledger + 1
        /\ \A j, k \in 1 .. Len(calls') : j < k => calls'[j] < calls'[k]
    BY <2>1, <2>2, OneMoreCall
  <2>4. Len(calls) \in Nat
    BY <1>3
  <2>5. Len(leaves') = 2 * Len(calls') /\ Len(leaves') <= Width /\ ledger' \in Nat
    BY <1>1, <1>3, <1>4, <2>2, <2>3, <2>4
  <2> QED
    BY <1>4, <2>2, <2>3, <2>5 DEF CallsKept
<1>7. Front(frontier, s, i)
  <2>1. Front(frontier, leaves, i)
    BY <1>2 DEF RingKept
  <2> HIDE DEF s, i
  <2> QED
    BY <1>3, <1>4, <2>1, FrontOfPrefix
<1>8. Front(f, s, i + 1) /\ Inserted(frontier, i, a)[DEPTH] = FullTree(s, i + 1)[DEPTH][0]
  <2> HIDE DEF s, i
  <2>1. Front(Advanced(frontier, i, s[i + 1]), s, i + 1)
    BY <1>5, <1>7, FrontAdvances
  <2>2. Inserted(frontier, i, s[i + 1])[DEPTH] = FullTree(s, i + 1)[DEPTH][0]
    BY <1>5, <1>7, InsertClimbs
  <2> QED
    BY <1>4, <2>1, <2>2
<1>9. Front(frontier', s, i + 2) /\ Inserted(f, i + 1, b)[DEPTH] = FullTree(s, i + 2)[DEPTH][0]
  <2> HIDE DEF s, i, f
  <2>1. Front(Advanced(f, i + 1, s[(i + 1) + 1]), s, (i + 1) + 1)
    BY <1>5, <1>8, FrontAdvances
  <2>2. Inserted(f, i + 1, s[(i + 1) + 1])[DEPTH] = FullTree(s, (i + 1) + 1)[DEPTH][0]
    BY <1>5, <1>8, InsertClimbs
  <2>3. s[(i + 1) + 1] = b
    BY <1>4, <1>5
  <2> QED
    BY <1>1, <1>5, <2>1, <2>2, <2>3
<1>10. RingKept'
  <2>1. ring = [k \in 0 .. ROOT_HISTORY - 1 |-> ring[k]] /\ ringAt \in 0 .. ROOT_HISTORY - 1
    BY <1>2 DEF RingKept
  <2>2. /\ one \in 0 .. ROOT_HISTORY - 1 /\ two \in 0 .. ROOT_HISTORY - 1 /\ one # two
        /\ (two + ROOT_HISTORY - 1) % ROOT_HISTORY = one
    BY <2>1, RingSlots, TreeNumbers
  <2> HIDE DEF one, two, f, i, s
  <2>3. ring'[two] = Inserted(f, i + 1, b)[DEPTH] /\ ring'[one] = Inserted(frontier, i, a)[DEPTH]
    BY <1>1, <2>1, <2>2
  <2>4. ring' = [k \in 0 .. ROOT_HISTORY - 1 |-> ring'[k]]
    BY <1>1, <2>1
  <2>5. (i + 2) - 1 = i + 1
    BY <1>3
  <2>6. ring'[ringAt'] = FullTree(s, Len(s))[DEPTH][0]
    BY <1>1, <1>4, <1>9, <2>3
  <2>7. ring'[(ringAt' + ROOT_HISTORY - 1) % ROOT_HISTORY] = FullTree(s, Len(s) - 1)[DEPTH][0]
    BY <1>1, <1>4, <1>8, <2>2, <2>3, <2>5
  <2>8. RingIsOfTree'
    BY <2>6, <2>7 DEF s, RingIsOfTree, RootOf
  <2>9. Front(frontier, leaves, Len(leaves))'
    <3>1. Front(frontier', s, Len(s))
      BY <1>4, <1>9
    <3> QED
      BY <3>1 DEF s, Front
  <2> QED
    BY <1>1, <2>2, <2>4, <2>8, <2>9 DEF RingKept
<1>11. ScanKept'
  <2>1. scan.out \subseteq 0 .. i - 1 /\ 0 .. i - 1 \subseteq 0 .. Len(s) - 1
    BY <1>2, <1>3, <1>4 DEF ScanKept
  <2>2. scan' = scan
    BY <1>1
  <2> QED
    BY <1>2, <2>1, <2>2 DEF ScanKept
<1>12. BuiltKept'
  <2>1. 0 .. i \subseteq 0 .. Len(s) /\ tree' = tree
    BY <1>1, <1>3, <1>4
  <2> QED
    BY <1>2, <2>1, Zenon DEF BuiltKept, NoTree
<1> QED
  BY <1>6, <1>10, <1>11, <1>12 DEF TreeKept

(* The calls up to a ledger are the first ones.                            *)
LEMMA FirstCalls ==
    ASSUME CallsKept, NEW v \in Nat
    PROVE  \E q \in 0 .. Len(calls) : {j \in DOMAIN calls : calls[j] <= v} = 1 .. q
<1>1. calls \in Seq(Nat) /\ Len(calls) \in Nat /\ DOMAIN calls = 1 .. Len(calls)
  BY DEF CallsKept
<1>2. \A j, k \in 1 .. Len(calls) : j < k => calls[j] < calls[k]
  BY DEF CallsKept
<1> DEFINE G == {n \in Nat : n <= Len(calls) => \E q \in 0 .. n : {j \in 1 .. n : calls[j] <= v} = 1 .. q}
<1>3. 0 \in G
  OBVIOUS
<1>4. ASSUME NEW n \in Nat, n \in G PROVE n + 1 \in G
  <2> SUFFICES ASSUME n + 1 <= Len(calls)
               PROVE  \E q \in 0 .. n + 1 : {j \in 1 .. n + 1 : calls[j] <= v} = 1 .. q
    OBVIOUS
  <2>1. n <= Len(calls)
    BY <1>1
  <2>2. PICK q \in 0 .. n : {j \in 1 .. n : calls[j] <= v} = 1 .. q
    BY <2>1, <1>4
  <2>3. CASE calls[n + 1] <= v
    <3>1. \A j \in 1 .. n : calls[j] <= v
      <4> TAKE j \in 1 .. n
      <4>1. j \in 1 .. Len(calls) /\ n + 1 \in 1 .. Len(calls) /\ j < n + 1
        BY <1>1
      <4>2. calls[j] < calls[n + 1] /\ calls[j] \in Nat /\ calls[n + 1] \in Nat
        BY <1>1, <1>2, <4>1
      <4> QED
        BY <2>3, <4>2
    <3>2. {j \in 1 .. n + 1 : calls[j] <= v} = 1 .. n + 1
      BY <2>3, <3>1
    <3> QED
      BY <3>2
  <2>4. CASE ~(calls[n + 1] <= v)
    <3>1. {j \in 1 .. n + 1 : calls[j] <= v} = {j \in 1 .. n : calls[j] <= v}
      BY <2>4
    <3> QED
      BY <2>2, <3>1
  <2> QED
    BY <2>3, <2>4
<1> HIDE DEF G
<1>5. \A n \in Nat : n \in G
  BY <1>3, <1>4, SetInduction
<1>6. \E q \in 0 .. Len(calls) : {j \in 1 .. Len(calls) : calls[j] <= v} = 1 .. q
  <2>1. Len(calls) <= Len(calls) /\ Len(calls) \in G
    BY <1>1, <1>5
  <2> QED
    BY <2>1 DEF G
<1> QED
  BY <1>1, <1>6

(* A set of leaves without a gap is the first leaves.                      *)
LEMMA NoGap ==
    ASSUME NEW n \in Nat, NEW out, out \subseteq 0 .. n - 1, Contiguous(out)
    PROVE  \E m \in 0 .. n : out = 0 .. m - 1
<1> DEFINE G == {q \in Nat : out \subseteq 0 .. q - 1 => \E m \in 0 .. q : out = 0 .. m - 1}
<1>1. 0 \in G
  <2> SUFFICES ASSUME out \subseteq 0 .. 0 - 1 PROVE \E m \in 0 .. 0 : out = 0 .. m - 1
    OBVIOUS
  <2>1. 0 \in 0 .. 0 /\ 0 .. 0 - 1 = {}
    OBVIOUS
  <2>2. out = 0 .. 0 - 1
    BY <2>1
  <2> QED
    BY <2>1, <2>2
<1>2. ASSUME NEW q \in Nat, q \in G PROVE q + 1 \in G
  <2> SUFFICES ASSUME out \subseteq 0 .. (q + 1) - 1 PROVE \E m \in 0 .. q + 1 : out = 0 .. m - 1
    OBVIOUS
  <2>1. CASE q \in out
    <3>1. \A j \in 0 .. q : j \in out
      BY <2>1 DEF Contiguous
    <3>2. q + 1 \in 0 .. q + 1 /\ 0 .. (q + 1) - 1 \subseteq out
      BY <3>1
    <3>3. out = 0 .. (q + 1) - 1
      BY <3>2
    <3> QED
      BY <3>2, <3>3
  <2>2. CASE q \notin out
    <3>1. out \subseteq 0 .. q - 1
      BY <2>2
    <3>2. \E m \in 0 .. q : out = 0 .. m - 1
      BY <3>1, <1>2
    <3> QED
      BY <3>2
  <2> QED
    BY <2>1, <2>2
<1> HIDE DEF G
<1>3. \A q \in Nat : q \in G
  BY <1>1, <1>2, SetInduction
<1> QED
  BY <1>3 DEF G

\* The steps that leave the chain alone
LEMMA SameChain ==
    ASSUME TreeKept, UNCHANGED chainVars
    PROVE  CallsKept' /\ RingKept' /\ Len(leaves') = Len(leaves)
<1> USE DEF chainVars
<1>1. CallsKept'
  BY DEF TreeKept, CallsKept
<1>2. RingKept'
  <2>1. leaves' = leaves /\ ring' = ring /\ ringAt' = ringAt /\ frontier' = frontier
    OBVIOUS
  <2>2. RingKept
    BY DEF TreeKept
  <2> QED
    BY <2>1, <2>2 DEF RingKept, RingIsOfTree, RootOf
<1> QED
  BY <1>1, <1>2

LEMMA QuietKept == ASSUME TreeKept, QuietLedger PROVE TreeKept'
<1>1. /\ ledger' = ledger + 1 /\ leaves' = leaves /\ calls' = calls /\ frontier' = frontier
      /\ ring' = ring /\ ringAt' = ringAt /\ scan' = scan /\ tree' = tree
  BY DEF QuietLedger
<1>2. CallsKept'
  <2>1. CallsKept
    BY DEF TreeKept
  <2>2. \A j \in 1 .. Len(calls) : calls[j] <= ledger + 1
    <3> TAKE j \in 1 .. Len(calls)
    <3>1. calls[j] \in Nat /\ ledger \in Nat /\ calls[j] <= ledger
      BY <2>1 DEF CallsKept
    <3> QED
      BY <3>1
  <2> QED
    BY <1>1, <2>1, <2>2 DEF CallsKept
<1>3. RingKept'
  <2>1. RingKept
    BY DEF TreeKept
  <2> QED
    BY <1>1, <2>1 DEF RingKept, RingIsOfTree, RootOf
<1>4. ScanKept' /\ BuiltKept'
  BY <1>1 DEF TreeKept, ScanKept, BuiltKept, NoTree
<1> QED
  BY <1>2, <1>3, <1>4 DEF TreeKept

(* The indexer answers with the leaves of the first calls.                 *)
LEMMA IndexedKept == ASSUME TreeKept, FromIndexer PROVE TreeKept'
<1>1. UNCHANGED chainVars /\ scan' = scan
  BY DEF FromIndexer
<1>2. CallsKept' /\ RingKept' /\ Len(leaves') = Len(leaves) /\ CallsKept
  BY <1>1, SameChain DEF TreeKept
<1>3. ScanKept'
  BY <1>1, <1>2 DEF TreeKept, ScanKept
<1>4. PICK v \in Views : tree' = {i \in 0 .. Len(leaves) - 1 : calls[(i \div 2) + 1] <= v}
  BY DEF FromIndexer
<1>5. v \in Nat /\ Len(calls) \in Nat /\ Len(leaves) = 2 * Len(calls) /\ DOMAIN calls = 1 .. Len(calls)
  BY <1>2 DEF Views, CallsKept
<1>6. PICK q \in 0 .. Len(calls) : {j \in DOMAIN calls : calls[j] <= v} = 1 .. q
  BY <1>2, <1>5, FirstCalls
<1>7. ASSUME NEW i \in 0 .. Len(leaves) - 1 PROVE calls[(i \div 2) + 1] <= v <=> i \in 0 .. 2 * q - 1
  <2>1. (i \div 2) + 1 \in DOMAIN calls
    BY <1>5
  <2>2. calls[(i \div 2) + 1] <= v <=> (i \div 2) + 1 \in 1 .. q
    BY <1>6, <2>1
  <2>3. i \in Nat /\ q \in Nat
    OBVIOUS
  <2>4. (i \div 2) + 1 \in 1 .. q <=> i \in 0 .. 2 * q - 1
    BY <2>3
  <2> QED
    BY <2>2, <2>4
<1>8. 0 .. 2 * q - 1 \subseteq 0 .. Len(leaves) - 1
  BY <1>5
<1>9. 2 * q \in 0 .. Len(leaves')
  BY <1>2, <1>5
<1>10. tree' = 0 .. 2 * q - 1
  BY <1>4, <1>7, <1>8
<1>11. BuiltKept'
  BY <1>9, <1>10 DEF BuiltKept
<1> QED
  BY <1>2, <1>3, <1>11 DEF TreeKept

LEMMA StartKept == ASSUME TreeKept, StartScan PROVE TreeKept'
<1>1. UNCHANGED chainVars /\ tree' = NoTree
  BY DEF StartScan
<1>2. CallsKept' /\ RingKept' /\ Len(leaves') = Len(leaves)
  BY <1>1, SameChain
<1>3. ScanKept'
  BY DEF StartScan, ScanKept, Idle
<1>4. BuiltKept'
  BY <1>1 DEF BuiltKept, NoTree
<1> QED
  BY <1>2, <1>3, <1>4 DEF TreeKept

(* A page holds leaves that there are.                                     *)
LEMMA LeavesOfPages ==
    ASSUME TreeKept, NEW e \in Events, IsCommitment(e)
    PROVE  LeafOfEvent(e) \in 0 .. Len(leaves) - 1
<1>1. Len(calls) \in Nat /\ Len(leaves) = 2 * Len(calls)
  BY DEF TreeKept, CallsKept
<1>2. e \in 1 .. 4 * Len(calls) /\ (e - 1) % 4 >= 2
  BY DEF Events, IsCommitment
<1>3. (e - 1) \div 4 \in 0 .. Len(calls) - 1 /\ (e - 1) % 4 \in {2, 3}
  BY <1>1, <1>2
<1> QED
  BY <1>1, <1>3 DEF LeafOfEvent

LEMMA PageKept == ASSUME TreeKept, Page PROVE TreeKept'
<1>1. UNCHANGED chainVars /\ tree' = tree
  BY DEF Page
<1>2. CallsKept' /\ RingKept' /\ Len(leaves') = Len(leaves)
  BY <1>1, SameChain
<1>3. ScanKept /\ BuiltKept
  BY DEF TreeKept
<1>4. PICK v \in Views :
         LET page == {e \in Served(v) : Cardinality({x \in Served(v) : x < e}) < PageSize}
             out == scan.out \cup {LeafOfEvent(e) : e \in {x \in page : IsCommitment(x)}}
         IN  scan' = IF Cardinality(page) < PageSize
                     THEN [scan EXCEPT !.from = @ + WINDOW, !.seen = 0, !.out = out]
                     ELSE [scan EXCEPT !.seen = Max(page), !.out = out]
  BY Zenon DEF Page
<1> DEFINE page == {e \in Served(v) : Cardinality({x \in Served(v) : x < e}) < PageSize}
           out == scan.out \cup {LeafOfEvent(e) : e \in {x \in page : IsCommitment(x)}}
<1>5. page \subseteq Events
  BY DEF Served
<1>6. out \subseteq 0 .. Len(leaves) - 1
  <2> HIDE DEF page
  <2>1. ASSUME NEW e \in page, IsCommitment(e) PROVE LeafOfEvent(e) \in 0 .. Len(leaves) - 1
    BY <1>5, <2>1, LeavesOfPages
  <2>2. scan.out \subseteq 0 .. Len(leaves) - 1
    BY <1>3 DEF ScanKept
  <2> QED
    BY <2>1, <2>2
<1> HIDE DEF page, out
<1>7. \/ scan' = [scan EXCEPT !.from = scan.from + WINDOW, !.seen = 0, !.out = out]
      \/ scan' = [scan EXCEPT !.seen = Max(page), !.out = out]
  BY <1>4 DEF page, out
<1>8. scan = [st |-> scan.st, latest |-> scan.latest, from |-> scan.from, seen |-> scan.seen, out |-> scan.out]
  BY <1>3 DEF ScanKept
<1>9. /\ scan'.out = out
      /\ scan' = [st |-> scan'.st, latest |-> scan'.latest, from |-> scan'.from, seen |-> scan'.seen, out |-> scan'.out]
  BY <1>7, <1>8
<1>10. ScanKept'
  BY <1>2, <1>6, <1>9 DEF ScanKept
<1>11. BuiltKept'
  BY <1>1, <1>2, <1>3 DEF BuiltKept, NoTree
<1> QED
  BY <1>2, <1>10, <1>11 DEF TreeKept

LEMMA ThrowKept == ASSUME TreeKept, ScanThrows PROVE TreeKept'
<1>1. UNCHANGED chainVars /\ tree' = tree /\ scan' = Idle
  BY DEF ScanThrows
<1>2. CallsKept' /\ RingKept' /\ Len(leaves') = Len(leaves)
  BY <1>1, SameChain
<1>3. ScanKept'
  BY <1>1 DEF ScanKept, Idle
<1>4. BuiltKept'
  BY <1>1, <1>2 DEF TreeKept, BuiltKept, NoTree
<1> QED
  BY <1>2, <1>3, <1>4 DEF TreeKept

(* A scan without a gap becomes the tree.                                  *)
LEMMA EndKept == ASSUME TreeKept, EndScan PROVE TreeKept'
<1>1. /\ UNCHANGED chainVars /\ scan' = Idle
      /\ tree' = IF Contiguous(scan.out) THEN scan.out ELSE NoTree
  BY DEF EndScan
<1>2. CallsKept' /\ RingKept' /\ Len(leaves') = Len(leaves) /\ Len(leaves) \in Nat
  BY <1>1, SameChain DEF TreeKept, CallsKept
<1>3. ScanKept'
  BY <1>1 DEF ScanKept, Idle
<1>4. scan.out \subseteq 0 .. Len(leaves) - 1
  BY DEF TreeKept, ScanKept
<1>5. BuiltKept'
  <2>1. CASE Contiguous(scan.out)
    <3>1. \E m \in 0 .. Len(leaves) : scan.out = 0 .. m - 1
      BY <1>2, <1>4, <2>1, NoGap
    <3> QED
      BY <1>1, <1>2, <2>1, <3>1 DEF BuiltKept
  <2>2. CASE ~Contiguous(scan.out)
    BY <1>1, <2>2 DEF BuiltKept, NoTree
  <2> QED
    BY <2>1, <2>2
<1> QED
  BY <1>2, <1>3, <1>5 DEF TreeKept

LEMMA TreeNextKept == TreeKept /\ [TreeNext]_merkleVars => TreeKept'
<1> SUFFICES ASSUME TreeKept, [TreeNext]_merkleVars PROVE TreeKept'
  OBVIOUS
<1>1. CASE \E a, b \in Commitments : InsertPair(a, b)
  BY <1>1, PairKept
<1>2. CASE QuietLedger
  BY <1>2, QuietKept
<1>3. CASE FromIndexer
  BY <1>3, IndexedKept
<1>4. CASE StartScan
  BY <1>4, StartKept
<1>5. CASE Page
  BY <1>5, PageKept
<1>6. CASE ScanThrows
  BY <1>6, ThrowKept
<1>7. CASE EndScan
  BY <1>7, EndKept
<1>8. CASE UNCHANGED merkleVars
  <2>1. UNCHANGED chainVars /\ scan' = scan /\ tree' = tree
    BY <1>8 DEF merkleVars, chainVars
  <2>2. CallsKept' /\ RingKept' /\ Len(leaves') = Len(leaves)
    BY <2>1, SameChain
  <2>3. ScanKept' /\ BuiltKept'
    BY <2>1, <2>2 DEF TreeKept, ScanKept, BuiltKept, NoTree
  <2> QED
    BY <2>2, <2>3 DEF TreeKept
<1> QED
  BY <1>1, <1>2, <1>3, <1>4, <1>5, <1>6, <1>7, <1>8 DEF TreeNext

-----------------------------------------------------------------------------
(* The tree that is built is a tree of the contract, and its paths prove.  *)
LEMMA BuiltSound == TreeKept => BuiltIsPast /\ PathsProve
<1> SUFFICES ASSUME TreeKept, tree # NoTree
             PROVE  /\ \E n \in 0 .. Len(leaves) : BuildTree(tree)[DEPTH][0] = RootOf(n)
                    /\ \A i \in tree : MerkleProof(Leaf(leaves[i + 1]), PathOf(BuildTree(tree), i), i)
                                       = BuildTree(tree)[DEPTH][0]
  BY Zenon DEF BuiltIsPast, PathsProve
<1>1. PICK m \in 0 .. Len(leaves) : tree = 0 .. m - 1
  BY DEF TreeKept, BuiltKept
<1>2. Len(leaves) \in Nat /\ Len(leaves) <= Width /\ Width \in Nat
  BY Rows DEF TreeKept, CallsKept
<1>3. m \in 0 .. Width
  BY <1>2
<1> DEFINE t == FullTree(leaves, m)
<1>4. BuildTree(tree) = t
  BY <1>1, <1>3, BuiltIsFull
<1>5. \E n \in 0 .. Len(leaves) : BuildTree(tree)[DEPTH][0] = RootOf(n)
  BY <1>4 DEF RootOf
<1>6. ASSUME NEW i \in tree PROVE MerkleProof(Leaf(leaves[i + 1]), PathOf(t, i), i) = t[DEPTH][0]
  <2>1. i \in Row(0) /\ i < m
    BY <1>1, <1>3, Rows
  <2>2. Leaf(leaves[i + 1]) = t[0][i]
    BY <2>1, TreeRows
  <2> DEFINE sib == PathOf(t, i)
  <2>3. \A l \in Levels : sib[l] = t[l][SiblingOf(i, l)]
    BY DEF PathOf
  <2> HIDE DEF sib, t
  <2>4. \A l \in 0..DEPTH : Climb(i, Leaf(leaves[i + 1]), sib)[l] = t[l][Ancestor(i, l)]
    BY <2>1, <2>2, <2>3, ClimbsTree DEF t
  <2>5. Climb(i, Leaf(leaves[i + 1]), sib)[DEPTH] = t[DEPTH][0]
    BY <2>1, <2>4, Ancestors, Rows
  <2> QED
    BY <2>5 DEF MerkleProof, sib
<1> HIDE DEF t
<1> QED
  BY <1>4, <1>5, <1>6

(* What climbs to the newest root is a leaf.                               *)
LEMMA ProvenIsLeaf == TreeKept => OnlyLeavesProve
<1> SUFFICES ASSUME TreeKept, NEW i \in Row(0), NEW v \in Commitments, NEW path,
                    MerkleProof(Leaf(v), path, i) = ring[ringAt]
             PROVE  i < Len(leaves) /\ leaves[i + 1] = v
  BY Zenon DEF OnlyLeavesProve
<1> DEFINE n == Len(leaves)
<1>1. ring[ringAt] = FullTree(leaves, n)[DEPTH][0]
  BY DEF TreeKept, RingKept, RingIsOfTree, RootOf
<1>2. Climb(i, Leaf(v), path)[DEPTH] = FullTree(leaves, n)[DEPTH][0]
  BY <1>1 DEF MerkleProof
<1>3. Leaf(v) = FullTree(leaves, n)[0][i]
  BY <1>2, RootsOnlyFromLeaves
<1>4. Leaf(v) = Leaf(IF i < n THEN leaves[i + 1] ELSE 0)
  BY <1>3, TreeRows
<1>5. v = IF i < n THEN leaves[i + 1] ELSE 0
  BY <1>4 DEF Leaf
<1>6. v # 0
  BY TreeNumbers
<1> QED
  BY <1>5, <1>6

(* The contract's newest roots are those of the full tree over its leaves; *)
(* whatever the indexer or lagging nodes answered, the tree the wallet     *)
(* builds is one the contract had, each leaf found has a path that proves  *)
(* it, and nothing else climbs to the newest root (merkle.rs, tree.ts,     *)
(* merkleProof.circom).                                                    *)
THEOREM TreeHolds == TreeSpec => []TreeSound
<1>1. TreeKept => TreeSound
  <2> SUFFICES ASSUME TreeKept PROVE TreeSound
    OBVIOUS
  <2>1. RingIsOfTree
    BY DEF TreeKept, RingKept
  <2> QED
    BY <2>1, BuiltSound, ProvenIsLeaf DEF TreeSound
<1> QED
  BY <1>1, TreeInitKept, TreeNextKept, PTL DEF TreeSpec
=============================================================================
