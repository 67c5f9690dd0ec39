--------------------------- MODULE ExtensionProofs ---------------------------
(***************************************************************************)
(* What the extension keeps, under any interleaving of any windows: the    *)
(* networks that ship stay listed and the active one is a listed one; and  *)
(* every wrong password counts towards the lockout, which holds. The pages *)
(* of the popup that pay: what was confirmed is what is sent, for any      *)
(* forms, accounts, prices and answers that come late. The palette of the  *)
(* private mode, for any interleaving of gestures, timers and renders. And *)
(* the private payments: no note is deposited twice, and what is shown as  *)
(* delivered was paid, over stops of the worker and answers that are lost. *)
(* And the screens before a wallet is open: what they say is what is       *)
(* stored, and no answer takes them away.                                  *)
(***************************************************************************)
EXTENDS Networks, Lockout, SendPage, SwapPage, PullToPrivate, PrivatePayments, Onboarding, Sums

(* A request that writes a list read one with the defaults in it, and one  *)
(* that removes was refused a default.                                     *)
Kept(e) ==
    /\ e.at \in {"reads", "writes"} => e.id \in NetworkIds
    /\ e.at = "writes" =>
        /\ Defaults \subseteq e.list
        /\ e.op = "remove" => e.id \notin Defaults

Requests == [op : {NoNetwork, "add", "edit", "remove", "activate"}, id : NetworkIds \cup {NoNetwork},
             at : {"new", "reads", "writes", "done"}, list : SUBSET NetworkIds]

NetworksKept ==
    /\ networks = NoNetwork \/ (Defaults \subseteq networks /\ networks \subseteq NetworkIds)
    /\ edit \in [Edits -> Requests]
    /\ \A e \in Edits : Kept(edit[e])
    /\ activeId \in chosen /\ FirstNetwork \in chosen

-----------------------------------------------------------------------------
LEMMA AskKeeps ==
    ASSUME NetworksKept, NEW e \in Edits, AskNetworks(e) PROVE NetworksKept'
  BY DEF AskNetworks, NetworksKept, Kept, Requests

LEMMA ReadKeeps ==
    ASSUME NetworksKept, NEW e \in Edits, getNetworks(e) PROVE NetworksKept'
<1> DEFINE list == IF networks = NoNetwork THEN Defaults ELSE networks
<1>1. Defaults \subseteq list /\ list \subseteq NetworkIds
  BY DEF NetworksKept, NetworkIds
<1>2. networks' = list /\ UNCHANGED <<activeId, chosen>>
  BY DEF getNetworks
<1>3. edit' = [edit EXCEPT ![e].list = list,
                           ![e].at = IF Accepts(edit[e].op, edit[e].id, list) THEN "writes" ELSE "done"]
  BY DEF getNetworks
<1> HIDE DEF list
<1>4. /\ edit'[e].list = list /\ edit'[e].op = edit[e].op /\ edit'[e].id = edit[e].id
      /\ edit'[e].at = "writes" => Accepts(edit[e].op, edit[e].id, list)
  BY <1>3 DEF NetworksKept
<1>5. Kept(edit'[e])
  <2>1. edit[e].id \in NetworkIds
    BY DEF getNetworks, NetworksKept, Kept
  <2>2. Accepts("remove", edit[e].id, list) => edit[e].id \notin Defaults
    BY DEF Accepts
  <2> QED
    BY <1>1, <1>4, <2>1, <2>2 DEF Kept
<1>6. \A f \in Edits \ {e} : edit'[f] = edit[f]
  BY <1>3 DEF NetworksKept
<1>7. \A f \in Edits : Kept(edit'[f])
  BY <1>5, <1>6 DEF NetworksKept
<1>8. edit' \in [Edits -> Requests]
  <2>1. edit'[e] \in Requests
    BY <1>1, <1>3 DEF NetworksKept, Requests
  <2> QED
    BY <1>3, <2>1 DEF NetworksKept
<1> QED
  BY <1>1, <1>2, <1>7, <1>8 DEF NetworksKept

LEMMA WriteKeeps ==
    ASSUME NetworksKept, NEW e \in Edits, saveNetworks(e) \/ setActiveNetwork(e) PROVE NetworksKept'
<1>1. edit[e].at = "writes" /\ edit' = [edit EXCEPT ![e].at = "done"]
  BY DEF saveNetworks, setActiveNetwork
<1>2. edit' \in [Edits -> Requests] /\ \A f \in Edits : Kept(edit'[f])
  BY <1>1 DEF NetworksKept, Kept, Requests
<1>3. /\ Defaults \subseteq edit[e].list /\ edit[e].list \subseteq NetworkIds
      /\ edit[e].id \in NetworkIds /\ (edit[e].op = "remove" => edit[e].id \notin Defaults)
  BY <1>1 DEF NetworksKept, Kept, Requests
<1>4. CASE saveNetworks(e)
  <2>1. networks' = Edited(edit[e].op, edit[e].id, edit[e].list) /\ UNCHANGED <<activeId, chosen>>
    BY <1>4 DEF saveNetworks
  <2>2. Defaults \subseteq networks' /\ networks' \subseteq NetworkIds
    BY <1>3, <2>1 DEF Edited
  <2> QED
    BY <1>2, <2>1, <2>2 DEF NetworksKept
<1>5. CASE setActiveNetwork(e)
  BY <1>2, <1>5 DEF setActiveNetwork, NetworksKept
<1> QED
  BY <1>4, <1>5

LEMMA NetworksInductive == NetworksSpec => []NetworksKept
<1>1. NetworksInit => NetworksKept
  BY DEF NetworksInit, NetworksKept, Kept, Requests
<1>2. NetworksKept /\ [NetworksNext]_networkVars => NetworksKept'
  <2> SUFFICES ASSUME NetworksKept, [NetworksNext]_networkVars PROVE NetworksKept'
    OBVIOUS
  <2>1. CASE UNCHANGED networkVars
    BY <2>1 DEF networkVars, NetworksKept
  <2> QED
    BY <2>1, AskKeeps, ReadKeeps, WriteKeeps DEF NetworksNext
<1> QED
  BY <1>1, <1>2, PTL DEF NetworksSpec

(* The default networks stay listed and the wallet is on a listed network  *)
(* that some window chose, or on the first, however the windows interleave.*)
THEOREM NetworksHold == NetworksSpec => []NetworksInv
<1>1. NetworksKept => NetworksInv
  <2> SUFFICES ASSUME NetworksKept PROVE NetworksInv
    OBVIOUS
  <2>1. Defaults \subseteq Listed
    BY DEF NetworksKept, Listed
  <2>2. getActiveNetwork(Listed) \in Listed \cap chosen
    BY <2>1, NetworksAssumption DEF NetworksKept, getActiveNetwork
  <2> QED
    BY <2>1, <2>2 DEF NetworksInv, DefaultsStay, ActiveIsListed
<1> QED
  BY <1>1, NetworksInductive, PTL

(* A network leaves the list by its own removal, unless a window wrote a   *)
(* list that had changed since it read it.                                 *)
THEOREM NetworksRemain == NetworksSpec => OnlyRemovalsRemove
<1>1. NetworksKept /\ [NetworksNext]_networkVars
        => [\A i \in Listed \ Listed' :
               outdated' \/ \E e \in Edits : edit[e].op = "remove" /\ edit[e].id = i /\ edit[e].at = "writes"]_networkVars
  <2> SUFFICES ASSUME NetworksKept, NetworksNext, NEW i \in Listed \ Listed'
               PROVE  outdated' \/ \E e \in Edits :
                          edit[e].op = "remove" /\ edit[e].id = i /\ edit[e].at = "writes"
    BY DEF networkVars
  <2>1. ASSUME NEW e \in Edits, AskNetworks(e) \/ setActiveNetwork(e) PROVE FALSE
    BY <2>1 DEF AskNetworks, setActiveNetwork, Listed
  <2>2. ASSUME NEW e \in Edits, getNetworks(e) PROVE FALSE
    BY <2>2 DEF getNetworks, Listed
  <2>3. ASSUME NEW e \in Edits, saveNetworks(e), ~outdated'
        PROVE  edit[e].op = "remove" /\ edit[e].id = i /\ edit[e].at = "writes"
    <3>1. /\ networks' = Edited(edit[e].op, edit[e].id, edit[e].list)
          /\ edit[e].list = networks /\ edit[e].at = "writes"
      BY <2>3 DEF saveNetworks
    <3>2. edit[e].list \in SUBSET NetworkIds /\ edit[e].id \in NetworkIds
      BY <3>1 DEF NetworksKept, Kept, Requests
    <3>3. networks' \in SUBSET NetworkIds
      BY <3>1, <3>2 DEF Edited
    <3>4. Listed = edit[e].list /\ Listed' = networks'
      BY <3>1, <3>2, <3>3, NetworksAssumption DEF Listed
    <3> QED
      BY <3>1, <3>4 DEF Edited
  <2> QED
    BY <2>1, <2>2, <2>3 DEF NetworksNext
<1> QED
  BY <1>1, NetworksInductive, PTL DEF NetworksSpec, OnlyRemovalsRemove

-----------------------------------------------------------------------------
(* The lockout *)

Steps == {"rest", "expires", "decrypts", "opened", "counts", "locks"}
Counting == {w \in Windows : window[w].at = "counts"}

LockoutTyped ==
    /\ attempts \in Nat /\ lockedUntil \in Nat /\ now \in Nat \ {0} /\ wrong \in Nat
    /\ window \in [Windows -> [at : Steps, read : Nat]]
    /\ overlapped \in BOOLEAN

(* What a handler that found an expired lockout read is in the past.       *)
Past == \A w \in Windows : window[w].at = "expires" => window[w].read <= now

(* Every wrong password is in the counter or with the handler that counts  *)
(* it, and a full counter is locked or about to be.                        *)
AllCounted ==
    ~overlapped =>
        /\ wrong = attempts + Cardinality(Counting)
        /\ attempts >= MAX_ATTEMPTS => lockedUntil > 0 \/ \E w \in Windows : window[w].at = "locks"

LockoutKept == LockoutTyped /\ Past /\ AllCounted

LEMMA LockoutTypedStep ==
    ASSUME LockoutTyped, [LockoutNext]_lockoutVars PROVE LockoutTyped'
<1>1. CASE Minute \/ UNCHANGED lockoutVars
  BY <1>1 DEF Minute, lockoutVars, LockoutTyped
<1>8. CASE WorkerDies
  <2>1. UNCHANGED <<attempts, lockedUntil, now, wrong>> /\ window' = [w \in Windows |-> Resting]
    BY <1>8 DEF WorkerDies
  <2>2. overlapped' \in BOOLEAN
    BY <1>8 DEF WorkerDies
  <2>3. Resting \in [at : Steps, read : Nat]
    BY DEF Resting, Steps
  <2> QED
    BY <2>1, <2>2, <2>3 DEF LockoutTyped
<1>2. ASSUME NEW w \in Windows, checkLockout(w) PROVE LockoutTyped'
  BY <1>2 DEF checkLockout, Goes, LockoutTyped, Steps
<1>3. ASSUME NEW w \in Windows, LockoutEnds(w) PROVE LockoutTyped'
  BY <1>3 DEF LockoutEnds, Goes, LockoutTyped, Steps
<1>4. ASSUME NEW w \in Windows, RightPassword(w) \/ WrongPassword(w) PROVE LockoutTyped'
  BY <1>4 DEF RightPassword, WrongPassword, Goes, LockoutTyped, Steps
<1>5. ASSUME NEW w \in Windows, resetFailedAttempts(w) PROVE LockoutTyped'
  BY <1>5 DEF resetFailedAttempts, Resting, LockoutTyped, Steps
<1>6. ASSUME NEW w \in Windows, Count(w) PROVE LockoutTyped'
  BY <1>6 DEF Count, Goes, Resting, LockoutTyped, Steps
<1>7. ASSUME NEW w \in Windows, LockOut(w) PROVE LockoutTyped'
  BY <1>7, LockoutAssumption DEF LockOut, Resting, LockoutTyped, Steps
<1> QED
  BY <1>1, <1>2, <1>3, <1>4, <1>5, <1>6, <1>7, <1>8 DEF LockoutNext

LEMMA PastStep ==
    ASSUME LockoutTyped, Past, [LockoutNext]_lockoutVars PROVE Past'
<1> SUFFICES ASSUME NEW w \in Windows, window'[w].at = "expires" PROVE window'[w].read <= now'
  BY LockoutTypedStep DEF Past
<1>1. now' = now \/ now' = now + 1
  BY DEF LockoutNext, lockoutVars, Minute, WorkerDies, checkLockout, LockoutEnds, RightPassword,
     resetFailedAttempts, WrongPassword, Count, LockOut
<1>2. CASE window'[w] = window[w]
  <2>1. window[w].read \in Nat /\ now \in Nat
    BY DEF LockoutTyped
  <2>2. window[w].read <= now
    BY <1>2 DEF Past
  <2> QED
    BY <1>1, <1>2, <2>1, <2>2
<1>3. ASSUME NEW v \in Windows, checkLockout(v), v = w, window'[w] # window[w]
      PROVE  window'[w].read <= now'
  <2>1. lockedUntil # 0 /\ Expired(lockedUntil) /\ Goes(w, "expires", lockedUntil) /\ now' = now
    BY <1>3 DEF checkLockout, Goes, LockoutTyped
  <2> QED
    BY <2>1 DEF Expired, Goes, LockoutTyped
<1>4. ASSUME NEW v \in Windows, checkLockout(v), v # w PROVE window'[w] = window[w]
  BY <1>4 DEF checkLockout, Goes, LockoutTyped
<1>5. ASSUME NEW v \in Windows,
             \/ LockoutEnds(v) \/ RightPassword(v) \/ resetFailedAttempts(v)
             \/ WrongPassword(v) \/ Count(v) \/ LockOut(v)
      PROVE  window'[w] = window[w]
  <2>1. \E r : r.at # "expires" /\ window' = [window EXCEPT ![v] = r]
    <3>1. ASSUME NEW to \in Steps \ {"expires"}, NEW read \in Nat, Goes(v, to, read)
          PROVE  \E r : r.at # "expires" /\ window' = [window EXCEPT ![v] = r]
      <4>1. [at |-> to, read |-> read].at # "expires"
        BY <3>1
      <4> QED
        BY <3>1, <4>1 DEF Goes
    <3>2. ASSUME window' = [window EXCEPT ![v] = Resting]
          PROVE  \E r : r.at # "expires" /\ window' = [window EXCEPT ![v] = r]
      <4>1. Resting.at # "expires"
        BY DEF Resting
      <4> QED
        BY <3>2, <4>1
    <3>3. attempts \in Nat
      BY DEF LockoutTyped
    <3> QED
      BY <1>5, <3>1, <3>2, <3>3 DEF LockoutEnds, RightPassword, resetFailedAttempts, WrongPassword, Count, LockOut,
         Steps
  <2> QED
    BY <2>1 DEF LockoutTyped
<1>6. CASE WorkerDies
  BY <1>6 DEF WorkerDies, Resting
<1>7. CASE Minute \/ UNCHANGED lockoutVars
  BY <1>7, <1>2 DEF Minute, lockoutVars
<1> QED
  BY <1>2, <1>3, <1>4, <1>5, <1>6, <1>7 DEF LockoutNext

(* One handler's step moves at most itself in or out of those that count.  *)
LEMMA CountingMoves ==
    ASSUME LockoutTyped, NEW v \in Windows, NEW to, NEW read, Goes(v, to, read)
    PROVE  /\ to # "counts" => Counting' = Counting \ {v}
           /\ to = "counts" => Counting' = Counting \cup {v}
           /\ \A w \in Windows \ {v} : window'[w] = window[w]
           /\ window'[v].at = to
<1>1. /\ \A w \in Windows \ {v} : window'[w] = window[w]
      /\ window'[v] = [at |-> to, read |-> read]
  BY DEF Goes, LockoutTyped
<1>2. window'[v].at = to
  BY <1>1
<1> QED
  BY <1>1, <1>2 DEF Counting

LEMMA RestingGoes ==
    ASSUME NEW v, window' = [window EXCEPT ![v] = Resting] PROVE Goes(v, "rest", 0)
  BY DEF Goes, Resting

LEMMA CountingFinite ==
    /\ IsFiniteSet(Counting) /\ Cardinality(Counting) \in Nat
    /\ \A v : v \notin Counting => Cardinality(Counting \cup {v}) = Cardinality(Counting) + 1
    /\ \A v : v \in Counting => Cardinality(Counting \ {v}) = Cardinality(Counting) - 1
<1>1. IsFiniteSet(Counting)
  <2>1. Counting \subseteq Windows
    BY DEF Counting
  <2> QED
    BY <2>1, LockoutAssumption, FS_Subset
<1> QED
  BY <1>1, FS_CardinalityType, FS_AddElement, FS_RemoveElement

Locking == \E w \in Windows : window[w].at = "locks"

(* A reset that overlaps no counting handler starts from nothing.          *)
LEMMA ResetCounts ==
    ASSUME LockoutKept, attempts' = 0, wrong' = 0, Counting' = {} PROVE AllCounted'
<1>1. Cardinality(Counting') = 0
  BY FS_EmptySet
<1>2. ~(0 >= MAX_ATTEMPTS)
  BY LockoutAssumption
<1> QED
  BY <1>1, <1>2 DEF AllCounted

(* A step that neither counts nor locks.                                   *)
LEMMA NothingCounts ==
    ASSUME LockoutKept, UNCHANGED <<attempts, wrong, lockedUntil, overlapped, Counting, Locking>>
    PROVE  AllCounted'
  BY DEF LockoutKept, AllCounted, Locking

LEMMA CountedStep ==
    ASSUME LockoutKept, [LockoutNext]_lockoutVars PROVE AllCounted'
<1>0. /\ LockoutTyped /\ attempts \in Nat /\ wrong \in Nat /\ lockedUntil \in Nat /\ now \in Nat \ {0}
  BY DEF LockoutKept, LockoutTyped
<1>1. CASE Minute \/ UNCHANGED lockoutVars
  <2>1. UNCHANGED <<attempts, wrong, lockedUntil, overlapped, window>>
    BY <1>1 DEF Minute, lockoutVars
  <2> QED
    BY <2>1, NothingCounts DEF Counting, Locking
<1>2. CASE WorkerDies
  <2>1. SUFFICES ASSUME ~overlapped' PROVE AllCounted'
    BY DEF AllCounted
  <2>2. ~overlapped /\ \A w \in Windows : window[w].at \notin {"counts", "locks"}
    BY <1>2, <2>1 DEF WorkerDies
  <2>3. \A w \in Windows : window'[w] = Resting
    BY <1>2 DEF WorkerDies
  <2>4. Resting.at = "rest"
    BY DEF Resting
  <2>5. UNCHANGED <<attempts, wrong, lockedUntil>> /\ overlapped' = overlapped
    BY <1>0, <1>2, <2>1, <2>2 DEF WorkerDies, LockoutTyped
  <2>6. Counting = {} /\ Counting' = {}
    BY <2>2, <2>3, <2>4 DEF Counting
  <2>7. Locking = FALSE /\ Locking' = FALSE
    BY <2>2, <2>3, <2>4 DEF Locking
  <2> QED
    BY <2>5, <2>6, <2>7, NothingCounts
<1>3. ASSUME NEW v \in Windows, checkLockout(v) PROVE AllCounted'
  <2>1. UNCHANGED <<attempts, wrong, lockedUntil, overlapped>> /\ window[v].at = "rest"
    BY <1>3 DEF checkLockout
  <2>2. UNCHANGED window \/ Goes(v, "decrypts", 0) \/ Goes(v, "expires", lockedUntil)
    BY <1>3 DEF checkLockout
  <2>3. UNCHANGED <<Counting, Locking>>
    BY <1>0, <2>1, <2>2, CountingMoves DEF Counting, Locking
  <2> QED
    BY <2>1, <2>3, NothingCounts
<1>4. ASSUME NEW v \in Windows, LockoutEnds(v) \/ resetFailedAttempts(v) PROVE AllCounted'
  <2>1. SUFFICES ASSUME ~overlapped' PROVE AllCounted'
    BY DEF AllCounted
  <2>2. attempts' = 0 /\ wrong' = 0 /\ Counting = {}
    BY <1>4, <2>1 DEF LockoutEnds, resetFailedAttempts, Counting
  <2>3. Goes(v, "decrypts", 0) \/ Goes(v, "rest", 0)
    BY <1>4, RestingGoes DEF LockoutEnds, resetFailedAttempts
  <2>4. Counting' = {}
    BY <1>0, <2>2, <2>3, CountingMoves
  <2> QED
    BY <2>2, <2>4, ResetCounts
<1>5. ASSUME NEW v \in Windows, RightPassword(v) PROVE AllCounted'
  <2>1. UNCHANGED <<attempts, wrong, lockedUntil, overlapped>> /\ window[v].at = "decrypts"
    BY <1>5 DEF RightPassword
  <2>2. Goes(v, "opened", 0)
    BY <1>5 DEF RightPassword
  <2>3. UNCHANGED <<Counting, Locking>>
    BY <1>0, <2>1, <2>2, CountingMoves DEF Counting, Locking
  <2> QED
    BY <2>1, <2>3, NothingCounts
<1>6. ASSUME NEW v \in Windows, WrongPassword(v) PROVE AllCounted'
  <2>1. /\ UNCHANGED <<attempts, lockedUntil, overlapped>> /\ wrong' = wrong + 1
        /\ window[v].at = "decrypts"
    BY <1>6 DEF WrongPassword
  <2>2. Goes(v, "counts", attempts)
    BY <1>6 DEF WrongPassword
  <2>3. Counting' = Counting \cup {v} /\ v \notin Counting
    BY <1>0, <2>1, <2>2, CountingMoves DEF Counting
  <2>4. Locking' = Locking
    BY <1>0, <2>1, <2>2, CountingMoves DEF Locking
  <2>5. Cardinality(Counting') = Cardinality(Counting) + 1 /\ Cardinality(Counting) \in Nat
    BY <2>3, CountingFinite
  <2> QED
    BY <1>0, <2>1, <2>4, <2>5 DEF LockoutKept, AllCounted, Locking
<1>7. ASSUME NEW v \in Windows, Count(v) PROVE AllCounted'
  <2>1. SUFFICES ASSUME ~overlapped' PROVE AllCounted'
    BY DEF AllCounted
  <2>2. /\ ~overlapped /\ attempts = window[v].read /\ attempts' = attempts + 1
        /\ UNCHANGED <<wrong, lockedUntil>> /\ window[v].at = "counts"
    BY <1>7, <2>1 DEF Count
  <2>3. Goes(v, "locks", 0) \/ (~Locks(attempts + 1) /\ Goes(v, "rest", 0))
    BY <1>7, <2>2, RestingGoes DEF Count
  <2>4. v \in Counting /\ Counting' = Counting \ {v} /\ (Locks(attempts + 1) => window'[v].at = "locks")
    <3>1. v \in Counting
      BY <2>2 DEF Counting
    <3> QED
      BY <1>0, <2>3, <3>1, CountingMoves
  <2>5. Cardinality(Counting') = Cardinality(Counting) - 1 /\ Cardinality(Counting) \in Nat
    BY <2>4, CountingFinite
  <2>6. wrong' = attempts' + Cardinality(Counting')
    BY <1>0, <2>2, <2>5 DEF LockoutKept, AllCounted
  <2>7. attempts' >= MAX_ATTEMPTS => Locking'
    BY <2>2, <2>4 DEF Locks, Locking
  <2> QED
    BY <2>6, <2>7 DEF AllCounted, Locking
<1>8. ASSUME NEW v \in Windows, LockOut(v) PROVE AllCounted'
  <2>1. /\ UNCHANGED <<attempts, wrong, overlapped>> /\ lockedUntil' = now + LOCKOUT
        /\ window[v].at = "locks"
    BY <1>8 DEF LockOut
  <2>2. Goes(v, "rest", 0)
    BY <1>8, RestingGoes DEF LockOut
  <2>3. Counting' = Counting
    BY <1>0, <2>1, <2>2, CountingMoves DEF Counting
  <2>4. lockedUntil' > 0
    BY <1>0, <2>1, LockoutAssumption
  <2> QED
    BY <2>1, <2>3, <2>4 DEF LockoutKept, AllCounted
<1> QED
  BY <1>1, <1>2, <1>3, <1>4, <1>5, <1>6, <1>7, <1>8 DEF LockoutNext

LEMMA LockoutInductive == LockoutSpec => []LockoutKept
<1>1. LockoutInit => LockoutKept
  <2> SUFFICES ASSUME LockoutInit PROVE LockoutKept
    OBVIOUS
  <2>1. LockoutTyped
    <3>1. Resting \in [at : Steps, read : Nat]
      BY DEF Resting, Steps
    <3>2. window = [w \in Windows |-> Resting]
      BY DEF LockoutInit
    <3>3. window \in [Windows -> [at : Steps, read : Nat]]
      BY <3>1, <3>2
    <3>4. attempts = 0 /\ lockedUntil = 0 /\ now = 1 /\ wrong = 0 /\ overlapped = FALSE
      BY DEF LockoutInit
    <3>5. attempts \in Nat /\ lockedUntil \in Nat /\ now \in Nat \ {0} /\ wrong \in Nat
      BY <3>4, SMT
    <3>6. overlapped \in BOOLEAN
      BY <3>4, Zenon
    <3> QED
      BY <3>3, <3>5, <3>6, Zenon DEF LockoutTyped
  <2>2. \A w \in Windows : window[w].at = "rest"
    BY DEF LockoutInit, Resting
  <2>3. Cardinality(Counting) = 0
    BY <2>2, FS_EmptySet DEF Counting
  <2>4. AllCounted
    BY <2>3, LockoutAssumption DEF LockoutInit, AllCounted
  <2> QED
    BY <2>1, <2>2, <2>4 DEF LockoutKept, Past
<1>2. LockoutKept /\ [LockoutNext]_lockoutVars => LockoutKept'
  BY LockoutTypedStep, PastStep, CountedStep DEF LockoutKept
<1> QED
  BY <1>1, <1>2, PTL DEF LockoutSpec

(* Every wrong password counts: with no handler between its read and its   *)
(* write and none overlapped before, the counter is the number of wrong    *)
(* passwords, and a full one is locked.                                    *)
THEOREM GuessesCount == LockoutSpec => []EveryGuessCounts
<1>1. LockoutKept => EveryGuessCounts
  <2> SUFFICES ASSUME LockoutKept, Trying = {}, ~overlapped
               PROVE  attempts = wrong /\ (attempts >= MAX_ATTEMPTS => lockedUntil > 0)
    BY DEF EveryGuessCounts
  <2>1. Counting = {} /\ ~Locking
    BY DEF Trying, Counting, Locking
  <2>2. Cardinality(Counting) = 0
    BY <2>1, FS_EmptySet
  <2> QED
    BY <2>1, <2>2 DEF LockoutKept, LockoutTyped, AllCounted, Locking
<1> QED
  BY <1>1, LockoutInductive, PTL

(* A running lockout is lifted only by the right password of a window that *)
(* got past its check.                                                     *)
THEOREM LockoutHolds == LockoutSpec => LockoutStands
<1>1. LockoutKept /\ [LockoutNext]_lockoutVars
        => [lockedUntil > now /\ lockedUntil' = 0 =>
               overlapped' \/ \E w \in Windows : window[w].at = "opened"]_lockoutVars
  <2> SUFFICES ASSUME LockoutKept, LockoutNext, lockedUntil > now, lockedUntil' = 0, ~overlapped'
               PROVE  \E w \in Windows : window[w].at = "opened"
    BY DEF lockoutVars
  <2>0. lockedUntil \in Nat /\ now \in Nat \ {0}
    BY DEF LockoutKept, LockoutTyped
  <2>1. ASSUME NEW v \in Windows, LockoutEnds(v) PROVE FALSE
    <3>1. lockedUntil = window[v].read /\ window[v].at = "expires"
      BY <2>1 DEF LockoutEnds
    <3>2. window[v].read <= now
      BY <3>1 DEF LockoutKept, Past
    <3> QED
      BY <2>0, <3>1, <3>2
  <2>2. ASSUME NEW v \in Windows, LockOut(v) PROVE FALSE
    BY <2>0, <2>2, LockoutAssumption DEF LockOut
  <2>3. ASSUME lockedUntil' = lockedUntil PROVE FALSE
    BY <2>0, <2>3
  <2> QED
    BY <2>1, <2>2, <2>3 DEF LockoutNext, Minute, WorkerDies, checkLockout, RightPassword, resetFailedAttempts,
       WrongPassword, Count
<1> QED
  BY <1>1, LockoutInductive, PTL DEF LockoutSpec, LockoutStands

-----------------------------------------------------------------------------
Recipients == {f.to : f \in Forms} \cup {p.form.to : p \in Earlier}
SendQuotes == [form : Forms \cup {Blank}, weak : BOOLEAN]
Pages == [step : {"form", "privacy", "confirm", "success"}, mode : {"public", "private"}, form : Forms \cup {Blank},
          loading : BOOLEAN, quote : SendQuotes \cup {Nothing}, acknowledged : BOOLEAN,
          preview : Forms \cup {Blank, Nothing}, shown : Owners, recents : SUBSET Recipients, reads : Seq(Owners),
          passed : SUBSET (Forms \cup {Blank}), ticked : Forms \cup {Blank, Nothing}, toggled : BOOLEAN,
          listed : BOOLEAN, fellBack : BOOLEAN]
SendRequests == [kind : {"build", "quote", "pay", "queue"}, form : Forms, by : Owners, ok : BOOLEAN,
                 at : {"asked", "checked", "done", "failed"}, heard : BOOLEAN]

SendTyped ==
    /\ page \in Pages /\ account \in Owners /\ requests \subseteq SendRequests
    /\ keptRecents \in [Owners -> SUBSET Recipients]

Pays(r) == r.kind \in {"pay", "queue"}
(* What a request that is out has of its page.                             *)
Follows(r) ==
    /\ page.loading /\ SameForm(r.form, selected)
    /\ page.step = (IF Pays(r) THEN "confirm" ELSE "privacy")
    /\ Pays(r) => page.mode = (IF r.kind = "pay" THEN "public" ELSE "private")
    /\ ~Pays(r) /\ ~page.toggled => page.mode = (IF r.kind = "build" THEN "public" ELSE "private")
    /\ r.kind = "build" /\ r.at = "checked" => r.form \in page.passed
    /\ r.kind = "quote" => ~page.acknowledged
(* What a request has of the payment it makes, and of the page that hears  *)
(* it.                                                                     *)
Sound(r) ==
    /\ Pays(r) => r.ok
    /\ r.at = "checked" => r.kind = "build"
    /\ r.at = "done" => \E p \in made : p.form = r.form /\ p.kind = r.kind
    /\ r.at \in {"done", "failed"} => Pays(r)
    /\ ~r.heard => Pays(r) /\ r.at = "asked"
    /\ r.heard => Follows(r)
(* One request of the page is heard at a time: `loading` closes the        *)
(* buttons.                                                                *)
OneOut == \A r, q \in requests : r.heard /\ q.heard => r = q
(* What the confirmation shows is of the form it confirms.                 *)
Shown ==
    /\ page.step = "confirm" /\ ~page.toggled =>
          /\ page.mode = "public" => page.preview \in page.passed /\ SameForm(page.preview, selected)
          /\ page.mode = "private" => page.quote # Nothing /\ SameForm(page.quote.form, selected)
    /\ page.step \in {"privacy", "confirm"} => page.form \in Forms
    /\ page.acknowledged => page.quote # Nothing /\ page.ticked = page.quote.form
SendKept ==
    /\ SendTyped /\ OneOut /\ Shown /\ PaidAsAgreed /\ SuccessIsPaid
    /\ \A r \in requests : Sound(r)

(* The form as the page reads it is a form, in the asset it holds or XLM.  *)
LEMMA SelectedForm ==
    ASSUME NEW p \in Pages, p.form \in Forms
    PROVE  Selected(p) \in Forms /\ Native[Selected(p)] = Native[p.form]
  BY SendAssumption DEF Selected

(* A step of the page alone                                                *)
LEMMA PageMoves ==
  ASSUME SendKept, OnPage, page' \in Pages, \A r \in requests : r.heard => Follows(r)', Shown', SuccessIsPaid'
  PROVE SendKept'
  BY DEF SendKept, OnPage, SendTyped, OneOut, PaidAsAgreed, Sound

(* With nothing loading, no request of the page is out.                    *)
LEMMA Quiet == ASSUME SendKept, ~page.loading PROVE \A r \in requests : ~r.heard
  BY DEF SendKept, Sound, Follows

(* The form, before anything is asked.                                     *)
LEMMA FormMoves ==
  ASSUME SendKept, Type \/ handleFormContinue \/ Back \/ handleSendAgain PROVE SendKept'
<1> USE DEF SendKept, SendTyped, SameForm, selected, Selected
<1>1. OnPage
  BY DEF Type, handleFormContinue, Back, handleSendAgain
<1>2. page' \in Pages
  <2>1. CASE Type
    BY <2>1 DEF Type, Pages
  <2>2. CASE handleFormContinue
    BY <2>2 DEF handleFormContinue, Pages
  <2>3. CASE Back
    BY <2>3 DEF Back, Pages
  <2>4. CASE handleSendAgain
    BY <2>4 DEF handleSendAgain, Unticked, Pages
  <2> QED
    BY <2>1, <2>2, <2>3, <2>4
<1>3. \A r \in requests : ~r.heard
  <2>1. CASE Type \/ handleFormContinue \/ handleSendAgain
     BY <2>1 DEF Type, handleFormContinue, handleSendAgain, Sound, Follows
  <2>2. CASE Back
    BY <2>2, Quiet DEF Back, MayLeave
  <2> QED
    BY <2>1, <2>2
<1>4. Shown'
  <2>1. CASE Type
    BY <2>1 DEF Type, Pages, Shown
  <2>2. CASE handleFormContinue
    BY <2>2 DEF handleFormContinue, Pages, Shown
  <2>3. CASE Back
    BY <2>3 DEF Back, Pages, Shown
  <2>4. CASE handleSendAgain
    BY <2>4 DEF handleSendAgain, Unticked, Pages, Shown
  <2> QED
    BY <2>1, <2>2, <2>3, <2>4
<1>5. page'.step # "success"
  BY DEF Type, handleFormContinue, Back, handleSendAgain, Unticked, Pages
<1> QED
  BY <1>1, <1>2, <1>3, <1>4, <1>5, PageMoves DEF SuccessIsPaid

LEMMA ModeKeeps ==
    ASSUME SendKept, NEW m \in {"public", "private"}, ChooseMode(m)
    PROVE  SendKept'
<1> USE DEF SendKept, SendTyped, SameForm, selected, Selected
<1>1. /\ page.step = "privacy" /\ OnPage
      /\ page' = [page EXCEPT !.mode = m, !.toggled = @ \/ page.loading]
  BY DEF ChooseMode
<1>2. page' \in Pages
  <2>1. page.toggled \in BOOLEAN /\ page.loading \in BOOLEAN
    BY DEF Pages
  <2>2. PICK t \in BOOLEAN : t = (page.toggled \/ page.loading)
    BY <2>1, Zenon
  <2>3. page' = [page EXCEPT !.mode = m, !.toggled = t]
    BY <1>1, <2>2, Zenon
  <2> QED
    BY <2>3, ZenonT(40) DEF Pages
<1>3. Shown' /\ SuccessIsPaid'
  BY <1>1 DEF Pages, Shown, SuccessIsPaid
<1>4. ASSUME NEW r \in requests, r.heard PROVE Follows(r)'
  BY <1>1, <1>4 DEF Sound, Follows, Pages, SendRequests, OnPage, Pays
<1> QED
  BY <1>1, <1>2, <1>3, <1>4, PageMoves

LEMMA AcknowledgeKeeps == ASSUME SendKept, Acknowledge PROVE SendKept'
<1> USE DEF SendKept, SendTyped, SameForm, selected, Selected
<1>1. /\ page.step = "confirm" /\ OnPage /\ page.quote \in SendQuotes
      /\ page' = [page EXCEPT !.acknowledged = ~@,
                            !.ticked = IF page.acknowledged THEN Nothing ELSE page.quote.form]
  BY DEF Acknowledge, Weak, Pages
<1>2. page' \in Pages
  BY <1>1, ZenonT(120) DEF Pages, SendQuotes
<1>5. /\ page'.step = page.step /\ page'.mode = page.mode /\ page'.form = page.form /\ page'.listed = page.listed
      /\ page'.quote = page.quote /\ page'.preview = page.preview /\ page'.passed = page.passed
      /\ page'.toggled = page.toggled /\ page'.fellBack = page.fellBack
      /\ page'.acknowledged = ~page.acknowledged
      /\ ~page.acknowledged => page'.ticked = page.quote.form
  BY <1>1 DEF Pages
<1>6. page.quote # Nothing
  BY DEF Acknowledge, Weak
<1>7. page'.acknowledged => page'.quote # Nothing /\ page'.ticked = page'.quote.form
  BY <1>5, <1>6, Zenon
<1>8. SuccessIsPaid'
  BY <1>1, <1>5 DEF OnPage, SuccessIsPaid
<1>3. Shown' /\ SuccessIsPaid'
  BY <1>5, <1>7, <1>8 DEF Shown
<1>4. ASSUME NEW r \in requests, r.heard PROVE Follows(r)'
  BY <1>1, <1>4 DEF Sound, Follows, Pages, SendRequests, OnPage, Pays
<1> QED
  BY <1>1, <1>2, <1>3, <1>4, PageMoves

LEMMA RecentsKeep == ASSUME SendKept, RecentsRead PROVE SendKept'
<1> USE DEF SendKept, SendTyped, SameForm, selected, Selected
<1>1. page' \in Pages /\ OnPage
  <2>1. Head(page.reads) \in Owners /\ Tail(page.reads) \in Seq(Owners)
    BY DEF RecentsRead, Pages
  <2>2. keptRecents[Head(page.reads)] \in SUBSET Recipients
    BY <2>1
  <2> QED
    BY <2>1, <2>2 DEF RecentsRead, Pages
<1>2. /\ page'.step = page.step /\ page'.mode = page.mode /\ page'.form = page.form /\ page'.loading = page.loading
      /\ page'.quote = page.quote /\ page'.acknowledged = page.acknowledged /\ page'.preview = page.preview
      /\ page'.passed = page.passed /\ page'.ticked = page.ticked /\ page'.toggled = page.toggled
      /\ page'.listed = page.listed /\ page'.fellBack = page.fellBack
  BY DEF RecentsRead, Pages
<1>3. Shown' /\ SuccessIsPaid'
  BY <1>1, <1>2 DEF OnPage, Shown, SuccessIsPaid
<1>4. ASSUME NEW r \in requests, r.heard PROVE Follows(r)'
  BY <1>1, <1>2, <1>4 DEF Sound, Follows, OnPage, Pays
<1> QED
  BY <1>1, <1>3, <1>4, PageMoves

(* Balances cleared or arrived may make the asset XLM, and nothing else.   *)
LEMMA BalancesKeep == ASSUME SendKept, PollStatus \/ BalancesArrive PROVE SendKept'
<1> USE DEF SendKept, SendTyped
<1> DEFINE Apart(p) ==
         /\ Refilled(p) /\ OnPage
         /\ p.step = page.step /\ p.mode = page.mode /\ p.loading = page.loading /\ p.fellBack = page.fellBack
         /\ p.quote = page.quote /\ p.acknowledged = page.acknowledged /\ p.preview = page.preview
         /\ p.passed = page.passed /\ p.ticked = page.ticked /\ p.toggled = page.toggled
         /\ \/ p.form = page.form
            \/ page.form \in Forms /\ p.form = Native[page.form]
<1>1. PICK p \in Pages : Apart(p)
  <2>1. CASE PollStatus
    <3>1. Append(page.reads, account) \in Seq(Owners)
      BY DEF Pages
    <3> DEFINE q == [page EXCEPT !.shown = account, !.listed = FALSE, !.reads = Append(@, account)]
    <3>2. q \in Pages /\ Refilled(q) /\ OnPage
      BY <2>1, <3>1 DEF PollStatus, Pages
    <3>3. /\ q.step = page.step /\ q.mode = page.mode /\ q.loading = page.loading /\ q.fellBack = page.fellBack
          /\ q.quote = page.quote /\ q.acknowledged = page.acknowledged /\ q.preview = page.preview
          /\ q.passed = page.passed /\ q.ticked = page.ticked /\ q.toggled = page.toggled /\ q.form = page.form
      BY DEF Pages
    <3> HIDE DEF q
    <3> QED
      BY <3>2, <3>3
  <2>2. ASSUME NEW listed \in BOOLEAN, Refilled([page EXCEPT !.listed = listed]), OnPage PROVE \E p \in Pages : Apart(p)
    <3> DEFINE q == [page EXCEPT !.listed = listed]
    <3>2. q \in Pages /\ Refilled(q)
      BY <2>2 DEF Pages
    <3>3. /\ q.step = page.step /\ q.mode = page.mode /\ q.loading = page.loading /\ q.fellBack = page.fellBack
          /\ q.quote = page.quote /\ q.acknowledged = page.acknowledged /\ q.preview = page.preview
          /\ q.passed = page.passed /\ q.ticked = page.ticked /\ q.toggled = page.toggled /\ q.form = page.form
      BY DEF Pages
    <3> HIDE DEF q
    <3> QED
      BY <2>2, <3>2, <3>3
  <2>3. ASSUME page.form \in Forms, Refilled([page EXCEPT !.listed = TRUE, !.form = Native[@]]), OnPage PROVE \E p \in Pages : Apart(p)
    <3> DEFINE q == [page EXCEPT !.listed = TRUE, !.form = Native[@]]
    <3>1. Native[page.form] \in Forms
      BY <2>3, SendAssumption
    <3>2. q \in Pages /\ Refilled(q)
      BY <2>3, <3>1 DEF Pages
    <3>3. /\ q.step = page.step /\ q.mode = page.mode /\ q.loading = page.loading /\ q.fellBack = page.fellBack
          /\ q.quote = page.quote /\ q.acknowledged = page.acknowledged /\ q.preview = page.preview
          /\ q.passed = page.passed /\ q.ticked = page.ticked /\ q.toggled = page.toggled
          /\ q.form = Native[page.form]
      BY DEF Pages
    <3> HIDE DEF q
    <3> QED
      BY <2>3, <3>2, <3>3
  <2> QED
    BY <2>1, <2>2, <2>3 DEF BalancesArrive
<1> DEFINE fell == page.fellBack \/ (Selected(p) # selected /\ (page.loading \/ page.step \in {"confirm", "success"}))
<1>2. /\ page' = [p EXCEPT !.fellBack = fell] /\ fell \in BOOLEAN
  <2>1. page.fellBack \in BOOLEAN
    BY DEF Pages
  <2> QED
    BY <1>1, <2>1 DEF Refilled
<1>3. /\ page' \in Pages /\ page'.fellBack = fell /\ page'.form = p.form /\ page'.listed = p.listed
      /\ page'.step = page.step /\ page'.mode = page.mode /\ page'.loading = page.loading
      /\ page'.quote = page.quote /\ page'.acknowledged = page.acknowledged /\ page'.preview = page.preview
      /\ page'.passed = page.passed /\ page'.ticked = page.ticked /\ page'.toggled = page.toggled
  BY <1>1, <1>2, ZenonT(40) DEF Pages
<1>4. selected' = Selected(p)
  BY <1>3 DEF selected, Selected
<1>5. page.form \in Forms => /\ page'.form \in Forms /\ selected \in Forms /\ selected' \in Forms
                             /\ Native[selected'] = Native[selected]
  <2> SUFFICES ASSUME page.form \in Forms
               PROVE  p.form \in Forms /\ selected \in Forms /\ Selected(p) \in Forms /\ Native[Selected(p)] = Native[selected]
    BY <1>3, <1>4
  <2>1. p.form \in Forms /\ Native[p.form] = Native[page.form]
    BY <1>1, SendAssumption
  <2>2. selected \in Forms /\ Native[selected] = Native[page.form]
    BY SelectedForm DEF selected
  <2>3. Selected(p) \in Forms /\ Native[Selected(p)] = Native[p.form]
    BY <2>1, SelectedForm
  <2> QED
    BY <2>1, <2>2, <2>3
<1>6. page.form \notin Forms => selected' = selected
  BY <1>1, <1>4 DEF selected, Selected
<1>7. ASSUME NEW f, page.loading \/ page.step \in {"confirm", "success"}, SameForm(f, selected)
      PROVE  f = selected' \/ (page'.fellBack /\ {f, selected'} \subseteq Forms /\ Native[f] = Native[selected'])
  <2>1. CASE page.form \notin Forms
    BY <1>3, <1>6, <1>7, <2>1 DEF SameForm
  <2>2. CASE page.form \in Forms /\ f = selected
    BY <1>3, <1>4, <1>5, <1>7, <2>2
  <2>3. CASE page.form \in Forms /\ f # selected
    BY <1>3, <1>5, <1>7, <2>3 DEF SameForm
  <2> QED
    BY <2>1, <2>2, <2>3
<1> HIDE DEF fell
<1>8. Shown' /\ SuccessIsPaid'
  <2>1. Shown'
    BY <1>3, <1>5, <1>7 DEF Shown, SameForm
  <2>2. SuccessIsPaid'
    BY <1>1, <1>3, <1>7 DEF OnPage, SuccessIsPaid, SameForm
  <2> QED
    BY <2>1, <2>2
<1>9. ASSUME NEW r \in requests, r.heard PROVE Follows(r)'
  <2>1. Follows(r)
    BY <1>9 DEF Sound
  <2>2. r.form = selected' \/ (page'.fellBack /\ {r.form, selected'} \subseteq Forms /\ Native[r.form] = Native[selected'])
    BY <1>7, <2>1 DEF Follows
  <2> QED
    BY <1>1, <1>3, <2>1, <2>2 DEF OnPage, Follows, Pays, SameForm
<1> QED
  BY <1>1, <1>3, <1>8, <1>9, PageMoves

(* A request made from the page as it stands                               *)
LEMMA QuestionKeeps ==
  ASSUME SendKept, NEW kind \in {"build", "quote", "pay", "queue"}, NEW ok \in BOOLEAN, Ask(kind, ok),
         ~page.loading, page.form \in Forms, kind \in {"pay", "queue"} => ok,
         page' \in Pages, page'.loading, page'.form = page.form,
         page'.listed = page.listed, page'.step = (IF kind \in {"pay", "queue"} THEN "confirm" ELSE "privacy"),
         page'.mode = (IF kind \in {"build", "pay"} THEN "public" ELSE "private"),
         kind = "quote" => ~page'.acknowledged,
         Shown', UNCHANGED <<account, keptRecents, made>>
  PROVE  SendKept'
<1> USE DEF SendKept, SendTyped, SameForm, selected, Selected
<1> DEFINE r == [kind |-> kind, form |-> selected, by |-> page.shown, ok |-> ok, at |-> "asked", heard |-> TRUE]
<1>1. requests' = requests \cup {r}
  BY DEF Ask
<1>2. r \in SendRequests
  BY SelectedForm DEF SendRequests, Pages
<1>3. /\ r.kind = kind /\ r.form = selected /\ r.ok = ok /\ r.at = "asked"
  BY Zenon
<1>4. r.heard
  BY Zenon
<1> HIDE DEF r
<1>5. \A q \in requests : ~q.heard
  BY Quiet
<1>6. SendTyped'
  BY <1>1, <1>2
<1>7. OneOut'
  BY <1>1, <1>5 DEF OneOut
<1>8. ASSUME NEW q \in requests' PROVE Sound(q)'
  <2>1. CASE q = r
    BY <2>1, <1>3, <1>4 DEF Sound, Follows, Pays
  <2>2. CASE q \in requests
    BY <2>2, <1>5 DEF Sound
  <2> QED
    BY <2>1, <2>2, <1>1
<1>9. PaidAsAgreed' /\ SuccessIsPaid'
  BY DEF PaidAsAgreed, SuccessIsPaid
<1> QED
  BY <1>6, <1>7, <1>8, <1>9

LEMMA ContinueKeeps ==
    ASSUME SendKept, handleContinue \/ handlePrivateContinue
    PROVE  SendKept'
<1>1. /\ page.step = "privacy" /\ ~page.loading /\ page.form \in Forms /\ page \in Pages
      /\ UNCHANGED <<account, keptRecents, made>>
  BY DEF handleContinue, handlePrivateContinue, SendKept, SendTyped, Shown
<1>2. CASE handleContinue
  <2>1. page' = [page EXCEPT !.loading = TRUE, !.toggled = FALSE, !.fellBack = FALSE] /\ Ask("build", TRUE) /\ page.mode = "public"
    BY <1>2 DEF handleContinue
  <2>2. page' \in Pages /\ page'.loading /\ page'.form = page.form /\ page'.listed = page.listed
        /\ page'.step = "privacy" /\ page'.mode = "public"
    BY <1>1, <2>1 DEF Pages
  <2>3. Shown'
    BY <1>1, <2>1 DEF SendKept, Shown, Pages
  <2> QED
    BY <1>1, <2>1, <2>2, <2>3, QuestionKeeps
<1>3. CASE handlePrivateContinue
  <2>1. /\ page' = [page EXCEPT !.acknowledged = FALSE, !.ticked = Nothing, !.loading = TRUE, !.toggled = FALSE, !.fellBack = FALSE]
        /\ Ask("quote", TRUE) /\ page.mode = "private"
    BY <1>1, <1>3 DEF handlePrivateContinue, Unticked, Pages
  <2>2. /\ page' \in Pages /\ page'.loading /\ page'.form = page.form /\ page'.listed = page.listed
        /\ page'.step = "privacy" /\ page'.mode = "private"
        /\ ~page'.acknowledged
    BY <1>1, <2>1 DEF Pages
  <2>3. Shown'
    BY <1>1, <2>1 DEF SendKept, Shown, Pages
  <2> QED
    BY <1>1, <2>1, <2>2, <2>3, QuestionKeeps
<1> QED
  BY <1>2, <1>3

LEMMA ConfirmKeeps ==
    ASSUME SendKept, handleConfirm \/ handlePrivateConfirm
    PROVE  SendKept'
<1>1. /\ page.step = "confirm" /\ ~page.loading /\ page.form \in Forms /\ page \in Pages
      /\ UNCHANGED <<account, keptRecents, made>> /\ page' = [page EXCEPT !.loading = TRUE]
  BY DEF handleConfirm, handlePrivateConfirm, SendKept, SendTyped, Shown
<1>2. Agreed /\ Agreed \in BOOLEAN
  <2>1. page.mode = "private" => (Weak => page.acknowledged)
    BY DEF handleConfirm, handlePrivateConfirm
  <2> QED
    BY <1>1, <2>1 DEF Agreed, SendKept, Shown, Pages
<1>3. /\ page' \in Pages /\ page'.loading /\ page'.form = page.form /\ page'.listed = page.listed
        /\ page'.step = "confirm" /\ page'.mode = page.mode
  BY <1>1 DEF Pages
<1>4. Shown'
  BY <1>1 DEF SendKept, Shown, Pages, SameForm, selected, Selected
<1>5. CASE handleConfirm
  <2>1. page.mode = "public" /\ Ask("pay", Agreed)
    BY <1>5 DEF handleConfirm
  <2> HIDE DEF Agreed
  <2> QED
    BY <1>1, <1>2, <1>3, <1>4, <2>1, QuestionKeeps
<1>6. CASE handlePrivateConfirm
  <2>1. page.mode = "private" /\ Ask("queue", Agreed)
    BY <1>6 DEF handlePrivateConfirm
  <2> HIDE DEF Agreed
  <2> QED
    BY <1>1, <1>2, <1>3, <1>4, <2>1, QuestionKeeps
<1> QED
  BY <1>5, <1>6

(* The request that is out is taken off, and nothing of the page is out.   *)
LEMMA TakenOff ==
    ASSUME SendKept, NEW r \in requests, r.heard
    PROVE  \A q \in requests \ {r} : ~q.heard
  BY DEF SendKept, OneOut

LEMMA AnsweredKeeps ==
  ASSUME SendKept, NEW r \in requests, BuildAnswered(r) \/ QuoteAnswered(r) \/ Answered(r) PROVE SendKept'
<1> USE DEF SendKept, SendTyped, SameForm, selected, Selected
<1>1. /\ requests' = requests \ {r} /\ UNCHANGED <<account, made>> /\ r.heard /\ Follows(r) /\ r \in SendRequests
  BY DEF BuildAnswered, QuoteAnswered, Answered, Sound, Pays
<1>2. \A q \in requests' : ~q.heard
  BY <1>1, TakenOff
<1>3. \A q \in requests' : Sound(q)'
  BY <1>1, <1>2 DEF Sound
<1>4. OneOut' /\ PaidAsAgreed'
  BY <1>1, <1>2 DEF OneOut, PaidAsAgreed
<1>5. page.step # "success" /\ SameForm(r.form, selected) /\ r.form \in Forms
  BY <1>1 DEF Follows, SendRequests
<1>6. CASE page' = [page EXCEPT !.loading = FALSE] /\ UNCHANGED keptRecents
  <2>1. page' \in Pages
    BY <1>6 DEF Pages
  <2>2. Shown' /\ SuccessIsPaid'
    BY <1>5, <1>6 DEF Shown, SuccessIsPaid, Pages
  <2> QED
    BY <1>1, <1>3, <1>4, <1>6, <2>1, <2>2
<1>7. CASE BuildAnswered(r) /\ page' = [page EXCEPT !.loading = FALSE, !.step = "confirm", !.preview = r.form]
  <2>1. page' \in Pages
    BY <1>1, <1>7 DEF Pages, SendRequests
  <2>2. Shown' /\ SuccessIsPaid'
    BY <1>1, <1>5, <1>7 DEF BuildAnswered, Follows, Shown, SuccessIsPaid, Pages,
       Pays
  <2> QED
    BY <1>1, <1>3, <1>4, <1>7, <2>1, <2>2 DEF BuildAnswered
<1>8. ASSUME QuoteAnswered(r), NEW w \in BOOLEAN,
             page' = [page EXCEPT !.loading = FALSE, !.step = "confirm", !.quote = [form |-> r.form, weak |-> w]]
      PROVE SendKept'
  <2> DEFINE quote == [form |-> r.form, weak |-> w]
  <2>0. quote.form = r.form /\ quote \in SendQuotes
    BY <1>1 DEF SendRequests, SendQuotes
  <2>5. page' = [page EXCEPT !.loading = FALSE, !.step = "confirm", !.quote = quote]
    BY <1>8
  <2>9. quote # Nothing
    <3>1. r.form \in Forms
      BY <1>1 DEF SendRequests
    <3> QED
      BY <3>1, SendAssumption, Zenon
  <2> HIDE DEF quote
  <2>1. page' \in Pages
    BY <2>0, <2>5 DEF Pages
  <2>6. ~page.toggled => page.mode = "private"
    BY <1>1, <1>8 DEF QuoteAnswered, Follows, Pays
  <2>7. ~page.acknowledged
    BY <1>1, <1>8 DEF QuoteAnswered, Follows
  <2>8. /\ page'.step = "confirm" /\ page'.quote = quote /\ page'.mode = page.mode /\ page'.form = page.form
        /\ page'.acknowledged = page.acknowledged /\ page'.toggled = page.toggled
        /\ page'.listed = page.listed /\ page'.fellBack = page.fellBack
    BY <2>5 DEF Pages
  <2>2. Shown' /\ SuccessIsPaid'
    BY <1>5, <2>0, <2>6, <2>7, <2>8, <2>9 DEF Shown, SuccessIsPaid
  <2> QED
    BY <1>1, <1>3, <1>4, <1>8, <2>1, <2>2 DEF QuoteAnswered
<1>9. CASE Answered(r) /\ Succeeds(r)
  <2>1. /\ page' = [page EXCEPT !.loading = FALSE, !.step = "success", !.recents = @ \cup {r.form.to}]
        /\ keptRecents' = [keptRecents EXCEPT ![r.by] = page.recents \cup {r.form.to}] /\ r.at = "done"
    BY <1>9 DEF Answered, rememberRecipient, Succeeds
  <2>2. r.form.to \in Recipients
    BY <1>5 DEF Recipients
  <2>3. page' \in Pages /\ keptRecents' \in [Owners -> SUBSET Recipients]
    BY <2>1, <2>2 DEF Pages
  <2>4. Shown'
    BY <2>1 DEF Pages, Shown
  <2>5. SuccessIsPaid'
    BY <1>1, <1>5, <2>1 DEF Pages, SuccessIsPaid, Sound, Follows, Pays
  <2> QED
    BY <1>1, <1>3, <1>4, <2>3, <2>4, <2>5
<1> QED
  BY <1>6, <1>7, <1>8, <1>9 DEF BuildAnswered, QuoteAnswered, Answered

LEMMA CheckedKeeps ==
    ASSUME SendKept, NEW r \in requests, Checked(r)
    PROVE  SendKept'
<1> USE DEF SendKept, SendTyped, SameForm, selected, Selected
<1>1. r.kind = "build" /\ r.at = "asked" /\ r.heard /\ Follows(r) /\ r \in SendRequests /\ UNCHANGED <<account, keptRecents, made>>
  BY DEF Checked, Sound, Pays
<1>2. \A q \in requests \ {r} : ~q.heard
  BY <1>1, TakenOff
<1>3. page.step = "privacy"
  BY <1>1 DEF Follows, Pays
<1>4. CASE requests' = requests \ {r} /\ page' = [page EXCEPT !.loading = FALSE]
  <2>1. page' \in Pages
    BY <1>4 DEF Pages
  <2>2. Shown' /\ SuccessIsPaid'
    BY <1>3, <1>4 DEF Shown, SuccessIsPaid, Pages
  <2>3. OneOut' /\ PaidAsAgreed' /\ \A q \in requests' : Sound(q)'
    BY <1>1, <1>2, <1>4 DEF OneOut, PaidAsAgreed, Sound
  <2> QED
    BY <1>1, <1>4, <2>1, <2>2, <2>3
<1>5. CASE /\ requests' = (requests \ {r}) \cup {[r EXCEPT !.at = "checked"]}
           /\ page' = [page EXCEPT !.passed = @ \cup {r.form}]
  <2> DEFINE c == [r EXCEPT !.at = "checked"]
  <2>1. c \in SendRequests /\ c.kind = "build" /\ c.at = "checked" /\ c.form = r.form /\ c.heard = r.heard
    BY <1>1 DEF SendRequests
  <2>2. requests' = (requests \ {r}) \cup {c}
    BY <1>5
  <2> HIDE DEF c
  <2>3. page' \in Pages
    BY <1>1, <1>5 DEF Pages, SendRequests
  <2>4. Shown' /\ SuccessIsPaid'
    BY <1>1, <1>3, <1>5 DEF Shown, SuccessIsPaid, Pages
  <2>5. Sound(c)'
    BY <1>1, <1>5, <2>1 DEF Sound, Follows, Pages, Pays
  <2>6. OneOut' /\ PaidAsAgreed' /\ \A q \in requests' : Sound(q)'
    BY <1>1, <1>2, <2>2, <2>5 DEF OneOut, PaidAsAgreed, Sound
  <2> QED
    BY <1>1, <2>1, <2>2, <2>3, <2>4, <2>6
<1> QED
  BY <1>4, <1>5 DEF Checked

LEMMA WorkKeeps == ASSUME SendKept, NEW r \in requests, Work(r) PROVE SendKept'
<1> USE DEF SendKept, SendTyped, SameForm, selected, Selected
<1>1. Pays(r) /\ r.at = "asked" /\ r.ok /\ r \in SendRequests /\ UNCHANGED <<page, account, keptRecents>>
  BY DEF Work, Sound, Pays
<1>2. PICK answer \in {"done", "failed"}, landed \in BOOLEAN :
          /\ answer = "done" => landed
          /\ requests' = (requests \ {r}) \cup (IF r.heard THEN {[r EXCEPT !.at = answer]} ELSE {})
          /\ made' = IF landed
                     THEN made \cup {[kind |-> r.kind, form |-> r.form, by |-> r.by, agreed |-> r.ok]}
                     ELSE made
  BY DEF Work
<1> DEFINE a == [r EXCEPT !.at = answer]
           p == [kind |-> r.kind, form |-> r.form, by |-> r.by, agreed |-> r.ok]
<1>3. a \in SendRequests /\ a.at = answer /\ a.kind = r.kind /\ a.form = r.form /\ a.heard = r.heard /\ a.ok = r.ok
  BY <1>1 DEF SendRequests
<1>4. p.kind = r.kind /\ p.form = r.form /\ p.agreed = r.ok
  BY Zenon
<1>5. requests' \subseteq (requests \ {r}) \cup {a} /\ (requests' = requests \ {r} \/ r.heard)
  BY <1>2
<1>6. made \subseteq made' /\ made' \subseteq made \cup {p} /\ (answer = "done" => p \in made')
  BY <1>2
<1> HIDE DEF a, p
<1>7. PaidAsAgreed'
  BY <1>1, <1>4, <1>6 DEF PaidAsAgreed
<1>8. SuccessIsPaid'
  BY <1>1, <1>6 DEF SuccessIsPaid
<1>9. OneOut'
  BY <1>3, <1>5 DEF OneOut
<1>10. ASSUME NEW q \in requests \ {r} PROVE Sound(q)'
  BY <1>1, <1>6 DEF Sound, Follows
<1>11. r.heard => Sound(a)'
  BY <1>1, <1>2, <1>3, <1>4, <1>6 DEF Sound, Follows, Pays
<1>12. Shown' /\ SendTyped'
  BY <1>1, <1>3, <1>5 DEF Shown
<1> QED
  BY <1>5, <1>7, <1>8, <1>9, <1>10, <1>11, <1>12

LEMMA AwayKeeps == ASSUME SendKept, SwitchElsewhere \/ ReopenPopup PROVE SendKept'
<1> USE DEF SendKept, SendTyped, SameForm, selected, Selected
<1>1. CASE SwitchElsewhere
  BY <1>1 DEF SwitchElsewhere, OneOut, Shown, PaidAsAgreed, SuccessIsPaid, Sound,
     Follows
<1>2. CASE ReopenPopup
  <2>1. page' = NewPage(account) /\ UNCHANGED <<account, keptRecents, made>>
    BY <1>2 DEF ReopenPopup
  <2>2. /\ page' \in Pages /\ page'.step = "form"
    <3>1. <<account>> \in Seq(Owners)
      OBVIOUS
    <3> QED
      BY <2>1, <3>1 DEF NewPage, Pages
  <2>3. ~page'.acknowledged
    BY <2>1, Zenon DEF NewPage
  <2>4. ASSUME NEW q \in requests' PROVE q \in SendRequests /\ ~q.heard /\ Pays(q) /\ q.ok /\ q.at = "asked"
    <3>1. PICK r \in requests : r.kind \in {"pay", "queue"} /\ r.at = "asked" /\ q = [r EXCEPT !.heard = FALSE]
      BY <1>2 DEF ReopenPopup
    <3>2. r \in SendRequests /\ r.ok /\ Pays(r)
      BY <3>1 DEF Sound, Pays
    <3> QED
      BY <3>1, <3>2 DEF SendRequests, Pays
  <2>5. \A q \in requests' : Sound(q)'
    BY <2>4 DEF Sound
  <2>6. OneOut' /\ Shown' /\ SuccessIsPaid' /\ PaidAsAgreed'
    BY <2>1, <2>2, <2>3, <2>4 DEF OneOut, Shown, SuccessIsPaid, PaidAsAgreed
  <2> QED
    BY <2>1, <2>2, <2>4, <2>5, <2>6
<1> QED
  BY <1>1, <1>2

LEMMA AtMostOne == ASSUME NEW S, \A x, y \in S : x = y PROVE Cardinality(S) <= 1
<1>1. CASE S = {}
  BY <1>1, FS_EmptySet
<1>2. CASE S # {}
  <2>1. PICK x : S = {x}
    BY <1>2
  <2>2. Cardinality({x}) = 1
    BY FS_Singleton
  <2> QED
    BY <2>1, <2>2
<1> QED
  BY <1>1, <1>2

(* Send.tsx: for any forms, quotes and owners, over late answers, an       *)
(* account switched elsewhere, balances cleared under the sheet and a popup *)
(* that is closed and opened again: what was paid was shown and agreed to, *)
(* and a success shown is a payment made; only its asset may have become   *)
(* XLM, after balances that lack it.                                       *)
THEOREM SendHolds == SendSpec => []SendInv
<1>1. SendInit => SendKept
  <2> SUFFICES ASSUME SendInit PROVE SendKept
    OBVIOUS
  <2>1. account \in Owners /\ page = NewPage(account) /\ made = Earlier /\ requests = {}
    BY DEF SendInit
  <2>2. /\ page \in Pages /\ page.step = "form"
    <3>1. <<account>> \in Seq(Owners)
      BY <2>1
    <3> QED
      BY <2>1, <3>1 DEF NewPage, Pages
  <2>3. ~page.acknowledged
    BY <2>1, Zenon DEF NewPage
  <2>4. keptRecents \in [Owners -> SUBSET Recipients]
    BY DEF SendInit, Recipients
  <2>5. PaidAsAgreed
    BY <2>1, SendAssumption DEF PaidAsAgreed
  <2> QED
    BY <2>1, <2>2, <2>3, <2>4, <2>5 DEF SendKept, SendTyped, OneOut, Shown,
       SuccessIsPaid
<1>2. SendKept /\ [SendNext]_sendVars => SendKept'
  <2> SUFFICES ASSUME SendKept, [SendNext]_sendVars PROVE SendKept'
    OBVIOUS
  <2>1. CASE UNCHANGED sendVars
    BY <2>1 DEF sendVars, SendKept, SendTyped, OneOut, Shown, PaidAsAgreed,
       SuccessIsPaid, Sound, Follows, SameForm, selected, Selected
  <2> QED
    BY <2>1, FormMoves, ModeKeeps, AcknowledgeKeeps, RecentsKeep, BalancesKeep, ContinueKeeps,
       ConfirmKeeps, AnsweredKeeps, CheckedKeeps,
             WorkKeeps, AwayKeeps DEF SendNext
<1>3. SendKept => SendInv
  <2> SUFFICES ASSUME SendKept PROVE SendInv
    OBVIOUS
  <2>1. Cardinality({r \in requests : r.heard}) <= 1
    BY AtMostOne DEF SendKept, OneOut
  <2> QED
    BY <2>1 DEF SendKept, SendInv, SentIsShown, Sound, Follows, Pays
<1> QED
  BY <1>1, <1>2, <1>3, PTL DEF SendSpec

-----------------------------------------------------------------------------

QuoteAsks == [trade : Trades \cup {NoTrade}, slip : Slippages \cup {1}]
Quotes == [trade : Trades \cup {NoTrade}, slip : Slippages \cup {1}, price : Prices]
Sheets == [at : {"form", "confirm", "success"}, trade : Trades \cup {NoTrade}, slip : Slippages \cup {1},
           quote : Quotes \cup {NoQuote}, quoteLoading : BOOLEAN, submitLoading : BOOLEAN, timer : BOOLEAN,
           arrived : BOOLEAN, raced : BOOLEAN, fellBack : BOOLEAN]
Submits == [trade : Trades \cup {NoTrade}, slip : Slippages \cup {1}, answer : {"none", "done", "failed"},
            seen : Quotes \cup {NoQuote}]
Swapped == [trade : Trades \cup {NoTrade}, slip : Slippages \cup {1}, got : Nat, seen : Quotes \cup {NoQuote}, price : Prices]
SwapTyped ==
    /\ sheet \in Sheets /\ price \in Prices /\ asked \subseteq QuoteAsks
    /\ submit \in Submits \cup {NoSubmit}
    /\ swapped \subseteq Swapped
(* Until two fetches raced, what was asked is asked for the form as it is. *)
AskedForForm == ~sheet.raced => \A r \in asked : r.trade = sheet.trade /\ r.slip = sheet.slip
(* A swap under way has the slippage of the quote its confirmation showed. *)
SeenForSwap ==
   submit # NoSubmit =>
      /\ submit.seen # NoQuote => submit.seen.slip = submit.slip
      /\ submit.answer = "done" => \E s \in swapped : s.trade = submit.trade /\ s.slip = submit.slip

SwapKept == SwapTyped /\ AskedForForm /\ SeenForSwap /\ QuoteIsForForm /\ MinIsKept /\ SwapIsShown

(* The least amount accepted grows with the price it is computed from.     *)
LEMMA LeastGrows ==
  ASSUME NEW p \in Nat, NEW q \in Nat, NEW slip \in 0..4
  PROVE Least(p, slip) \in Nat /\ Least(p, slip) <= 4 * p /\ (q <= p => Least(q, slip) <= Least(p, slip))
<1>1. slip = 0 \/ slip = 1 \/ slip = 2 \/ slip = 3 \/ slip = 4
  OBVIOUS
<1> QED
  BY <1>1 DEF Least

(* A quote is asked for the form as it is.                                 *)
LEMMA FetchKeeps ==
  ASSUME SwapKept, NEW s \in Sheets, s.at = sheet.at, s.trade = sheet.trade, s.slip = sheet.slip, s.raced = sheet.raced,
         s.submitLoading = sheet.submitLoading, s.fellBack = sheet.fellBack, fetchQuote(s) PROVE SwapKept'
<1> USE DEF SwapKept, SameTrade
<1> DEFINE ask == [trade |-> s.trade, slip |-> s.slip]
<1>1. /\ sheet' = [s EXCEPT !.quoteLoading = TRUE, !.quote = NoQuote]
      /\ asked' = asked \cup {ask} /\ UNCHANGED <<price, submit, swapped>>
  BY DEF fetchQuote
<1>2. ask \in QuoteAsks /\ ask.trade = sheet.trade /\ ask.slip = sheet.slip
  BY DEF Sheets, QuoteAsks
<1>3. /\ sheet'.at = sheet.at /\ sheet'.trade = sheet.trade /\ sheet'.slip = sheet.slip /\ sheet'.raced = sheet.raced
      /\ sheet'.fellBack = sheet.fellBack /\ sheet'.quote = NoQuote /\ sheet' \in Sheets /\ sheet'.submitLoading = sheet.submitLoading
  BY <1>1 DEF Sheets
<1> HIDE DEF ask
<1>4. SwapTyped'
  BY <1>1, <1>2, <1>3 DEF SwapTyped, Sheets
<1>5. AskedForForm' /\ QuoteIsForForm'
  BY <1>1, <1>2, <1>3 DEF AskedForForm, QuoteIsForForm
<1>6. SeenForSwap' /\ MinIsKept' /\ SwapIsShown'
  BY <1>1, <1>3 DEF SeenForSwap, MinIsKept, SwapIsShown
<1> QED
  BY <1>4, <1>5, <1>6

(* A quote that arrives is of the trade and slippage it was asked for.     *)
LEMMA QuoteKeeps ==
    ASSUME SwapKept, NEW r \in asked, QuoteArrives(r)
    PROVE  SwapKept'
<1> USE DEF SwapKept, SameTrade
<1> DEFINE quote == [trade |-> r.trade, slip |-> r.slip, price |-> price]
<1>1. quote \in Quotes /\ quote.trade = r.trade /\ quote.slip = r.slip
  BY DEF SwapTyped, QuoteAsks, Quotes
<1>2. /\ \/ sheet' = [sheet EXCEPT !.quoteLoading = FALSE]
         \/ sheet' = [sheet EXCEPT !.quoteLoading = FALSE, !.quote = quote]
      /\ asked' = asked \ {r} /\ UNCHANGED <<price, submit, swapped>>
  BY DEF QuoteArrives
<1> HIDE DEF quote
<1>3. /\ sheet'.at = sheet.at /\ sheet'.trade = sheet.trade /\ sheet'.slip = sheet.slip /\ sheet'.raced = sheet.raced
      /\ sheet'.fellBack = sheet.fellBack /\ sheet'.quote \in {sheet.quote, quote} /\ sheet' \in Sheets /\ sheet'.submitLoading = sheet.submitLoading
  BY <1>1, <1>2 DEF Sheets, SwapTyped
<1>4. SwapTyped'
  BY <1>2, <1>3 DEF SwapTyped
<1>5. AskedForForm' /\ QuoteIsForForm'
  BY <1>1, <1>2, <1>3 DEF AskedForForm, QuoteIsForForm
<1>6. SeenForSwap' /\ MinIsKept' /\ SwapIsShown'
  BY <1>2, <1>3 DEF SeenForSwap, MinIsKept, SwapIsShown
<1> QED
  BY <1>4, <1>5, <1>6

(* The worker swaps at its own price, and refuses one below the floor that *)
(* was asked.                                                              *)
LEMMA SubmitKeeps == ASSUME SwapKept, SubmitSwap PROVE SwapKept'
<1> USE DEF SwapKept, SameTrade
<1>1. submit \in Submits /\ submit # NoSubmit /\ submit.answer = "none" /\ UNCHANGED <<sheet, price, asked>>
  BY DEF SubmitSwap, SwapTyped
<1>2. ASSUME NEW a \in {"done", "failed"}, submit' = [submit EXCEPT !.answer = a]
      PROVE /\ submit' \in Submits /\ submit'.trade = submit.trade /\ submit'.slip = submit.slip /\ submit'.seen = submit.seen
            /\ submit'.answer = a
  BY <1>1, <1>2 DEF Submits
<1>3. CASE submit' = [submit EXCEPT !.answer = "failed"] /\ UNCHANGED swapped
  <2>1. submit'.answer = "failed" /\ submit' \in Submits /\ submit'.trade = submit.trade /\ submit'.slip = submit.slip
        /\ submit'.seen = submit.seen
    BY <1>2, <1>3
  <2>2. SwapTyped'
    BY <2>1, <1>1, <1>3 DEF SwapTyped
  <2>3. AskedForForm' /\ QuoteIsForForm' /\ MinIsKept'
    BY <1>1, <1>3 DEF AskedForForm, QuoteIsForForm, MinIsKept
  <2>4. SeenForSwap' /\ SwapIsShown'
    BY <2>1, <1>1, <1>3 DEF SeenForSwap, SwapIsShown
  <2> QED
    BY <2>2, <2>3, <2>4
<1>4. ASSUME NEW answer \in {"done", "failed"}, NEW got \in {Floor(submit), 4 * price},
             submit' = [submit EXCEPT !.answer = answer],
             swapped' = swapped \cup {[trade |-> submit.trade, slip |-> submit.slip, got |-> got,
                                        seen |-> submit.seen, price |-> price]}
      PROVE SwapKept'
  <2> DEFINE swap == [trade |-> submit.trade, slip |-> submit.slip, got |-> got, seen |-> submit.seen, price |-> price]
  <2>1. submit'.answer = answer /\ submit' \in Submits /\ submit'.trade = submit.trade /\ submit'.slip = submit.slip
        /\ submit'.seen = submit.seen
    BY <1>2, <1>4
  <2>2. price \in Nat /\ submit.slip \in 0..4
    <3>1. submit.slip \in Slippages \cup {1}
      BY <1>1 DEF Submits
    <3>2. \A q \in Slippages : q \in 0..4
      BY SwapAssumption
    <3>3. 1 \in 0..4
      OBVIOUS
    <3>4. price \in Nat
      BY SwapAssumption DEF SwapTyped
    <3> QED
      BY <3>1, <3>2, <3>3, <3>4
  <2>3. got \in Nat /\ got >= Least(price, submit.slip)
    BY <1>4, <2>2, LeastGrows DEF Floor
  <2>4. /\ swap \in Swapped /\ swap.trade = submit.trade /\ swap.slip = submit.slip /\ swap.got = got
        /\ swap.seen = submit.seen /\ swap.price = price
    BY <1>1, <2>3 DEF Swapped, Submits, SwapTyped
  <2>5. swapped' = swapped \cup {swap}
    BY <1>4
  <2> HIDE DEF swap
  <2>6. SwapTyped'
    BY <1>1, <2>1, <2>4, <2>5 DEF SwapTyped
  <2>7. AskedForForm' /\ QuoteIsForForm'
    BY <1>1 DEF AskedForForm, QuoteIsForForm
  <2>8. SeenForSwap'
    BY <1>1, <2>1, <2>4, <2>5 DEF SeenForSwap
  <2>9. SwapIsShown'
    BY <1>1, <2>1, <2>5 DEF SwapIsShown
  <2>10. MinIsKept'
    <3>1. ASSUME swap.seen # NoQuote, swap.price >= swap.seen.price PROVE swap.got >= Least(swap.seen.price, swap.seen.slip)
      <4>1. swap.seen \in Quotes /\ swap.seen.slip = submit.slip /\ swap.seen.price \in Nat
        BY <1>1, <2>4, <3>1, SwapAssumption DEF SeenForSwap, Submits, Quotes
      <4>2. Least(swap.seen.price, submit.slip) <= Least(price, submit.slip)
        BY <2>2, <2>4, <3>1, <4>1, LeastGrows
      <4>3. Least(swap.seen.price, submit.slip) \in Nat /\ Least(price, submit.slip) \in Nat
        BY <2>2, <4>1, LeastGrows
      <4> QED
        BY <2>3, <2>4, <4>1, <4>2, <4>3
    <3> QED
      BY <2>5, <3>1 DEF MinIsKept
  <2> QED
    BY <2>6, <2>7, <2>8, <2>9, <2>10
<1> QED
  BY <1>3, <1>4 DEF SubmitSwap


(* A new input takes the quote away; a swap is not out on the form.        *)
LEMMA SettingsKeep ==
  ASSUME SwapKept, OnSheet, sheet.at = "form", NEW t \in Trades \cup {NoTrade}, NEW slip \in Slippages \cup {1},
         NEW timer \in BOOLEAN, sheet' = [Cleared(sheet) EXCEPT !.trade = t, !.slip = slip, !.timer = timer]
  PROVE  SwapKept'
<1> USE DEF SwapKept, OnSheet
<1>1. PICK r \in BOOLEAN : r = (asked # {})
  OBVIOUS
<1>2. sheet' = [sheet EXCEPT !.quote = NoQuote, !.raced = r, !.fellBack = FALSE, !.trade = t, !.slip = slip, !.timer = timer]
  BY <1>1 DEF Cleared, SwapTyped, Sheets
<1>3. sheet' \in Sheets /\ sheet'.quote = NoQuote /\ sheet'.raced = r /\ sheet'.at = "form"
  BY <1>2 DEF SwapTyped, Sheets
<1>4. SwapTyped' /\ SeenForSwap' /\ MinIsKept'
  BY <1>3 DEF SwapTyped, SeenForSwap, MinIsKept
<1>5. AskedForForm' /\ QuoteIsForForm'
  BY <1>1, <1>3 DEF AskedForForm, QuoteIsForForm
<1>6. SwapIsShown'
  BY <1>3 DEF SwapIsShown
<1> QED
  BY <1>4, <1>5, <1>6

LEMMA InputKeeps ==
  ASSUME SwapKept, NEW t \in Trades \cup {NoTrade}, ChooseTrade(t) PROVE SwapKept'
<1>1. PICK timer \in BOOLEAN : sheet' = [Cleared(sheet) EXCEPT !.trade = t, !.timer = timer]
  BY DEF ChooseTrade, Restarted
<1>2. Cleared(sheet).slip = sheet.slip /\ sheet.slip \in Slippages \cup {1}
  BY DEF Cleared, SwapKept, SwapTyped, Sheets
<1>3. sheet' = [Cleared(sheet) EXCEPT !.trade = t, !.slip = sheet.slip, !.timer = timer]
  BY <1>1, <1>2 DEF Cleared, SwapKept, SwapTyped, Sheets
<1> QED
  BY <1>2, <1>3, SettingsKeep DEF ChooseTrade

(* Another account's balances may make the first asset XLM, nothing else.  *)
LEMMA ChangeKeeps == ASSUME SwapKept, BalancesChange PROVE SwapKept'
<1> USE DEF SwapKept, OnSheet
<1>1. PICK timer \in BOOLEAN, t \in {sheet.trade, NativeFrom[sheet.trade]} :
          sheet' = [sheet EXCEPT !.trade = t, !.timer = timer,
                                 !.raced = @ \/ (t # sheet.trade /\ asked # {}),
                                 !.fellBack = @ \/ t # sheet.trade]
  BY DEF BalancesChange, Restarted
<1>2. sheet.trade \in Trades /\ t \in Trades /\ NativeFrom[t] = NativeFrom[sheet.trade] /\ OnSheet
  BY <1>1, SwapAssumption DEF BalancesChange, SwapTyped, Sheets
<1>3. PICK r, b \in BOOLEAN :
         /\ r = (sheet.raced \/ (t # sheet.trade /\ asked # {})) /\ b = (sheet.fellBack \/ t # sheet.trade)
  <2>1. sheet.raced \in BOOLEAN /\ sheet.fellBack \in BOOLEAN
    BY DEF SwapTyped, Sheets
  <2> QED
    BY <2>1
<1>4. sheet' = [sheet EXCEPT !.trade = t, !.timer = timer, !.raced = r, !.fellBack = b]
  BY <1>1, <1>3
<1>5. /\ sheet' \in Sheets /\ sheet'.trade = t /\ sheet'.raced = r /\ sheet'.fellBack = b /\ sheet'.slip = sheet.slip
      /\ sheet'.quote = sheet.quote /\ sheet'.at = sheet.at /\ sheet'.submitLoading = sheet.submitLoading
  BY <1>2, <1>4 DEF SwapTyped, Sheets
<1>6. SwapTyped' /\ SeenForSwap' /\ MinIsKept'
  BY <1>2, <1>5 DEF SwapTyped, SeenForSwap, MinIsKept
<1>7. ~r => ~sheet.raced /\ (t = sheet.trade \/ asked = {})
  BY <1>3
<1>8. AskedForForm'
  BY <1>2, <1>5, <1>7 DEF AskedForForm
<1>9. ASSUME NEW s, SameTrade(s, sheet.trade) PROVE s = t \/ (b /\ s \in Trades /\ t = NativeFrom[s])
  <2>1. CASE t = sheet.trade
    BY <1>3, <1>9, <2>1 DEF SameTrade
  <2>2. CASE t # sheet.trade
    <3>1. b /\ t = NativeFrom[sheet.trade]
      BY <1>1, <1>3, <2>2
    <3>2. CASE s = sheet.trade
      BY <1>2, <3>1, <3>2
    <3>3. CASE s \in Trades /\ sheet.trade = NativeFrom[s]
      BY <3>1, <3>3, SwapAssumption
    <3> QED
      BY <1>9, <3>2, <3>3 DEF SameTrade
  <2> QED
    BY <2>1, <2>2
<1>10. QuoteIsForForm'
  BY <1>5, <1>7, <1>9 DEF QuoteIsForForm, SameTrade
<1>11. SwapIsShown'
  BY <1>2, <1>5, <1>9 DEF SwapIsShown, SameTrade
<1> QED
  BY <1>6, <1>8, <1>10, <1>11

(* One case per handler of the page.                                       *)
LEMMA SwapStep == ASSUME SwapKept, [SwapNext]_swapVars PROVE SwapKept'
<1> USE DEF SwapKept, SameTrade, AskedForForm, SeenForSwap, QuoteIsForForm, MinIsKept, SwapIsShown, SwapTyped, OnSheet
<1>1. ASSUME NEW t \in Trades \cup {NoTrade}, ChooseTrade(t) PROVE SwapKept'
  BY <1>1, InputKeeps DEF ChooseTrade, Restarted
<1>2. ASSUME NEW slip \in Slippages, SaveSettings(slip) PROVE SwapKept'
  <2>1. sheet.at = "form"
    BY <1>2 DEF SaveSettings
  <2>2. PICK timer \in IF slip = sheet.slip THEN {sheet.timer} ELSE Restarted(sheet.trade) :
           sheet' = [Cleared(sheet) EXCEPT !.slip = slip, !.timer = timer]
    BY <1>2 DEF SaveSettings
  <2>3. timer \in BOOLEAN
    BY <2>2 DEF Restarted, Sheets
  <2>4. Cleared(sheet).trade = sheet.trade
    BY DEF Cleared, Sheets
  <2>5. sheet' = [Cleared(sheet) EXCEPT !.trade = sheet.trade, !.slip = slip, !.timer = timer]
    BY <2>2, <2>4 DEF Cleared, Sheets
  <2>6. sheet.trade \in Trades \cup {NoTrade} /\ OnSheet
    BY <1>2 DEF SaveSettings, Sheets
  <2> HIDE DEF SwapKept, SameTrade, AskedForForm, SeenForSwap, QuoteIsForForm, MinIsKept, SwapIsShown, SwapTyped, OnSheet
  <2> QED
    BY <2>1, <2>3, <2>5, <2>6, SettingsKeep
<1>3. CASE FeesArrive
  <2>1. PICK timer \in BOOLEAN : sheet' = [sheet EXCEPT !.arrived = TRUE, !.timer = timer]
    BY <1>3 DEF FeesArrive, Restarted
  <2> QED
    BY <1>3, <2>1 DEF FeesArrive, Sheets
<1>14. CASE BalancesChange
  BY <1>14, ChangeKeeps
<1>4. CASE TimerFires
  <2>1. [sheet EXCEPT !.timer = FALSE] \in Sheets
    BY DEF Sheets
  <2> QED
    BY <1>4, <2>1, FetchKeeps DEF TimerFires, Sheets
<1>5. CASE handleReview
  <2>1. CASE sheet.quote = NoQuote
    BY <1>5, <2>1, FetchKeeps DEF handleReview
  <2>2. CASE sheet.quote # NoQuote
    BY <1>5, <2>2 DEF handleReview, Sheets
  <2> QED
    BY <2>1, <2>2
<1>6. ASSUME NEW r \in asked, QuoteArrives(r) PROVE SwapKept'
  BY <1>6, QuoteKeeps
<1>7. CASE CancelSwap
  BY <1>7 DEF CancelSwap, Sheets
<1>8. CASE confirmSwap
  BY <1>8 DEF confirmSwap, Sheets, Submits
<1>9. CASE SubmitSwap
  BY <1>9, SubmitKeeps
<1>10. CASE SubmitAnswered
  <2>1. submit \in Submits /\ submit # NoSubmit /\ submit' = NoSubmit /\ UNCHANGED <<price, asked, swapped>>
    BY <1>10 DEF SubmitAnswered
  <2>2. sheet' = [sheet EXCEPT !.submitLoading = FALSE, !.at = IF Completes(submit.answer) THEN "success" ELSE @]
    BY <1>10 DEF SubmitAnswered
  <2>3. PICK to \in {"success", sheet.at} : sheet' = [sheet EXCEPT !.submitLoading = FALSE, !.at = to]
    BY <2>2
  <2>5. sheet.at \in {"form", "confirm", "success"}
    BY DEF Sheets
  <2>4. sheet' \in Sheets /\ sheet'.trade = sheet.trade /\ sheet'.slip = sheet.slip /\ sheet'.quote = sheet.quote
    BY <2>3, <2>5 DEF Sheets
  <2>6. to = "success" /\ sheet.at # "success" => submit.answer = "done"
    BY <2>2, <2>3, <2>5 DEF Completes, Sheets
  <2>7. submit' = NoSubmit /\ price' = price /\ asked' = asked /\ swapped' = swapped
    BY <2>1
  <2>8. sheet'.raced = sheet.raced /\ sheet'.at = to /\ sheet'.fellBack = sheet.fellBack
    BY <2>3 DEF Sheets
  <2> HIDE DEF Sheets
  <2>9. SwapTyped' /\ AskedForForm' /\ SeenForSwap' /\ MinIsKept'
    BY <2>4, <2>7, <2>8
  <2>10. QuoteIsForForm'
    BY <2>4, <2>8 DEF QuoteIsForForm
  <2>11. sheet'.at = "success" => \E s \in swapped' : SameTrade(s.trade, sheet.trade)' /\ s.slip = sheet'.slip
    <3>1. CASE sheet.at = "success"
      BY <2>4, <2>7, <2>8, <3>1
    <3>2. CASE to = "success" /\ sheet.at # "success"
      BY <2>1, <2>4, <2>6, <2>7, <2>8, <3>2
    <3> QED
      BY <2>3, <2>8, <3>1, <3>2
  <2> QED
    BY <2>7, <2>9, <2>10, <2>11
<1>11. CASE LeaveSwap
  BY <1>11 DEF LeaveSwap, NewSheet, Sheets, Submits
<1>12. CASE PriceMoves
  BY <1>12 DEF PriceMoves, Sheets, Submits
<1>13. CASE UNCHANGED swapVars
  BY <1>13 DEF swapVars
<1> QED
  BY <1>1, <1>2, <1>3, <1>4, <1>5, <1>6, <1>7, <1>8, <1>9, <1>10, <1>11, <1>12,
     <1>13, <1>14 DEF SwapNext

(* Swap.tsx: for any trades, prices that move at any time and slippages up *)
(* to the sheet's limit, a swap gives at least what the confirmation       *)
(* promised for that trade, and the page shows a quote of another form     *)
(* only after two fetches raced, or of another first asset after balances  *)
(* that lack it.                                                           *)
THEOREM SwapHolds == SwapSpec => []SwapInv
<1>1. SwapInit => SwapKept
  <2> SUFFICES ASSUME SwapInit PROVE SwapKept
    OBVIOUS
  <2>1. sheet \in Sheets /\ sheet.quote = NoQuote /\ sheet.at = "form"
    BY DEF SwapInit, NewSheet, Sheets
  <2>2. price \in Prices /\ asked = {} /\ submit = NoSubmit /\ swapped = {}
    BY DEF SwapInit
  <2> QED
    BY <2>1, <2>2 DEF SwapKept, AskedForForm, SeenForSwap, QuoteIsForForm,
       MinIsKept, SwapIsShown, SwapTyped
<1>2. SwapKept /\ [SwapNext]_swapVars => SwapKept'
  BY SwapStep
<1>3. SwapKept => SwapInv
  BY DEF SwapKept, SwapInv
<1> QED
  BY <1>1, <1>2, <1>3, PTL DEF SwapSpec

-----------------------------------------------------------------------------
Hooks == [active : BOOLEAN, wanted : BOOLEAN, committing : BOOLEAN, shiftTimer : BOOLEAN, peelStart : BOOLEAN,
          swipeStart : BOOLEAN, far : BOOLEAN, anim : {"none", "peek", "back", "commit"}, hovered : BOOLEAN]
Roots == [shifting : BOOLEAN, dragging : BOOLEAN, private : BOOLEAN, ghost : {"none", "low", "high", "full"}]
PullTyped == hook \in Hooks /\ root \in Roots /\ cutShort \in BOOLEAN

Entering == hook.active \/ hook.committing

(* An entry hides the corner and calls off what would drop the palette.    *)
Entered ==
    Entering => /\ root.private /\ root.shifting /\ ~hook.peelStart /\ ~hook.shiftTimer
                /\ hook.anim \in {"none", "commit"}
(* The commit animation renders what was asked for.                        *)
CommitRenders ==
    /\ hook.wanted /\ ~hook.active => hook.committing
    /\ hook.committing => hook.wanted /\ ~hook.active /\ root.ghost = "full"
(* A peeled corner or a peek holds the shift it shows.                     *)
Peeling ==
    /\ hook.peelStart => root.shifting /\ hook.anim # "peek"
    /\ hook.anim = "peek" => root.shifting /\ hook.hovered /\ ~hook.shiftTimer
(* Without a forced exit, the classes are those of the mode, and what else *)
(* holds the palette will drop it.                                         *)
Uncut ==
    ~cutShort =>
        /\ root.private => Entering
        /\ hook.active /\ hook.wanted /\ ~hook.swipeStart => root.ghost = "full"
        /\ ~Entering => root.ghost = "none"
        /\ root.shifting => Entering \/ hook.peelStart \/ hook.hovered \/ hook.shiftTimer \/ hook.anim = "back"
PullKept == PullTyped /\ Entered /\ CommitRenders /\ Peeling /\ Uncut

(* One case per handler; a gesture carried to the end rewrites the root's  *)
(* classes, which is the only step that needs a split.                     *)
LEMMA PullTypedStep == ASSUME PullTyped, [PullNext]_pullVars PROVE PullTyped'
<1> USE DEF Hooks, Roots
<1>1. CASE onPointerDown
  <2>1. CASE hook.active \/ hook.committing
    <3>1. hook' = [hook EXCEPT !.shiftTimer = FALSE] /\ UNCHANGED <<root, cutShort>>
      BY <1>1, <2>1 DEF onPointerDown, Begin
    <3> QED
      BY <3>1 DEF PullTyped
  <2>2. CASE ~(hook.active \/ hook.committing)
    <3>1. /\ hook' = [hook EXCEPT !.shiftTimer = FALSE, !.anim = "none", !.peelStart = TRUE, !.far = FALSE]
          /\ root' = [root EXCEPT !.shifting = TRUE, !.dragging = TRUE] /\ UNCHANGED cutShort
      BY <1>1, <2>2 DEF onPointerDown, Begin
    <3> QED
      BY <3>1 DEF PullTyped
  <2> QED
    BY <2>1, <2>2
<1>2. CASE onPointerMove
  BY <1>2 DEF onPointerMove, PullTyped, Continue
<1>3. CASE onPointerUp
  <2>1. CASE hook.far
    <3>1. root' = [shifting |-> TRUE, dragging |-> FALSE, private |-> TRUE, ghost |-> "full"] /\ cutShort' = cutShort
      BY <1>3, <2>1 DEF onPointerUp, Continue
    <3>2. root' \in Roots
      BY <3>1, Zenon
    <3>4. hook' = [hook EXCEPT !.peelStart = FALSE, !.committing = TRUE, !.shiftTimer = FALSE,
                                    !.wanted = TRUE, !.anim = "commit"]
       BY <1>3, <2>1 DEF onPointerUp
    <3>3. hook' \in Hooks
      BY <3>4 DEF PullTyped
    <3> QED
      BY <3>1, <3>2, <3>3 DEF PullTyped
  <2>2. CASE ~hook.far
    BY <1>3, <2>2, ZenonT(40) DEF onPointerUp, PullTyped, Continue
  <2> QED
    BY <2>1, <2>2
<1>4. CASE onPeekEnter
  BY <1>4 DEF onPeekEnter, PullTyped, Begin, Armed, Unmoved
<1>5. CASE onPeekLeave
  BY <1>5 DEF onPeekLeave, PullTyped, Continue
<1>6. CASE AnimationEnds
  BY <1>6 DEF AnimationEnds, PullTyped, Continue, ShiftDropped, NothingPeeled
<1>7. CASE ShiftTimerFires
  BY <1>7 DEF ShiftTimerFires, PullTyped, Continue, ShiftDropped, NothingPeeled
<1>8. CASE Render
  <2>1. CASE hook.wanted
    <3>1. /\ hook' = [hook EXCEPT !.active = TRUE, !.shiftTimer = FALSE, !.committing = FALSE]
          /\ root' = [root EXCEPT !.shifting = TRUE, !.private = TRUE, !.ghost = "full"] /\ UNCHANGED cutShort
      BY <1>8, <2>1 DEF Render, Continue
    <3> QED
      BY <3>1 DEF PullTyped
  <2>2. CASE ~hook.wanted
    <3>1. /\ hook' = [hook EXCEPT !.active = FALSE, !.shiftTimer = TRUE]
          /\ root' = [root EXCEPT !.private = FALSE, !.ghost = "none"] /\ UNCHANGED cutShort
      BY <1>8, <2>2 DEF Render, Continue
    <3> QED
      BY <3>1 DEF PullTyped
  <2> QED
    BY <2>1, <2>2
<1>9. CASE onSwipeDown
  BY <1>9 DEF onSwipeDown, PullTyped, Begin
<1>10. CASE onSwipeMove
  <2>1. CASE hook' = [Exited(hook) EXCEPT !.swipeStart = FALSE] /\ root' = [root EXCEPT !.dragging = FALSE]
    <3>1. Exited(hook) \in Hooks
      BY DEF PullTyped, Exited
    <3>2. PICK h \in Hooks : h = Exited(hook)
      BY <3>1, Zenon
    <3>3. hook' \in Hooks
      BY <2>1, <3>2
    <3>4. root' \in Roots
      BY <2>1 DEF PullTyped
    <3> QED
      BY <1>10, <3>3, <3>4, Zenon DEF onSwipeMove, PullTyped, Continue
  <2>2. ASSUME UNCHANGED hook, NEW ghost \in {"none", "low", "high", "full"}, root' = [root EXCEPT !.ghost = ghost]
        PROVE PullTyped'
    <3>1. UNCHANGED cutShort
      BY <1>10 DEF onSwipeMove, Continue
    <3> QED
      BY <2>2, <3>1 DEF PullTyped
  <2> QED
    BY <1>10, <2>1, <2>2, Zenon DEF onSwipeMove
<1>11. CASE onSwipeUp
  BY <1>11 DEF onSwipeUp, PullTyped, Continue, Exited, Returned
<1>12. CASE exit
  BY <1>12 DEF exit, PullTyped, Exited
<1>13. CASE UNCHANGED pullVars
  BY <1>13 DEF pullVars, PullTyped
<1> QED
  BY <1>1, <1>2, <1>3, <1>4, <1>5, <1>6, <1>7, <1>8, <1>9, <1>10, <1>11, <1>12,
     <1>13 DEF PullNext

LEMMA PullStep ==
    ASSUME PullKept, [PullNext]_pullVars
    PROVE  (Entered /\ CommitRenders /\ Peeling /\ Uncut)'
<1> USE DEF Hooks, Roots, PullKept, PullTyped, Entered, CommitRenders, Peeling, Uncut, Entering
<1>1. CASE onPointerDown
  <2>1. CASE hook.active \/ hook.committing
    <3>1. hook' = [hook EXCEPT !.shiftTimer = FALSE] /\ UNCHANGED <<root, cutShort>>
      BY <1>1, <2>1 DEF onPointerDown, Begin
    <3> QED
      BY <2>1, <3>1
  <2>2. CASE ~(hook.active \/ hook.committing)
    <3>1. /\ hook' = [hook EXCEPT !.shiftTimer = FALSE, !.anim = "none", !.peelStart = TRUE, !.far = FALSE]
          /\ root' = [root EXCEPT !.shifting = TRUE, !.dragging = TRUE] /\ UNCHANGED cutShort /\ ~root.private
      BY <1>1, <2>2 DEF onPointerDown, Begin
    <3> QED
      BY <2>2, <3>1
  <2> QED
    BY <2>1, <2>2
<1>2. CASE onPointerMove
  BY <1>2 DEF onPointerMove, Continue
<1>3. CASE onPointerUp
  <2>1. CASE hook.far
    <3>1. root' = [shifting |-> TRUE, dragging |-> FALSE, private |-> TRUE, ghost |-> "full"] /\ cutShort' = cutShort
      BY <1>3, <2>1 DEF onPointerUp, Continue
    <3>2. root'.shifting /\ ~root'.dragging /\ root'.private /\ root'.ghost = "full"
      BY <3>1, Zenon
    <3>3. hook' = [hook EXCEPT !.peelStart = FALSE, !.committing = TRUE, !.shiftTimer = FALSE,
                                    !.wanted = TRUE, !.anim = "commit"]
       BY <1>3, <2>1 DEF onPointerUp
    <3> QED
      BY <1>3, <3>3, <3>2 DEF onPointerUp
  <2>2. CASE ~hook.far
    BY <1>3, <2>2 DEF onPointerUp, Continue
  <2> QED
    BY <2>1, <2>2
<1>4. CASE onPeekEnter
  BY <1>4 DEF onPeekEnter, Begin, Armed, Unmoved
<1>5. CASE onPeekLeave
  BY <1>5 DEF onPeekLeave, Continue, Unmoved
<1>6. CASE AnimationEnds
  BY <1>6 DEF AnimationEnds, Continue, ShiftDropped, NothingPeeled
<1>7. CASE ShiftTimerFires
  BY <1>7 DEF ShiftTimerFires, Continue, ShiftDropped, NothingPeeled
<1>8. CASE Render
  BY <1>8, ZenonT(40) DEF Render, Continue
<1>9. CASE onSwipeDown
  BY <1>9 DEF onSwipeDown, Begin
<1>10. CASE onSwipeMove
  BY <1>10 DEF onSwipeMove, Continue, Exited
<1>11. CASE onSwipeUp
  BY <1>11 DEF onSwipeUp, Continue, Exited, Returned
<1>12. CASE exit
  BY <1>12 DEF exit, Exited
<1>13. CASE UNCHANGED pullVars
  BY <1>13 DEF pullVars
<1> QED
  BY <1>1, <1>2, <1>3, <1>4, <1>5, <1>6, <1>7, <1>8, <1>9, <1>10, <1>11, <1>12,
     <1>13 DEF PullNext
(* PullToPrivate.ts: whatever the order of pointers, animation ends,       *)
(* timers and renders, and with exits forced in between, the palette of    *)
(* the page is the one of the mode, and a palette that is held will be     *)
(* dropped or kept by the entry that holds it.                             *)
THEOREM PaletteHolds == PullSpec => []PaletteInv
<1>1. PullInit => PullKept
  <2> SUFFICES ASSUME PullInit PROVE PullKept
    OBVIOUS
  <2> USE DEF PullKept, PullTyped, Entered, CommitRenders, Peeling, Uncut, Entering, Roots, Hooks
  <2>1. hook \in Hooks /\ root \in Roots /\ cutShort \in BOOLEAN
    BY Zenon DEF PullInit, Unpeeled, Public
  <2>2. ~hook.active /\ ~hook.wanted /\ ~hook.committing /\ ~hook.peelStart /\ hook.anim = "none"
    BY Zenon DEF PullInit, Unpeeled
  <2>3. ~root.shifting /\ ~root.private /\ root.ghost = "none"
    BY Zenon DEF PullInit, Public
  <2> QED
    BY <2>1, <2>2, <2>3
<1>2. PullKept /\ [PullNext]_pullVars => PullKept'
  BY PullTypedStep, PullStep DEF PullKept
<1>3. PullKept => PaletteInv
  BY DEF PullKept, PullTyped, Entered, CommitRenders, Peeling, Uncut, Entering,
         Hooks, Roots, PaletteInv, PaletteMatches, PaletteArmed
<1> QED
  BY <1>1, <1>2, <1>3, PTL DEF PullSpec
-----------------------------------------------------------------------------
(* Private payments *)

(* The least and the greatest of a set of numbers.                         *)
LEMMA LeastIn ==
    ASSUME NEW S, S \subseteq Nat, S # {}
    PROVE  \E x \in S : \A y \in S : x <= y
<1>1. PICK x \in S : \A y \in S : ~(<<y, x>> \in OpToRel(<, Nat))
  BY WFMin, NatLessThanWellFounded
<1>2. ASSUME NEW y \in S PROVE x <= y
  <2>0. x \in Nat /\ y \in Nat
    OBVIOUS
  <2>1. SUFFICES ASSUME y < x PROVE FALSE
    BY <2>0
  <2>2. <<y, x>> \in Nat \X Nat /\ <<y, x>>[1] < <<y, x>>[2]
    BY <2>0, <2>1
  <2>3. <<y, x>> \in {ss \in Nat \X Nat : ss[1] < ss[2]}
    BY <2>2
  <2>4. {ss \in Nat \X Nat : ss[1] < ss[2]} = OpToRel(<, Nat)
    BY Zenon DEF OpToRel
  <2> QED
    BY <1>1, <2>3, <2>4
<1> QED
  BY <1>2

LEMMA GreatestIn ==
    ASSUME NEW b \in Nat, NEW S, S \subseteq 0..b, S # {}
    PROVE  \E x \in S : \A y \in S : x >= y
<1> DEFINE D == {b - x : x \in S}
<1>1. D \subseteq Nat /\ D # {}
  <2>1. \A x \in S : b - x \in Nat /\ b - x \in D
    OBVIOUS
  <2>2. D \subseteq Nat
    BY <2>1
  <2>3. PICK x : x \in S
    OBVIOUS
  <2> QED
    BY <2>1, <2>2, <2>3
<1>2. PICK d \in D : \A e \in D : d <= e
  BY <1>1, LeastIn
<1>3. PICK x \in S : d = b - x
  OBVIOUS
<1>4. ASSUME NEW y \in S PROVE x >= y
  <2>1. b - y \in D
    OBVIOUS
  <2>2. b - x <= b - y /\ x \in Int /\ y \in Int
    BY <1>2, <1>3, <2>1
  <2> QED
    BY <2>2
<1> QED
  BY <1>4

(* A finite set put in some order.                                         *)
LEMMA SetToSeqType == ASSUME NEW S, IsFiniteSet(S) PROVE SetToSeq(S) \in Seq(S)
<1>1. ExistsBijection(1..Cardinality(S), S) /\ Cardinality(S) \in Nat
  BY FS_CardinalityType
<1>2. PICK f \in [1..Cardinality(S) -> S] : IsInjective(f)
  <2>1. PICK f : f \in Bijection(1..Cardinality(S), S)
    BY <1>1 DEF ExistsBijection
  <2>2. f \in [1..Cardinality(S) -> S] /\ IsInjective(f)
    BY <2>1 DEF Bijection, Injection, IsInjective
  <2> QED
    BY <2>2
<1>3. SetToSeq(S) \in [1..Cardinality(S) -> S]
  BY <1>2 DEF SetToSeq
<1> QED
  BY <1>1, <1>3

Txs   == [kind : {"commit", "reveal"}, counter : Counters, seq : Nat,
          state : {"open", "landed", "failed", "gone"}, age : 0..OldAge, lost : BOOLEAN]
Jobs  == [counter : Counters, to : {"recipient", "owner"},
          state : {"queued", "confirmed", "nullifier", "dead"}]
NoteRecords == [counter : Counters, to : {"recipient", "owner"},
          status : {"pending", "committed", "scheduled", "revealed", "failed"},
          tx : Nat, job : Nat, attempts : Nat, recovered : BOOLEAN]

Commit(t)  == txs[t].kind = "commit"
Redeems(t) == txs[t].kind = "reveal"
Alive(t)   == txs[t].state \in {"open", "landed"}
(* No broadcast for the counter was forgotten.                             *)
Unlost(c)  == \A t \in DOMAIN txs : txs[t].counter = c => ~txs[t].lost
Traced(c)  == faults = 0 \/ Unlost(c)

ChainTyped ==
    /\ txs \in Seq(Txs) /\ seq \in Nat /\ jobs \in Seq(Jobs)
    /\ indexed \subseteq DOMAIN txs
    /\ paid \in [Counters -> {"nobody", "recipient", "owner"}]
    /\ faults \in 0..MaxFaults
    /\ \A t \in DOMAIN txs : txs[t].seq \in 1..(seq + 1)
WorkTyped ==
    /\ stored \in Seq(NoteRecords) /\ mem \in Seq(NoteRecords)
    /\ pc \in {"idle", "pass", "submit", "sent", "await", "claim"}
    /\ at \in Nat /\ leavesAge \in 0..(Fresh + 1)
(* A note names transactions and jobs that exist, and its own job.         *)
Refers ==
    \A k \in DOMAIN stored :
        /\ stored[k].tx <= Len(txs) /\ stored[k].job <= Len(jobs)
        /\ stored[k].status = "scheduled" => stored[k].job # 0
        /\ stored[k].job # 0 => jobs[stored[k].job].counter = stored[k].counter
(* The copy worked on is what is stored, but for what the note at hand has *)
(* not yet saved.                                                          *)
Agrees ==
    /\ pc = "idle" => mem = <<>> /\ at = 0
    /\ pc # "idle" =>
        /\ DOMAIN mem = DOMAIN stored /\ at \in DOMAIN stored
        /\ \A k \in DOMAIN stored : k # at => mem[k] = stored[k]
        /\ mem[at] = [stored[at] EXCEPT !.status = mem[at].status, !.attempts = mem[at].attempts]
    /\ pc \in {"pass", "await", "claim"} => mem = stored
(* What the note at hand is, by what is done with it.                      *)
AtHand ==
    /\ pc = "pass" => InFlight(stored[at])
    /\ pc \in {"submit", "sent"} =>
        /\ stored[at].status \in {"pending", "committed"} /\ stored[at].tx = 0
        /\ mem[at].status = "pending"
    /\ pc = "await" => stored[at].status = "pending" /\ stored[at].tx = Len(txs)
    /\ pc = "claim" => stored[at].status \notin {"pending", "revealed"}
    /\ pc \in {"sent", "await", "claim"} =>
        /\ Len(txs) \in DOMAIN txs
        /\ txs[Len(txs)].kind = IF pc = "claim" THEN "reveal" ELSE "commit"
        /\ txs[Len(txs)].counter = stored[at].counter
(* A counter whose transactions are all accounted for has one note, if it  *)
(* has any transaction.                                                    *)
OneNote ==
    \A k, l \in DOMAIN stored :
        stored[k].counter = stored[l].counter /\ Traced(stored[k].counter) => k = l
AllKnown ==
    \A t \in DOMAIN txs :
        Traced(txs[t].counter) => \E k \in DOMAIN stored : stored[k].counter = txs[t].counter
(* The only commit of such a note that landed or still may is the one that *)
(* it names, or that was just sent for it.                                 *)
OneAlive ==
    \A k \in DOMAIN stored : Unlost(stored[k].counter) =>
        \A t \in DOMAIN txs :
            Commit(t) /\ txs[t].counter = stored[k].counter /\ Alive(t) =>
                t = stored[k].tx \/ (pc = "sent" /\ k = at /\ t = Len(txs))
(* No transaction is open past its validity, and a landed commit is soon   *)
(* indexed.                                                                *)
Young ==
    /\ \A t \in DOMAIN txs : txs[t].state = "open" => txs[t].age <= Validity
    /\ \A t \in Unindexed : txs[t].age <= Validity + Lag
    /\ \A t \in indexed : Commit(t) /\ txs[t].state = "landed"
(* A landed commit that the leaves of a pass do not show is young.         *)
LeavesTell ==
    pc \in {"pass", "submit", "sent", "await"} /\ leavesAge <= Fresh =>
        \A t \in DOMAIN txs :
            Commit(t) /\ txs[t].state = "landed" /\ txs[t].counter \notin leaves =>
                txs[t].age <= Validity + Lag + leavesAge
(* A job that ended well had its note paid, and until something fails all  *)
(* is for the recipient.                                                   *)
JobsTell ==
    /\ \A j \in DOMAIN jobs :
        jobs[j].state \in {"confirmed", "nullifier"} => paid[jobs[j].counter] # "nobody"
    /\ faults = 0 =>
        /\ \A j \in DOMAIN jobs : jobs[j].to = "recipient"
        /\ \A k \in DOMAIN stored : stored[k].to = "recipient"
(* Until something fails, the owner is paid by a claim of his, and a note  *)
(* that may still be claimed says so.                                      *)
OwnerClaims ==
    faults = 0 =>
        /\ \A c \in Counters : paid[c] = "owner" =>
              \E t \in DOMAIN txs : Redeems(t) /\ txs[t].counter = c /\ txs[t].state = "landed"
        /\ \A k \in DOMAIN stored : \A t \in DOMAIN txs :
              Redeems(t) /\ txs[t].counter = stored[k].counter /\ Alive(t) =>
                  \/ stored[k].status = "revealed" /\ stored[k].recovered
                  \/ pc = "claim" /\ k = at /\ t = Len(txs)

Margined == Margin > Lag + Fresh

PaymentsKept ==
    /\ ChainTyped /\ WorkTyped /\ Refers /\ Agrees /\ AtHand
    /\ OneNote /\ AllKnown /\ (Margined => OneAlive)
    /\ Young /\ LeavesTell /\ JobsTell /\ OwnerClaims /\ DeliveredIsPaid

-----------------------------------------------------------------------------
(* The constants, one by one.                                              *)
LEMMA PaymentConstants ==
    /\ MaxCounter \in Nat /\ MaxAttempts \in Nat /\ Validity \in Nat /\ Margin \in Nat /\ Lag \in Nat
    /\ Fresh \in Nat /\ MaxReclaims \in Nat /\ MaxFaults \in Nat
    /\ OldAge \in Nat /\ OldAge = Validity + Margin
    /\ \A c \in Counters : c \in Nat
  BY PaymentAssumptions DEF PaymentAssumptions, OldAge, Counters

(* What replacing an element, and adding one, makes of a sequence.         *)
LEMMA ElementReplaced ==
    ASSUME NEW S, NEW s \in Seq(S), NEW k \in DOMAIN s, NEW e \in S
    PROVE  LET r == [s EXCEPT ![k] = e] IN
           /\ r \in Seq(S) /\ Len(r) = Len(s) /\ DOMAIN r = DOMAIN s /\ r[k] = e
           /\ \A l \in DOMAIN s : l # k => r[l] = s[l]
  OBVIOUS

LEMMA Added ==
    ASSUME NEW S, NEW s \in Seq(S), NEW e \in S
    PROVE  LET r == Append(s, e) IN
           /\ r \in Seq(S) /\ Len(r) = Len(s) + 1 /\ DOMAIN r = DOMAIN s \cup {Len(s) + 1}
           /\ r[Len(s) + 1] = e /\ Len(s) + 1 \notin DOMAIN s
           /\ \A l \in DOMAIN s : r[l] = s[l]
  OBVIOUS

LEMMA Mapped ==
    ASSUME NEW S, NEW s \in Seq(S), NEW r, r = [k \in DOMAIN s |-> r[k]], \A k \in DOMAIN s : r[k] \in S
    PROVE  r \in Seq(S) /\ Len(r) = Len(s) /\ DOMAIN r = DOMAIN s
<1>1. DOMAIN s = 1..Len(s) /\ Len(s) \in Nat
  OBVIOUS
<1>2. r \in [1..Len(s) -> S]
  BY <1>1
<1> QED
  BY <1>1, <1>2

LEMMA Elements ==
    ASSUME ChainTyped, WorkTyped
    PROVE  /\ Len(txs) \in Nat /\ DOMAIN txs = 1..Len(txs) /\ \A t \in DOMAIN txs : txs[t] \in Txs
           /\ Len(jobs) \in Nat /\ DOMAIN jobs = 1..Len(jobs) /\ \A j \in DOMAIN jobs : jobs[j] \in Jobs
           /\ Len(stored) \in Nat /\ DOMAIN stored = 1..Len(stored) /\ \A k \in DOMAIN stored : stored[k] \in NoteRecords
           /\ Len(mem) \in Nat /\ DOMAIN mem = 1..Len(mem) /\ \A k \in DOMAIN mem : mem[k] \in NoteRecords
  BY DEF ChainTyped, WorkTyped

(* What the network, the indexer, the jobs and time do: no transaction     *)
(* comes back to life, nobody is paid twice, and the notes stay.           *)
OnlyAged ==
    /\ DOMAIN txs' = DOMAIN txs /\ Len(txs)' = Len(txs)
    /\ \A t \in DOMAIN txs :
          /\ txs'[t].kind = txs[t].kind /\ txs'[t].counter = txs[t].counter
          /\ txs'[t].lost = txs[t].lost
          /\ txs'[t].state \in {"open", "landed"} => Alive(t)
          /\ txs[t].state = "landed" => txs'[t].state = "landed"
    /\ DOMAIN jobs' = DOMAIN jobs /\ Len(jobs)' = Len(jobs)
    /\ \A j \in DOMAIN jobs :
          /\ jobs'[j].counter = jobs[j].counter /\ jobs'[j].to = jobs[j].to
          /\ jobs'[j].state \in {"confirmed", "nullifier"} =>
                jobs[j].state \in {"confirmed", "nullifier"} \/ paid'[jobs[j].counter] # "nobody"
    /\ \A c \in Counters : paid[c] # "nobody" => paid'[c] = paid[c]
    /\ \A c \in Counters : paid[c] = "nobody" /\ paid'[c] = "owner" =>
          \/ \E t \in DOMAIN txs : Redeems(t) /\ txs[t].counter = c /\ txs'[t].state = "landed"
          \/ \E j \in DOMAIN jobs : jobs[j].to = "owner"
    /\ faults' = 0 => faults = 0
    /\ UNCHANGED <<stored, mem, at, pc>>

LEMMA AgedKeeps ==
    ASSUME PaymentsKept, OnlyAged, ChainTyped', WorkTyped', Young', LeavesTell'
    PROVE  PaymentsKept'
<1> USE Elements DEF PaymentsKept
<1>1. DOMAIN stored' = DOMAIN stored /\ stored' = stored /\ mem' = mem /\ at' = at /\ pc' = pc
  BY DEF OnlyAged
<1>2. ASSUME NEW c, Unlost(c)' PROVE Unlost(c)
  BY <1>2 DEF OnlyAged, Unlost
<1>3. ASSUME NEW c, Traced(c)' PROVE Traced(c)
  BY <1>2, <1>3 DEF OnlyAged, Traced
<1>4. Refers'
  <2> SUFFICES ASSUME NEW k \in DOMAIN stored
               PROVE  /\ stored[k].tx <= Len(txs)' /\ stored[k].job <= Len(jobs)'
                      /\ stored[k].status = "scheduled" => stored[k].job # 0
                      /\ stored[k].job # 0 => jobs'[stored[k].job].counter = stored[k].counter
    BY <1>1 DEF Refers
  <2>1. stored[k].job # 0 => stored[k].job \in DOMAIN jobs
    BY DEF Refers, NoteRecords
  <2> QED
    BY <2>1 DEF Refers, OnlyAged
<1>5. Agrees'
  BY <1>1 DEF Agrees
<1>6. AtHand'
  BY <1>1 DEF AtHand, OnlyAged, InFlight
<1>7. OneNote'
  BY <1>1, <1>3 DEF OneNote
<1>8. AllKnown'
  BY <1>1, <1>3 DEF AllKnown, OnlyAged
<1>9. Margined => OneAlive'
  BY <1>1, <1>2 DEF OneAlive, OnlyAged, Commit, Alive
<1>10. JobsTell'
  <2>1. ASSUME NEW j \in DOMAIN jobs, jobs'[j].state \in {"confirmed", "nullifier"}
        PROVE  paid'[jobs'[j].counter] # "nobody"
    <3>1. jobs[j].counter \in Counters /\ jobs'[j].counter = jobs[j].counter
      BY DEF Jobs, OnlyAged
    <3> QED
      BY <2>1, <3>1 DEF JobsTell, OnlyAged
  <2> QED
    BY <1>1, <2>1 DEF JobsTell, OnlyAged
<1>11. OwnerClaims'
  <2> SUFFICES ASSUME faults' = 0 PROVE OwnerClaims'
    BY DEF OwnerClaims
  <2>1. faults = 0
    BY DEF OnlyAged
  <2>2. ASSUME NEW c \in Counters, paid'[c] = "owner"
        PROVE  \E t \in DOMAIN txs : Redeems(t) /\ txs[t].counter = c /\ txs'[t].state = "landed"
    <3>1. CASE paid[c] = "nobody"
      BY <2>1, <2>2, <3>1 DEF OnlyAged, JobsTell
    <3>2. CASE paid[c] # "nobody"
      <4>1. paid[c] = "owner"
        BY <2>2, <3>2 DEF OnlyAged
      <4> QED
        BY <2>1, <4>1 DEF OwnerClaims, OnlyAged
    <3> QED
      BY <3>1, <3>2
  <2>3. ASSUME NEW c \in Counters, paid'[c] = "owner"
        PROVE  \E t \in DOMAIN txs' : Redeems(t)' /\ txs'[t].counter = c /\ txs'[t].state = "landed"
    BY <2>2, <2>3 DEF OnlyAged, Redeems
  <2>4. ASSUME NEW k \in DOMAIN stored, NEW t \in DOMAIN txs,
               Redeems(t)', txs'[t].counter = stored[k].counter, Alive(t)'
        PROVE  \/ stored[k].status = "revealed" /\ stored[k].recovered
               \/ pc = "claim" /\ k = at /\ t = Len(txs)
    BY <2>1, <2>4 DEF OwnerClaims, OnlyAged, Redeems, Alive
  <2> QED
    BY <1>1, <2>3, <2>4 DEF OwnerClaims, OnlyAged
<1>12. DeliveredIsPaid'
  <2> SUFFICES ASSUME NEW k \in DOMAIN stored, stored[k].status = "revealed", ~stored[k].recovered
               PROVE  /\ paid'[stored[k].counter] # "nobody"
                      /\ faults' = 0 => paid'[stored[k].counter] = stored[k].to
    BY <1>1 DEF DeliveredIsPaid
  <2>1. stored[k].counter \in Counters
    BY DEF NoteRecords
  <2> QED
    BY <2>1 DEF DeliveredIsPaid, OnlyAged
<1> QED
  BY <1>4, <1>5, <1>6, <1>7, <1>8, <1>9, <1>10, <1>11, <1>12

(* A transaction comes to its end.                                         *)
LEMMA SetKeeps ==
    ASSUME ChainTyped, WorkTyped, NEW t \in DOMAIN txs, NEW s \in {"landed", "failed", "gone"}, Set(t, s)
    PROVE  /\ txs' \in Seq(Txs) /\ DOMAIN txs' = DOMAIN txs /\ Len(txs') = Len(txs)
           /\ txs'[t] = [txs[t] EXCEPT !.state = s]
           /\ \A u \in DOMAIN txs : u # t => txs'[u] = txs[u]
           /\ \A u \in DOMAIN txs :
                 /\ txs'[u].kind = txs[u].kind /\ txs'[u].counter = txs[u].counter /\ txs'[u].seq = txs[u].seq
                 /\ txs'[u].age = txs[u].age /\ txs'[u].lost = txs[u].lost
<1>1. txs \in Seq(Txs) /\ txs[t] \in Txs
  BY Elements DEF ChainTyped
<1> DEFINE e == [txs[t] EXCEPT !.state = s]
<1>2. e \in Txs
  BY <1>1 DEF Txs
<1>3. txs' = [txs EXCEPT ![t] = e]
  BY DEF Set
<1>4. /\ txs' \in Seq(Txs) /\ DOMAIN txs' = DOMAIN txs /\ Len(txs') = Len(txs) /\ txs'[t] = e
      /\ \A u \in DOMAIN txs : u # t => txs'[u] = txs[u]
  <2> HIDE DEF e
  <2> QED
    BY <1>1, <1>2, <1>3, ElementReplaced
<1>5. /\ e.kind = txs[t].kind /\ e.counter = txs[t].counter /\ e.seq = txs[t].seq
      /\ e.age = txs[t].age /\ e.lost = txs[t].lost
  BY <1>1 DEF Txs
<1> QED
  BY <1>4, <1>5

(* No lot of a commit is worse for an end that it comes to.                *)
LEMMA EndKeeps ==
    ASSUME PaymentsKept, NEW t \in DOMAIN txs, NEW s \in {"landed", "failed", "gone"}, Set(t, s),
           txs[t].state = "open", s = "landed" /\ Commit(t) => txs[t].age <= Validity,
           seq' \in {seq, seq + 1}, paid' \in [Counters -> {"nobody", "recipient", "owner"}],
           faults' \in 0..MaxFaults, faults' = 0 => faults = 0,
           \A c \in Counters :
               paid'[c] = paid[c] \/ (paid[c] = "nobody" /\ paid'[c] = "owner" /\ txs[t].counter = c /\ Redeems(t) /\ s = "landed"),
           UNCHANGED <<indexed, jobs, stored, work>>
    PROVE  PaymentsKept'
<1> USE PaymentConstants DEF PaymentsKept
<1>0. /\ txs' \in Seq(Txs) /\ DOMAIN txs' = DOMAIN txs /\ Len(txs') = Len(txs)
      /\ txs'[t] = [txs[t] EXCEPT !.state = s]
      /\ \A u \in DOMAIN txs : u # t => txs'[u] = txs[u]
      /\ \A u \in DOMAIN txs :
            /\ txs'[u].kind = txs[u].kind /\ txs'[u].counter = txs[u].counter /\ txs'[u].seq = txs[u].seq
            /\ txs'[u].age = txs[u].age /\ txs'[u].lost = txs[u].lost
  BY SetKeeps
<1>e. /\ Len(txs) \in Nat /\ \A u \in DOMAIN txs : txs[u] \in Txs
      /\ \A u \in DOMAIN txs : txs[u].age \in Nat /\ txs[u].seq \in Nat
  <2>1. \A u \in DOMAIN txs : txs[u] \in Txs
    BY Elements
  <2> QED
    BY Elements, <2>1 DEF Txs
<1>1. txs'[t].state = s
  BY <1>0, <1>e DEF Txs
<1> USE <1>0, <1>e
<1>2. indexed \subseteq DOMAIN txs /\ t \notin indexed
  BY DEF ChainTyped, Young
<1>3. ChainTyped'
  <2>1. \A u \in DOMAIN txs : txs'[u].seq \in 1..(seq' + 1)
    <3>1. seq' \in Nat /\ seq \in Nat /\ seq' >= seq
      BY DEF ChainTyped
    <3>2. \A k \in 1..(seq + 1) : k \in 1..(seq' + 1)
      BY <3>1
    <3>3. \A u \in DOMAIN txs : txs[u].seq \in 1..(seq + 1)
      BY DEF ChainTyped
    <3>4. \A u \in DOMAIN txs : txs'[u].seq = txs[u].seq
      BY <1>0, Zenon
    <3> HIDE <1>0, <1>e
    <3> QED
      BY <3>2, <3>3, <3>4, Zenon
  <2>2. seq' \in Nat /\ txs' \in Seq(Txs) /\ jobs' \in Seq(Jobs) /\ indexed' \subseteq DOMAIN txs'
    BY DEF ChainTyped
  <2> QED
    BY <2>1, <2>2 DEF ChainTyped
<1>4. WorkTyped'
  BY DEF WorkTyped, work
<1>5. Unindexed' \subseteq Unindexed \cup {u \in {t} : s = "landed" /\ Commit(t)}
  <2> SUFFICES ASSUME NEW u \in Unindexed', u \notin Unindexed PROVE u = t /\ s = "landed" /\ Commit(t)
    OBVIOUS
  <2>1. u \in DOMAIN txs /\ txs'[u].kind = "commit" /\ txs'[u].state = "landed" /\ u \notin indexed
    BY <1>0 DEF Unindexed
  <2>2. txs[u].kind = "commit" /\ txs[u].state # "landed"
    BY <1>0, <2>1 DEF Unindexed
  <2>3. u = t
    BY <1>0, <2>1, <2>2
  <2> QED
    BY <1>1, <2>1, <2>2, <2>3 DEF Commit
<1>6. Young'
  <2>1. \A u \in DOMAIN txs : txs'[u].state = "open" => txs'[u].age <= Validity
    BY <1>1 DEF Young
  <2>2. \A u \in Unindexed' : txs'[u].age <= Validity + Lag
    <3> SUFFICES ASSUME NEW u \in Unindexed' PROVE txs'[u].age <= Validity + Lag
      OBVIOUS
    <3>1. u \in DOMAIN txs /\ txs'[u].age = txs[u].age /\ txs[u].age \in Nat
      BY DEF Unindexed
    <3>2. CASE u \in Unindexed
      BY <3>1, <3>2 DEF Young
    <3>3. CASE u = t /\ s = "landed" /\ Commit(t)
      BY <3>1, <3>3
    <3> QED
      BY <1>5, <3>2, <3>3
  <2>3. \A u \in indexed' : Commit(u)' /\ txs'[u].state = "landed"
    BY <1>2 DEF Young, Commit
  <2> QED
    BY <2>1, <2>2, <2>3 DEF Young
<1>7. LeavesTell'
  <2> SUFFICES ASSUME pc \in {"pass", "submit", "sent", "await"}, leavesAge <= Fresh,
                      NEW u \in DOMAIN txs, Commit(u)', txs'[u].state = "landed", txs'[u].counter \notin leaves
               PROVE  txs'[u].age <= Validity + Lag + leavesAge
    BY DEF LeavesTell, work
  <2>0. leavesAge \in Nat
    BY DEF WorkTyped
  <2>1. txs'[u].age = txs[u].age /\ txs[u].age \in Nat /\ leavesAge \in Nat /\ Commit(u)
    BY <2>0 DEF Commit
  <2>2. CASE u = t
    <3>1. txs[t].age <= Validity /\ txs[t].age \in Nat
      BY <1>1, <2>1, <2>2
    <3> QED
      BY <2>1, <2>2, <3>1
  <2>3. CASE u # t
    BY <2>1, <2>3 DEF LeavesTell
  <2> QED
    BY <2>2, <2>3
<1>8. OnlyAged
  <2>1. ASSUME NEW u \in DOMAIN txs
        PROVE  /\ txs'[u].state \in {"open", "landed"} => Alive(u)
               /\ txs[u].state = "landed" => txs'[u].state = "landed"
    BY <1>1 DEF Alive
  <2>2. ASSUME NEW c \in Counters, paid[c] = "nobody", paid'[c] = "owner"
        PROVE  \E u \in DOMAIN txs : Redeems(u) /\ txs[u].counter = c /\ txs'[u].state = "landed"
    BY <1>1, <2>2
  <2>3. \A c \in Counters : paid[c] # "nobody" => paid'[c] = paid[c]
    OBVIOUS
  <2>4. jobs' = jobs /\ UNCHANGED <<stored, mem, at, pc>>
    BY DEF work
  <2> QED
    BY <2>1, <2>2, <2>3, <2>4 DEF OnlyAged
<1> QED
  BY <1>3, <1>4, <1>6, <1>7, <1>8, AgedKeeps

LEMMA LandKeeps == ASSUME PaymentsKept, NEW t \in DOMAIN txs, Land(t) PROVE PaymentsKept'
<1> USE Elements, PaymentConstants DEF PaymentsKept
<1>0. txs[t].counter \in Counters /\ txs[t].kind \in {"commit", "reveal"} /\ txs[t].state = "open"
  BY DEF Land, Valid, Txs
<1>1. txs[t].age <= Validity /\ faults' \in 0..MaxFaults /\ (faults' = 0 => faults = 0) /\ seq' = seq + 1
      /\ paid \in [Counters -> {"nobody", "recipient", "owner"}] /\ UNCHANGED <<indexed, jobs, stored, work>>
  BY <1>0 DEF Land, Young, ChainTyped
<1>2. CASE (Set(t, "landed") \/ Set(t, "failed")) /\ UNCHANGED paid
  BY <1>0, <1>1, <1>2, EndKeeps
<1>3. CASE txs[t].kind # "commit" /\ paid[txs[t].counter] = "nobody" /\ Set(t, "landed")
            /\ paid' = [paid EXCEPT ![txs[t].counter] = "owner"]
  <2>1. paid' \in [Counters -> {"nobody", "recipient", "owner"}] /\ Redeems(t)
    BY <1>0, <1>1, <1>3 DEF Redeems
  <2>2. \A c \in Counters :
            paid'[c] = paid[c] \/ (paid[c] = "nobody" /\ paid'[c] = "owner" /\ txs[t].counter = c /\ Redeems(t))
    BY <1>0, <1>1, <1>3, <2>1
  <2> QED
    BY <1>0, <1>1, <1>3, <2>1, <2>2, EndKeeps
<1> QED
  BY <1>2, <1>3 DEF Land

LEMMA RevertKeeps == ASSUME PaymentsKept, NEW t \in DOMAIN txs, Revert(t) PROVE PaymentsKept'
<1>1. faults' \in 0..MaxFaults /\ (faults' = 0 => faults = 0) /\ txs[t].state = "open"
  BY PaymentConstants DEF PaymentsKept, ChainTyped, Revert, Fault, Valid
<1> QED
  BY <1>1, EndKeeps DEF Revert, PaymentsKept, ChainTyped

LEMMA ExpireKeeps == ASSUME PaymentsKept, NEW t \in DOMAIN txs, Expire(t) PROVE PaymentsKept'
<1>1. faults' \in 0..MaxFaults /\ (faults' = 0 => faults = 0) /\ txs[t].state = "open"
  BY PaymentConstants DEF PaymentsKept, ChainTyped, Expire, Fault
<1> QED
  BY <1>1, EndKeeps DEF Expire, PaymentsKept, ChainTyped

LEMMA IndexKeeps == ASSUME PaymentsKept, NEW t \in DOMAIN txs, Index(t) PROVE PaymentsKept'
<1> USE Elements DEF PaymentsKept
<1>1. /\ UNCHANGED <<txs, seq, jobs, paid, stored, mem, leaves, leavesAge, at, pc, faults>>
      /\ indexed' = indexed \cup {t} /\ Commit(t) /\ txs[t].state = "landed"
  BY DEF Index, work, Unindexed, Commit
<1>2. ChainTyped' /\ WorkTyped'
  BY <1>1 DEF ChainTyped, WorkTyped
<1>3. Young'
  BY <1>1 DEF Young, Unindexed, Commit
<1>4. LeavesTell'
  BY <1>1 DEF LeavesTell, Commit
<1>5. OnlyAged
  BY <1>1 DEF OnlyAged, Alive, ChainTyped
<1> QED
  BY <1>2, <1>3, <1>4, <1>5, AgedKeeps

LEMMA RunJobKeeps == ASSUME PaymentsKept, NEW j \in DOMAIN jobs, RunJob(j) PROVE PaymentsKept'
<1> USE Elements, PaymentConstants DEF PaymentsKept
<1> DEFINE c == jobs[j].counter
<1>1. UNCHANGED <<txs, seq, indexed, stored, mem, leaves, leavesAge, at, pc>> /\ jobs[j].state = "queued" /\ jobs[j] \in Jobs
  BY DEF RunJob, work
<1>2. c \in Counters /\ paid \in [Counters -> {"nobody", "recipient", "owner"}]
  BY <1>1 DEF Jobs, ChainTyped
<1>3. PICK s \in {"confirmed", "nullifier", "dead"} :
         /\ jobs' = [jobs EXCEPT ![j].state = s]
         /\ \/ s = "confirmed" /\ paid[c] = "nobody" /\ paid' = [paid EXCEPT ![c] = jobs[j].to] /\ faults' = faults
            \/ s = "nullifier" /\ paid[c] # "nobody" /\ paid' = paid /\ faults' = faults
            \/ s = "dead" /\ paid' = paid /\ Fault
  BY DEF RunJob
<1> DEFINE e == [jobs[j] EXCEPT !.state = s]
<1>4. e \in Jobs /\ e.counter = c /\ e.to = jobs[j].to /\ e.state = s
  BY <1>1 DEF Jobs
<1>5. /\ jobs' \in Seq(Jobs) /\ DOMAIN jobs' = DOMAIN jobs /\ Len(jobs') = Len(jobs) /\ jobs'[j] = e
      /\ \A i \in DOMAIN jobs : i # j => jobs'[i] = jobs[i]
  <2>1. jobs' = [jobs EXCEPT ![j] = e]
    BY <1>3
  <2> HIDE DEF e
  <2> QED
    BY <1>4, <2>1, ElementReplaced DEF ChainTyped
<1>6. faults' \in 0..MaxFaults /\ (faults' = 0 => faults = 0)
  BY <1>3 DEF Fault, ChainTyped
<1>7. paid' \in [Counters -> {"nobody", "recipient", "owner"}] /\ \A d \in Counters : paid[d] # "nobody" => paid'[d] = paid[d]
  <2>1. jobs[j].to \in {"recipient", "owner"}
    BY <1>1 DEF Jobs
  <2> QED
    BY <1>2, <1>3, <2>1
<1>8. s \in {"confirmed", "nullifier"} => paid'[c] # "nobody"
  <2>1. jobs[j].to \in {"recipient", "owner"}
    BY <1>1 DEF Jobs
  <2> QED
    BY <1>2, <1>3, <2>1
<1>9. \A d \in Counters : paid[d] = "nobody" /\ paid'[d] = "owner" => jobs[j].to = "owner"
  BY <1>2, <1>3
<1>10. ChainTyped' /\ WorkTyped'
  BY <1>1, <1>5, <1>6, <1>7 DEF ChainTyped, WorkTyped
<1>11. Young' /\ LeavesTell'
  BY <1>1 DEF Young, LeavesTell, Unindexed, Commit
<1>12. OnlyAged
  <2>1. \A i \in DOMAIN jobs : jobs'[i].counter = jobs[i].counter /\ jobs'[i].to = jobs[i].to
    BY <1>4, <1>5
  <2>2. ASSUME NEW i \in DOMAIN jobs, jobs'[i].state \in {"confirmed", "nullifier"}
        PROVE  jobs[i].state \in {"confirmed", "nullifier"} \/ paid'[jobs[i].counter] # "nobody"
    BY <1>4, <1>5, <1>8, <2>2
  <2>3. /\ DOMAIN txs' = DOMAIN txs /\ Len(txs)' = Len(txs) /\ UNCHANGED <<txs, stored, mem, at, pc>>
        /\ \A t \in DOMAIN txs : txs'[t].state \in {"open", "landed"} => Alive(t)
    BY <1>1 DEF Alive
  <2> QED
    BY <1>5, <1>6, <1>7, <1>9, <2>1, <2>2, <2>3 DEF OnlyAged
<1> QED
  BY <1>10, <1>11, <1>12, AgedKeeps

LEMMA OneLater ==
    ASSUME NEW a \in Nat, NEW b \in Nat, NEW x \in Nat, NEW y \in Nat, NEW v \in Nat, NEW w \in Nat,
           b <= a + 1, a <= v + w + x, y = x + 1
    PROVE  b <= v + w + y
  OBVIOUS

LEMMA TickKeeps == ASSUME PaymentsKept, Tick PROVE PaymentsKept'
<1> USE Elements, PaymentConstants DEF PaymentsKept
<1>1. UNCHANGED <<seq, indexed, jobs, paid, stored, mem, leaves, at, pc, faults>>
  BY DEF Tick
<1> DEFINE older(t) == [txs[t] EXCEPT !.age = IF txs[t].age < OldAge THEN txs[t].age + 1 ELSE txs[t].age]
<1>2. txs' = [t \in DOMAIN txs |-> older(t)]
  BY DEF Tick
<1>3. ASSUME NEW t \in DOMAIN txs
      PROVE  /\ older(t) \in Txs /\ txs'[t] = older(t)
             /\ txs'[t].kind = txs[t].kind /\ txs'[t].counter = txs[t].counter /\ txs'[t].seq = txs[t].seq
             /\ txs'[t].state = txs[t].state /\ txs'[t].lost = txs[t].lost
             /\ txs'[t].age \in Nat /\ txs[t].age \in Nat /\ txs'[t].age <= txs[t].age + 1
  <2>1. txs[t] \in Txs
    OBVIOUS
  <2>2. older(t) \in Txs /\ older(t).age \in Nat /\ txs[t].age \in Nat /\ older(t).age <= txs[t].age + 1
    <3> DEFINE a == IF txs[t].age < OldAge THEN txs[t].age + 1 ELSE txs[t].age
    <3>1. txs[t].age \in 0..OldAge
      BY <2>1 DEF Txs
    <3>2. a \in 0..OldAge /\ a <= txs[t].age + 1
      BY <3>1
    <3>3. older(t) = [txs[t] EXCEPT !.age = a]
      OBVIOUS
    <3> HIDE DEF a, older
    <3>4. older(t) \in Txs /\ older(t).age = a
      BY <2>1, <3>2, <3>3 DEF Txs
    <3> QED
      BY <3>1, <3>2, <3>4
  <2>3. /\ older(t).kind = txs[t].kind /\ older(t).counter = txs[t].counter /\ older(t).seq = txs[t].seq
        /\ older(t).state = txs[t].state /\ older(t).lost = txs[t].lost
    BY <2>1 DEF Txs
  <2>4. txs'[t] = older(t)
    BY <1>2
  <2> HIDE DEF older
  <2> QED
    BY <2>2, <2>3, <2>4
<1>4. txs' \in Seq(Txs) /\ DOMAIN txs' = DOMAIN txs /\ Len(txs') = Len(txs)
  <2>1. txs' = [t \in DOMAIN txs |-> txs'[t]] /\ \A t \in DOMAIN txs : txs'[t] \in Txs
    BY <1>2, <1>3, Zenon
  <2> QED
    BY <2>1, Mapped DEF ChainTyped
<1> HIDE DEF older
<1>5. leavesAge' \in 0..(Fresh + 1) /\ (pc # "idle" /\ leavesAge' <= Fresh => leavesAge' = leavesAge + 1)
  BY SMTT(40) DEF Tick, WorkTyped
<1>6. ChainTyped' /\ WorkTyped'
  BY <1>1, <1>3, <1>4, <1>5 DEF ChainTyped, WorkTyped
<1>7. Unindexed' = Unindexed
  BY <1>1, <1>3, <1>4 DEF Unindexed
<1>8. Young'
  <2>1. ASSUME NEW t \in DOMAIN txs, txs'[t].state = "open" PROVE txs'[t].age <= Validity
    <3>1. txs[t].age < Validity
      BY <1>3, <2>1 DEF Tick
    <3>2. txs'[t].age \in Nat /\ txs[t].age \in Nat /\ txs'[t].age <= txs[t].age + 1
      BY <1>3
    <3> QED
      BY <3>1, <3>2
  <2>2. ASSUME NEW t \in Unindexed PROVE txs'[t].age <= Validity + Lag
    <3>1. t \in DOMAIN txs /\ txs[t].age < Validity + Lag
      BY DEF Unindexed, Tick
    <3>2. txs'[t].age \in Nat /\ txs[t].age \in Nat /\ txs'[t].age <= txs[t].age + 1
      BY <1>3, <3>1
    <3> QED
      BY <3>1, <3>2
  <2>3. \A t \in indexed : Commit(t)' /\ txs'[t].state = "landed"
    <3>1. indexed \subseteq DOMAIN txs
      BY DEF ChainTyped
    <3> QED
      BY <1>3, <3>1 DEF Young, Commit
  <2> QED
    BY <1>1, <1>4, <1>7, <2>1, <2>2, <2>3 DEF Young
<1>9. LeavesTell'
  <2> SUFFICES ASSUME pc \in {"pass", "submit", "sent", "await"}, leavesAge' <= Fresh,
                      NEW t \in DOMAIN txs, Commit(t)', txs'[t].state = "landed", txs'[t].counter \notin leaves
               PROVE  txs'[t].age <= Validity + Lag + leavesAge'
    BY <1>1, <1>4 DEF LeavesTell
  <2>1. leavesAge' = leavesAge + 1 /\ leavesAge \in Nat
    BY <1>5 DEF WorkTyped
  <2>2. txs[t].age <= Validity + Lag + leavesAge
    <3>1. Commit(t) /\ txs[t].state = "landed" /\ txs[t].counter \notin leaves
      BY <1>3 DEF Commit
    <3>2. leavesAge <= Fresh
      BY <2>1
    <3> QED
      BY <3>1, <3>2 DEF LeavesTell
  <2>3. txs'[t].age \in Nat /\ txs[t].age \in Nat /\ txs'[t].age <= txs[t].age + 1
    BY <1>3
  <2> QED
    BY <2>1, <2>2, <2>3, OneLater
<1>10. OnlyAged
  BY <1>1, <1>3, <1>4 DEF OnlyAged, Alive, ChainTyped
<1> QED
  BY <1>6, <1>8, <1>9, <1>10, AgedKeeps

(* What the wallet's own steps leave alone: transactions are at most       *)
(* marked, jobs are added for notes, and nobody is paid.                   *)
OnlyMarked ==
    /\ txs' \in Seq(Txs) /\ DOMAIN txs' = DOMAIN txs /\ Len(txs') = Len(txs)
    /\ \A t \in DOMAIN txs :
          /\ txs'[t].kind = txs[t].kind /\ txs'[t].counter = txs[t].counter /\ txs'[t].seq = txs[t].seq
          /\ txs'[t].state = txs[t].state /\ txs'[t].age = txs[t].age
          /\ txs[t].lost => txs'[t].lost
    /\ jobs' \in Seq(Jobs) /\ Len(jobs) <= Len(jobs')
    /\ \A j \in DOMAIN jobs : jobs'[j] = jobs[j]
    /\ \A j \in DOMAIN jobs' \ DOMAIN jobs :
          jobs'[j].state = "queued" /\ (faults' = 0 => jobs'[j].to = "recipient")
    /\ UNCHANGED <<seq, indexed, paid>>
    /\ faults' \in 0..MaxFaults /\ (faults' = 0 => faults = 0)

LEMMA MarkedKeeps ==
    ASSUME PaymentsKept, OnlyMarked
    PROVE  /\ ChainTyped' /\ Young'
           /\ \A c : (Unlost(c)' => Unlost(c)) /\ (Traced(c)' => Traced(c))
           /\ \A j \in DOMAIN jobs' :
                jobs'[j].state \in {"confirmed", "nullifier"} => paid'[jobs'[j].counter] # "nobody"
<1> USE Elements DEF PaymentsKept
<1>1. ChainTyped'
  BY DEF ChainTyped, OnlyMarked
<1>2. Unindexed' = Unindexed
  BY DEF Unindexed, OnlyMarked
<1>3. Young'
  <2>1. \A t \in DOMAIN txs : txs'[t].state = "open" => txs'[t].age <= Validity
    BY DEF Young, OnlyMarked
  <2>2. \A t \in Unindexed : txs'[t].age <= Validity + Lag
    BY DEF Young, OnlyMarked, Unindexed
  <2>3. \A t \in indexed : Commit(t)' /\ txs'[t].state = "landed"
    <3>1. \A t \in indexed : t \in DOMAIN txs /\ Commit(t) /\ txs[t].state = "landed"
      BY DEF Young, ChainTyped
    <3> QED
      BY <3>1 DEF OnlyMarked, Commit
  <2> QED
    BY <1>2, <2>1, <2>2, <2>3 DEF Young, OnlyMarked
<1>4. \A c : (Unlost(c)' => Unlost(c)) /\ (Traced(c)' => Traced(c))
  BY DEF Unlost, Traced, OnlyMarked
<1>5. ASSUME NEW j \in DOMAIN jobs', jobs'[j].state \in {"confirmed", "nullifier"}
      PROVE  paid'[jobs'[j].counter] # "nobody"
  BY <1>5 DEF OnlyMarked, JobsTell
<1> QED
  BY <1>1, <1>3, <1>4, <1>5

(* What may be made of a stored note.                                      *)
NextNote(k, note) ==
    /\ k \in DOMAIN stored /\ note \in NoteRecords
    /\ pc \in {"sent", "claim"} => k = at
    /\ note.counter = stored[k].counter /\ note.to = stored[k].to
    /\ note.tx <= Len(txs) /\ note.job <= Len(jobs')
    /\ note.status = "scheduled" => note.job # 0
    /\ note.job # 0 => jobs'[note.job].counter = note.counter
    /\ Margined /\ Unlost(note.counter)' =>
          \A t \in DOMAIN txs : Commit(t) /\ txs[t].counter = note.counter /\ Alive(t) => t = note.tx
    /\ faults' = 0 =>
          \A t \in DOMAIN txs : Redeems(t) /\ txs[t].counter = note.counter /\ Alive(t) =>
              note.status = "revealed" /\ note.recovered
    /\ note.status = "revealed" /\ ~note.recovered =>
          /\ paid[note.counter] # "nobody"
          /\ faults' = 0 => paid[note.counter] = note.to

StoreKept ==
    /\ ChainTyped /\ stored \in Seq(NoteRecords) /\ Refers /\ OneNote /\ AllKnown /\ (Margined => OneAlive)
    /\ Young /\ JobsTell /\ OwnerClaims /\ DeliveredIsPaid

LEMMA NoteKeeps ==
    ASSUME PaymentsKept, OnlyMarked, NEW k, NEW note, NextNote(k, note),
           stored' = [stored EXCEPT ![k] = note]
    PROVE  /\ StoreKept' /\ DOMAIN stored' = DOMAIN stored /\ Len(stored') = Len(stored) /\ stored'[k] = note
           /\ \A l \in DOMAIN stored : l # k => stored'[l] = stored[l]
<1> USE Elements DEF PaymentsKept
<1>1. /\ k \in DOMAIN stored /\ note \in NoteRecords
      /\ note.counter = stored[k].counter /\ note.to = stored[k].to
  BY DEF NextNote
<1>2. /\ stored' \in Seq(NoteRecords) /\ DOMAIN stored' = DOMAIN stored /\ Len(stored') = Len(stored) /\ stored'[k] = note
      /\ \A l \in DOMAIN stored : l # k => stored'[l] = stored[l]
  BY <1>1, ElementReplaced DEF WorkTyped
<1>3. \A l \in DOMAIN stored : stored'[l].counter = stored[l].counter /\ stored'[l].to = stored[l].to
  BY <1>1, <1>2
<1>4. /\ ChainTyped' /\ Young'
      /\ \A c : (Unlost(c)' => Unlost(c)) /\ (Traced(c)' => Traced(c))
      /\ \A j \in DOMAIN jobs' :
                jobs'[j].state \in {"confirmed", "nullifier"} => paid'[jobs'[j].counter] # "nobody"
  BY MarkedKeeps
<1>5. Refers'
  <2> SUFFICES ASSUME NEW l \in DOMAIN stored
               PROVE  /\ stored'[l].tx <= Len(txs') /\ stored'[l].job <= Len(jobs')
                      /\ stored'[l].status = "scheduled" => stored'[l].job # 0
                      /\ stored'[l].job # 0 => jobs'[stored'[l].job].counter = stored'[l].counter
    BY <1>2 DEF Refers
  <2>1. CASE l = k
    BY <1>2, <2>1 DEF NextNote, OnlyMarked
  <2>2. CASE l # k
    <3>1. stored'[l] = stored[l] /\ stored[l] \in NoteRecords
      BY <1>2, <2>2
    <3>2. Len(txs') = Len(txs) /\ Len(jobs) <= Len(jobs') /\ Len(jobs') \in Nat
      BY DEF OnlyMarked
    <3>3. stored[l].job \in Nat
      BY <3>1 DEF NoteRecords
    <3>4. stored[l].job # 0 => stored[l].job \in DOMAIN jobs
      BY <3>3 DEF Refers
    <3>5. stored[l].job # 0 => jobs'[stored[l].job] = jobs[stored[l].job]
      BY <3>4 DEF OnlyMarked
    <3> QED
      BY <3>1, <3>2, <3>3, <3>5 DEF Refers
  <2> QED
    BY <2>1, <2>2
<1>6. OneNote'
  BY <1>2, <1>3, <1>4 DEF OneNote
<1>7. AllKnown'
  <2>1. ASSUME NEW c, Traced(c)', NEW t \in DOMAIN txs, txs[t].counter = c
        PROVE  \E l \in DOMAIN stored : stored[l].counter = c
    BY <1>4, <2>1 DEF AllKnown
  <2>2. \A t \in DOMAIN txs' : t \in DOMAIN txs /\ txs'[t].counter = txs[t].counter
    BY DEF OnlyMarked
  <2> QED
    BY <1>2, <1>3, <2>1, <2>2 DEF AllKnown
<1>8. Margined => OneAlive'
  <2> SUFFICES ASSUME Margined, NEW l \in DOMAIN stored, Unlost(stored[l].counter)', NEW t \in DOMAIN txs,
                      Commit(t), txs[t].counter = stored[l].counter, Alive(t)
               PROVE  t = stored'[l].tx
    BY <1>2, <1>3 DEF OneAlive, OnlyMarked, Commit, Alive
  <2>1. CASE l = k
    BY <1>1, <1>2, <2>1 DEF NextNote
  <2>2. CASE l # k
    BY <1>2, <1>4, <2>2 DEF OneAlive, NextNote
  <2> QED
    BY <2>1, <2>2
<1>9. JobsTell'
  <2>1. ASSUME faults' = 0
        PROVE  /\ \A j \in DOMAIN jobs' : jobs'[j].to = "recipient"
               /\ \A l \in DOMAIN stored' : stored'[l].to = "recipient"
    BY <1>2, <1>3, <2>1 DEF JobsTell, OnlyMarked
  <2> QED
    BY <1>4, <2>1 DEF JobsTell
<1>10. OwnerClaims'
  <2> SUFFICES ASSUME faults' = 0 PROVE OwnerClaims'
    BY DEF OwnerClaims
  <2>1. faults = 0 /\ paid' = paid
    BY DEF OnlyMarked
  <2>2. ASSUME NEW c \in Counters, paid'[c] = "owner"
        PROVE  \E t \in DOMAIN txs' : Redeems(t)' /\ txs'[t].counter = c /\ txs'[t].state = "landed"
    <3>1. PICK t \in DOMAIN txs : Redeems(t) /\ txs[t].counter = c /\ txs[t].state = "landed"
      BY <2>1, <2>2 DEF OwnerClaims
    <3> QED
      BY <3>1 DEF OnlyMarked, Redeems
  <2>3. ASSUME NEW l \in DOMAIN stored, NEW t \in DOMAIN txs,
               Redeems(t), txs[t].counter = stored[l].counter, Alive(t)
        PROVE  stored'[l].status = "revealed" /\ stored'[l].recovered
    <3>1. CASE l = k
      BY <1>1, <1>2, <2>3, <3>1 DEF NextNote
    <3>2. CASE l # k
      <4>1. ~(pc = "claim" /\ l = at)
        BY <3>2 DEF NextNote
      <4> QED
        BY <1>2, <2>1, <2>3, <3>2, <4>1 DEF OwnerClaims
    <3> QED
      BY <3>1, <3>2
  <2>4. ASSUME NEW l \in DOMAIN stored', NEW t \in DOMAIN txs',
               Redeems(t)', txs'[t].counter = stored'[l].counter, Alive(t)'
        PROVE  stored'[l].status = "revealed" /\ stored'[l].recovered
    <3>1. l \in DOMAIN stored /\ t \in DOMAIN txs /\ Redeems(t) /\ txs[t].counter = stored[l].counter /\ Alive(t)
      BY <1>2, <1>3, <2>4 DEF OnlyMarked, Redeems, Alive
    <3> QED
      BY <2>3, <3>1
  <2> QED
    BY <2>2, <2>4 DEF OwnerClaims
<1>11. DeliveredIsPaid'
  <2> SUFFICES ASSUME NEW l \in DOMAIN stored, stored'[l].status = "revealed", ~stored'[l].recovered
               PROVE  /\ paid[stored'[l].counter] # "nobody"
                      /\ faults' = 0 => paid[stored'[l].counter] = stored'[l].to
    BY <1>2 DEF DeliveredIsPaid, OnlyMarked
  <2>1. CASE l = k
    BY <1>2, <2>1 DEF NextNote
  <2>2. CASE l # k
    BY <1>2, <2>2 DEF DeliveredIsPaid, OnlyMarked
  <2> QED
    BY <2>1, <2>2
<1> QED
  BY <1>2, <1>4, <1>5, <1>6, <1>7, <1>8, <1>9, <1>10, <1>11 DEF StoreKept

(* A step that leaves the notes and has nothing under way may be seen as   *)
(* one that replaces a note by itself.                                     *)
LEMMA StoreThenWork ==
    ASSUME StoreKept', WorkTyped', Agrees', AtHand', LeavesTell'
    PROVE  PaymentsKept'
  BY DEF StoreKept, PaymentsKept

(* The note at hand is done with: it is saved, and the next is taken.      *)
LEMMA SaveKeeps ==
    ASSUME PaymentsKept, OnlyMarked, pc # "idle", NEW note, NextNote(at, note), Save(note)
    PROVE  PaymentsKept'
<1> USE Elements DEF PaymentsKept
<1> DEFINE m == [mem EXCEPT ![at] = note]
           rest == {k \in (at + 1)..Len(m) : InFlight(m[k])}
<1>1. m = [stored EXCEPT ![at] = note]
  BY DEF Agrees, NextNote
<1>2. stored' = m
  BY DEF Save
<1>3. /\ StoreKept' /\ DOMAIN stored' = DOMAIN stored /\ Len(stored') = Len(stored) /\ stored'[at] = note
      /\ \A l \in DOMAIN stored : l # at => stored'[l] = stored[l]
  BY <1>1, <1>2, NoteKeeps
<1>4. m \in Seq(NoteRecords) /\ Len(m) = Len(stored)
  BY <1>2, <1>3 DEF StoreKept
<1>5. \/ rest = {} \/ pc = "claim"
      \/ rest # {} /\ pc # "claim"
  OBVIOUS
<1>6. CASE rest = {} \/ pc = "claim"
  <2>1. Release
    BY <1>6 DEF Save
  <2>2. WorkTyped' /\ Agrees' /\ AtHand' /\ LeavesTell'
    BY <1>3, <2>1, PaymentConstants DEF Release, StoreKept, WorkTyped, Agrees, AtHand, LeavesTell
  <2> QED
    BY <1>3, <2>2, StoreThenWork
<1>7. CASE rest # {} /\ pc # "claim"
  <2>1. at' = Min(rest) /\ mem' = m /\ pc' = "pass" /\ UNCHANGED <<leaves, leavesAge>>
    BY <1>7 DEF Save
  <2>2. Min(rest) \in rest
    <3>1. rest \subseteq Nat /\ rest \subseteq Int
      BY <1>4 DEF WorkTyped
    <3>2. PICK x \in rest : \A y \in rest : x <= y
      BY <1>7, <3>1, LeastIn
    <3> HIDE DEF rest
    <3> QED
      BY <3>2 DEF Min
  <2>3. Min(rest) \in DOMAIN m /\ Min(rest) \in Nat /\ InFlight(m[Min(rest)])
    BY <1>4, <2>2 DEF WorkTyped
  <2> HIDE DEF m, rest
  <2>4. WorkTyped'
    BY <1>3, <1>4, <2>1, <2>3 DEF WorkTyped, StoreKept
  <2>5. Agrees'
    <3>1. mem' = stored' /\ at' \in DOMAIN stored' /\ pc' = "pass"
      BY <1>2, <2>1, <2>3
    <3>2. stored'[at'] \in NoteRecords
      BY <3>1, <1>3 DEF StoreKept
    <3>3. stored'[at'] = [stored'[at'] EXCEPT !.status = stored'[at'].status, !.attempts = stored'[at'].attempts]
      BY <3>2 DEF NoteRecords
    <3> QED
      BY <3>1, <3>3 DEF Agrees
  <2>6. AtHand'
    BY <1>2, <2>1, <2>3 DEF AtHand
  <2>7. LeavesTell'
    <3>1. pc \in {"pass", "submit", "sent", "await"}
      BY <1>7 DEF WorkTyped
    <3> QED
      BY <2>1, <3>1 DEF LeavesTell, OnlyMarked, Commit
  <2> QED
    BY <1>3, <2>4, <2>5, <2>6, <2>7, StoreThenWork
<1> QED
  BY <1>5, <1>6, <1>7

LEMMA SaveLeaves ==
    ASSUME PaymentsKept, NEW note, NextNote(at, note), Save(note), pc # "idle", stored[at].status # "revealed"
    PROVE  /\ DOMAIN stored' = DOMAIN stored
           /\ \A k \in DOMAIN stored :
                /\ stored'[k].counter = stored[k].counter
                /\ stored[k].status = "revealed" => stored'[k].status = "revealed"
<1> USE Elements DEF PaymentsKept
<1>1. stored' = [stored EXCEPT ![at] = note]
  BY DEF Agrees, NextNote, Save
<1>2. at \in DOMAIN stored /\ note \in NoteRecords /\ note.counter = stored[at].counter
  BY DEF NextNote
<1> QED
  BY <1>1, <1>2, ElementReplaced DEF WorkTyped

(* The chain stays as it is.                                               *)
LEMMA StaysMarked ==
    ASSUME PaymentsKept, UNCHANGED <<txs, seq, indexed, jobs, paid>>, Fault \/ faults' = faults
    PROVE  OnlyMarked
<1>1. faults' \in 0..MaxFaults /\ (faults' = 0 => faults = 0)
  BY PaymentConstants DEF PaymentsKept, ChainTyped, Fault
<1> QED
  BY <1>1, Elements DEF PaymentsKept, ChainTyped, OnlyMarked

(* A job is asked for a note.                                              *)
LEMMA JobMarked ==
    ASSUME PaymentsKept, UNCHANGED <<txs, seq, indexed, paid>>, Fault \/ faults' = faults,
           NEW note \in NoteRecords, NewJob(note), faults' = 0 => note.to = "recipient"
    PROVE  OnlyMarked /\ Len(jobs') = Len(jobs) + 1 /\ jobs'[Len(jobs) + 1].counter = note.counter
<1> DEFINE e == [counter |-> note.counter, to |-> note.to, state |-> "queued"]
<1>1. faults' \in 0..MaxFaults /\ (faults' = 0 => faults = 0)
  BY PaymentConstants DEF PaymentsKept, ChainTyped, Fault
<1>2. e \in Jobs /\ jobs' = Append(jobs, e) /\ e.counter = note.counter /\ e.to = note.to /\ e.state = "queued"
  BY DEF Jobs, NoteRecords, NewJob
<1> HIDE DEF e
<1>3. /\ jobs' \in Seq(Jobs) /\ Len(jobs') = Len(jobs) + 1 /\ DOMAIN jobs' = DOMAIN jobs \cup {Len(jobs) + 1}
      /\ jobs'[Len(jobs) + 1] = e /\ \A l \in DOMAIN jobs : jobs'[l] = jobs[l]
  BY <1>2, Added DEF PaymentsKept, ChainTyped
<1>4. Len(jobs) \in Nat /\ DOMAIN txs' = DOMAIN txs /\ Len(txs') = Len(txs) /\ txs \in Seq(Txs)
  BY Elements DEF PaymentsKept, ChainTyped
<1>5. \A j \in DOMAIN jobs' \ DOMAIN jobs :
          jobs'[j].state = "queued" /\ (faults' = 0 => jobs'[j].to = "recipient")
  BY <1>2, <1>3
<1> QED
  BY <1>1, <1>2, <1>3, <1>4, <1>5 DEF OnlyMarked

(* The note at hand is the stored one, but for its status and attempts.    *)
LEMMA HandTypes ==
    ASSUME PaymentsKept, pc # "idle"
    PROVE  /\ at \in DOMAIN stored /\ n \in NoteRecords /\ stored[at] \in NoteRecords
           /\ n.counter = stored[at].counter /\ n.to = stored[at].to /\ n.tx = stored[at].tx
           /\ n.job = stored[at].job /\ n.recovered = stored[at].recovered
           /\ pc \in {"pass", "await", "claim"} => n = stored[at]
           /\ Len(txs) \in Nat /\ DOMAIN txs = 1..Len(txs) /\ \A t \in DOMAIN txs : txs[t] \in Txs
<1>1. at \in DOMAIN stored /\ stored[at] \in NoteRecords /\ n \in NoteRecords
  BY Elements DEF PaymentsKept, Agrees, n
<1>2. n = [stored[at] EXCEPT !.status = n.status, !.attempts = n.attempts]
  BY DEF PaymentsKept, Agrees, n
<1>3. /\ n.counter = stored[at].counter /\ n.to = stored[at].to /\ n.tx = stored[at].tx
      /\ n.job = stored[at].job /\ n.recovered = stored[at].recovered
  BY <1>1, <1>2 DEF NoteRecords
<1>4. pc \in {"pass", "await", "claim"} => n = stored[at]
  BY DEF PaymentsKept, Agrees, n
<1> QED
  BY <1>1, <1>3, <1>4, Elements DEF PaymentsKept

(* A note that is not delivered, with no claim under way, was not claimed. *)
LEMMA Unclaimed ==
    ASSUME PaymentsKept, NEW k \in DOMAIN stored, stored[k].status # "revealed", ~(pc = "claim" /\ k = at), faults = 0
    PROVE  /\ \A t \in DOMAIN txs : Redeems(t) /\ txs[t].counter = stored[k].counter => ~Alive(t)
           /\ stored[k].to = "recipient"
           /\ paid[stored[k].counter] # "nobody" => paid[stored[k].counter] = stored[k].to
<1>1. \A t \in DOMAIN txs : Redeems(t) /\ txs[t].counter = stored[k].counter => ~Alive(t)
  BY DEF PaymentsKept, OwnerClaims
<1>2. stored[k].to = "recipient"
  BY DEF PaymentsKept, JobsTell
<1>3. stored[k].counter \in Counters
  BY Elements DEF PaymentsKept, NoteRecords
<1>4. paid[stored[k].counter] # "owner"
  BY <1>1, <1>3 DEF PaymentsKept, OwnerClaims, Alive
<1>5. paid[stored[k].counter] \in {"nobody", "recipient", "owner"}
  BY <1>3 DEF PaymentsKept, ChainTyped
<1> QED
  BY <1>1, <1>2, <1>4, <1>5

(* What becomes of the note at hand in a pass.                             *)
LEMMA HandNext ==
    ASSUME PaymentsKept, OnlyMarked, pc \in {"pass", "submit", "sent", "await"}, NEW note \in NoteRecords,
           note.counter = stored[at].counter, note.to = stored[at].to,
           \/ note.job = stored[at].job
           \/ note.job \in 1..Len(jobs') /\ jobs'[note.job].counter = note.counter,
           note.status = "scheduled" => note.job # 0,
           note.tx <= Len(txs),
           \/ note.tx = stored[at].tx /\ pc # "sent"
           \/ Margined /\ Unlost(note.counter)' =>
                \A t \in DOMAIN txs : Commit(t) /\ txs[t].counter = note.counter /\ Alive(t) => t = note.tx,
           note.status = "revealed" => paid[note.counter] # "nobody"
    PROVE  NextNote(at, note) /\ stored[at].status # "revealed"
<1> USE DEF PaymentsKept
<1>1. at \in DOMAIN stored /\ stored[at] \in NoteRecords /\ stored[at].status # "revealed"
  BY HandTypes DEF AtHand, InFlight
<1>2. note.job <= Len(jobs') /\ (note.job # 0 => jobs'[note.job].counter = note.counter)
  <2>1. CASE note.job = stored[at].job
    <3>1. stored[at].job \in Nat /\ Len(jobs) \in Nat /\ DOMAIN jobs = 1..Len(jobs)
      BY <1>1, Elements DEF NoteRecords
    <3>2. stored[at].job <= Len(jobs)
      BY <1>1 DEF Refers
    <3>3. stored[at].job # 0 => stored[at].job \in DOMAIN jobs /\ jobs[stored[at].job].counter = stored[at].counter
      BY <1>1, <3>1, <3>2 DEF Refers
    <3>4. Len(jobs) <= Len(jobs') /\ Len(jobs') \in Nat
      BY DEF OnlyMarked
    <3> QED
      BY <2>1, <3>1, <3>2, <3>3, <3>4 DEF OnlyMarked
  <2>2. CASE note.job \in 1..Len(jobs') /\ jobs'[note.job].counter = note.counter
    BY <2>2 DEF OnlyMarked
  <2> QED
    BY <2>1, <2>2
<1>3. ASSUME Margined, Unlost(note.counter)', NEW t \in DOMAIN txs,
             Commit(t), txs[t].counter = note.counter, Alive(t)
      PROVE  t = note.tx
  <2>1. Unlost(note.counter)
    BY <1>3, MarkedKeeps
  <2>2. CASE note.tx = stored[at].tx /\ pc # "sent"
    BY <1>1, <1>3, <2>1, <2>2 DEF OneAlive
  <2> QED
    BY <1>3, <2>2
<1>4. faults' = 0 => faults = 0
  BY DEF OnlyMarked
<1>5. faults = 0 =>
          /\ \A t \in DOMAIN txs : Redeems(t) /\ txs[t].counter = note.counter => ~Alive(t)
          /\ paid[note.counter] # "nobody" => paid[note.counter] = note.to
  BY <1>1, Unclaimed
<1> QED
  BY <1>1, <1>2, <1>3, <1>4, <1>5 DEF NextNote

(* A step keeps everything, and no note is clobbered.                      *)
StepsSafely == PaymentsKept' /\ (\A k \in DOMAIN stored :
    /\ k \in DOMAIN stored' /\ stored'[k].counter = stored[k].counter
    /\ stored[k].status = "revealed" => stored'[k].status = "revealed")

LEMMA PassSaves ==
    ASSUME PaymentsKept, OnlyMarked, pc \in {"pass", "submit", "sent", "await"}, NEW note \in NoteRecords, Save(note),
           note.counter = stored[at].counter, note.to = stored[at].to,
           \/ note.job = stored[at].job
           \/ note.job \in 1..Len(jobs') /\ jobs'[note.job].counter = note.counter,
           note.status = "scheduled" => note.job # 0,
           note.tx <= Len(txs),
           \/ note.tx = stored[at].tx /\ pc # "sent"
           \/ Margined /\ Unlost(note.counter)' =>
                \A t \in DOMAIN txs : Commit(t) /\ txs[t].counter = note.counter /\ Alive(t) => t = note.tx,
           note.status = "revealed" => paid[note.counter] # "nobody"
    PROVE  StepsSafely
<1>1. NextNote(at, note) /\ stored[at].status # "revealed" /\ pc # "idle"
  BY HandNext
<1>2. PaymentsKept'
  BY <1>1, SaveKeeps
<1> QED
  BY <1>1, <1>2, SaveLeaves DEF StepsSafely

(* A note whose only change is its status.                                 *)
LEMMA StatusSaves ==
    ASSUME PaymentsKept, UNCHANGED chain, Fault \/ faults' = faults, pc \in {"pass", "submit", "await"},
           NEW s \in {"pending", "committed", "scheduled", "revealed", "failed"},
           NEW r \in BOOLEAN, NEW a \in Nat,
           Save([n EXCEPT !.status = s, !.recovered = r, !.attempts = a]),
           s = "scheduled" => n.job # 0, s = "revealed" => paid[n.counter] # "nobody"
    PROVE  StepsSafely
<1>1. OnlyMarked
  BY StaysMarked DEF chain
<1>2. PICK note : note = [n EXCEPT !.status = s, !.recovered = r, !.attempts = a]
  OBVIOUS
<1>3. /\ n \in NoteRecords /\ n.counter = stored[at].counter /\ n.to = stored[at].to /\ n.tx = stored[at].tx
      /\ n.job = stored[at].job /\ at \in DOMAIN stored
  BY HandTypes
<1>4. /\ note \in NoteRecords /\ note.counter = n.counter /\ note.to = n.to /\ note.tx = n.tx
      /\ note.job = n.job /\ note.status = s
  BY <1>2, <1>3 DEF NoteRecords
<1>5. note.tx <= Len(txs)
  BY <1>3, <1>4 DEF PaymentsKept, Refers
<1>6. Save(note)
  BY <1>2
<1> QED
  BY <1>1, <1>3, <1>4, <1>5, <1>6, PassSaves

(* Saved as it is but for one field.                                       *)
LEMMA AsIs ==
    ASSUME NEW note \in NoteRecords
    PROVE  /\ note = [note EXCEPT !.status = note.status, !.recovered = note.recovered, !.attempts = note.attempts]
           /\ \A s : [note EXCEPT !.status = s] =
                [note EXCEPT !.status = s, !.recovered = note.recovered, !.attempts = note.attempts]
           /\ \A s, r : [note EXCEPT !.status = s, !.recovered = r] =
                [note EXCEPT !.status = s, !.recovered = r, !.attempts = note.attempts]
  BY DEF NoteRecords

-----------------------------------------------------------------------------
LEMMA AlreadyKeeps == ASSUME PaymentsKept, AlreadyCommitted PROVE StepsSafely
<1>1. n \in NoteRecords
  BY HandTypes DEF AlreadyCommitted
<1>2. Save([n EXCEPT !.status = "committed", !.recovered = n.recovered, !.attempts = n.attempts])
  BY <1>1, AsIs DEF AlreadyCommitted
<1>3. n.recovered \in BOOLEAN /\ n.attempts \in Nat /\ pc = "pass" /\ UNCHANGED <<chain, faults>>
  BY <1>1 DEF NoteRecords, AlreadyCommitted
<1> QED
  BY <1>2, <1>3, StatusSaves

LEMMA HoldKeeps == ASSUME PaymentsKept, Hold PROVE StepsSafely
<1>1. n \in NoteRecords
  BY HandTypes DEF Hold, LeafMissing
<1>2. Save([n EXCEPT !.status = "committed", !.recovered = n.recovered, !.attempts = n.attempts])
  BY <1>1, AsIs DEF Hold
<1>3. n.recovered \in BOOLEAN /\ n.attempts \in Nat /\ pc = "pass" /\ UNCHANGED <<chain, faults>>
  BY <1>1 DEF NoteRecords, Hold, LeafMissing
<1> QED
  BY <1>2, <1>3, StatusSaves

LEMMA AwaitedKeeps == ASSUME PaymentsKept, Awaited \/ Unconfirmed PROVE StepsSafely
<1>1. n \in NoteRecords
  BY HandTypes DEF Awaited, Unconfirmed
<1>2. Save([n EXCEPT !.status = "committed", !.recovered = n.recovered, !.attempts = n.attempts])
  BY <1>1, AsIs DEF Awaited, Unconfirmed
<1>3. n.recovered \in BOOLEAN /\ n.attempts \in Nat /\ pc = "await" /\ UNCHANGED <<chain, faults>>
  BY <1>1 DEF NoteRecords, Awaited, Unconfirmed
<1> QED
  BY <1>2, <1>3, StatusSaves

LEMMA OutcomeKeeps == ASSUME PaymentsKept, ConfirmScheduled PROVE StepsSafely
<1>1. n \in NoteRecords /\ n = stored[at] /\ at \in DOMAIN stored /\ n.status = "scheduled" /\ pc = "pass"
  BY HandTypes DEF ConfirmScheduled
<1>2. n.job # 0 /\ n.job \in DOMAIN jobs /\ jobs[n.job] \in Jobs /\ jobs[n.job].counter = n.counter
  <2>1. n.job \in Nat /\ n.job # 0 /\ n.job <= Len(jobs) /\ jobs[n.job].counter = n.counter
    BY <1>1 DEF PaymentsKept, Refers, NoteRecords
  <2> QED
    BY <2>1, Elements DEF PaymentsKept
<1> DEFINE s == JobOutcome(jobs[n.job].state)
<1>3. jobs[n.job].state \in {"queued", "confirmed", "nullifier", "dead"}
  BY <1>2 DEF Jobs
<1>4. s \in {"scheduled", "revealed", "failed"} /\ (s = "revealed" => jobs[n.job].state \in {"confirmed", "nullifier"})
  BY <1>3 DEF JobOutcome
<1>5. s = "revealed" => paid[n.counter] # "nobody"
  BY <1>2, <1>4 DEF PaymentsKept, JobsTell
<1>6. Save([n EXCEPT !.status = s, !.recovered = FALSE]) /\ UNCHANGED <<chain, faults>>
  BY DEF ConfirmScheduled
<1>7. n.attempts \in Nat
  BY <1>1 DEF NoteRecords
<1> HIDE DEF s
<1>8. Save([n EXCEPT !.status = s, !.recovered = FALSE, !.attempts = n.attempts])
  <2>1. [n EXCEPT !.status = s, !.recovered = FALSE] = [n EXCEPT !.status = s, !.recovered = FALSE, !.attempts = n.attempts]
    BY <1>1 DEF NoteRecords
  <2> QED
    BY <1>6, <2>1
<1> QED
  BY <1>1, <1>2, <1>4, <1>5, <1>6, <1>7, <1>8, StatusSaves

(* The catch of a commit: its hash is forgotten, as no commit is alive, or *)
(* the transaction is marked.                                              *)
LEMMA ThrowsKeeps ==
    ASSUME PaymentsKept, OnlyMarked, pc \in {"submit", "sent", "await"}, NEW note \in NoteRecords,
           note.counter = stored[at].counter, note.to = stored[at].to, note.job = stored[at].job,
           note.status # "scheduled", note.status # "revealed",
           Margined /\ Unlost(note.counter)' =>
               \A t \in DOMAIN txs : Commit(t) /\ txs[t].counter = note.counter => ~Alive(t),
           note.tx = 0, Save(note)
    PROVE  StepsSafely
<1>1. note.tx <= Len(txs)
  BY Elements DEF PaymentsKept
<1> QED
  BY <1>1, PassSaves

(* What CommitThrows saves.                                                *)
LEMMA Thrown ==
    ASSUME PaymentsKept, NEW note \in NoteRecords, CommitThrows(note)
    PROVE  \E saved \in NoteRecords :
               /\ Save(saved) /\ saved.tx = 0 /\ saved.status \in {"failed", "pending"}
               /\ saved.counter = note.counter /\ saved.to = note.to /\ saved.job = note.job
<1> DEFINE s == IF GaveUp(note) THEN "failed" ELSE "pending"
<1>1. PICK saved : saved = [note EXCEPT !.tx = 0, !.status = s]
  OBVIOUS
<1>2. s \in {"failed", "pending"}
  OBVIOUS
<1>3. Save(saved)
  BY <1>1 DEF CommitThrows
<1> HIDE DEF s
<1>4. saved \in NoteRecords /\ saved.tx = 0 /\ saved.status = s /\ saved.counter = note.counter /\ saved.to = note.to
      /\ saved.job = note.job
  BY <1>1, <1>2 DEF NoteRecords
<1> QED
  BY <1>2, <1>3, <1>4

LEMMA FailsKeeps == ASSUME PaymentsKept, SubmitFails PROVE StepsSafely
<1> USE DEF PaymentsKept
<1>1. /\ n \in NoteRecords /\ pc = "submit" /\ at \in DOMAIN stored /\ stored[at].tx = 0
      /\ n.counter = stored[at].counter /\ n.to = stored[at].to /\ n.job = stored[at].job
  BY HandTypes DEF SubmitFails, AtHand
<1>2. OnlyMarked
  BY StaysMarked DEF SubmitFails, chain
<1>3. PICK saved \in NoteRecords :
         /\ Save(saved) /\ saved.tx = 0 /\ saved.status \in {"failed", "pending"}
         /\ saved.counter = n.counter /\ saved.to = n.to /\ saved.job = n.job
  <2>1. CASE CommitThrows(n)
    BY <1>1, <2>1, Thrown
  <2>2. CASE Save([n EXCEPT !.tx = 0, !.status = "failed"])
    <3>1. PICK saved : saved = [n EXCEPT !.tx = 0, !.status = "failed"]
      OBVIOUS
    <3>2. saved \in NoteRecords /\ saved.tx = 0 /\ saved.status = "failed" /\ saved.counter = n.counter /\ saved.to = n.to
          /\ saved.job = n.job
      BY <1>1, <3>1 DEF NoteRecords
    <3> QED
      BY <2>2, <3>1, <3>2
  <2>3. CASE CommitThrows([n EXCEPT !.attempts = @ + 1])
    <3>1. PICK note : note = [n EXCEPT !.attempts = n.attempts + 1]
      OBVIOUS
    <3>2. note \in NoteRecords /\ note.counter = n.counter /\ note.to = n.to /\ note.job = n.job
      BY <1>1, <3>1 DEF NoteRecords
    <3>3. CommitThrows(note)
      BY <2>3, <3>1
    <3> QED
      BY <3>2, <3>3, Thrown
  <2> QED
    BY <2>1, <2>2, <2>3 DEF SubmitFails
<1>4. ASSUME Margined, Unlost(saved.counter)', NEW t \in DOMAIN txs, Commit(t), txs[t].counter = saved.counter
      PROVE  ~Alive(t)
  <2>1. Unlost(saved.counter)
    BY <1>2, <1>4, MarkedKeeps
  <2>2. t # 0
    BY Elements
  <2> QED
    BY <1>1, <1>3, <1>4, <2>1, <2>2 DEF OneAlive
<1> QED
  BY <1>1, <1>2, <1>3, <1>4, ThrowsKeeps

LEMMA FailureKeeps == ASSUME PaymentsKept, AwaitedFailure PROVE StepsSafely
<1> USE DEF PaymentsKept
<1>1. /\ n \in NoteRecords /\ pc = "await" /\ at \in DOMAIN stored /\ stored[at].tx = Len(txs)
      /\ n.counter = stored[at].counter /\ n.to = stored[at].to /\ n.job = stored[at].job
  BY HandTypes DEF AwaitedFailure, AtHand
<1>2. OnlyMarked
  BY StaysMarked DEF AwaitedFailure, chain
<1>3. PICK saved \in NoteRecords :
         /\ Save(saved) /\ saved.tx = 0 /\ saved.status \in {"failed", "pending"}
         /\ saved.counter = n.counter /\ saved.to = n.to /\ saved.job = n.job
  BY <1>1, Thrown DEF AwaitedFailure
<1>4. ASSUME Margined, Unlost(saved.counter)', NEW t \in DOMAIN txs, Commit(t), txs[t].counter = saved.counter
      PROVE  ~Alive(t)
  <2>1. Unlost(saved.counter)
    BY <1>2, <1>4, MarkedKeeps
  <2>2. Alive(t) => t = Len(txs)
    BY <1>1, <1>3, <1>4, <2>1 DEF OneAlive
  <2> QED
    BY <2>2 DEF AwaitedFailure, tx, Alive
<1> QED
  BY <1>1, <1>2, <1>3, <1>4, ThrowsKeeps

(* Transactions are marked as forgotten.                                   *)
LEMMA LostMarked ==
    ASSUME PaymentsKept, UNCHANGED <<seq, indexed, jobs, paid>>, Fault \/ faults' = faults,
           NEW M, NEW l \in [M -> BOOLEAN],
           txs' = [t \in DOMAIN txs |-> IF t \in M THEN [txs[t] EXCEPT !.lost = l[t]] ELSE txs[t]],
           \A t \in M : t \in DOMAIN txs /\ txs[t].lost => l[t]
    PROVE  OnlyMarked /\ \A t \in DOMAIN txs : t \in M => txs'[t].lost = l[t]
<1> USE Elements DEF PaymentsKept
<1>1. faults' \in 0..MaxFaults /\ (faults' = 0 => faults = 0)
  BY PaymentConstants DEF ChainTyped, Fault
<1>2. ASSUME NEW t \in DOMAIN txs
      PROVE  /\ txs'[t] \in Txs
             /\ txs'[t].kind = txs[t].kind /\ txs'[t].counter = txs[t].counter /\ txs'[t].seq = txs[t].seq
             /\ txs'[t].state = txs[t].state /\ txs'[t].age = txs[t].age
             /\ txs[t].lost => txs'[t].lost
             /\ t \in M => txs'[t].lost = l[t]
  <2>1. txs[t] \in Txs
    OBVIOUS
  <2>2. CASE t \in M
    <3>1. txs'[t] = [txs[t] EXCEPT !.lost = l[t]] /\ l[t] \in BOOLEAN
      BY <2>2
    <3> QED
      BY <2>1, <2>2, <3>1 DEF Txs
  <2>3. CASE t \notin M
    BY <2>1, <2>3
  <2> QED
    BY <2>2, <2>3
<1>3. txs' \in Seq(Txs) /\ DOMAIN txs' = DOMAIN txs /\ Len(txs') = Len(txs)
  <2>1. txs' = [t \in DOMAIN txs |-> txs'[t]] /\ \A t \in DOMAIN txs : txs'[t] \in Txs
    BY <1>2, Zenon
  <2>2. txs \in Seq(Txs)
    BY DEF ChainTyped
  <2> QED
    BY <2>1, <2>2, Mapped
<1>4. jobs' \in Seq(Jobs) /\ Len(jobs) <= Len(jobs')
  BY DEF ChainTyped
<1> QED
  BY <1>1, <1>2, <1>3, <1>4 DEF OnlyMarked

LEMMA OneLost ==
    ASSUME PaymentsKept, UNCHANGED <<seq, indexed, jobs, paid>>, Fault \/ faults' = faults,
           NEW t \in DOMAIN txs, NEW b \in BOOLEAN, txs[t].lost => b,
           txs' = [txs EXCEPT ![t].lost = b]
    PROVE  OnlyMarked /\ txs'[t].lost = b
<1> DEFINE l == [u \in {t} |-> b]
<1>1. l \in [{t} -> BOOLEAN] /\ \A u \in {t} : u \in DOMAIN txs /\ txs[u].lost => l[u]
  OBVIOUS
<1>2. txs' = [u \in DOMAIN txs |-> IF u \in {t} THEN [txs[u] EXCEPT !.lost = l[u]] ELSE txs[u]]
  <2>1. txs \in Seq(Txs)
    BY DEF PaymentsKept, ChainTyped
  <2> QED
    BY <2>1
<1>3. l[t] = b
  OBVIOUS
<1> HIDE DEF l
<1>4. OnlyMarked /\ \A u \in DOMAIN txs : u \in {t} => txs'[u].lost = l[u]
  BY <1>1, <1>2, LostMarked, Zenon
<1> QED
  BY <1>3, <1>4

LEMMA PollThrowsKeeps == ASSUME PaymentsKept, PollThrows PROVE StepsSafely
<1> USE DEF PaymentsKept
<1>1. /\ n \in NoteRecords /\ pc \in {"sent", "await"} /\ at \in DOMAIN stored
      /\ n.counter = stored[at].counter /\ n.to = stored[at].to /\ n.job = stored[at].job
      /\ Len(txs) \in DOMAIN txs /\ txs[Len(txs)].counter = stored[at].counter
  BY HandTypes DEF PollThrows, AtHand
<1>2. OnlyMarked /\ txs'[Len(txs)].lost = TRUE
  <2>1. UNCHANGED <<seq, indexed, jobs, paid>> /\ Fault /\ txs' = [txs EXCEPT ![Len(txs)].lost = TRUE]
    BY DEF PollThrows
  <2> QED
    BY <1>1, <2>1, OneLost
<1>3. PICK saved \in NoteRecords :
         /\ Save(saved) /\ saved.tx = 0 /\ saved.status \in {"failed", "pending"}
         /\ saved.counter = n.counter /\ saved.to = n.to /\ saved.job = n.job
  BY <1>1, Thrown DEF PollThrows
<1>4. ~Unlost(saved.counter)'
  BY <1>1, <1>2, <1>3 DEF Unlost, OnlyMarked
<1> QED
  BY <1>1, <1>2, <1>3, <1>4, ThrowsKeeps

LEMMA RevealKeeps == ASSUME PaymentsKept, Reveal PROVE StepsSafely
<1> USE DEF PaymentsKept
<1>1. /\ n \in NoteRecords /\ n = stored[at] /\ at \in DOMAIN stored /\ pc = "pass" /\ n.status = "committed"
      /\ Len(jobs) \in Nat
  BY HandTypes, Elements DEF Reveal
<1>2. faults' = 0 => n.to = "recipient"
  BY <1>1 DEF Reveal, JobsTell
<1>3. OnlyMarked /\ Len(jobs') = Len(jobs) + 1 /\ jobs'[Len(jobs) + 1].counter = n.counter
  BY <1>1, <1>2, JobMarked DEF Reveal
<1>j. PICK j : j = Len(jobs) + 1
  OBVIOUS
<1>4. PICK note : note = [n EXCEPT !.status = "scheduled", !.job = j]
  OBVIOUS
<1>5. Save(note)
  BY <1>j, <1>4 DEF Reveal, Scheduled
<1>6. note \in NoteRecords /\ note.counter = n.counter /\ note.to = n.to /\ note.tx = n.tx
      /\ note.status = "scheduled" /\ note.job = Len(jobs) + 1
  <2>1. j \in Nat
    BY <1>j, <1>1
  <2>2. n \in NoteRecords
    BY <1>1
  <2>3. note \in NoteRecords /\ note.counter = n.counter /\ note.to = n.to /\ note.tx = n.tx
      /\ note.status = "scheduled" /\ note.job = j
    BY <2>1, <2>2, <1>4 DEF NoteRecords
  <2> QED
    BY <2>3, <1>j
<1>7. note.tx <= Len(txs) /\ note.job \in 1..Len(jobs') /\ note.job # 0
  BY <1>1, <1>3, <1>6 DEF Refers
<1> QED
  BY <1>1, <1>3, <1>5, <1>6, <1>7, PassSaves

LEMMA RevealFailsKeeps == ASSUME PaymentsKept, RevealFails PROVE StepsSafely
<1> USE DEF PaymentsKept
<1>1. /\ n \in NoteRecords /\ n = stored[at] /\ at \in DOMAIN stored /\ pc = "pass" /\ n.status = "committed"
      /\ UNCHANGED <<txs, seq, indexed, paid>> /\ Fault
  BY HandTypes DEF RevealFails
<1>2. n.recovered \in BOOLEAN /\ n.attempts \in Nat /\ n.tx <= Len(txs)
  BY <1>1 DEF NoteRecords, Refers
<1>3. ASSUME UNCHANGED jobs, NEW s \in {"committed", "failed"}, Save([n EXCEPT !.status = s])
      PROVE  StepsSafely
  <2>1. Save([n EXCEPT !.status = s, !.recovered = n.recovered, !.attempts = n.attempts])
    BY <1>1, <1>3, AsIs
  <2> QED
    BY <1>1, <1>2, <1>3, <2>1, StatusSaves DEF chain
<1>4. CASE UNCHANGED jobs /\ Save(n)
  <2>1. n = [n EXCEPT !.status = "committed"]
    BY <1>1 DEF NoteRecords
  <2> QED
    BY <1>3, <1>4, <2>1
<1>5. CASE NewJob(n) /\ Save(n)
  <2>1. faults' # 0
    BY <1>1 DEF Fault, ChainTyped
  <2>2. OnlyMarked
    BY <1>1, <1>5, <2>1, JobMarked
  <2>3. PICK note : note = n
    OBVIOUS
  <2> QED
    BY <1>1, <1>2, <1>5, <2>2, <2>3, PassSaves
<1>6. CASE UNCHANGED jobs /\ Save([n EXCEPT !.status = "failed"])
  BY <1>3, <1>6
<1> QED
  BY <1>4, <1>5, <1>6 DEF RevealFails

-----------------------------------------------------------------------------
LEMMA BeginKeeps == ASSUME PaymentsKept, BeginPass PROVE StepsSafely
<1> USE Elements, PaymentConstants DEF PaymentsKept
<1>1. PICK k \in DOMAIN stored : InFlight(stored[k]) /\ at' = k
  BY DEF BeginPass
<1>2. UNCHANGED <<txs, seq, indexed, jobs, paid, stored, faults>> /\ mem' = stored /\ leaves' = Leaves
      /\ pc' = "pass" /\ leavesAge' = 0 /\ pc = "idle"
  BY DEF BeginPass, chain, Unlocked
<1>3. OnlyMarked
  BY <1>2, StaysMarked
<1>4. PICK note : note = stored[k]
  OBVIOUS
<1>5. NextNote(k, note)
  <2>1. note \in NoteRecords /\ note.job \in Nat
    BY <1>4 DEF NoteRecords
  <2>2. note.tx <= Len(txs) /\ note.job <= Len(jobs') /\ (note.status = "scheduled" => note.job # 0)
        /\ (note.job # 0 => jobs'[note.job].counter = note.counter)
    BY <1>2, <1>4 DEF Refers
  <2>3. ASSUME Margined, Unlost(note.counter)', NEW t \in DOMAIN txs,
               Commit(t), txs[t].counter = note.counter, Alive(t)
        PROVE  t = note.tx
    <3>1. Unlost(note.counter)
      BY <1>3, <2>3, MarkedKeeps
    <3> QED
      BY <1>2, <1>4, <2>3, <3>1 DEF OneAlive
  <2>4. note.status # "revealed"
    BY <1>1, <1>4 DEF InFlight
  <2>5. faults' = 0 => \A t \in DOMAIN txs : Redeems(t) /\ txs[t].counter = note.counter => ~Alive(t)
    BY <1>2, <1>4, <2>4, Unclaimed
  <2> QED
    BY <1>2, <1>4, <2>1, <2>2, <2>3, <2>4, <2>5 DEF NextNote
<1>6. stored' = [stored EXCEPT ![k] = note]
  BY <1>2, <1>4 DEF WorkTyped
<1>7. StoreKept'
  BY <1>3, <1>5, <1>6, NoteKeeps
<1>8. WorkTyped'
  BY <1>1, <1>2 DEF WorkTyped
<1>9. Agrees'
  <2>1. stored[k] = [stored[k] EXCEPT !.status = stored[k].status, !.attempts = stored[k].attempts]
    BY DEF NoteRecords
  <2> QED
    BY <1>1, <1>2, <2>1 DEF Agrees
<1>10. AtHand'
  BY <1>1, <1>2 DEF AtHand, InFlight
<1>11. LeavesTell'
  <2> SUFFICES ASSUME NEW t \in DOMAIN txs, Commit(t), txs[t].state = "landed", txs[t].counter \notin Leaves
               PROVE  txs[t].age <= Validity + Lag + 0
    BY <1>2 DEF LeavesTell, Commit
  <2>1. t \in Unindexed
    BY DEF Unindexed, Leaves, Commit
  <2>2. txs[t].age <= Validity + Lag /\ txs[t].age \in Nat
    BY <2>1 DEF Young, Txs
  <2> QED
    BY <2>2
<1>12. PaymentsKept'
  BY <1>7, <1>8, <1>9, <1>10, <1>11, StoreThenWork
<1> QED
  BY <1>2, <1>12 DEF StepsSafely

(* The note at hand goes on to be submitted.                               *)
LEMMA GoKeeps ==
    ASSUME PaymentsKept, OnlyMarked, pc = "pass", NEW note \in NoteRecords, GoSubmit(note),
           note.counter = stored[at].counter, note.to = stored[at].to, note.job = stored[at].job,
           note.status = "pending", note.tx = 0, stored' = mem' \/ (stored' = stored /\ stored[at].tx = 0),
           stored[at].status \in {"pending", "committed"},
           note = [stored[at] EXCEPT !.tx = 0, !.status = "pending"],
           Margined /\ Unlost(note.counter)' =>
               \A t \in DOMAIN txs : Commit(t) /\ txs[t].counter = note.counter => ~Alive(t)
    PROVE  StepsSafely
<1> USE DEF PaymentsKept
<1>1. at \in DOMAIN stored /\ stored[at] \in NoteRecords /\ mem = stored
  BY HandTypes DEF Agrees
<1>2. mem' = [stored EXCEPT ![at] = note] /\ pc' = "submit" /\ UNCHANGED <<leaves, leavesAge, at>>
  BY <1>1 DEF GoSubmit
<1>3. /\ mem' \in Seq(NoteRecords) /\ DOMAIN mem' = DOMAIN stored /\ mem'[at] = note
      /\ \A l \in DOMAIN stored : l # at => mem'[l] = stored[l]
  BY <1>1, <1>2, ElementReplaced DEF WorkTyped
<1>4. PICK new \in NoteRecords : /\ stored' = [stored EXCEPT ![at] = new] /\ new.tx = 0 /\ new.job = note.job
                           /\ new.counter = note.counter /\ new.to = note.to
                           /\ new.status \in {"pending", "committed"}
                           /\ note = [new EXCEPT !.status = note.status, !.attempts = note.attempts]
  <2>1. CASE stored' = mem'
    <3>1. note = [note EXCEPT !.status = note.status, !.attempts = note.attempts]
      BY DEF NoteRecords
    <3> QED
      BY <1>2, <2>1, <3>1
  <2>2. CASE stored' = stored /\ stored[at].tx = 0
    <3>1. PICK new : new = stored[at]
      OBVIOUS
    <3>2. stored' = [stored EXCEPT ![at] = new]
      BY <1>1, <2>2, <3>1 DEF WorkTyped
    <3>3. note = [new EXCEPT !.status = note.status, !.attempts = note.attempts]
      BY <1>1, <2>2, <3>1 DEF NoteRecords
    <3>4. new \in NoteRecords /\ new.tx = 0 /\ new.job = note.job
          /\ new.counter = note.counter /\ new.to = note.to /\ new.status \in {"pending", "committed"}
      BY <1>1, <2>2, <3>1
    <3> QED
      BY <3>2, <3>3, <3>4
  <2> QED
    BY <2>1, <2>2
<1>5. NextNote(at, new) /\ stored[at].status # "revealed"
  <2>1. new.tx <= Len(txs) /\ new.tx \in Nat
    BY <1>4, Elements
  <2>2. Margined /\ Unlost(new.counter)' =>
               \A t \in DOMAIN txs : Commit(t) /\ txs[t].counter = new.counter /\ Alive(t) => t = new.tx
    BY <1>4
  <2> QED
    BY <1>4, <2>1, <2>2, HandNext
<1>6. /\ StoreKept' /\ DOMAIN stored' = DOMAIN stored /\ stored'[at] = new
      /\ \A l \in DOMAIN stored : l # at => stored'[l] = stored[l]
  <2>1. OnlyMarked /\ stored' = [stored EXCEPT ![at] = new]
    BY <1>4
  <2>2. /\ StoreKept' /\ DOMAIN stored' = DOMAIN stored /\ Len(stored') = Len(stored) /\ stored'[at] = new
        /\ \A l \in DOMAIN stored : l # at => stored'[l] = stored[l]
    BY <1>5, <2>1, NoteKeeps
  <2> QED
    BY <2>2
<1>7. WorkTyped'
  BY <1>2, <1>3, <1>6 DEF WorkTyped, StoreKept
<1>8. Agrees'
  BY <1>1, <1>2, <1>3, <1>4, <1>6 DEF Agrees
<1>9. AtHand'
  BY <1>2, <1>3, <1>4, <1>6 DEF AtHand
<1>10. LeavesTell'
  BY <1>2 DEF LeavesTell, OnlyMarked, Commit
<1>11. PaymentsKept'
  BY <1>6, <1>7, <1>8, <1>9, <1>10, StoreThenWork
<1>12. \A l \in DOMAIN stored : stored'[l].counter = stored[l].counter
                                /\ (stored[l].status = "revealed" => stored'[l].status = "revealed")
  BY <1>4, <1>5, <1>6
<1> QED
  BY <1>6, <1>11, <1>12 DEF StepsSafely

LEMMA FirstKeeps == ASSUME PaymentsKept, FirstCommit PROVE StepsSafely
<1> USE DEF PaymentsKept
<1>1. /\ n \in NoteRecords /\ n = stored[at] /\ at \in DOMAIN stored /\ pc = "pass" /\ n.tx = 0
      /\ n.status \in {"pending", "committed"}
  BY HandTypes DEF FirstCommit, LeafMissing
<1>2. PICK note : note = [n EXCEPT !.status = "pending"]
  OBVIOUS
<1>3. GoSubmit(note) /\ stored' = stored /\ txs' = txs /\ UNCHANGED <<seq, indexed, jobs, paid, faults>>
  BY <1>2 DEF FirstCommit, GoSubmit
<1>4. OnlyMarked
  BY <1>3, StaysMarked
<1>5. /\ note \in NoteRecords /\ note.counter = n.counter /\ note.to = n.to /\ note.job = n.job
      /\ note.status = "pending" /\ note.tx = 0 /\ note = [n EXCEPT !.tx = 0, !.status = "pending"]
  BY <1>1, <1>2 DEF NoteRecords
<1>6. ASSUME Margined, Unlost(note.counter)', NEW t \in DOMAIN txs, Commit(t), txs[t].counter = note.counter
      PROVE  ~Alive(t)
  <2>1. Unlost(note.counter)
    BY <1>4, <1>6, MarkedKeeps
  <2>2. t # 0
    BY Elements
  <2> QED
    BY <1>1, <1>5, <1>6, <2>1, <2>2 DEF OneAlive
<1> QED
  BY <1>1, <1>3, <1>4, <1>5, <1>6, GoKeeps

(* commitReArmElapsed: a broadcast given up after its validity and the     *)
(* margin has not landed, on leaves fresh enough.                          *)
LEMMA ReArmKeeps == ASSUME PaymentsKept, ReArm PROVE StepsSafely
<1> USE DEF PaymentsKept
<1>1. /\ n \in NoteRecords /\ n = stored[at] /\ at \in DOMAIN stored /\ pc = "pass" /\ n.tx # 0
      /\ n.status \in {"pending", "committed"} /\ n.counter \notin leaves
  BY HandTypes DEF ReArm, LeafMissing
<1>2. n.tx \in DOMAIN txs /\ txs[n.tx] \in Txs
  <2>1. n.tx \in Nat /\ n.tx <= Len(txs)
    BY <1>1 DEF NoteRecords, Refers
  <2> QED
    BY <1>1, <2>1, Elements
<1>3. PICK note : note = [n EXCEPT !.tx = 0, !.status = "pending"]
  OBVIOUS
<1>4. PICK b : b = (txs[n.tx].lost \/ leavesAge > Fresh)
  OBVIOUS
<1>5. GoSubmit(note) /\ stored' = mem' /\ UNCHANGED <<seq, indexed, jobs, paid, faults>>
  BY <1>3 DEF ReArm, GoSubmit
<1>6. txs' = [txs EXCEPT ![n.tx].lost = b] /\ b \in BOOLEAN /\ (txs[n.tx].lost => b)
  <2>1. txs[n.tx].lost \in BOOLEAN
    BY <1>2 DEF Txs
  <2>2. b \in BOOLEAN /\ (txs[n.tx].lost => b)
    BY <1>4, <2>1, Zenon
  <2>3. txs' = [txs EXCEPT ![n.tx].lost = b]
    BY <1>4 DEF ReArm
  <2> QED
    BY <2>2, <2>3
<1>7. OnlyMarked /\ txs'[n.tx].lost = b
  BY <1>2, <1>5, <1>6, OneLost
<1>8. /\ note \in NoteRecords /\ note.counter = n.counter /\ note.to = n.to /\ note.job = n.job
      /\ note.status = "pending" /\ note.tx = 0
  BY <1>1, <1>3 DEF NoteRecords
<1>9. ASSUME Margined, Unlost(note.counter)', NEW t \in DOMAIN txs, Commit(t), txs[t].counter = note.counter, Alive(t)
      PROVE  FALSE
  <2>1. Unlost(note.counter)
    BY <1>7, <1>9, MarkedKeeps
  <2>2. t = n.tx
    BY <1>1, <1>8, <1>9, <2>1 DEF OneAlive
  <2>3. ~txs'[t].lost /\ txs'[t].counter = note.counter
    BY <1>7, <1>9 DEF Unlost, OnlyMarked
  <2>4. ~(leavesAge > Fresh)
    BY <1>4, <1>7, <2>2, <2>3
  <2>5. leavesAge \in Nat /\ txs[t].age \in Nat
    BY <1>2, <2>2 DEF WorkTyped, Txs
  <2>6. txs[t].age >= Validity + Margin
    BY <1>9, <2>2 DEF ReArm, ReArmElapsed, Alive
  <2>7. CASE txs[t].state = "open"
    <3>1. txs[t].age <= Validity
      BY <2>7 DEF Young
    <3> QED
      BY <1>9, <2>5, <2>6, <3>1, PaymentConstants DEF Margined
  <2>8. CASE txs[t].state = "landed"
    <3>1. txs[t].age <= Validity + Lag + leavesAge
      BY <1>1, <1>8, <1>9, <2>4, <2>5, <2>8, PaymentConstants DEF LeavesTell
    <3> QED
      BY <1>9, <2>4, <2>5, <2>6, <3>1, PaymentConstants DEF Margined
  <2> QED
    BY <1>9, <2>7, <2>8 DEF Alive
<1>10. Margined /\ Unlost(note.counter)' =>
               \A t \in DOMAIN txs : Commit(t) /\ txs[t].counter = note.counter => ~Alive(t)
  BY <1>9
<1> QED
  BY <1>1, <1>3, <1>5, <1>7, <1>8, <1>10, GoKeeps

LEMMA HashKeeps == ASSUME PaymentsKept, SaveHash PROVE StepsSafely
<1> USE DEF PaymentsKept
<1>1. /\ n \in NoteRecords /\ at \in DOMAIN stored /\ pc = "sent" /\ stored[at] \in NoteRecords
      /\ n.counter = stored[at].counter /\ n.to = stored[at].to /\ n.job = stored[at].job
      /\ Len(txs) \in DOMAIN txs /\ Len(txs) \in Nat
      /\ txs[Len(txs)].kind = "commit" /\ txs[Len(txs)].counter = stored[at].counter
      /\ stored[at].tx = 0
  BY HandTypes DEF SaveHash, AtHand
<1>2. n.status = "pending" /\ n = mem[at]
  BY DEF SaveHash, AtHand, n
<1>3. OnlyMarked
  BY StaysMarked DEF SaveHash, chain
<1>4. PICK t : t = Len(txs)
  OBVIOUS
<1>5. PICK note : note = [n EXCEPT !.tx = t]
  OBVIOUS
<1>6. /\ note \in NoteRecords /\ note.counter = n.counter /\ note.to = n.to /\ note.job = n.job
      /\ note.status = "pending" /\ note.tx = t
  BY <1>1, <1>2, <1>4, <1>5 DEF NoteRecords
<1>7. mem' = [mem EXCEPT ![at] = note] /\ stored' = mem' /\ pc' = "await" /\ UNCHANGED <<leaves, at, leavesAge>>
  BY <1>4, <1>5 DEF SaveHash, n
<1>8. stored' = [stored EXCEPT ![at] = note]
  BY <1>1, <1>7 DEF Agrees
<1>9. NextNote(at, note) /\ stored[at].status # "revealed"
  <2>1. ASSUME Margined, Unlost(note.counter)', NEW u \in DOMAIN txs, Commit(u), txs[u].counter = note.counter, Alive(u)
        PROVE  u = note.tx
    <3>1. Unlost(note.counter)
      BY <1>3, <2>1, MarkedKeeps
    <3>2. u # 0
      BY Elements
    <3> QED
      BY <1>1, <1>4, <1>6, <2>1, <3>1, <3>2 DEF OneAlive
  <2>2. Margined /\ Unlost(note.counter)' =>
               \A u \in DOMAIN txs : Commit(u) /\ txs[u].counter = note.counter /\ Alive(u) => u = note.tx
    BY <2>1
  <2> QED
    BY <1>1, <1>3, <1>4, <1>6, <2>2, HandNext
<1>10. /\ StoreKept' /\ DOMAIN stored' = DOMAIN stored /\ stored'[at] = note
       /\ \A l \in DOMAIN stored : l # at => stored'[l] = stored[l]
  BY <1>3, <1>8, <1>9, NoteKeeps
<1>11. WorkTyped'
  BY <1>7, <1>10 DEF WorkTyped, StoreKept
<1>12. Agrees'
  <2>1. note = [note EXCEPT !.status = note.status, !.attempts = note.attempts]
    BY <1>6 DEF NoteRecords
  <2> QED
    BY <1>1, <1>7, <1>10, <2>1 DEF Agrees
<1>13. AtHand'
  BY <1>1, <1>4, <1>6, <1>7, <1>10, <1>3 DEF AtHand, OnlyMarked
<1>14. LeavesTell'
  BY <1>1, <1>3, <1>7 DEF LeavesTell, OnlyMarked, Commit
<1>15. PaymentsKept'
  BY <1>10, <1>11, <1>12, <1>13, <1>14, StoreThenWork
<1>16. \A l \in DOMAIN stored : stored'[l].counter = stored[l].counter
                                /\ (stored[l].status = "revealed" => stored'[l].status = "revealed")
  BY <1>1, <1>6, <1>9, <1>10
<1> QED
  BY <1>10, <1>15, <1>16 DEF StepsSafely

(* A transaction is sent for a note: a commit of the one at hand, or the   *)
(* owner's own claim.                                                      *)
LEMMA TxKeeps ==
    ASSUME PaymentsKept, NEW kind \in {"commit", "reveal"}, NEW k \in DOMAIN stored, NewTx(kind, stored[k].counter),
           UNCHANGED <<seq, indexed, jobs, paid, stored, faults>>, at' = k,
           IF kind = "commit" THEN pc = "submit" /\ k = at /\ pc' = "sent" ELSE pc = "idle" /\ pc' = "claim"
    PROVE  /\ StoreKept' /\ Len(txs') = Len(txs) + 1 /\ DOMAIN txs' = DOMAIN txs \cup {Len(txs) + 1}
           /\ txs'[Len(txs) + 1].kind = kind /\ txs'[Len(txs) + 1].counter = stored[k].counter
           /\ txs'[Len(txs) + 1].state = "open"
           /\ \A t \in DOMAIN txs : txs'[t] = txs[t]
<1> USE Elements, PaymentConstants DEF PaymentsKept
<1> DEFINE e == [kind |-> kind, counter |-> stored[k].counter, seq |-> seq + 1,
                 state |-> "open", age |-> 0, lost |-> FALSE]
           l == Len(txs) + 1
<1>1. e \in Txs /\ txs' = Append(txs, e)
  <2>1. stored[k].counter \in Counters /\ seq + 1 \in Nat /\ 0 \in 0..OldAge
    BY DEF NoteRecords, ChainTyped
  <2> QED
    BY <2>1 DEF Txs, NewTx
<1>2. /\ e.kind = kind /\ e.counter = stored[k].counter /\ e.seq = seq + 1 /\ e.state = "open" /\ e.age = 0
      /\ e.lost = FALSE
  OBVIOUS
<1> HIDE DEF e
<1>3. /\ txs' \in Seq(Txs) /\ Len(txs') = l /\ DOMAIN txs' = DOMAIN txs \cup {l} /\ txs'[l] = e
      /\ l \notin DOMAIN txs /\ \A t \in DOMAIN txs : txs'[t] = txs[t]
  BY <1>1, Added DEF ChainTyped
<1> HIDE DEF l
<1>4. /\ txs'[l].kind = kind /\ txs'[l].counter = stored[k].counter /\ txs'[l].seq = seq + 1
      /\ txs'[l].state = "open" /\ txs'[l].age = 0
  BY <1>2, <1>3
<1>5. \A c : (Unlost(c)' => Unlost(c)) /\ (Traced(c)' => Traced(c))
  BY <1>3 DEF Unlost, Traced
<1>6. ChainTyped'
  BY <1>3, <1>4 DEF ChainTyped
<1>7. Refers'
  <2>1. Len(txs) <= Len(txs') /\ Len(txs) \in Nat /\ Len(txs') \in Nat
    BY <1>3 DEF l
  <2>2. \A i \in DOMAIN stored : stored[i].tx \in Nat
    BY DEF NoteRecords
  <2> QED
    BY <2>1, <2>2 DEF Refers
<1>8. OneNote'
  BY <1>5 DEF OneNote
<1>9. AllKnown'
  <2>1. ASSUME NEW c, Traced(c)', NEW t \in DOMAIN txs', txs'[t].counter = c
        PROVE  \E i \in DOMAIN stored : stored[i].counter = c
    BY <1>3, <1>4, <1>5, <2>1 DEF AllKnown
  <2> QED
    BY <2>1 DEF AllKnown
<1>10. Margined => OneAlive'
  <2>1. ASSUME Margined, NEW i \in DOMAIN stored, NEW c, c = stored[i].counter, Unlost(c)', NEW t \in DOMAIN txs',
               Commit(t)', txs'[t].counter = c, Alive(t)'
        PROVE  t = stored[i].tx \/ (pc' = "sent" /\ i = at' /\ t = Len(txs'))
    <3>1. Unlost(c) /\ Traced(c)
      BY <1>5, <2>1 DEF Traced
    <3>2. CASE t = l
      <4>1. kind = "commit" /\ stored[k].counter = c
        BY <1>4, <2>1, <3>2 DEF Commit
      <4>2. i = k
        BY <2>1, <3>1, <4>1 DEF OneNote
      <4> QED
        BY <1>3, <3>2, <4>1, <4>2
    <3>3. CASE t # l
      <4>1. t \in DOMAIN txs /\ Commit(t) /\ txs[t].counter = c /\ Alive(t)
        BY <1>3, <2>1, <3>3 DEF Commit, Alive
      <4> QED
        BY <2>1, <3>1, <4>1 DEF OneAlive
    <3> QED
      BY <3>2, <3>3
  <2> QED
    BY <2>1 DEF OneAlive
<1>11. Young'
  <2>1. Unindexed' = Unindexed
    <3>1. indexed \subseteq DOMAIN txs
      BY DEF ChainTyped
    <3> QED
      BY <1>3, <1>4, <3>1 DEF Unindexed
  <2>2. \A t \in indexed \cup Unindexed : t \in DOMAIN txs
    BY DEF Unindexed, ChainTyped
  <2>3. \A t \in DOMAIN txs' : txs'[t].state = "open" => txs'[t].age <= Validity
    BY <1>3, <1>4 DEF Young
  <2>4. \A t \in Unindexed : txs'[t].age <= Validity + Lag
    BY <1>3, <2>2 DEF Young
  <2>5. \A t \in indexed : Commit(t)' /\ txs'[t].state = "landed"
    BY <1>3, <2>2 DEF Young, Commit
  <2> QED
    BY <2>1, <2>3, <2>4, <2>5 DEF Young
<1>12. JobsTell'
  BY DEF JobsTell
<1>13. OwnerClaims'
  <2> SUFFICES ASSUME faults = 0 PROVE OwnerClaims'
    BY DEF OwnerClaims
  <2>1. ASSUME NEW c \in Counters, paid[c] = "owner"
        PROVE  \E t \in DOMAIN txs' : Redeems(t)' /\ txs'[t].counter = c /\ txs'[t].state = "landed"
    <3>1. PICK t \in DOMAIN txs : Redeems(t) /\ txs[t].counter = c /\ txs[t].state = "landed"
      BY <2>1 DEF OwnerClaims
    <3>2. t \in DOMAIN txs' /\ txs'[t] = txs[t]
      BY <1>3
    <3> QED
      BY <3>1, <3>2 DEF Redeems
  <2>2. ASSUME NEW i \in DOMAIN stored, NEW t \in DOMAIN txs', Redeems(t)', txs'[t].counter = stored[i].counter, Alive(t)'
        PROVE  \/ stored[i].status = "revealed" /\ stored[i].recovered
               \/ pc' = "claim" /\ i = at' /\ t = Len(txs')
    <3>1. CASE t = l
      <4>1. kind = "reveal" /\ stored[k].counter = stored[i].counter
        BY <1>4, <2>2, <3>1 DEF Redeems
      <4>2. i = k
        BY <4>1 DEF OneNote, Traced
      <4> QED
        BY <1>3, <3>1, <4>1, <4>2
    <3>2. CASE t # l
      <4>1. t \in DOMAIN txs /\ Redeems(t) /\ txs[t].counter = stored[i].counter /\ Alive(t)
        BY <1>3, <2>2, <3>2 DEF Redeems, Alive
      <4> QED
        BY <4>1 DEF OwnerClaims
    <3> QED
      BY <3>1, <3>2
  <2> QED
    BY <2>1, <2>2 DEF OwnerClaims
<1>14. DeliveredIsPaid' /\ stored' \in Seq(NoteRecords)
  BY DEF DeliveredIsPaid, WorkTyped
<1>15. StoreKept'
  BY <1>6, <1>7, <1>8, <1>9, <1>10, <1>11, <1>12, <1>13, <1>14 DEF StoreKept
<1> QED
  BY <1>3, <1>4, <1>15 DEF l

LEMMA BroadcastKeeps == ASSUME PaymentsKept, Broadcast PROVE StepsSafely
<1> USE DEF PaymentsKept
<1>1. /\ n \in NoteRecords /\ at \in DOMAIN stored /\ pc = "submit" /\ stored[at] \in NoteRecords
      /\ n.counter = stored[at].counter /\ Len(txs) \in Nat
  BY HandTypes DEF Broadcast
<1>2. NewTx("commit", stored[at].counter) /\ pc' = "sent"
      /\ UNCHANGED <<seq, indexed, jobs, paid, stored, leaves, at, leavesAge, faults>>
  BY <1>1 DEF Broadcast
<1>3. /\ StoreKept' /\ Len(txs') = Len(txs) + 1 /\ DOMAIN txs' = DOMAIN txs \cup {Len(txs) + 1}
      /\ txs'[Len(txs) + 1].kind = "commit" /\ txs'[Len(txs) + 1].counter = stored[at].counter
      /\ txs'[Len(txs) + 1].state = "open"
      /\ \A t \in DOMAIN txs : txs'[t] = txs[t]
  BY <1>1, <1>2, TxKeeps
<1>4. PICK a \in Nat : a = mem[at].attempts + 1
  BY <1>1 DEF NoteRecords, n
<1>5. PICK note : note = [n EXCEPT !.attempts = a]
  OBVIOUS
<1>6. mem' = [mem EXCEPT ![at] = note]
  BY <1>4, <1>5 DEF Broadcast, n
<1>7. note \in NoteRecords /\ note.status = n.status
  BY <1>1, <1>5 DEF NoteRecords
<1>8. /\ DOMAIN mem = DOMAIN stored /\ \A k \in DOMAIN stored : k # at => mem[k] = stored[k]
      /\ n = [stored[at] EXCEPT !.status = n.status, !.attempts = n.attempts]
  BY <1>1 DEF Agrees, n
<1>9. note = [stored[at] EXCEPT !.status = note.status, !.attempts = note.attempts]
  BY <1>1, <1>5, <1>8 DEF NoteRecords
<1>10. /\ mem' \in Seq(NoteRecords) /\ DOMAIN mem' = DOMAIN stored /\ mem'[at] = note
       /\ \A k \in DOMAIN stored : k # at => mem'[k] = stored[k]
  BY <1>1, <1>6, <1>7, <1>8, ElementReplaced DEF WorkTyped
<1>11. WorkTyped'
  BY <1>2, <1>10 DEF WorkTyped
<1>12. Agrees'
  BY <1>1, <1>2, <1>9, <1>10 DEF Agrees
<1>13. AtHand'
  BY <1>1, <1>2, <1>3, <1>7, <1>10 DEF AtHand, n
<1>14. LeavesTell'
  BY <1>1, <1>2, <1>3 DEF LeavesTell, Commit
<1>15. PaymentsKept'
  BY <1>3, <1>11, <1>12, <1>13, <1>14, StoreThenWork
<1> QED
  BY <1>2, <1>15 DEF StepsSafely

LEMMA ClaimKeeps == ASSUME PaymentsKept, NEW k \in DOMAIN stored, SelfReclaim(k) PROVE StepsSafely
<1> USE DEF PaymentsKept
<1>1. /\ stored[k] \in NoteRecords /\ stored[k].status \notin {"pending", "revealed"} /\ pc = "idle" /\ Len(txs) \in Nat
      /\ k \in Nat
  BY Elements DEF SelfReclaim, Reclaimable, Unlocked
<1>2. NewTx("reveal", stored[k].counter) /\ pc' = "claim" /\ mem' = stored /\ at' = k /\ leavesAge' = 0
      /\ UNCHANGED <<seq, indexed, jobs, paid, stored, faults>>
  BY DEF SelfReclaim
<1>3. /\ StoreKept' /\ Len(txs') = Len(txs) + 1 /\ DOMAIN txs' = DOMAIN txs \cup {Len(txs) + 1}
      /\ txs'[Len(txs) + 1].kind = "reveal" /\ txs'[Len(txs) + 1].counter = stored[k].counter
      /\ txs'[Len(txs) + 1].state = "open"
      /\ \A t \in DOMAIN txs : txs'[t] = txs[t]
  BY <1>1, <1>2, TxKeeps
<1>4. WorkTyped'
  BY <1>1, <1>2, PaymentConstants DEF WorkTyped
<1>5. Agrees'
  <2>1. stored[k] = [stored[k] EXCEPT !.status = stored[k].status, !.attempts = stored[k].attempts]
    BY <1>1 DEF NoteRecords
  <2> QED
    BY <1>2, <2>1 DEF Agrees
<1>6. AtHand'
  BY <1>1, <1>2, <1>3 DEF AtHand
<1>7. LeavesTell'
  BY <1>2 DEF LeavesTell
<1>8. PaymentsKept'
  BY <1>3, <1>4, <1>5, <1>6, <1>7, StoreThenWork
<1> QED
  BY <1>2, <1>8 DEF StepsSafely

(* The owner's claim is over.                                              *)
LEMMA ClaimSaves ==
    ASSUME PaymentsKept, OnlyMarked, pc = "claim", NEW note \in NoteRecords, Save(note),
           note.counter = stored[at].counter, note.to = stored[at].to, note.job = stored[at].job, note.tx = stored[at].tx,
           note.status = "scheduled" => stored[at].status = "scheduled",
           note.status = "revealed" => note.recovered,
           note.status = "revealed" \/ faults' # 0 \/ txs[Len(txs)].state = "failed"
    PROVE  StepsSafely
<1> USE DEF PaymentsKept
<1>1. at \in DOMAIN stored /\ stored[at] \in NoteRecords /\ stored[at].status # "revealed"
  BY HandTypes DEF AtHand
<1>2. /\ note.job <= Len(jobs') /\ (note.job # 0 => jobs'[note.job].counter = note.counter)
      /\ (note.status = "scheduled" => note.job # 0) /\ note.tx <= Len(txs)
  <2>1. stored[at].job \in Nat /\ Len(jobs) \in Nat /\ DOMAIN jobs = 1..Len(jobs)
    BY <1>1, Elements DEF NoteRecords
  <2>2. stored[at].job <= Len(jobs)
    BY <1>1 DEF Refers
  <2>3. stored[at].job # 0 => stored[at].job \in DOMAIN jobs /\ jobs[stored[at].job].counter = stored[at].counter
    BY <1>1, <2>1, <2>2 DEF Refers
  <2>4. Len(jobs) <= Len(jobs') /\ Len(jobs') \in Nat
    BY DEF OnlyMarked
  <2>5. stored[at].tx <= Len(txs) /\ (stored[at].status = "scheduled" => stored[at].job # 0)
    BY <1>1 DEF Refers
  <2> QED
    BY <2>1, <2>2, <2>3, <2>4, <2>5 DEF OnlyMarked
<1>3. ASSUME Margined, Unlost(note.counter)', NEW t \in DOMAIN txs,
             Commit(t), txs[t].counter = note.counter, Alive(t)
      PROVE  t = note.tx
  <2>1. Unlost(note.counter)
    BY <1>3, MarkedKeeps
  <2> QED
    BY <1>1, <1>3, <2>1 DEF OneAlive
<1>4. ASSUME faults' = 0, NEW t \in DOMAIN txs, Redeems(t), txs[t].counter = note.counter, Alive(t)
      PROVE  note.status = "revealed" /\ note.recovered
  <2>1. faults = 0
    BY <1>4 DEF OnlyMarked
  <2>2. t = Len(txs)
    BY <1>1, <1>4, <2>1 DEF OwnerClaims
  <2> QED
    BY <1>4, <2>2 DEF Alive
<1>5. NextNote(at, note)
  BY <1>1, <1>2, <1>3, <1>4 DEF NextNote
<1>6. PaymentsKept'
  BY <1>5, SaveKeeps
<1> QED
  BY <1>1, <1>5, <1>6, SaveLeaves DEF StepsSafely

LEMMA ReclaimedKeeps == ASSUME PaymentsKept, Reclaimed \/ ReclaimReverted \/ ReclaimFails PROVE StepsSafely
<1>1. /\ n \in NoteRecords /\ n = stored[at] /\ at \in DOMAIN stored /\ pc = "claim" /\ n.status # "revealed"
  BY HandTypes DEF Reclaimed, ReclaimReverted, ReclaimFails, AtHand, PaymentsKept
<1>2. OnlyMarked
  BY StaysMarked DEF Reclaimed, ReclaimReverted, ReclaimFails, chain
<1>3. PICK note : note = n
  OBVIOUS
<1>4. CASE Reclaimed
  <2>1. PICK new : new = [n EXCEPT !.status = "revealed", !.recovered = TRUE]
    OBVIOUS
  <2>2. /\ new \in NoteRecords /\ new.counter = n.counter /\ new.to = n.to /\ new.job = n.job /\ new.tx = n.tx
        /\ new.status = "revealed" /\ new.recovered
    BY <1>1, <2>1 DEF NoteRecords
  <2>3. Save(new)
    BY <1>4, <2>1 DEF Reclaimed
  <2> QED
    BY <1>1, <1>2, <2>2, <2>3, ClaimSaves
<1>5. CASE ReclaimReverted
  BY <1>1, <1>2, <1>3, <1>5, ClaimSaves DEF ReclaimReverted, tx
<1>6. CASE ReclaimFails
  <2>1. faults' # 0
    BY <1>6 DEF ReclaimFails, Fault, PaymentsKept, ChainTyped
  <2>2. CASE Save(n)
    BY <1>1, <1>2, <1>3, <2>1, <2>2, ClaimSaves
  <2>3. CASE Save([n EXCEPT !.status = "failed", !.recovered = FALSE])
    <3>1. PICK new : new = [n EXCEPT !.status = "failed", !.recovered = FALSE]
      OBVIOUS
    <3>2. /\ new \in NoteRecords /\ new.counter = n.counter /\ new.to = n.to /\ new.job = n.job /\ new.tx = n.tx
          /\ new.status = "failed"
      BY <1>1, <3>1 DEF NoteRecords
    <3>3. Save(new)
      BY <2>3, <3>1
    <3> QED
      BY <1>1, <1>2, <2>1, <3>2, <3>3, ClaimSaves
  <2> QED
    BY <1>6, <2>2, <2>3 DEF ReclaimFails
<1> QED
  BY <1>4, <1>5, <1>6

(* A note is changed while nothing is under way.                           *)
LEMMA IdleKeeps ==
    ASSUME PaymentsKept, OnlyMarked, pc = "idle", UNCHANGED work, NEW k, NEW note, NextNote(k, note),
           stored' = [stored EXCEPT ![k] = note], stored[k].status # "revealed"
    PROVE  StepsSafely
<1> USE DEF PaymentsKept
<1>1. /\ StoreKept' /\ DOMAIN stored' = DOMAIN stored /\ stored'[k] = note
      /\ \A l \in DOMAIN stored : l # k => stored'[l] = stored[l]
  BY NoteKeeps
<1>2. k \in DOMAIN stored /\ note.counter = stored[k].counter
  BY DEF NextNote
<1>3. WorkTyped' /\ Agrees' /\ AtHand' /\ LeavesTell'
  BY <1>1 DEF WorkTyped, Agrees, AtHand, LeavesTell, work, StoreKept
<1>4. PaymentsKept'
  BY <1>1, <1>3, StoreThenWork
<1> QED
  BY <1>1, <1>2, <1>4 DEF StepsSafely

LEMMA AskedKeeps == ASSUME PaymentsKept, NEW k \in DOMAIN stored, RevealNote(k) PROVE StepsSafely
<1> USE DEF PaymentsKept
<1>1. /\ stored[k] \in NoteRecords /\ stored[k].status \in {"committed", "failed"} /\ pc = "idle"
      /\ Len(jobs) \in Nat
  BY Elements DEF RevealNote, Unlocked
<1>2. faults' = 0 => stored[k].to = "recipient" /\ faults = 0
  BY DEF RevealNote, JobsTell
<1>3. OnlyMarked /\ Len(jobs') = Len(jobs) + 1 /\ jobs'[Len(jobs) + 1].counter = stored[k].counter
  BY <1>1, <1>2, JobMarked DEF RevealNote
<1>4. PICK j \in Nat : j = Len(jobs) + 1
  BY <1>1
<1>5. PICK note : note = [stored[k] EXCEPT !.status = "scheduled", !.job = j]
  OBVIOUS
<1>6. stored' = [stored EXCEPT ![k] = note]
  BY <1>4, <1>5 DEF RevealNote, Scheduled
<1>7. /\ note \in NoteRecords /\ note.counter = stored[k].counter /\ note.to = stored[k].to /\ note.tx = stored[k].tx
      /\ note.status = "scheduled" /\ note.job = j
  BY <1>1, <1>5 DEF NoteRecords
<1>8. note.tx <= Len(txs) /\ note.job <= Len(jobs') /\ note.job # 0 /\ jobs'[note.job].counter = note.counter
  BY <1>1, <1>3, <1>4, <1>7 DEF Refers
<1>9. ASSUME Margined, Unlost(note.counter)', NEW t \in DOMAIN txs,
             Commit(t), txs[t].counter = note.counter, Alive(t)
      PROVE  t = note.tx
  <2>1. Unlost(note.counter)
    BY <1>3, <1>9, MarkedKeeps
  <2> QED
    BY <1>1, <1>7, <1>9, <2>1 DEF OneAlive
<1>10. faults' = 0 => \A t \in DOMAIN txs : Redeems(t) /\ txs[t].counter = note.counter => ~Alive(t)
  BY <1>1, <1>2, <1>7, Unclaimed
<1>11. NextNote(k, note)
  BY <1>1, <1>7, <1>8, <1>9, <1>10 DEF NextNote
<1>12. UNCHANGED work /\ stored[k].status # "revealed"
  BY <1>1 DEF RevealNote
<1> QED
  BY <1>1, <1>3, <1>6, <1>11, <1>12, IdleKeeps

LEMMA RefusedKeeps == ASSUME PaymentsKept, NEW k \in DOMAIN stored, ReclaimRefused(k) PROVE StepsSafely
<1> USE DEF PaymentsKept
<1>1. /\ stored[k] \in NoteRecords /\ stored[k].status # "revealed" /\ pc = "idle" /\ paid[stored[k].counter] # "nobody"
  BY Elements DEF ReclaimRefused, Reclaimable, Unlocked
<1>2. OnlyMarked
  BY StaysMarked DEF ReclaimRefused, chain
<1>3. PICK note : note = [stored[k] EXCEPT !.status = "revealed"]
  OBVIOUS
<1>4. stored' = [stored EXCEPT ![k] = note] /\ UNCHANGED work /\ jobs' = jobs /\ faults' = faults
  BY <1>3 DEF ReclaimRefused, chain
<1>5. /\ note \in NoteRecords /\ note.counter = stored[k].counter /\ note.to = stored[k].to /\ note.tx = stored[k].tx
      /\ note.status = "revealed" /\ note.job = stored[k].job
  BY <1>1, <1>3 DEF NoteRecords
<1>6. note.tx <= Len(txs) /\ note.job <= Len(jobs') /\ (note.job # 0 => jobs'[note.job].counter = note.counter)
  BY <1>4, <1>5 DEF Refers
<1>7. ASSUME Margined, Unlost(note.counter)', NEW t \in DOMAIN txs,
             Commit(t), txs[t].counter = note.counter, Alive(t)
      PROVE  t = note.tx
  <2>1. Unlost(note.counter)
    BY <1>2, <1>7, MarkedKeeps
  <2> QED
    BY <1>1, <1>5, <1>7, <2>1 DEF OneAlive
<1>8. faults' = 0 => /\ \A t \in DOMAIN txs : Redeems(t) /\ txs[t].counter = note.counter => ~Alive(t)
                     /\ paid[note.counter] = note.to
  BY <1>1, <1>4, <1>5, Unclaimed
<1>9. NextNote(k, note)
  BY <1>1, <1>5, <1>6, <1>7, <1>8 DEF NextNote
<1> QED
  BY <1>1, <1>2, <1>4, <1>9, IdleKeeps

LEMMA CrashKeeps == ASSUME PaymentsKept, Crash PROVE StepsSafely
<1> USE DEF PaymentsKept
<1>1. at \in DOMAIN stored /\ stored[at] \in NoteRecords /\ stored[at].status # "revealed" /\ pc # "idle"
  <2>1. at \in DOMAIN stored /\ stored[at] \in NoteRecords /\ pc # "idle"
    BY HandTypes DEF Crash
  <2>2. pc \in {"pass", "submit", "sent", "await", "claim"}
    BY <2>1 DEF WorkTyped
  <2> QED
    BY <2>1, <2>2 DEF AtHand, InFlight
<1> DEFINE l == [t \in Sent |-> TRUE]
<1>2. /\ UNCHANGED <<seq, indexed, jobs, paid, stored>> /\ Fault /\ Release
      /\ txs' = [t \in DOMAIN txs |-> IF t \in Sent THEN [txs[t] EXCEPT !.lost = l[t]] ELSE txs[t]]
  BY DEF Crash
<1>3. Sent \subseteq DOMAIN txs
  BY DEF Sent, AtHand
<1>4. l \in [Sent -> BOOLEAN] /\ (\A t \in Sent : t \in DOMAIN txs /\ txs[t].lost => l[t]) /\ \A t \in Sent : l[t] = TRUE
  BY <1>3
<1> HIDE DEF l
<1>5. OnlyMarked /\ \A t \in DOMAIN txs : t \in Sent => txs'[t].lost = l[t]
  BY <1>2, <1>4, LostMarked, Zenon
<1>6. faults' # 0
  BY <1>2 DEF Fault, ChainTyped
<1>7. PICK note : note = stored[at]
  OBVIOUS
<1>8. stored' = [stored EXCEPT ![at] = note]
  BY <1>1, <1>2, <1>7 DEF WorkTyped
<1>9. ASSUME Margined, Unlost(note.counter)', NEW t \in DOMAIN txs,
             Commit(t), txs[t].counter = note.counter, Alive(t)
      PROVE  t = note.tx
  <2>1. Unlost(note.counter)
    BY <1>5, <1>9, MarkedKeeps
  <2>2. CASE pc = "sent"
    <3>1. Len(txs) \in DOMAIN txs /\ txs[Len(txs)].counter = note.counter /\ Len(txs) \in Sent
      BY <1>7, <2>2 DEF AtHand, Sent
    <3> QED
      BY <1>4, <1>5, <1>9, <3>1 DEF Unlost, OnlyMarked
  <2>3. CASE pc # "sent"
    BY <1>1, <1>7, <1>9, <2>1, <2>3 DEF OneAlive
  <2> QED
    BY <2>2, <2>3
<1>10. NextNote(at, note)
  <2>1. note.tx <= Len(txs) /\ note.job <= Len(jobs') /\ (note.job # 0 => jobs'[note.job].counter = note.counter)
        /\ (note.status = "scheduled" => note.job # 0)
    BY <1>1, <1>2, <1>7 DEF Refers
  <2> QED
    BY <1>1, <1>6, <1>7, <1>9, <2>1 DEF NextNote
<1>11. StoreKept'
  BY <1>5, <1>8, <1>10, NoteKeeps
<1>12. WorkTyped' /\ Agrees' /\ AtHand' /\ LeavesTell'
  BY <1>2, <1>11, PaymentConstants DEF Release, WorkTyped, Agrees, AtHand, LeavesTell, StoreKept
<1>13. PaymentsKept'
  BY <1>11, <1>12, StoreThenWork
<1> QED
  BY <1>2, <1>13 DEF StepsSafely

LEMMA ReinstallKeeps == ASSUME PaymentsKept, Reinstall PROVE PaymentsKept' /\ stored' = <<>>
<1> USE DEF PaymentsKept
<1> DEFINE l == [t \in DOMAIN txs |-> TRUE]
<1>1. /\ UNCHANGED <<seq, indexed, jobs, paid, work>> /\ Fault /\ stored' = <<>> /\ pc = "idle"
      /\ txs' = [t \in DOMAIN txs |-> IF t \in DOMAIN txs THEN [txs[t] EXCEPT !.lost = l[t]] ELSE txs[t]]
  BY DEF Reinstall, Unlocked
<1>2. l \in [DOMAIN txs -> BOOLEAN] /\ \A t \in DOMAIN txs : (t \in DOMAIN txs /\ txs[t].lost => l[t]) /\ l[t] = TRUE
  OBVIOUS
<1> HIDE DEF l
<1>3. OnlyMarked /\ \A t \in DOMAIN txs : t \in DOMAIN txs => txs'[t].lost = l[t]
  BY <1>1, <1>2, LostMarked, Zenon
<1>4. faults' # 0
  BY <1>1 DEF Fault, ChainTyped
<1>5. ChainTyped' /\ Young' /\ \A j \in DOMAIN jobs' :
                jobs'[j].state \in {"confirmed", "nullifier"} => paid'[jobs'[j].counter] # "nobody"
  BY <1>3, MarkedKeeps
<1>6. stored' \in Seq(NoteRecords) /\ DOMAIN stored' = {}
  BY <1>1
<1>7. Refers' /\ OneNote' /\ OneAlive' /\ DeliveredIsPaid'
  BY <1>6 DEF Refers, OneNote, OneAlive, DeliveredIsPaid
<1>8. JobsTell' /\ OwnerClaims'
  BY <1>4, <1>5 DEF JobsTell, OwnerClaims
<1>9. AllKnown'
  <2>1. ASSUME NEW c, NEW t \in DOMAIN txs', txs'[t].counter = c PROVE ~Traced(c)'
    BY <1>2, <1>3, <1>4, <2>1 DEF Traced, Unlost, OnlyMarked
  <2> QED
    BY <2>1 DEF AllKnown
<1>10. WorkTyped' /\ Agrees' /\ AtHand' /\ LeavesTell'
  BY <1>1, <1>6 DEF work, WorkTyped, Agrees, AtHand, LeavesTell
<1> QED
  BY <1>1, <1>5, <1>6, <1>7, <1>8, <1>9, <1>10

-----------------------------------------------------------------------------
(* NoteRecords are added while nothing is under way.                             *)
LEMMA NotesAdded ==
    ASSUME PaymentsKept, UNCHANGED <<chain, work, faults>>, pc = "idle", NEW new \in Seq(NoteRecords), stored' = stored \o new,
           \A p \in DOMAIN new : /\ new[p].tx <= Len(txs) /\ new[p].job = 0 /\ new[p].status \in {"pending", "committed"}
                                 /\ Traced(new[p].counter) =>
                                      /\ new[p].to = "recipient"
                                      /\ \A k \in DOMAIN stored : stored[k].counter # new[p].counter
                                      /\ \A q \in DOMAIN new : new[q].counter = new[p].counter => q = p
    PROVE  StepsSafely
<1> USE DEF PaymentsKept
<1>1. /\ UNCHANGED <<txs, seq, indexed, jobs, paid, mem, leaves, leavesAge, at, pc, faults>>
  BY DEF chain, work
<1>2. Len(new) \in Nat /\ DOMAIN new = 1..Len(new) /\ \A p \in DOMAIN new : new[p] \in NoteRecords
  OBVIOUS
<1>3. /\ stored' \in Seq(NoteRecords) /\ Len(stored) \in Nat /\ DOMAIN stored' = 1..(Len(stored) + Len(new))
      /\ DOMAIN stored = 1..Len(stored)
      /\ \A k \in DOMAIN stored : k \in DOMAIN stored' /\ stored'[k] = stored[k]
      /\ \A k \in DOMAIN stored' \ DOMAIN stored : k - Len(stored) \in DOMAIN new /\ stored'[k] = new[k - Len(stored)]
  BY <1>2 DEF WorkTyped
<1>4. ASSUME NEW k \in DOMAIN stored'
      PROVE  \/ k \in DOMAIN stored /\ stored'[k] = stored[k]
             \/ k \notin DOMAIN stored /\ \E p \in DOMAIN new : p = k - Len(stored) /\ stored'[k] = new[p]
  BY <1>3
<1>5. Refers'
  <2> SUFFICES ASSUME NEW k \in DOMAIN stored'
               PROVE  /\ stored'[k].tx <= Len(txs) /\ stored'[k].job <= Len(jobs)
                      /\ stored'[k].status = "scheduled" => stored'[k].job # 0
                      /\ stored'[k].job # 0 => jobs[stored'[k].job].counter = stored'[k].counter
    BY <1>1 DEF Refers
  <2>1. CASE k \in DOMAIN stored /\ stored'[k] = stored[k]
    BY <2>1 DEF Refers
  <2>2. ASSUME NEW p \in DOMAIN new, stored'[k] = new[p]
        PROVE  /\ stored'[k].tx <= Len(txs) /\ stored'[k].job = 0 /\ stored'[k].status \in {"pending", "committed"}
    BY <2>2
  <2> QED
    BY <1>4, <2>1, <2>2, Elements
<1>6. OneNote'
  <2> SUFFICES ASSUME NEW k \in DOMAIN stored', NEW i \in DOMAIN stored', NEW c, c = stored'[k].counter,
                      stored'[i].counter = c, Traced(c)
               PROVE  k = i
    <3>1. \A c : Traced(c)' = Traced(c)
      BY <1>1 DEF Traced, Unlost
    <3> QED
      BY <3>1 DEF OneNote
  <2>1. CASE k \in DOMAIN stored /\ stored'[k] = stored[k] /\ i \in DOMAIN stored /\ stored'[i] = stored[i]
    BY <2>1 DEF OneNote
  <2>2. ASSUME NEW p \in DOMAIN new, NEW a \in DOMAIN stored, new[p].counter = c, stored[a].counter = c PROVE FALSE
    BY <2>2
  <2>3. ASSUME NEW p \in DOMAIN new, NEW q \in DOMAIN new, new[p].counter = c, new[q].counter = c PROVE p = q
    BY <2>3
  <2>4. k \in Int /\ i \in Int
    BY <1>3
  <2> QED
    BY <1>3, <1>4, <2>1, <2>2, <2>3, <2>4
<1>7. AllKnown'
  <2>1. ASSUME NEW c, Traced(c), NEW t \in DOMAIN txs, txs[t].counter = c
        PROVE  \E k \in DOMAIN stored' : stored'[k].counter = c
    <3>1. PICK k \in DOMAIN stored : stored[k].counter = c
      BY <2>1 DEF AllKnown
    <3> QED
      BY <1>3, <3>1
  <2>2. \A c : Traced(c)' = Traced(c)
    BY <1>1 DEF Traced, Unlost
  <2> QED
    BY <1>1, <2>1, <2>2 DEF AllKnown
(* No transaction is traced to a new note.                                 *)
<1>8. ASSUME NEW p \in DOMAIN new, NEW t \in DOMAIN txs, txs[t].counter = new[p].counter PROVE ~Traced(new[p].counter)
  BY <1>8 DEF AllKnown
<1>9. Margined => OneAlive'
  <2>1. \A c : Unlost(c)' = Unlost(c)
    BY <1>1 DEF Unlost
  <2>2. ASSUME Margined, NEW k \in DOMAIN stored', NEW c, c = stored'[k].counter, Unlost(c), NEW t \in DOMAIN txs,
               Commit(t), txs[t].counter = c, Alive(t)
        PROVE  t = stored'[k].tx
    <3>1. CASE k \in DOMAIN stored /\ stored'[k] = stored[k]
      BY <2>2, <3>1 DEF OneAlive
    <3>2. ASSUME NEW p \in DOMAIN new, stored'[k] = new[p] PROVE FALSE
      BY <1>8, <2>2, <3>2 DEF Traced
    <3> QED
      BY <1>4, <3>1, <3>2
  <2> QED
    BY <1>1, <2>1, <2>2 DEF OneAlive, Commit, Alive
<1>10. JobsTell'
  <2>1. ASSUME faults = 0, NEW k \in DOMAIN stored' PROVE stored'[k].to = "recipient"
    BY <1>4, <2>1 DEF JobsTell, Traced
  <2> QED
    BY <1>1, <2>1 DEF JobsTell
<1>11. OwnerClaims'
  <2> SUFFICES ASSUME faults = 0 PROVE OwnerClaims'
    BY <1>1 DEF OwnerClaims
  <2>1. ASSUME NEW k \in DOMAIN stored', NEW t \in DOMAIN txs, Redeems(t), txs[t].counter = stored'[k].counter, Alive(t)
        PROVE  stored'[k].status = "revealed" /\ stored'[k].recovered
    <3>1. CASE k \in DOMAIN stored /\ stored'[k] = stored[k]
      BY <2>1, <3>1 DEF OwnerClaims
    <3>2. ASSUME NEW p \in DOMAIN new, stored'[k] = new[p] PROVE FALSE
      BY <1>8, <2>1, <3>2 DEF Traced
    <3> QED
      BY <1>4, <3>1, <3>2
  <2> QED
    BY <1>1, <2>1 DEF OwnerClaims, Redeems, Alive
<1>12. DeliveredIsPaid'
  BY <1>1, <1>4 DEF DeliveredIsPaid
<1>13. ChainTyped' /\ Young' /\ WorkTyped' /\ Agrees' /\ AtHand' /\ LeavesTell'
  BY <1>1, <1>3 DEF ChainTyped, Young, Unindexed, Commit, WorkTyped, Agrees, AtHand, LeavesTell
<1>14. PaymentsKept'
  BY <1>5, <1>6, <1>7, <1>9, <1>10, <1>11, <1>12, <1>13
<1> QED
  BY <1>3, <1>14 DEF StepsSafely

(* The next counter is above those of the notes there are.                 *)
LEMMA NextAbove ==
    ASSUME PaymentsKept
    PROVE  NextCounter \in Nat /\ \A k \in DOMAIN stored : stored[k].counter < NextCounter
<1> DEFINE S == {0} \cup {stored[k].counter + 1 : k \in DOMAIN stored}
<1>1. \A k \in DOMAIN stored : stored[k].counter \in 0..(MaxCounter - 1)
  BY Elements DEF PaymentsKept, NoteRecords, Counters
<1>2. S \subseteq 0..MaxCounter /\ S # {}
  BY <1>1, PaymentConstants
<1>3. PICK x \in S : \A y \in S : x >= y
  BY <1>2, GreatestIn, PaymentConstants
<1>4. Max(S) \in S /\ \A y \in S : Max(S) >= y
  BY <1>3 DEF Max
<1>5. NextCounter = Max(S)
  BY DEF NextCounter
<1>6. \A k \in DOMAIN stored : stored[k].counter + 1 \in S
  OBVIOUS
<1> HIDE DEF S
<1>7. Max(S) \in 0..MaxCounter
  BY <1>2, <1>4
<1>8. \A k \in DOMAIN stored : Max(S) >= stored[k].counter + 1
  BY <1>4, <1>6
<1> QED
  BY <1>1, <1>5, <1>7, <1>8, PaymentConstants

LEMMA SendKeepsNotes == ASSUME PaymentsKept, NEW k \in 1..2, Send(k) PROVE StepsSafely
<1> DEFINE N == NextCounter
           new == [p \in 1..k |-> NewNote(N + p - 1, "recipient", "pending", 0)]
<1>1. N \in Nat /\ (\A l \in DOMAIN stored : stored[l].counter < N) /\ N + k <= MaxCounter /\ MaxCounter \in Nat
  BY NextAbove, PaymentConstants DEF Send
<1>2. stored' = stored \o new /\ pc = "idle" /\ UNCHANGED <<chain, work, faults>>
  BY DEF Send, Unlocked
<1>3. ASSUME NEW p \in 1..k
      PROVE  /\ new[p] \in NoteRecords /\ new[p].counter = N + p - 1 /\ new[p].to = "recipient" /\ new[p].job = 0
             /\ new[p].status = "pending" /\ new[p].tx = 0
  <2>1. N + p - 1 \in Counters
    <3> HIDE DEF N
    <3> QED
      BY <1>1 DEF Counters
  <2> HIDE DEF N
  <2> QED
    BY <2>1 DEF NoteRecords, NewNote
<1>4. DOMAIN new = 1..k /\ k \in Nat /\ new = [p \in 1..k |-> new[p]]
  OBVIOUS
<1>5. \A l \in DOMAIN stored : stored[l].counter \in Int
  BY Elements, PaymentConstants DEF PaymentsKept, NoteRecords
<1>e. Len(txs) \in Nat
  BY Elements DEF PaymentsKept
<1> HIDE DEF N, new
<1>6. new \in Seq(NoteRecords)
  BY <1>3, <1>4
<1>7. ASSUME NEW p \in DOMAIN new
      PROVE  /\ new[p].tx <= Len(txs) /\ new[p].job = 0 /\ new[p].status \in {"pending", "committed"}
             /\ new[p].to = "recipient"
             /\ \A l \in DOMAIN stored : stored[l].counter # new[p].counter
             /\ \A q \in DOMAIN new : new[q].counter = new[p].counter => q = p
  <2>1. p \in 1..k /\ p \in Int
    BY <1>4
  <2>2. \A q \in DOMAIN new : q \in Int /\ new[q].counter = N + q - 1
    BY <1>3, <1>4
  <2>3. \A l \in DOMAIN stored : stored[l].counter # new[p].counter
    BY <1>1, <1>5, <2>1, <2>2, <1>4
  <2>4. \A q \in DOMAIN new : new[q].counter = new[p].counter => q = p
    BY <1>1, <2>1, <2>2
  <2> QED
    BY <1>3, <1>e, <2>1, <2>3, <2>4
<1> QED
  BY <1>2, <1>6, <1>7, NotesAdded

LEMMA RecoverKeeps == ASSUME PaymentsKept, Recover PROVE StepsSafely
<1> USE DEF PaymentsKept
<1> DEFINE known == {stored[k].counter : k \in DOMAIN stored}
<1>1. PICK upTo \in DOMAIN txs :
         LET found == {t \in 1..upTo : /\ txs[t].kind = "commit" /\ txs[t].state = "landed"
                                       /\ txs[t].counter \notin known}
         IN  stored' = stored \o SetToSeq({NewNote(txs[t].counter, "owner", "committed", t) : t \in found})
  BY DEF Recover
<1> DEFINE found == {t \in 1..upTo : /\ txs[t].kind = "commit" /\ txs[t].state = "landed"
                                     /\ txs[t].counter \notin known}
           S == {NewNote(txs[t].counter, "owner", "committed", t) : t \in found}
           new == SetToSeq(S)
<1>2. stored' = stored \o new /\ pc = "idle" /\ UNCHANGED <<chain, work, faults>>
  BY <1>1 DEF Recover, Unlocked
<1>3. IsFiniteSet(found)
  <2>1. IsFiniteSet(1..upTo)
    BY FS_Interval, Elements
  <2> QED
    BY <2>1, FS_Subset
<1>4. IsFiniteSet(S)
  <2> DEFINE f == [t \in found |-> NewNote(txs[t].counter, "owner", "committed", t)]
  <2>1. f \in Surjection(found, S)
    <3>1. f \in [found -> S] /\ \A s \in S : \E t \in found : f[t] = s
      OBVIOUS
    <3> HIDE DEF f, found, S
    <3> QED
      BY <3>1 DEF Surjection
  <2> HIDE DEF f, found, S
  <2> QED
    BY <1>3, <2>1, FS_Surjection
<1>5. found \subseteq DOMAIN txs /\ \A t \in found : t \in Nat /\ t <= Len(txs)
  BY Elements
<1>6. ASSUME NEW s \in S
      PROVE  /\ s \in NoteRecords /\ s.tx <= Len(txs) /\ s.job = 0 /\ s.status = "committed"
             /\ s.counter \notin known /\ \E t \in DOMAIN txs : txs[t].counter = s.counter
  <2>1. PICK t \in found : s = NewNote(txs[t].counter, "owner", "committed", t)
    OBVIOUS
  <2>2. txs[t].counter \in Counters /\ t \in Nat /\ t <= Len(txs) /\ t \in DOMAIN txs /\ txs[t].counter \notin known
    BY <1>5, Elements DEF Txs
  <2>3. s \in NoteRecords /\ s.tx = t /\ s.job = 0 /\ s.status = "committed" /\ s.counter = txs[t].counter
    <3> HIDE DEF found, known, S
    <3> QED
      BY <2>1, <2>2 DEF NewNote, NoteRecords
  <2> QED
    BY <2>2, <2>3
<1>7. \A k \in DOMAIN stored : stored[k].counter \in known
  OBVIOUS
<1> HIDE DEF found, known, S
<1>8. new \in Seq(S)
  BY <1>4, SetToSeqType
<1>9. \A p \in DOMAIN new : new[p] \in S
  BY <1>8
<1>10. new \in Seq(NoteRecords)
  <2> HIDE DEF new
  <2>1. S \subseteq NoteRecords
    BY <1>6
  <2> QED
    BY <1>8, <2>1
<1> HIDE DEF new
<1>11. ASSUME NEW p \in DOMAIN new
       PROVE  /\ new[p].tx <= Len(txs) /\ new[p].job = 0 /\ new[p].status \in {"pending", "committed"}
              /\ ~Traced(new[p].counter)
  <2>1. new[p].counter \notin known /\ \E t \in DOMAIN txs : txs[t].counter = new[p].counter
    BY <1>6, <1>9
  <2>2. ~Traced(new[p].counter)
    BY <1>7, <2>1 DEF AllKnown
  <2> QED
    BY <1>6, <1>9, <2>2
<1> QED
  BY <1>2, <1>10, <1>11, NotesAdded

-----------------------------------------------------------------------------
LEMMA PaymentsStart == Init => PaymentsKept
<1> SUFFICES ASSUME Init PROVE PaymentsKept
  OBVIOUS
<1> USE PaymentConstants
<1>1. /\ txs = <<>> /\ seq = 0 /\ indexed = {} /\ jobs = <<>> /\ stored = <<>> /\ mem = <<>> /\ leaves = {}
      /\ at = 0 /\ pc = "idle" /\ leavesAge = 0 /\ faults = 0 /\ paid = [c \in Counters |-> "nobody"]
  BY DEF Init
<1>2. /\ DOMAIN txs = {} /\ DOMAIN jobs = {} /\ DOMAIN stored = {} /\ txs \in Seq(Txs) /\ jobs \in Seq(Jobs)
      /\ stored \in Seq(NoteRecords) /\ mem \in Seq(NoteRecords)
  BY <1>1
<1>3. ChainTyped /\ WorkTyped
  BY <1>1, <1>2 DEF ChainTyped, WorkTyped
<1>4. Refers /\ Agrees /\ AtHand /\ OneNote /\ AllKnown /\ OneAlive
  BY <1>1, <1>2 DEF Refers, Agrees, AtHand, OneNote, AllKnown, OneAlive
<1>5. Young /\ LeavesTell /\ JobsTell /\ OwnerClaims /\ DeliveredIsPaid
  BY <1>1, <1>2 DEF Young, Unindexed, LeavesTell, JobsTell, OwnerClaims, DeliveredIsPaid
<1> QED
  BY <1>3, <1>4, <1>5 DEF PaymentsKept

(* The network and time leave the notes alone.                             *)
Unclobbered ==
    \A k \in DOMAIN stored :
        \/ stored' = <<>>
        \/ /\ k \in DOMAIN stored'
           /\ stored'[k].counter = stored[k].counter
           /\ stored[k].status = "revealed" => stored'[k].status = "revealed"

LEMMA PaymentsStep == ASSUME PaymentsKept, [Next]_vars PROVE PaymentsKept' /\ Unclobbered
<1> USE DEF StepsSafely, Unclobbered
<1>1. CASE \E k \in 1..2 : Send(k)
  BY <1>1, SendKeepsNotes
<1>2. CASE Pass
  BY <1>2, BeginKeeps, AlreadyKeeps, HoldKeeps, ReArmKeeps, FirstKeeps, BroadcastKeeps, HashKeeps, AwaitedKeeps,
     FailureKeeps, RevealKeeps, OutcomeKeeps, ReclaimedKeeps DEF Pass
<1>3. CASE \E k \in DOMAIN stored : RevealNote(k) \/ SelfReclaim(k) \/ ReclaimRefused(k)
  BY <1>3, AskedKeeps, ClaimKeeps, RefusedKeeps
<1>4. CASE Network
  <2>1. PaymentsKept'
    BY <1>4, LandKeeps, ExpireKeeps, IndexKeeps, RunJobKeeps DEF Network
  <2>2. stored' = stored
    BY <1>4 DEF Network, Land, Expire, Index, RunJob
  <2> QED
    BY <2>1, <2>2
<1>5. CASE \E t \in DOMAIN txs : Revert(t)
  BY <1>5, RevertKeeps DEF Revert
<1>6. CASE Tick
  BY <1>6, TickKeeps DEF Tick
<1>7. CASE SubmitFails \/ PollThrows \/ RevealFails \/ ReclaimFails
  BY <1>7, FailsKeeps, PollThrowsKeeps, RevealFailsKeeps, ReclaimedKeeps
<1>8. CASE Crash
  BY <1>8, CrashKeeps
<1>9. CASE Reinstall
  BY <1>9, ReinstallKeeps
<1>10. CASE Recover
  BY <1>10, RecoverKeeps
<1>11. CASE UNCHANGED vars
  <2>1. /\ UNCHANGED <<txs, seq, indexed, jobs, paid, stored, mem, leaves, leavesAge, at, pc, faults>>
    BY <1>11 DEF vars
  <2>2. ChainTyped' /\ WorkTyped' /\ Refers' /\ Agrees' /\ AtHand' /\ OneNote' /\ AllKnown' /\ (OneAlive => OneAlive')
    BY <2>1 DEF PaymentsKept, ChainTyped, WorkTyped, Refers, Agrees, AtHand, OneNote, AllKnown, OneAlive, Commit, Alive,
       Unlost, Traced, InFlight
  <2>3. Young' /\ LeavesTell' /\ JobsTell' /\ OwnerClaims' /\ DeliveredIsPaid'
    BY <2>1 DEF PaymentsKept, Young, Unindexed, LeavesTell, JobsTell, OwnerClaims, DeliveredIsPaid, Commit, Redeems, Alive
  <2> QED
    BY <2>1, <2>2, <2>3 DEF PaymentsKept
<1> QED
  BY <1>1, <1>2, <1>3, <1>4, <1>5, <1>6, <1>7, <1>8, <1>9, <1>10, <1>11 DEF Next

LEMMA PaymentsFollow == ASSUME PaymentsKept PROVE TypeOK /\ (Margined => DepositedOnceIfKept)
<1> USE Elements, PaymentConstants DEF PaymentsKept
<1>1. \A k \in DOMAIN stored : stored[k] \in Note
  <2> SUFFICES ASSUME NEW k \in DOMAIN stored PROVE stored[k] \in Note
    OBVIOUS
  <2>1. stored[k] \in NoteRecords /\ stored[k].tx <= Len(txs) /\ stored[k].job <= Len(jobs)
    BY DEF Refers
  <2> QED
    BY <2>1 DEF NoteRecords, Note
<1>2. \A k \in DOMAIN mem : mem[k] \in Note
  <2> SUFFICES ASSUME NEW k \in DOMAIN mem PROVE mem[k] \in Note
    OBVIOUS
  <2>1. mem[k] \in NoteRecords
    OBVIOUS
  <2>2. pc # "idle" /\ k \in DOMAIN stored /\ at \in DOMAIN stored
    <3>1. mem # <<>>
      OBVIOUS
    <3>2. pc # "idle"
      BY <3>1 DEF Agrees
    <3> QED
      BY <3>2 DEF Agrees
  <2>3. mem[k].tx = stored[k].tx /\ mem[k].job = stored[k].job
    <3>1. stored[k] \in NoteRecords /\ stored[at] \in NoteRecords
      BY <2>2
    <3>2. CASE k = at
      <4>1. mem[at] = [stored[at] EXCEPT !.status = mem[at].status, !.attempts = mem[at].attempts]
        BY <2>2 DEF Agrees
      <4> QED
        BY <3>1, <3>2, <4>1 DEF NoteRecords
    <3>3. CASE k # at
      BY <2>2, <3>3 DEF Agrees
    <3> QED
      BY <3>2, <3>3
  <2>4. mem[k].tx <= Len(txs) /\ mem[k].job <= Len(jobs)
    BY <2>2, <2>3 DEF Refers
  <2> QED
    BY <2>1, <2>4 DEF NoteRecords, Note
<1>3. stored \in Seq(Note) /\ mem \in Seq(Note)
  BY <1>1, <1>2 DEF WorkTyped
<1>4. \A t \in DOMAIN txs :
          /\ txs[t].kind \in {"commit", "reveal"} /\ txs[t].counter \in Counters
          /\ txs[t].state \in {"open", "landed", "failed", "gone"}
          /\ txs[t].seq \in 1..(seq + 1) /\ txs[t].age \in 0..OldAge
          /\ txs[t].lost \in BOOLEAN
  BY DEF ChainTyped, Txs
<1>5. \A j \in DOMAIN jobs : jobs[j].state \in {"queued", "confirmed", "nullifier", "dead"}
  BY DEF Jobs
<1>6. at \in 0..Len(mem) /\ (pc = "idle" <=> at = 0)
  BY DEF Agrees, WorkTyped
<1>7. TypeOK
  BY <1>3, <1>4, <1>5, <1>6 DEF TypeOK, ChainTyped, WorkTyped, Refers
<1>8. ASSUME Margined, NEW c \in Counters, \A t \in DOMAIN txs : txs[t].counter = c => ~txs[t].lost,
             NEW t \in DepositsOf(c), NEW u \in DepositsOf(c)
      PROVE  t = u
  <2>1. Unlost(c) /\ Traced(c)
    BY <1>8 DEF Unlost, Traced
  <2>2. t \in DOMAIN txs /\ u \in DOMAIN txs /\ Commit(t) /\ Commit(u) /\ Alive(t) /\ Alive(u)
        /\ txs[t].counter = c /\ txs[u].counter = c
    BY DEF DepositsOf, Commit, Alive
  <2>3. PICK k \in DOMAIN stored : stored[k].counter = c
    BY <2>1, <2>2 DEF AllKnown
  <2>4. \A v \in {t, u} : v = stored[k].tx \/ (pc = "sent" /\ k = at /\ v = Len(txs))
    BY <1>8, <2>1, <2>2, <2>3 DEF OneAlive
  <2>5. pc = "sent" /\ k = at => stored[k].tx \notin DOMAIN txs
    BY DEF AtHand
  <2> QED
    BY <2>2, <2>4, <2>5
<1>9. Margined => DepositedOnceIfKept
  <2>1. ASSUME Margined, NEW c \in Counters, \A t \in DOMAIN txs : txs[t].counter = c => ~txs[t].lost
        PROVE  Cardinality(DepositsOf(c)) <= 1
    BY <1>8, <2>1, AtMostOne
  <2> QED
    BY <2>1 DEF DepositedOnceIfKept
<1> QED
  BY <1>7, <1>9

LEMMA PaymentsAlways == Spec => []PaymentsKept
<1>1. PaymentsKept /\ [Next]_vars => PaymentsKept'
  BY PaymentsStep
<1> QED
  BY <1>1, PaymentsStart, PTL DEF Spec

(* privatePayments.ts:730: where the margin covers the indexer's lag and   *)
(* the age of the leaves, no note whose broadcasts are accounted for is    *)
(* deposited twice, for any number of notes, crashes, lost answers and     *)
(* recoveries.                                                             *)
THEOREM NoDoubleDeposit == ASSUME Margin > Lag + Fresh PROVE Spec => []PaymentsInv
<1>1. PaymentsKept => PaymentsInv
  BY PaymentsFollow DEF Margined, PaymentsInv
<1> QED
  BY <1>1, PaymentsAlways, PTL

(* privatePayments.ts:147: whatever is lost or answered late, a note shown *)
(* as delivered was paid out, and if nothing failed to the one it names.   *)
THEOREM DeliveredMeansPaid == Spec => []DeliveredIsPaid
<1>1. PaymentsKept => DeliveredIsPaid
  BY DEF PaymentsKept
<1> QED
  BY <1>1, PaymentsAlways, PTL

(* privatePayments.ts:151: no operation writes over a note of another, or  *)
(* takes back a delivery, until the store is lost.                         *)
THEOREM NotesStay == Spec => NothingClobbered
<1>1. PaymentsKept /\ [Next]_vars => [Unclobbered]_vars
  BY PaymentsStep
<1>2. Spec => [][Unclobbered]_vars
  BY <1>1, PaymentsAlways, PTL DEF Spec
<1> QED
  BY <1>2 DEF NothingClobbered, Unclobbered

-----------------------------------------------------------------------------
(* The screens before a wallet is open.                                    *)
Words == Phrases \cup {Absent}
Wallets == [phrase : Words, password : Passcodes \cup {Absent}]
Routers == [loading : BOOLEAN, has : BOOLEAN, unlocked : BOOLEAN, latched : BOOLEAN,
            path : {"start", "create", "import", "unlock"}]
Screens == {"spinner", "start", "create", "import", "unlock", "pages"}
ScreenForms ==
    [of : Screens,
     step : {"none", "password", "mnemonic", "verify", "success", "phrase", "unlock", "reset-prompt",
             "reset-confirm", "overwrite-confirm"},
     phrase : Words, claim : Wallets, revealed : BOOLEAN, busy : BOOLEAN, pending : {"create", "import"}]
ScreenAsks ==
    [kind : {"create", "import", "reset", "overwrite", "unlock", "status"}, id : Nat, phrase : Words,
     password : Passcodes \cup {Absent}, at : {"asked", "stored", "answered", "resolves"}, ok : BOOLEAN,
     to : {"screen", "popup", "nobody"}, has : BOOLEAN, unlocked : BOOLEAN]

ScreensTyped ==
    /\ router \in Routers /\ form \in ScreenForms /\ asks \in SUBSET ScreenAsks /\ wallet \in Wallets
    /\ marker \in {"none", "create", "import"} /\ opened \in Words
    /\ sent \in Nat /\ written \in 0..sent /\ heard \in 0..sent /\ excused \in BOOLEAN

(* The form is the router's, and the marker waits for a first latch.       *)
Routed(r, f, m) ==
    /\ f.of = Screen(r, r.path)
    /\ ~r.latched => r.path \in {"start", "unlock"}
    /\ r.latched => r.path # "unlock"
    /\ Latched(r) => r.latched
    /\ m # "none" => ~r.latched

(* A form claims what an answer said, and success follows an answer.       *)
Claims(f) == f.claim.phrase # Absent
Filled(f) ==
    /\ f.of = "create" => f.phrase = f.claim.phrase /\ (f.step # "password" => Claims(f))
    /\ Claims(f) => f.of \in Creates
    /\ f.step = "success" => Claims(f)
    /\ f.of = "import" /\ f.step = "password" => f.phrase \in Phrases

(* Calls are numbered as they were sent, and a screen that went took its   *)
(* earlier calls with it.                                                  *)
HasWritten(c) ==
    /\ c.ok
    /\ \/ c.kind \in Creates /\ c.at # "asked"
       \/ c.kind \in Resets /\ c.at \in {"answered", "resolves"}
Numbered(cs, s, wr) ==
    /\ \A c \in cs : c.id \in 0..s /\ (c.kind = "status" <=> c.id = 0)
    /\ \A c, d \in cs : c.id = d.id => c = d
    /\ \A c, d \in cs : c.to = "screen" /\ c.id # 0 /\ c.id <= d.id => d.to = "screen"
    /\ \A c \in cs : c.kind = "import" => c.phrase \in Phrases
    /\ \A c \in cs : HasWritten(c) => c.id <= wr /\ (c.kind \in Creates => c.phrase \in Phrases)
    /\ \A c \in cs : c.at \in {"asked", "stored"} => c.ok

ScreenFor(kind) == IF kind \in Creates THEN kind ELSE "unlock"
FromScreens(cs, r, f) == \A c \in cs :
    c.id # 0 => (c.to # "nobody" => ~r.loading) /\ (c.to = "screen" => f.of = ScreenFor(c.kind))

(* What the newest write left is stored, it is heard of last, and a form   *)
(* believes it or is about to hear of it.                                  *)
LeftBy(c) == IF c.kind \in Creates THEN Claim(c) ELSE NoWallet
Newest(cs, wr, w, ex) == ~ex => \A c \in cs : c.id # 0 /\ c.id = wr => HasWritten(c) /\ w = LeftBy(c)
InOrder(cs, wr, hd, ex) == ~ex => \A d \in cs :
    d.to = "screen" /\ d.id # 0 /\ d.id < wr => hd >= wr \/ \E e \in cs : e.id = wr
Believed(cs, f, wr, w, ex) == ~ex /\ Claims(f) =>
    /\ w = f.claim \/ \E c \in cs : c.id # 0 /\ c.id = wr
    /\ \A c \in cs : c.id # 0 /\ c.to # "screen" => c.id < wr

(* A marker has its replacement, which has not succeeded yet.              *)
MarkedBy(cs, m) == m # "none" =>
    \E c \in cs : c.kind = "overwrite" /\ c.to # "nobody" /\ (c.at = "resolves" => ~c.ok)

Recorded(cs, f, wr, hd, w, ex) ==
    Newest(cs, wr, w, ex) /\ InOrder(cs, wr, hd, ex) /\ Believed(cs, f, wr, w, ex)

OnboardingKept ==
    /\ ScreensTyped
    /\ Routed(router, form, marker) /\ Filled(form)
    /\ Numbered(asks, sent, written) /\ FromScreens(asks, router, form)
    /\ Recorded(asks, form, written, heard, wallet, excused)
    /\ MarkedBy(asks, marker)

(* One call moves on, the others stay.                                     *)
LEMMA MovedNumbered ==
    ASSUME NEW cs \in SUBSET ScreenAsks, NEW s \in Nat, NEW wr \in Nat, NEW wr2 \in Nat, wr <= wr2,
           Numbered(cs, s, wr), NEW c \in cs, NEW d \in ScreenAsks,
           d.id = c.id, d.kind = c.kind, d.to = c.to,
           d.kind = "import" => d.phrase \in Phrases,
           HasWritten(d) => d.id <= wr2 /\ (d.kind \in Creates => d.phrase \in Phrases),
           d.at \in {"asked", "stored"} => d.ok
    PROVE  Numbered((cs \ {c}) \cup {d}, s, wr2)
<1> DEFINE ds == (cs \ {c}) \cup {d}
<1>1. \A x \in ds : x.id \in 0..s /\ (x.kind = "status" <=> x.id = 0)
  BY DEF Numbered
<1>2. \A x, y \in ds : x.id = y.id => x = y
  BY DEF Numbered
<1>3. \A x, y \in ds : x.to = "screen" /\ x.id # 0 /\ x.id <= y.id => y.to = "screen"
  BY DEF Numbered
<1>4. \A x \in ds : x.kind = "import" => x.phrase \in Phrases
  BY DEF Numbered
<1>5. \A x \in ds : HasWritten(x) => x.id <= wr2 /\ (x.kind \in Creates => x.phrase \in Phrases)
  <2>1. \A x \in cs : HasWritten(x) => x.id <= wr /\ (x.kind \in Creates => x.phrase \in Phrases)
    BY DEF Numbered
  <2>2. \A x \in cs : x.id \in Nat
    BY DEF ScreenAsks
  <2>3. \A x \in cs : HasWritten(x) => x.id <= wr2
    BY <2>1, <2>2
  <2> QED
    BY <2>1, <2>3
<1>6. \A x \in ds : x.at \in {"asked", "stored"} => x.ok
  BY DEF Numbered
<1> QED
  BY <1>1, <1>2, <1>3, <1>4, <1>5, <1>6 DEF Numbered

LEMMA MovedRecorded ==
    ASSUME NEW cs \in SUBSET ScreenAsks, NEW f, NEW wr \in Nat, NEW hd \in Nat, NEW w,
           NEW ex \in BOOLEAN, NEW ex2 \in BOOLEAN, ex => ex2, Recorded(cs, f, wr, hd, w, ex),
           NEW c \in cs, NEW d \in ScreenAsks, d.id = c.id, d.kind = c.kind, d.to = c.to,
           HasWritten(c) => ex2 \/ (HasWritten(d) /\ d.phrase = c.phrase /\ d.password = c.password)
    PROVE  Recorded((cs \ {c}) \cup {d}, f, wr, hd, w, ex2)
<1> DEFINE ds == (cs \ {c}) \cup {d}
<1> SUFFICES ASSUME ~ex2 PROVE Recorded(ds, f, wr, hd, w, ex2)
  BY DEF Recorded, Newest, InOrder, Believed
<1>1. ~ex
  OBVIOUS
<1>2. \A x \in cs : \E y \in ds : y.id = x.id
  OBVIOUS
<1>3. Newest(ds, wr, w, ex2)
  <2>1. \A x \in cs : x.id # 0 /\ x.id = wr => HasWritten(x) /\ w = LeftBy(x)
    BY <1>1 DEF Recorded, Newest
  <2>2. d.id # 0 /\ d.id = wr => HasWritten(d) /\ w = LeftBy(d)
    <3> SUFFICES ASSUME d.id # 0, d.id = wr PROVE HasWritten(d) /\ w = LeftBy(d)
      OBVIOUS
    <3>1. HasWritten(c) /\ w = LeftBy(c)
      BY <2>1
    <3> QED
      BY <3>1 DEF LeftBy, Claim
  <2> QED
    BY <2>1, <2>2 DEF Newest
<1>4. InOrder(ds, wr, hd, ex2)
  BY <1>1, <1>2 DEF Recorded, InOrder
<1>5. Believed(ds, f, wr, w, ex2)
  BY <1>1, <1>2 DEF Recorded, Believed
<1> QED
  BY <1>3, <1>4, <1>5 DEF Recorded

(* A call writes: it is the newest, or the order was lost.                 *)
LEMMA WroteRecorded ==
    ASSUME NEW cs \in SUBSET ScreenAsks, NEW f, NEW s \in Nat, NEW wr \in Nat, NEW hd \in Nat, NEW w,
           NEW ex \in BOOLEAN, Numbered(cs, s, wr), Recorded(cs, f, wr, hd, w, ex),
           NEW c \in cs, NEW d \in ScreenAsks, d.id = c.id, d.kind = c.kind, d.to = c.to, c.id # 0,
           ~HasWritten(c), HasWritten(d), NEW wr2 \in Nat, wr2 = IF c.id > wr THEN c.id ELSE wr,
           NEW ex2 \in BOOLEAN, ex2 <=> ex \/ c.id < wr
    PROVE  Recorded((cs \ {c}) \cup {d}, f, wr2, hd, LeftBy(d), ex2)
<1> DEFINE ds == (cs \ {c}) \cup {d}
<1> DEFINE w2 == LeftBy(d)
<1> SUFFICES ASSUME ~ex2 PROVE Recorded(ds, f, wr2, hd, w2, ex2)
  BY DEF Recorded, Newest, InOrder, Believed
<1>0. c.id \in Nat /\ \A x \in cs : x.id \in Nat
  BY DEF ScreenAsks
<1>1. ~ex /\ ~(c.id < wr)
  OBVIOUS
<1>2. c.id # wr
  BY <1>1 DEF Recorded, Newest
<1>3. c.id > wr /\ wr2 = c.id
  BY <1>0, <1>1, <1>2
<1>4. \A x \in cs : x.id = c.id => x = c
  BY DEF Numbered
<1>5. Newest(ds, wr2, w2, ex2)
  BY <1>3, <1>4 DEF Newest
<1>6. InOrder(ds, wr2, hd, ex2)
  BY <1>3 DEF InOrder
<1>7. Believed(ds, f, wr2, w2, ex2)
  <2>1. \A x \in cs : Claims(f) /\ x.id # 0 /\ x.to # "screen" => x.id < wr
    BY <1>1 DEF Recorded, Believed
  <2>2. \A x \in ds : Claims(f) /\ x.id # 0 /\ x.to # "screen" => x.id < wr2
    BY <1>0, <1>3, <2>1
  <2>3. \E x \in ds : x.id # 0 /\ x.id = wr2
    BY <1>3
  <2> QED
    BY <2>2, <2>3 DEF Believed
<1> QED
  BY <1>5, <1>6, <1>7 DEF Recorded

(* A new call is the last one.                                             *)
LEMMA AddedNumbered ==
    ASSUME NEW cs \in SUBSET ScreenAsks, NEW s \in Nat, NEW wr \in 0..s, Numbered(cs, s, wr),
           NEW d \in ScreenAsks, d.id = s + 1, d.kind # "status", d.to = "screen", d.at = "asked", d.ok,
           d.kind = "import" => d.phrase \in Phrases
    PROVE  Numbered(cs \cup {d}, s + 1, wr)
<1> DEFINE ds == cs \cup {d}
<1>0. \A x \in cs : x.id \in 0..s
  BY DEF Numbered
<1>1. \A x \in ds : x.id \in 0..(s + 1) /\ (x.kind = "status" <=> x.id = 0)
  BY <1>0 DEF Numbered
<1>2. \A x, y \in ds : x.id = y.id => x = y
  BY <1>0 DEF Numbered
<1>3. \A x, y \in ds : x.to = "screen" /\ x.id # 0 /\ x.id <= y.id => y.to = "screen"
  BY <1>0 DEF Numbered
<1>4. \A x \in ds : x.kind = "import" => x.phrase \in Phrases
  BY DEF Numbered
<1>5. \A x \in ds : HasWritten(x) => x.id <= wr /\ (x.kind \in Creates => x.phrase \in Phrases)
  <2>1. ~HasWritten(d)
    BY DEF HasWritten
  <2> QED
    BY <2>1 DEF Numbered
<1>6. \A x \in ds : x.at \in {"asked", "stored"} => x.ok
  BY DEF Numbered
<1> QED
  BY <1>1, <1>2, <1>3, <1>4, <1>5, <1>6 DEF Numbered

LEMMA AddedRecorded ==
    ASSUME NEW cs \in SUBSET ScreenAsks, NEW f, NEW s \in Nat, NEW wr \in 0..s, NEW hd \in Nat, NEW w,
           NEW ex \in BOOLEAN, Recorded(cs, f, wr, hd, w, ex),
           NEW d \in ScreenAsks, d.id = s + 1, d.to = "screen"
    PROVE  Recorded(cs \cup {d}, f, wr, hd, w, ex)
<1> SUFFICES ASSUME ~ex PROVE Recorded(cs \cup {d}, f, wr, hd, w, ex)
  BY DEF Recorded, Newest, InOrder, Believed
<1>1. d.id # wr /\ ~(d.id < wr)
  OBVIOUS
<1>2. Newest(cs \cup {d}, wr, w, ex)
  BY <1>1 DEF Recorded, Newest
<1>3. InOrder(cs \cup {d}, wr, hd, ex)
  BY <1>1 DEF Recorded, InOrder
<1>4. Believed(cs \cup {d}, f, wr, w, ex)
  BY <1>1 DEF Recorded, Believed
<1> QED
  BY <1>2, <1>3, <1>4 DEF Recorded

(* A status call carries no number.                                        *)
LEMMA StatusAdded ==
    ASSUME NEW cs \in SUBSET ScreenAsks, NEW f, NEW s \in Nat, NEW wr \in Nat, NEW hd \in Nat, NEW w,
           NEW ex \in BOOLEAN, Recorded(cs, f, wr, hd, w, ex), Numbered(cs, s, wr),
           NEW d \in ScreenAsks, d.id = 0, d.kind = "status", d.ok, \A c \in cs : c.kind # "status"
    PROVE  Recorded(cs \cup {d}, f, wr, hd, w, ex) /\ Numbered(cs \cup {d}, s, wr)
<1>1. ~HasWritten(d)
  BY DEF HasWritten, Creates, Resets
<1>2. Newest(cs \cup {d}, wr, w, ex)
  BY DEF Recorded, Newest
<1>3. InOrder(cs \cup {d}, wr, hd, ex)
  BY DEF Recorded, InOrder
<1>4. Believed(cs \cup {d}, f, wr, w, ex)
  BY DEF Recorded, Believed
<1> DEFINE ds == cs \cup {d}
<1>5. \A x \in cs : x.id # 0 /\ x.id \in 0..s
  BY DEF Numbered
<1>6. \A x \in ds : x.id \in 0..s /\ (x.kind = "status" <=> x.id = 0)
  BY <1>5
<1>7. \A x, y \in ds : x.id = y.id => x = y
  BY <1>5 DEF Numbered
<1>8. \A x, y \in ds : x.to = "screen" /\ x.id # 0 /\ x.id <= y.id => y.to = "screen"
  BY <1>5 DEF Numbered
<1>9. \A x \in ds : x.kind = "import" => x.phrase \in Phrases
  BY DEF Numbered
<1>10. \A x \in ds : HasWritten(x) => x.id <= wr /\ (x.kind \in Creates => x.phrase \in Phrases)
  BY <1>1 DEF Numbered
<1>11. \A x \in ds : x.at \in {"asked", "stored"} => x.ok
  BY DEF Numbered
<1> QED
  BY <1>2, <1>3, <1>4, <1>6, <1>7, <1>8, <1>9, <1>10, <1>11 DEF Recorded, Numbered
(* A call goes, and with it the newest write only if that was heard of.    *)
LEMMA GoneNumbered ==
    ASSUME NEW cs, NEW ds \in SUBSET cs, NEW s, NEW wr, Numbered(cs, s, wr)
    PROVE  Numbered(ds, s, wr)
BY DEF Numbered

LEMMA GoneRecorded ==
    ASSUME NEW cs \in SUBSET ScreenAsks, NEW f, NEW s \in Nat, NEW wr \in Nat, NEW hd \in Nat, NEW hd2 \in Nat,
           NEW w, NEW ex \in BOOLEAN, Numbered(cs, s, wr), Recorded(cs, f, wr, hd, w, ex), NEW c \in cs,
           hd2 >= hd, ~ex /\ c.id = wr /\ c.id # 0 => w = f.claim \/ ~Claims(f),
           ~ex => c.to = "nobody" \/ hd2 >= c.id
    PROVE  Recorded(cs \ {c}, f, wr, hd2, w, ex)
<1> SUFFICES ASSUME ~ex PROVE Recorded(cs \ {c}, f, wr, hd2, w, ex)
  BY DEF Recorded, Newest, InOrder, Believed
<1>1. Newest(cs \ {c}, wr, w, ex)
  BY DEF Recorded, Newest
<1>2. InOrder(cs \ {c}, wr, hd2, ex)
  <2> SUFFICES ASSUME NEW d \in cs \ {c}, d.to = "screen", d.id # 0, d.id < wr
               PROVE  hd2 >= wr \/ \E e \in cs \ {c} : e.id = wr
    BY DEF InOrder
  <2>1. CASE hd >= wr
    BY <2>1
  <2>2. CASE \E e \in cs : e.id = wr
    <3>1. PICK e \in cs : e.id = wr
      BY <2>2
    <3>2. CASE e # c
      BY <3>1, <3>2
    <3>3. CASE e = c
      <4>1. d.id \in Nat /\ d.id <= c.id
        BY <3>1, <3>3 DEF ScreenAsks
      <4>2. c.to = "screen"
        <5>1. \A x, y \in cs : x.to = "screen" /\ x.id # 0 /\ x.id <= y.id => y.to = "screen"
          BY DEF Numbered
        <5> QED
          BY <4>1, <5>1
      <4> QED
        BY <3>1, <3>3, <4>2
    <3> QED
      BY <3>2, <3>3
  <2> QED
    BY <2>1, <2>2 DEF Recorded, InOrder
<1>3. Believed(cs \ {c}, f, wr, w, ex)
  <2> SUFFICES ASSUME Claims(f) PROVE Believed(cs \ {c}, f, wr, w, ex)
    BY DEF Believed
  <2>1. w = f.claim \/ \E x \in cs : x.id # 0 /\ x.id = wr
    BY DEF Recorded, Believed
  <2>2. w = f.claim \/ \E x \in cs \ {c} : x.id # 0 /\ x.id = wr
    BY <2>1
  <2>3. \A x \in cs : x.id # 0 /\ x.to # "screen" => x.id < wr
    BY DEF Recorded, Believed
  <2> QED
    BY <2>2, <2>3 DEF Believed
<1> QED
  BY <1>1, <1>2, <1>3 DEF Recorded

(* An answer of a creation that its screen takes: the form claims it.      *)
LEMMA TakenRecorded ==
    ASSUME NEW cs \in SUBSET ScreenAsks, NEW f, NEW f2, NEW s \in Nat, NEW wr \in Nat, NEW hd \in Nat,
           NEW w, NEW ex \in BOOLEAN, Numbered(cs, s, wr), Recorded(cs, f, wr, hd, w, ex), NEW c \in cs,
           c.kind \in Creates, HasWritten(c), c.to = "screen", c.id # 0, f2.claim = Claim(c),
           NEW hd2 \in Nat, hd2 = IF c.id > hd THEN c.id ELSE hd,
           NEW ex2 \in BOOLEAN, ex2 <=> ex \/ c.id < hd
    PROVE  Recorded(cs \ {c}, f2, wr, hd2, w, ex2)
<1> SUFFICES ASSUME ~ex2 PROVE Recorded(cs \ {c}, f2, wr, hd2, w, ex2)
  BY DEF Recorded, Newest, InOrder, Believed
<1>0. c.id \in Nat /\ \A x \in cs : x.id \in Nat
  BY DEF ScreenAsks
<1>1. ~ex /\ ~(c.id < hd) /\ c.id <= wr
  BY DEF Numbered
<1>2. Newest(cs \ {c}, wr, w, ex2)
  BY <1>1 DEF Recorded, Newest
<1>3. c.id = wr => w = f2.claim
  BY <1>1 DEF Recorded, Newest, LeftBy
<1>4. c.id < wr => hd >= wr \/ \E e \in cs : e.id = wr
  BY <1>1 DEF Recorded, InOrder
<1>5. c.id < wr => \E e \in cs \ {c} : e.id # 0 /\ e.id = wr
  BY <1>0, <1>1, <1>4
<1>6. \A x \in cs : x.id # 0 /\ x.to # "screen" => x.id < wr
  <2> SUFFICES ASSUME NEW x \in cs, x.id # 0, x.to # "screen" PROVE x.id < wr
    OBVIOUS
  <2>1. ~(c.id <= x.id)
    BY DEF Numbered
  <2> QED
    BY <1>0, <1>1, <2>1
<1>7. Believed(cs \ {c}, f2, wr, w, ex2)
  BY <1>0, <1>1, <1>3, <1>5, <1>6 DEF Believed
<1>8. InOrder(cs \ {c}, wr, hd2, ex2)
  BY <1>0, <1>1, <1>5 DEF InOrder
<1> QED
  BY <1>2, <1>7, <1>8 DEF Recorded

(* A screen that goes takes its calls and its claim along.                 *)
LEMMA UntoldIs ==
    ASSUME NEW c \in ScreenAsks
    PROVE  /\ Untold(c) \in ScreenAsks /\ Untold(c).to # "screen"
           /\ Untold(c).id = c.id /\ Untold(c).kind = c.kind /\ Untold(c).ok = c.ok /\ Untold(c).at = c.at
           /\ Untold(c).phrase = c.phrase /\ Untold(c).password = c.password
           /\ (Untold(c).to = "nobody" <=> c.to = "nobody")
BY DEF Untold, ScreenAsks

LEMMA AwayNumbered ==
    ASSUME NEW cs \in SUBSET ScreenAsks, NEW s, NEW wr, Numbered(cs, s, wr),
           NEW ds \in SUBSET ScreenAsks,
           \A y \in ds : \E x \in cs : y = [x EXCEPT !.to = y.to] /\ y.to # "screen",
           \A x, y \in ds : x.id = y.id => x.to = y.to
    PROVE  Numbered(ds, s, wr)
<1>1. \A y \in ds : \E x \in cs :
         y.to # "screen" /\ y.id = x.id /\ y.kind = x.kind /\ y.phrase = x.phrase /\ y.ok = x.ok /\ y.at = x.at
         /\ y = [x EXCEPT !.to = y.to]
  BY DEF ScreenAsks
<1>2. \A y \in ds : y.id \in 0..s /\ (y.kind = "status" <=> y.id = 0)
  BY <1>1 DEF Numbered
<1>3. \A x, y \in ds : x.id = y.id => x = y
  <2> SUFFICES ASSUME NEW x \in ds, NEW y \in ds, x.id = y.id PROVE x = y
    OBVIOUS
  <2>1. PICK u \in cs : x.id = u.id /\ x = [u EXCEPT !.to = x.to]
    BY <1>1
  <2>2. PICK v \in cs : y.id = v.id /\ y = [v EXCEPT !.to = y.to]
    BY <1>1
  <2>3. \A c, d \in cs : c.id = d.id => c = d
    BY DEF Numbered
  <2>4. u = v
    BY <2>1, <2>2, <2>3
  <2> QED
    BY <2>1, <2>2, <2>4
<1>4. \A y \in ds : y.kind = "import" => y.phrase \in Phrases
  BY <1>1 DEF Numbered
<1>5. \A y \in ds : HasWritten(y) => y.id <= wr /\ (y.kind \in Creates => y.phrase \in Phrases)
  <2> SUFFICES ASSUME NEW y \in ds, HasWritten(y) PROVE y.id <= wr /\ (y.kind \in Creates => y.phrase \in Phrases)
    OBVIOUS
  <2>1. PICK x \in cs : y.id = x.id /\ y.kind = x.kind /\ y.phrase = x.phrase /\ y.ok = x.ok /\ y.at = x.at
    BY <1>1
  <2>2. HasWritten(x)
    BY <2>1 DEF HasWritten
  <2> QED
    BY <2>1, <2>2 DEF Numbered
<1>6. \A y \in ds : y.at \in {"asked", "stored"} => y.ok
  BY <1>1 DEF Numbered
<1> QED
  BY <1>1, <1>2, <1>3, <1>4, <1>5, <1>6 DEF Numbered

LEMMA AwayRecorded ==
    ASSUME NEW cs \in SUBSET ScreenAsks, NEW f, NEW f2, NEW wr, NEW hd, NEW w, NEW ex,
           Recorded(cs, f, wr, hd, w, ex), ~Claims(f2),
           NEW ds \in SUBSET ScreenAsks,
           \A y \in ds : \E x \in cs : y = [x EXCEPT !.to = y.to] /\ y.to # "screen"
    PROVE  Recorded(ds, f2, wr, hd, w, ex)
<1>1. \A y \in ds : \E x \in cs :
         /\ y.to # "screen" /\ y.id = x.id /\ y.kind = x.kind /\ y.phrase = x.phrase /\ y.ok = x.ok /\ y.at = x.at
         /\ y.password = x.password
  BY DEF ScreenAsks
<1>2. Newest(ds, wr, w, ex)
  <2> SUFFICES ASSUME ~ex, NEW y \in ds, y.id # 0, y.id = wr PROVE HasWritten(y) /\ w = LeftBy(y)
    BY DEF Newest
  <2>1. PICK x \in cs : /\ y.id = x.id /\ y.kind = x.kind /\ y.phrase = x.phrase /\ y.ok = x.ok /\ y.at = x.at
                        /\ y.password = x.password
    BY <1>1
  <2>2. HasWritten(x) /\ w = LeftBy(x)
    BY <2>1 DEF Recorded, Newest
  <2> QED
    BY <2>1, <2>2 DEF HasWritten, LeftBy, Claim
<1>3. InOrder(ds, wr, hd, ex)
  BY <1>1 DEF InOrder
<1>4. Believed(ds, f2, wr, w, ex)
  BY DEF Believed
<1> QED
  BY <1>2, <1>3, <1>4 DEF Recorded
LEMMA NewFormIs ==
    ASSUME NEW of \in Screens
    PROVE  NewForm(of) \in ScreenForms /\ NewForm(of).of = of /\ Filled(NewForm(of)) /\ ~Claims(NewForm(of))
<1>1. NoWallet \in Wallets /\ NoWallet.phrase = Absent
  BY DEF NoWallet, Wallets, Words
<1>2. NewForm(of) \in ScreenForms /\ NewForm(of).of = of /\ NewForm(of).claim = NoWallet
      /\ NewForm(of).phrase = Absent
  BY <1>1 DEF NewForm, ScreenForms, Words
<1>3. (of = "create" => NewForm(of).step = "password") /\ (of = "import" => NewForm(of).step = "phrase")
      /\ NewForm(of).step # "success"
  BY DEF NewForm, Screens
<1> QED
  BY <1>1, <1>2, <1>3 DEF Filled, Claims

LEMMA RouterIs ==
    ASSUME NEW r \in Routers
    PROVE  Latched(r) \in BOOLEAN /\ PathOf(r) \in {"start", "create", "import", "unlock"}
           /\ \A p \in {"start", "create", "import", "unlock"} : Screen(r, p) \in Screens
<1>1. r.loading \in BOOLEAN /\ r.has \in BOOLEAN /\ r.unlocked \in BOOLEAN /\ r.latched \in BOOLEAN
      /\ r.path \in {"start", "create", "import", "unlock"}
  BY DEF Routers
<1>2. Latched(r) \in BOOLEAN
  BY <1>1 DEF Latched
<1>3. PathOf(r) \in {"start", "create", "import", "unlock"}
  BY <1>1 DEF PathOf
<1>4. \A p \in {"start", "create", "import", "unlock"} : Screen(r, p) \in Screens
  BY <1>1 DEF Screen, Screens
<1> QED
  BY <1>2, <1>3, <1>4

(* A render leaves the form as it was, or takes it away with its calls.    *)
LEMMA Rendered ==
    ASSUME ScreensTyped, Routed(router, form, marker), Filled(form), NEW r \in Routers,
           r.latched = router.latched, IF r.latched THEN r.path # "unlock" ELSE r.path \in {"start", "unlock"},
           NEW cs \in SUBSET ScreenAsks, RenderRouter(r, marker, form, cs)
    PROVE  /\ router' \in Routers /\ router'.loading = r.loading
           /\ form' \in ScreenForms /\ Filled(form') /\ asks' \in SUBSET ScreenAsks
           /\ marker' \in {marker, "none"} /\ (Latched(r) => marker' = "none")
           /\ Routed(router', form', marker')
           /\ \/ form' = form /\ asks' = cs
              \/ ~Claims(form') /\ asks' = {Untold(c) : c \in cs}
<1> DEFINE atStart == Screen(r, PathOf(r)) = "start"
           path == IF atStart /\ marker # "none" THEN marker ELSE PathOf(r)
           screen == Screen(r, path)
<1>0. router' = [r EXCEPT !.latched = Latched(r), !.path = path]
      /\ marker' = (IF atStart THEN "none" ELSE marker)
      /\ form' = (IF screen = form.of THEN form ELSE NewForm(screen))
      /\ asks' = (IF screen = form.of THEN cs ELSE {Untold(c) : c \in cs})
  BY DEF RenderRouter
<1>1. r.loading \in BOOLEAN /\ r.has \in BOOLEAN /\ r.unlocked \in BOOLEAN /\ r.latched \in BOOLEAN
      /\ r.path \in {"start", "create", "import", "unlock"}
  BY DEF Routers
<1>2. Latched(r) \in BOOLEAN /\ PathOf(r) \in {"start", "create", "import", "unlock"}
      /\ marker \in {"none", "create", "import"}
  BY RouterIs DEF ScreensTyped
<1>3. path \in {"start", "create", "import", "unlock"}
  BY <1>2
<1>4. screen \in Screens
  BY <1>3, RouterIs
<1>5. ~Latched(r) => ~atStart /\ path = PathOf(r) /\ path \in {"start", "unlock"}
  <2>1. ~Latched(r) => Screen(r, PathOf(r)) \in {"spinner", "pages", "unlock"}
    BY <1>1 DEF Screen
  <2>2. ~Latched(r) => PathOf(r) \in {"start", "unlock"}
    BY <1>1 DEF PathOf, Latched
  <2> QED
    BY <2>1, <2>2
<1>6. Latched(r) /\ marker # "none" => atStart
  <2> SUFFICES ASSUME Latched(r), marker # "none" PROVE atStart
    OBVIOUS
  <2>1. ~r.latched /\ ~r.loading /\ r.path \in {"start", "unlock"}
    BY DEF Routed, Latched
  <2>2. PathOf(r) = "start"
    BY <2>1 DEF PathOf
  <2> QED
    BY <2>1, <2>2 DEF Screen
<1> HIDE DEF atStart, path, screen
<1>7. /\ router' \in Routers /\ router'.loading = r.loading /\ router'.latched = Latched(r)
      /\ router'.path = path /\ router'.unlocked = r.unlocked /\ router'.has = r.has
  BY <1>0, <1>2, <1>3 DEF Routers
<1>8. Screen(router', path) = screen /\ (Latched(router') => router'.latched) /\ (router'.latched => path # "unlock")
  <2>1. Latched(router') = Latched(r)
    BY <1>1, <1>7 DEF Latched
  <2>2. Screen(router', path) = screen
    BY <1>7, <2>1 DEF Screen, screen
  <2>3. Latched(r) => path # "unlock"
    BY <1>1, <1>2 DEF path, PathOf, Latched
  <2> QED
    BY <1>7, <2>1, <2>2, <2>3
<1>9. form' \in ScreenForms /\ Filled(form') /\ form'.of = screen
  BY <1>0, <1>4, NewFormIs DEF ScreensTyped
<1>10. asks' \in SUBSET ScreenAsks
  BY <1>0, UntoldIs
<1>11. Routed(router', form', marker')
  BY <1>0, <1>5, <1>6, <1>7, <1>8, <1>9 DEF Routed
<1>12. marker' \in {marker, "none"} /\ (Latched(r) => marker' = "none")
  BY <1>0, <1>6
<1>13. screen = form.of \/ ~Claims(form')
  BY <1>0, <1>4, NewFormIs
<1> QED
  BY <1>0, <1>7, <1>9, <1>10, <1>11, <1>12, <1>13

LEMMA RenderKeeps ==
    ASSUME OnboardingKept, NEW r \in Routers,
           r.latched = router.latched, IF r.latched THEN r.path # "unlock" ELSE r.path \in {"start", "unlock"},
           NEW cs \in SUBSET ScreenAsks, RenderRouter(r, marker, form, cs),
           Numbered(cs, sent, written), FromScreens(cs, r, form),
           Recorded(cs, form, written, heard, wallet, excused),
           MarkedBy(cs, marker) \/ Latched(r),
           UNCHANGED <<wallet, opened, sent, written, heard, excused>>
    PROVE  OnboardingKept'
<1>1. /\ router' \in Routers /\ router'.loading = r.loading
      /\ form' \in ScreenForms /\ Filled(form') /\ asks' \in SUBSET ScreenAsks
      /\ marker' \in {marker, "none"} /\ (Latched(r) => marker' = "none")
      /\ Routed(router', form', marker')
      /\ \/ form' = form /\ asks' = cs
         \/ ~Claims(form') /\ asks' = {Untold(c) : c \in cs}
  BY Rendered DEF OnboardingKept
<1>2. ScreensTyped'
  BY <1>1 DEF OnboardingKept, ScreensTyped
<1>3. MarkedBy(cs, marker')
  BY <1>1 DEF MarkedBy
<1>4. CASE form' = form /\ asks' = cs
  <2>1. FromScreens(asks', router', form')
    BY <1>1, <1>4 DEF FromScreens
  <2>2. Numbered(asks', sent', written') /\ Recorded(asks', form', written', heard', wallet', excused')
        /\ MarkedBy(asks', marker')
    BY <1>3, <1>4
  <2> QED
    BY <1>1, <1>2, <2>1, <2>2 DEF OnboardingKept
<1>5. CASE ~Claims(form') /\ asks' = {Untold(c) : c \in cs}
  <2>1. \A y \in asks' : \E x \in cs : y = Untold(x) /\ y = [x EXCEPT !.to = y.to] /\ y.to # "screen"
           /\ y.id = x.id /\ y.kind = x.kind /\ y.ok = x.ok /\ y.at = x.at /\ (y.to = "nobody" <=> x.to = "nobody")
    BY <1>5, UntoldIs DEF Untold, ScreenAsks
  <2>2. \A x, y \in asks' : x.id = y.id => x.to = y.to
    <3> SUFFICES ASSUME NEW x \in asks', NEW y \in asks', x.id = y.id PROVE x.to = y.to
      OBVIOUS
    <3>1. PICK u \in cs : x = Untold(u) /\ x.id = u.id
      BY <2>1
    <3>2. PICK v \in cs : y = Untold(v) /\ y.id = v.id
      BY <2>1
    <3>3. u = v
      BY <3>1, <3>2 DEF Numbered
    <3> QED
      BY <3>1, <3>2, <3>3
  <2>3. asks' \in SUBSET ScreenAsks
    BY <1>1
  <2>4. Numbered(asks', sent, written)
    BY <2>1, <2>2, <2>3, AwayNumbered
  <2>5. Recorded(asks', form', written, heard, wallet, excused)
    BY <1>5, <2>1, <2>3, AwayRecorded
  <2>6. FromScreens(asks', router', form')
    <3>1. \A x \in cs : x.id # 0 /\ x.to # "nobody" => ~r.loading
      BY DEF FromScreens
    <3> QED
      BY <1>1, <2>1, <3>1 DEF FromScreens
  <2>7. MarkedBy(asks', marker')
    <3> SUFFICES ASSUME marker' # "none" PROVE \E y \in asks' : y.kind = "overwrite" /\ y.to # "nobody" /\ (y.at = "resolves" => ~y.ok)
      BY DEF MarkedBy
    <3>1. PICK x \in cs : x.kind = "overwrite" /\ x.to # "nobody" /\ (x.at = "resolves" => ~x.ok)
      BY <1>3 DEF MarkedBy
    <3>2. Untold(x) \in asks'
      BY <1>5
    <3> QED
      BY <3>1, <3>2, UntoldIs
  <2> QED
    BY <1>1, <1>2, <2>4, <2>5, <2>6, <2>7 DEF OnboardingKept
<1> QED
  BY <1>1, <1>4, <1>5
-----------------------------------------------------------------------------
(* The worker's steps: one call moves on and the popup does not hear of it. *)
LEMMA MoveTyped ==
    ASSUME OnboardingKept, NEW c \in asks, NEW d \in ScreenAsks, Becomes(c, d), Unheard,
           d.id = c.id, d.kind = c.kind, d.to = c.to, d.at # "resolves",
           wallet' \in Wallets, opened' \in Words, written' \in 0..sent, excused' \in BOOLEAN,
           Numbered(asks', sent, written'), Recorded(asks', form, written', heard, wallet', excused')
    PROVE  OnboardingKept'
<1>1. asks' = (asks \ {c}) \cup {d}
  BY DEF Becomes
<1>2. UNCHANGED <<router, form, marker, heard, sent>>
  BY DEF Unheard, counts
<1>3. ScreensTyped'
  BY <1>1, <1>2 DEF OnboardingKept, ScreensTyped
<1>4. FromScreens(asks', router, form)
  BY <1>1 DEF OnboardingKept, FromScreens
<1>5. MarkedBy(asks', marker)
  <2> SUFFICES ASSUME marker # "none"
               PROVE  \E y \in asks' : y.kind = "overwrite" /\ y.to # "nobody" /\ (y.at = "resolves" => ~y.ok)
    BY DEF MarkedBy
  <2>1. PICK x \in asks : x.kind = "overwrite" /\ x.to # "nobody" /\ (x.at = "resolves" => ~x.ok)
    BY DEF OnboardingKept, MarkedBy
  <2>2. CASE x = c
    BY <1>1, <2>1, <2>2
  <2>3. CASE x # c
    BY <1>1, <2>1, <2>3
  <2> QED
    BY <2>2, <2>3
<1> QED
  BY <1>2, <1>3, <1>4, <1>5 DEF OnboardingKept

LEMMA QuietMove ==
    ASSUME OnboardingKept, NEW c \in asks, NEW d \in ScreenAsks, Becomes(c, d), Unheard,
           d.id = c.id, d.kind = c.kind, d.to = c.to, d.at # "resolves",
           d.phrase = c.phrase, d.password = c.password,
           HasWritten(d) <=> HasWritten(c), d.at \in {"asked", "stored"} => d.ok,
           UNCHANGED <<wallet, written, excused>>, opened' \in Words
    PROVE  OnboardingKept'
<1>1. asks' = (asks \ {c}) \cup {d}
  BY DEF Becomes
<1>2. /\ asks \in SUBSET ScreenAsks /\ sent \in Nat /\ written \in 0..sent /\ written \in Nat /\ heard \in Nat
      /\ excused \in BOOLEAN /\ Numbered(asks, sent, written)
      /\ Recorded(asks, form, written, heard, wallet, excused) /\ wallet \in Wallets
  BY DEF OnboardingKept, ScreensTyped
<1>3. d.kind = "import" => d.phrase \in Phrases
  BY <1>2 DEF Numbered
<1>4. HasWritten(d) => d.id <= written /\ (d.kind \in Creates => d.phrase \in Phrases)
  BY <1>2 DEF Numbered
<1>5. Numbered(asks', sent, written)
  BY <1>1, <1>2, <1>3, <1>4, MovedNumbered
<1>6. Recorded(asks', form, written, heard, wallet, excused)
  BY <1>1, <1>2, MovedRecorded
<1> QED
  BY <1>2, <1>5, <1>6, MoveTyped

LEMMA WritingMove ==
    ASSUME OnboardingKept, NEW c \in asks, NEW d \in ScreenAsks, Becomes(c, d), Unheard, Wrote(c),
           d.id = c.id, d.kind = c.kind, d.to = c.to, d.at # "resolves", c.kind # "status",
           ~HasWritten(c), HasWritten(d), d.at \in {"asked", "stored"} => d.ok,
           d.kind \in Creates => d.phrase \in Phrases, wallet' = LeftBy(d), wallet' \in Wallets, opened' \in Words
    PROVE  OnboardingKept'
<1>1. asks' = (asks \ {c}) \cup {d}
  BY DEF Becomes
<1>2. /\ asks \in SUBSET ScreenAsks /\ sent \in Nat /\ written \in 0..sent /\ written \in Nat /\ heard \in Nat
      /\ excused \in BOOLEAN /\ Numbered(asks, sent, written)
      /\ Recorded(asks, form, written, heard, wallet, excused)
  BY DEF OnboardingKept, ScreensTyped
<1>3. written' = (IF c.id > written THEN c.id ELSE written) /\ excused' = (excused \/ c.id < written)
  BY DEF Wrote
<1>4. c.id \in 0..sent /\ c.id # 0
  BY <1>2 DEF Numbered
<1>5. written' \in 0..sent /\ written' \in Nat /\ written <= written' /\ c.id <= written' /\ excused' \in BOOLEAN
  BY <1>2, <1>3, <1>4
<1>6. d.kind = "import" => d.phrase \in Phrases
  BY DEF Creates
<1>7. Numbered(asks', sent, written')
  BY <1>1, <1>2, <1>5, <1>6, MovedNumbered
<1>8. Recorded(asks', form, written', heard, wallet', excused')
  <2>1. Recorded((asks \ {c}) \cup {d}, form, written', heard, wallet', excused')
    <3>1. PICK W \in Nat, X \in BOOLEAN : W = written' /\ X = excused'
      BY <1>5
    <3>2. W = (IF c.id > written THEN c.id ELSE written) /\ (X <=> excused \/ c.id < written)
      BY <1>3, <3>1
    <3>3. Recorded((asks \ {c}) \cup {d}, form, W, heard, LeftBy(d), X)
      BY <1>2, <1>4, <3>2, WroteRecorded
    <3> QED
      BY <3>1, <3>3
  <2> QED
    BY <1>1, <2>1
<1> QED
  BY <1>5, <1>7, <1>8, MoveTyped

LEMMA AskTypes ==
    ASSUME NEW c \in ScreenAsks
    PROVE  /\ c.ok \in BOOLEAN /\ c.phrase \in Words /\ c.password \in Passcodes \cup {Absent} /\ c.id \in Nat
           /\ c.kind \in {"create", "import", "reset", "overwrite", "unlock", "status"}
           /\ c.at \in {"asked", "stored", "answered", "resolves"} /\ c.to \in {"screen", "popup", "nobody"}
           /\ c.has \in BOOLEAN /\ c.unlocked \in BOOLEAN
BY DEF ScreenAsks

LEMMA MovedAsk ==
    ASSUME NEW c \in ScreenAsks, NEW p \in Words, NEW a \in {"asked", "stored", "answered", "resolves"},
           NEW o \in BOOLEAN, NEW u \in BOOLEAN
    PROVE  /\ [c EXCEPT !.at = a, !.ok = o] \in ScreenAsks
           /\ [c EXCEPT !.phrase = p, !.at = a] \in ScreenAsks
           /\ [c EXCEPT !.at = a, !.unlocked = u] \in ScreenAsks
           /\ [c EXCEPT !.at = a] \in ScreenAsks
BY DEF ScreenAsks

LEMMA WorkerKeeps ==
    ASSUME OnboardingKept, WorkerNext PROVE OnboardingKept'
<1>0. asks \in SUBSET ScreenAsks /\ opened \in Words /\ wallet \in Wallets /\ Numbered(asks, sent, written)
  BY DEF OnboardingKept, ScreensTyped
<1>1. ASSUME NEW c \in asks, Stores(c) PROVE OnboardingKept'
  <2>1. PICK p \in Phrases : /\ wallet' = [phrase |-> p, password |-> c.password]
                             /\ Becomes(c, [c EXCEPT !.phrase = p, !.at = "stored"])
    BY <1>1 DEF Stores
  <2>2. PICK d : d = [c EXCEPT !.phrase = p, !.at = "stored"]
    OBVIOUS
  <2>3. c \in ScreenAsks /\ p \in Words
    BY <1>0 DEF Words
  <2>4. d \in ScreenAsks
    BY <2>2, <2>3, MovedAsk
  <2>5. /\ d.id = c.id /\ d.kind = c.kind /\ d.to = c.to /\ d.at = "stored" /\ d.phrase = p
        /\ d.password = c.password /\ d.ok = c.ok
    BY <2>2, <2>3 DEF ScreenAsks
  <2>6. c.kind \in Creates /\ c.at = "asked" /\ c.kind # "status" /\ Wrote(c) /\ opened' = opened /\ Unheard /\ c.ok
    BY <1>0, <1>1 DEF Stores, Creates, Numbered
  <2>7. ~HasWritten(c) /\ HasWritten(d)
    BY <2>5, <2>6 DEF HasWritten, Creates, Resets
  <2>8. wallet' = LeftBy(d) /\ wallet' \in Wallets
    BY <2>1, <2>3, <2>5, <2>6, AskTypes DEF LeftBy, Claim, Wallets
  <2> QED
    BY <1>0, <2>1, <2>2, <2>4, <2>5, <2>6, <2>7, <2>8, WritingMove
<1>2. ASSUME NEW c \in asks, Erases(c) PROVE OnboardingKept'
  <2>1. PICK d : d = [c EXCEPT !.at = "answered"]
    OBVIOUS
  <2>2. d \in ScreenAsks
    BY <1>0, <2>1, MovedAsk DEF Words
  <2>3. d.id = c.id /\ d.kind = c.kind /\ d.to = c.to /\ d.at = "answered" /\ d.ok = c.ok
    BY <1>0, <2>1 DEF ScreenAsks
  <2>4. /\ c.kind \in Resets /\ c.at = "stored" /\ c.kind # "status" /\ c.kind \notin Creates /\ Wrote(c)
        /\ opened' = opened /\ Unheard /\ c.ok /\ wallet' = NoWallet /\ Becomes(c, d)
    BY <1>0, <1>2, <2>1 DEF Erases, Creates, Resets, Numbered
  <2>5. ~HasWritten(c) /\ HasWritten(d)
    BY <2>3, <2>4 DEF HasWritten
  <2>6. wallet' = LeftBy(d) /\ wallet' \in Wallets
    BY <2>3, <2>4 DEF LeftBy, NoWallet, Wallets, Words
  <2> QED
    BY <1>0, <2>2, <2>3, <2>4, <2>5, <2>6, WritingMove
<1>3. ASSUME NEW c \in asks, c.at \in {"asked", "stored"}, NEW a \in {"stored", "answered"}, NEW o \in BOOLEAN, Becomes(c, [c EXCEPT !.at = a, !.ok = o]),
             Unheard, UNCHANGED <<wallet, written, excused>>, opened' \in Words,
             o = c.ok \/ (~o /\ a = "answered" /\ c.at = "asked"),
             \/ c.kind \in Creates /\ (c.at = "asked" => ~o)
             \/ c.kind \in Resets /\ c.at = "asked" /\ a = "stored"
             \/ c.kind \notin Creates \cup Resets
      PROVE  OnboardingKept'
  <2>1. PICK d : d = [c EXCEPT !.at = a, !.ok = o]
    OBVIOUS
  <2>2. d \in ScreenAsks
    BY <1>0, <2>1, MovedAsk DEF Words
  <2>3. d.id = c.id /\ d.kind = c.kind /\ d.to = c.to /\ d.at = a /\ d.ok = o /\ d.phrase = c.phrase /\ d.password = c.password
    BY <1>0, <2>1 DEF ScreenAsks
  <2>4. HasWritten(d) <=> HasWritten(c)
    <3>1. CASE c.kind \in Creates
      BY <1>3, <2>3, <3>1 DEF HasWritten, Creates, Resets
    <3>2. CASE c.kind \in Resets /\ c.at = "asked" /\ a = "stored"
      BY <2>3, <3>2 DEF HasWritten, Creates, Resets
    <3>3. CASE c.kind \notin Creates \cup Resets
      BY <2>3, <3>3 DEF HasWritten
    <3> QED
      BY <1>3, <3>1, <3>2, <3>3
  <2>5. d.at \in {"asked", "stored"} => d.ok
    <3>1. c.at = "asked" => c.ok
      BY <1>0 DEF Numbered
    <3>2. c.at = "stored" => c.ok
      BY <1>0 DEF Numbered
    <3>3. a = "stored" => o = c.ok
      BY <1>3
    <3> QED
      BY <1>3, <2>3, <3>1, <3>2, <3>3
  <2> QED
    BY <1>3, <2>1, <2>2, <2>3, <2>4, <2>5, QuietMove
<1>4. ASSUME NEW c \in asks, OpensSession(c) PROVE OnboardingKept'
  <2>1. /\ Becomes(c, [c EXCEPT !.at = "answered"]) /\ Unheard /\ UNCHANGED <<wallet, written, excused>>
        /\ opened' = c.phrase /\ c.kind \in Creates /\ c.at = "stored"
    BY <1>4 DEF OpensSession
  <2>2. [c EXCEPT !.at = "answered"] = [c EXCEPT !.at = "answered", !.ok = c.ok] /\ c.ok \in BOOLEAN /\ c.phrase \in Words
    BY <1>0 DEF ScreenAsks
  <2> QED
    BY <2>1, <2>2, <1>3
<1>5. ASSUME NEW c \in asks, RefusesPhrase(c) PROVE OnboardingKept'
  <2>1. /\ Becomes(c, [c EXCEPT !.at = "answered", !.ok = FALSE]) /\ Unheard /\ UNCHANGED <<wallet, written, excused>>
        /\ opened' = opened /\ c.kind \in Creates /\ c.at = "asked"
    BY <1>5 DEF RefusesPhrase, worker, Creates
  <2> QED
    BY <1>0, <2>1, <1>3
<1>6. ASSUME NEW c \in asks, EndsSession(c) PROVE OnboardingKept'
  <2>1. /\ Becomes(c, [c EXCEPT !.at = "stored"]) /\ Unheard /\ UNCHANGED <<wallet, written, excused>>
        /\ opened' = Absent /\ c.kind \in Resets /\ c.at = "asked"
    BY <1>6 DEF EndsSession
  <2>2. [c EXCEPT !.at = "stored"] = [c EXCEPT !.at = "stored", !.ok = c.ok] /\ c.ok \in BOOLEAN /\ Absent \in Words
    BY <1>0 DEF ScreenAsks, Words
  <2> QED
    BY <2>1, <2>2, <1>3
<1>7. ASSUME NEW c \in asks, Unlocks(c) PROVE OnboardingKept'
  <2>1. /\ Unheard /\ UNCHANGED <<wallet, written, excused>> /\ c.kind \notin Creates \cup Resets /\ c.at = "asked"
    BY <1>7 DEF Unlocks, Creates, Resets
  <2>2. CASE opened' = wallet.phrase /\ Becomes(c, [c EXCEPT !.at = "answered"])
    <3>1. [c EXCEPT !.at = "answered"] = [c EXCEPT !.at = "answered", !.ok = c.ok] /\ c.ok \in BOOLEAN
          /\ wallet.phrase \in Words
      BY <1>0 DEF ScreenAsks, Wallets
    <3> QED
      BY <2>1, <2>2, <3>1, <1>3
  <2>3. CASE UNCHANGED opened /\ Becomes(c, [c EXCEPT !.at = "answered", !.ok = FALSE])
    BY <1>0, <2>1, <2>3, <1>3
  <2> QED
    BY <1>7, <2>2, <2>3 DEF Unlocks
<1>8. ASSUME NEW c \in asks, ReadsSession(c) PROVE OnboardingKept'
  <2>1. PICK d : d = [c EXCEPT !.at = "answered", !.unlocked = opened # Absent]
    OBVIOUS
  <2>2. d \in ScreenAsks
    BY <1>0, <2>1, MovedAsk DEF Words
  <2>3. /\ d.id = c.id /\ d.kind = c.kind /\ d.to = c.to /\ d.at = "answered" /\ d.ok = c.ok /\ d.phrase = c.phrase
        /\ d.password = c.password
    BY <1>0, <2>1 DEF ScreenAsks
  <2>4. Becomes(c, d) /\ Unheard /\ UNCHANGED <<wallet, written, excused>> /\ opened' = opened /\ c.kind = "status"
    BY <1>8, <2>1 DEF ReadsSession, worker
  <2>5. ~HasWritten(c) /\ ~HasWritten(d)
    BY <2>3, <2>4 DEF HasWritten, Creates, Resets
  <2> QED
    BY <1>0, <2>2, <2>3, <2>4, <2>5, QuietMove
<1> QED
  BY <1>1, <1>2, <1>4, <1>5, <1>6, <1>7, <1>8 DEF WorkerNext
-----------------------------------------------------------------------------
(* The answers.                                                            *)
LEMMA SameClaim ==
    ASSUME NEW cs, NEW f, NEW f2, f2.claim = f.claim, NEW wr, NEW hd, NEW w, NEW ex, NEW ex2, ex => ex2,
           Recorded(cs, f, wr, hd, w, ex)
    PROVE  Recorded(cs, f2, wr, hd, w, ex2)
BY DEF Recorded, Newest, InOrder, Believed, Claims

LEMMA StatusIs == ASSUME ScreensTyped PROVE
    /\ Status \in ScreenAsks /\ Status.id = 0 /\ Status.kind = "status" /\ Status.ok /\ Status.at = "stored"
<1>1. (wallet # NoWallet) \in BOOLEAN
  OBVIOUS
<1>2. NewAsk("status", Absent, Absent) \in ScreenAsks /\ NewAsk("status", Absent, Absent).kind = "status"
      /\ NewAsk("status", Absent, Absent).ok
  BY DEF NewAsk, ScreenAsks, ScreensTyped, Words
<1> QED
  BY <1>1, <1>2 DEF Status, ScreenAsks

LEMMA GoneStatus ==
    ASSUME OnboardingKept, NEW c \in asks, c.kind = "status"
    PROVE  /\ Numbered(asks \ {c}, sent, written)
           /\ Recorded(asks \ {c}, form, written, heard, wallet, excused)
           /\ MarkedBy(asks \ {c}, marker)
<1>1. /\ asks \in SUBSET ScreenAsks /\ sent \in Nat /\ written \in Nat /\ heard \in Nat
      /\ excused \in BOOLEAN /\ Numbered(asks, sent, written)
      /\ Recorded(asks, form, written, heard, wallet, excused)
  BY DEF OnboardingKept, ScreensTyped
<1>2. c.id = 0 /\ heard >= heard /\ heard >= c.id
  BY <1>1 DEF Numbered
<1>3. Recorded(asks \ {c}, form, written, heard, wallet, excused)
  BY <1>1, <1>2, GoneRecorded
<1>4. Numbered(asks \ {c}, sent, written)
  BY <1>1, GoneNumbered
<1>5. MarkedBy(asks \ {c}, marker)
  BY DEF OnboardingKept, MarkedBy
<1> QED
  BY <1>3, <1>4, <1>5

(* The calls change and nothing else does.                                 *)
LEMMA OnlyAsks ==
    ASSUME OnboardingKept, asks' \in SUBSET ScreenAsks, Numbered(asks', sent, written),
           Recorded(asks', form, written, heard, wallet, excused), MarkedBy(asks', marker),
           FromScreens(asks', router, form),
           UNCHANGED <<wallet, opened, written, router, form, marker, sent, heard, excused>>
    PROVE  OnboardingKept'
BY DEF OnboardingKept, ScreensTyped

LEMMA StatusArrivesKeeps ==
    ASSUME OnboardingKept, NEW c \in asks, StatusArrives(c) PROVE OnboardingKept'
<1>1. /\ c.kind = "status" /\ UNCHANGED <<wallet, opened, written, sent, heard, excused>>
      /\ asks \in SUBSET ScreenAsks /\ c \in ScreenAsks /\ router \in Routers
  BY DEF StatusArrives, worker, counts, OnboardingKept, ScreensTyped
<1>2. /\ Numbered(asks \ {c}, sent, written)
      /\ Recorded(asks \ {c}, form, written, heard, wallet, excused)
      /\ MarkedBy(asks \ {c}, marker)
  BY <1>1, GoneStatus
<1>3. CASE c.ok
  <2>1. PICK r : r = [router EXCEPT !.loading = FALSE, !.has = c.has, !.unlocked = c.unlocked]
    OBVIOUS
  <2>2. r \in Routers /\ ~r.loading /\ r.latched = router.latched /\ r.path = router.path
    BY <1>1, <2>1, AskTypes DEF Routers
  <2>3. RenderRouter(r, marker, form, asks \ {c})
    BY <1>3, <2>1 DEF StatusArrives
  <2>4. IF r.latched THEN r.path # "unlock" ELSE r.path \in {"start", "unlock"}
    BY <2>2 DEF OnboardingKept, Routed
  <2>5. FromScreens(asks \ {c}, r, form)
    BY <2>2 DEF OnboardingKept, FromScreens
  <2> QED
    BY <1>1, <1>2, <2>2, <2>3, <2>4, <2>5, RenderKeeps
<1>4. CASE ~c.ok
  <2>1. asks' = asks \ {c} /\ UNCHANGED <<router, marker, form>>
    BY <1>4 DEF StatusArrives
  <2>2. FromScreens(asks', router, form)
    BY <2>1 DEF OnboardingKept, FromScreens
  <2> QED
    BY <1>1, <1>2, <2>1, <2>2, OnlyAsks
<1> QED
  BY <1>3, <1>4

LEMMA StatusSetKeeps ==
    ASSUME OnboardingKept, NEW c \in asks, StatusSet(c) PROVE OnboardingKept'
<1>1. /\ c.kind # "status" /\ c.at = "answered" /\ c.to # "nobody"
      /\ UNCHANGED <<wallet, opened, written, sent, heard, excused>>
      /\ asks \in SUBSET ScreenAsks /\ c \in ScreenAsks /\ router \in Routers
      /\ sent \in Nat /\ written \in Nat /\ heard \in Nat /\ excused \in BOOLEAN
      /\ Numbered(asks, sent, written) /\ Recorded(asks, form, written, heard, wallet, excused)
  BY DEF StatusSet, worker, counts, OnboardingKept, ScreensTyped
<1>2. PICK d : d = [c EXCEPT !.at = "resolves"]
  OBVIOUS
<1>3. /\ d \in ScreenAsks /\ d.id = c.id /\ d.kind = c.kind /\ d.to = c.to /\ d.at = "resolves" /\ d.ok = c.ok
      /\ d.phrase = c.phrase /\ d.password = c.password
  BY <1>1, <1>2 DEF ScreenAsks
<1> DEFINE rest == (asks \ {c}) \cup {d}
<1>4. HasWritten(d) <=> HasWritten(c)
  BY <1>1, <1>3 DEF HasWritten
<1>5. rest \in SUBSET ScreenAsks /\ c.id # 0 /\ ~router.loading
  BY <1>1, <1>3 DEF Numbered, OnboardingKept, FromScreens
<1>6. Numbered(rest, sent, written)
  <2>1. d.kind = "import" => d.phrase \in Phrases
    BY <1>1, <1>3 DEF Numbered
  <2>2. HasWritten(d) => d.id <= written /\ (d.kind \in Creates => d.phrase \in Phrases)
    BY <1>1, <1>3, <1>4 DEF Numbered
  <2>3. written <= written
    BY <1>1
  <2> QED
    BY <1>1, <1>3, <2>1, <2>2, <2>3, MovedNumbered
<1>7. Recorded(rest, form, written, heard, wallet, excused)
  BY <1>1, <1>3, <1>4, MovedRecorded
<1>8. MarkedBy(rest, marker) \/ (c.kind = "overwrite" /\ c.ok)
  <2> SUFFICES ASSUME ~(c.kind = "overwrite" /\ c.ok), marker # "none"
               PROVE  \E y \in rest : y.kind = "overwrite" /\ y.to # "nobody" /\ (y.at = "resolves" => ~y.ok)
    BY DEF MarkedBy
  <2>1. PICK x \in asks : x.kind = "overwrite" /\ x.to # "nobody" /\ (x.at = "resolves" => ~x.ok)
    BY DEF OnboardingKept, MarkedBy
  <2>2. CASE x = c
    BY <1>3, <2>1, <2>2
  <2>3. CASE x # c
    BY <2>1, <2>3
  <2> QED
    BY <2>2, <2>3
<1>9. \A x \in rest : x.id # 0 => (x.to = "screen" => form.of = ScreenFor(x.kind))
  BY <1>3 DEF OnboardingKept, FromScreens
<1>10. CASE c.ok
  <2>1. PICK r : r = [router EXCEPT !.has = IF c.kind = "unlock" THEN router.has ELSE c.kind \notin Resets,
                                    !.unlocked = c.kind \notin Resets]
    OBVIOUS
  <2>2. (c.kind \notin Resets) \in BOOLEAN /\ router.has \in BOOLEAN
    BY <1>1 DEF Routers
  <2>3. /\ r \in Routers /\ ~r.loading /\ r.latched = router.latched /\ r.path = router.path
        /\ (c.kind = "overwrite" => ~r.has)
    BY <1>1, <1>5, <2>1, <2>2 DEF Routers, Resets
  <2>4. RenderRouter(r, marker, form, rest)
    BY <1>2, <1>10, <2>1 DEF StatusSet
  <2>5. IF r.latched THEN r.path # "unlock" ELSE r.path \in {"start", "unlock"}
    BY <2>3 DEF OnboardingKept, Routed
  <2>6. FromScreens(rest, r, form)
    BY <1>9, <2>3 DEF FromScreens
  <2>7. MarkedBy(rest, marker) \/ Latched(r)
    BY <1>8, <2>3 DEF Latched
  <2> QED
    BY <1>1, <1>5, <1>6, <1>7, <2>3, <2>4, <2>5, <2>6, <2>7, RenderKeeps
<1>11. CASE ~c.ok
  <2>1. /\ asks' = rest \cup (IF c.kind = "unlock" /\ \A x \in asks : x.kind # "status" THEN {Status} ELSE {})
        /\ UNCHANGED <<router, marker, form>>
    BY <1>2, <1>11 DEF StatusSet
  <2>2. MarkedBy(rest, marker)
    BY <1>8, <1>11
  <2>3. FromScreens(rest, router, form)
    BY <1>5, <1>9 DEF FromScreens
  <2>4. CASE asks' = rest
    BY <1>1, <1>5, <1>6, <1>7, <2>1, <2>2, <2>3, <2>4, OnlyAsks
  <2>5. CASE asks' = rest \cup {Status} /\ \A x \in asks : x.kind # "status"
    <3>1. /\ Status \in ScreenAsks /\ Status.id = 0 /\ Status.kind = "status" /\ Status.ok
          /\ \A x \in rest : x.kind # "status"
      BY <1>1, <1>3, <2>5, StatusIs DEF OnboardingKept
    <3>2. PICK st : st = Status
      OBVIOUS
    <3>3. Recorded(rest \cup {st}, form, written, heard, wallet, excused) /\ Numbered(rest \cup {st}, sent, written)
      BY <1>1, <1>5, <1>6, <1>7, <3>1, <3>2, StatusAdded
    <3>4. MarkedBy(rest \cup {st}, marker)
      BY <2>2 DEF MarkedBy
    <3>5. FromScreens(rest \cup {st}, router, form)
      BY <2>3, <3>1, <3>2 DEF FromScreens
    <3>6. asks' = rest \cup {st} /\ asks' \in SUBSET ScreenAsks
      BY <1>5, <2>5, <3>1, <3>2
    <3> QED
      BY <1>1, <2>1, <3>3, <3>4, <3>5, <3>6, OnlyAsks
  <2> QED
    BY <2>1, <2>4, <2>5
<1> QED
  BY <1>1, <1>10, <1>11, AskTypes
LEMMA ResolvesKeeps ==
    ASSUME OnboardingKept, NEW c \in asks, NEW f \in ScreenForms, Resolves(c, f), c.kind # "status",
           f.of = form.of, Filled(f),
           \/ f.claim = form.claim /\ ~(c.to = "screen" /\ c.ok /\ c.kind \in Creates)
           \/ f.claim = Claim(c) /\ c.to = "screen" /\ c.ok /\ c.kind \in Creates
           \/ c.to # "screen"
    PROVE  OnboardingKept'
<1>1. /\ c.at = "resolves" /\ asks' = asks \ {c} /\ form' = (IF c.to = "screen" THEN f ELSE form)
      /\ marker' = (IF CleansUp(c) THEN "none" ELSE marker)
      /\ heard' = (IF c.id > heard THEN c.id ELSE heard)
      /\ excused' = (excused \/ (c.to = "screen" /\ c.id < heard))
      /\ UNCHANGED <<wallet, opened, written, router, sent>>
  BY DEF Resolves, worker, counts
<1>2. /\ asks \in SUBSET ScreenAsks /\ c \in ScreenAsks /\ sent \in Nat /\ written \in Nat /\ heard \in Nat
      /\ excused \in BOOLEAN /\ heard \in 0..sent
      /\ Numbered(asks, sent, written) /\ Recorded(asks, form, written, heard, wallet, excused)
  BY DEF OnboardingKept, ScreensTyped
<1>3. c.id \in 0..sent /\ c.id # 0
  BY <1>2 DEF Numbered
<1>4. heard' \in 0..sent /\ heard' \in Nat /\ heard' >= heard /\ heard' >= c.id /\ excused' \in BOOLEAN
  BY <1>1, <1>2, <1>3
<1>5. form' \in ScreenForms /\ form'.of = form.of /\ Filled(form')
  BY <1>1 DEF OnboardingKept, ScreensTyped
<1>6. marker' \in {marker, "none"}
  BY <1>1
<1>7. ScreensTyped'
  BY <1>1, <1>2, <1>4, <1>5, <1>6 DEF OnboardingKept, ScreensTyped
<1>8. Routed(router', form', marker')
  BY <1>1, <1>5, <1>6 DEF OnboardingKept, Routed
<1>9. Numbered(asks', sent', written')
  BY <1>1, <1>2, GoneNumbered
<1>10. FromScreens(asks', router', form')
  BY <1>1, <1>5 DEF OnboardingKept, FromScreens
<1>11. MarkedBy(asks', marker')
  <2> SUFFICES ASSUME marker' # "none"
               PROVE  \E y \in asks' : y.kind = "overwrite" /\ y.to # "nobody" /\ (y.at = "resolves" => ~y.ok)
    BY DEF MarkedBy
  <2>1. ~CleansUp(c) /\ marker # "none"
    BY <1>1
  <2>2. PICK x \in asks : x.kind = "overwrite" /\ x.to # "nobody" /\ (x.at = "resolves" => ~x.ok)
    BY <2>1 DEF OnboardingKept, MarkedBy
  <2>3. x # c
    BY <1>1, <2>1, <2>2 DEF CleansUp
  <2> QED
    BY <1>1, <2>2, <2>3
<1>12. Recorded(asks', form', written', heard', wallet', excused')
  <2>1. CASE c.to = "screen" /\ c.ok /\ c.kind \in Creates
    <3>1. f.claim = Claim(c) /\ form' = f
      BY <1>1, <2>1
    <3>2. HasWritten(c)
      BY <1>1, <2>1 DEF HasWritten
    <3>3. PICK hd \in Nat, ex \in BOOLEAN : hd = heard' /\ ex = excused'
      BY <1>4
    <3>4. hd = (IF c.id > heard THEN c.id ELSE heard) /\ (ex <=> excused \/ c.id < heard)
      BY <1>1, <2>1, <3>3
    <3>5. Recorded(asks \ {c}, f, written, hd, wallet, ex)
      BY <1>2, <1>3, <2>1, <3>1, <3>2, <3>4, TakenRecorded
    <3> QED
      BY <1>1, <3>1, <3>3, <3>5
  <2>2. CASE ~(c.to = "screen" /\ c.ok /\ c.kind \in Creates)
    <3>1. form'.claim = form.claim
      BY <1>1, <2>2
    <3>2. ~excused /\ c.id = written => ~Claims(form)
      <4> SUFFICES ASSUME ~excused, c.id = written, Claims(form) PROVE FALSE
        OBVIOUS
      <4>1. HasWritten(c)
        BY <1>2, <1>3 DEF Recorded, Newest
      <4>2. c.to = "screen"
        BY <1>2, <1>3 DEF Recorded, Believed
      <4>3. c.kind \in Resets /\ c.kind \notin Creates
        BY <2>2, <4>1, <4>2 DEF HasWritten, Resets, Creates
      <4>4. form.of = "unlock"
        BY <1>3, <4>2, <4>3 DEF OnboardingKept, FromScreens, ScreenFor
      <4>5. form.of \in Creates
        BY DEF OnboardingKept, Filled
      <4> QED
        BY <4>4, <4>5 DEF Creates
    <3>3. PICK hd \in Nat : hd = heard'
      BY <1>4
    <3>4. Recorded(asks \ {c}, form, written, hd, wallet, excused)
      BY <1>2, <1>4, <3>2, <3>3, GoneRecorded
    <3>5. PICK f2, ex2 : f2 = form' /\ ex2 = excused'
      OBVIOUS
    <3>6. f2.claim = form.claim /\ (excused => ex2)
      BY <1>1, <3>1, <3>5
    <3>7. Recorded(asks \ {c}, f2, written, hd, wallet, ex2)
      BY <3>4, <3>6, SameClaim
    <3> QED
      BY <1>1, <3>3, <3>5, <3>7
  <2> QED
    BY <2>1, <2>2
<1> QED
  BY <1>5, <1>7, <1>8, <1>9, <1>10, <1>11, <1>12 DEF OnboardingKept

LEMMA AnsweredToNobodyKeeps ==
    ASSUME OnboardingKept, NEW c \in asks, AnsweredToNobody(c) PROVE OnboardingKept'
<1>1. /\ c.to = "nobody" /\ asks' = asks \ {c}
      /\ UNCHANGED <<wallet, opened, written, router, form, marker, sent, heard, excused>>
  BY DEF AnsweredToNobody, worker, counts
<1>2. /\ asks \in SUBSET ScreenAsks /\ sent \in Nat /\ written \in Nat /\ heard \in Nat
      /\ excused \in BOOLEAN /\ heard >= heard /\ c \in ScreenAsks
      /\ Numbered(asks, sent, written) /\ Recorded(asks, form, written, heard, wallet, excused)
  BY DEF OnboardingKept, ScreensTyped
<1>3. Numbered(asks', sent, written)
  BY <1>1, <1>2, GoneNumbered
<1>4. ~excused /\ c.id = written /\ c.id # 0 => ~Claims(form)
  <2> SUFFICES ASSUME ~excused, c.id = written, c.id # 0, Claims(form) PROVE FALSE
    OBVIOUS
  <2>1. c.id < written
    BY <1>1, <1>2 DEF Recorded, Believed
  <2> QED
    BY <1>2, <2>1
<1>5. Recorded(asks \ {c}, form, written, heard, wallet, excused)
  BY <1>1, <1>2, <1>4, GoneRecorded
<1>6. MarkedBy(asks', marker)
  BY <1>1 DEF OnboardingKept, MarkedBy
<1>7. FromScreens(asks', router, form)
  BY <1>1 DEF OnboardingKept, FromScreens
<1> QED
  BY <1>1, <1>2, <1>3, <1>5, <1>6, <1>7, OnlyAsks

LEMMA FormIs ==
    ASSUME OnboardingKept
    PROVE  /\ form \in ScreenForms /\ form.of \in Screens /\ form.phrase \in Words /\ form.claim \in Wallets
           /\ form.revealed \in BOOLEAN /\ form.busy \in BOOLEAN /\ form.pending \in {"create", "import"}
           /\ Filled(form)
BY DEF OnboardingKept, ScreensTyped, ScreenForms

(* What follows an answer in the screen that asked.                        *)
LEMMA AnswersKeep ==
    ASSUME OnboardingKept, AnswersNext PROVE OnboardingKept'
<1>0. asks \in SUBSET ScreenAsks
  BY DEF OnboardingKept, ScreensTyped
<1>1. ASSUME NEW c \in asks, c.kind \in Creates, c.to = "screen", c.ok, c.at = "resolves"
      PROVE  /\ Claim(c) \in Wallets /\ Claim(c).phrase = c.phrase /\ c.phrase \in Phrases /\ c.phrase # Absent
             /\ form.of = c.kind
  <2>1. HasWritten(c)
    BY <1>1 DEF HasWritten
  <2>2. c.phrase \in Phrases
    BY <1>1, <2>1 DEF OnboardingKept, Numbered
  <2>3. Claim(c) \in Wallets /\ Claim(c).phrase = c.phrase
    BY <1>0, AskTypes DEF Claim, Wallets
  <2>4. c.phrase # Absent
    BY <2>2, OnboardingAssumption
  <2>5. c.id # 0
    BY <1>1 DEF OnboardingKept, Numbered, Creates
  <2>6. form.of = c.kind
    BY <1>1, <2>5 DEF OnboardingKept, FromScreens, ScreenFor
  <2> QED
    BY <2>2, <2>3, <2>4, <2>6
<1>2. ASSUME NEW c \in asks, c.kind = "create", Resolves(c, WalletCreated(c)) PROVE OnboardingKept'
  <2>1. CASE c.to = "screen" /\ c.ok
    <3>1. c.at = "resolves"
      BY <1>2 DEF Resolves
    <3>2. /\ Claim(c) \in Wallets /\ Claim(c).phrase = c.phrase /\ c.phrase \in Words /\ c.phrase # Absent
          /\ form.of = "create"
      BY <1>1, <1>2, <2>1, <3>1 DEF Creates, Words
    <3>3. PICK f : f = [form EXCEPT !.phrase = c.phrase, !.claim = Claim(c), !.step = "mnemonic"]
      OBVIOUS
    <3>4. f \in ScreenForms /\ f.of = form.of /\ f.claim = Claim(c) /\ f.phrase = c.phrase /\ f.step = "mnemonic"
      BY <3>2, <3>3, FormIs DEF ScreenForms
    <3>5. Filled(f)
      BY <3>2, <3>4 DEF Filled, Claims, Creates
    <3>6. Resolves(c, f)
      BY <1>2, <2>1, <3>3 DEF WalletCreated
    <3> QED
      BY <1>2, <2>1, <3>4, <3>5, <3>6, ResolvesKeeps DEF Creates
  <2>2. CASE ~(c.to = "screen" /\ c.ok)
    <3>1. CASE ~c.ok
      <4>1. Resolves(c, form)
        BY <1>2, <3>1 DEF WalletCreated
      <4> QED
        BY <1>2, <3>1, <4>1, FormIs, ResolvesKeeps
    <3>2. CASE c.to # "screen"
      <4>1. Resolves(c, form)
        BY <1>2, <3>2 DEF Resolves
      <4> QED
        BY <1>2, <3>2, <4>1, FormIs, ResolvesKeeps
    <3> QED
      BY <2>2, <3>1, <3>2
  <2> QED
    BY <2>1, <2>2
<1>3. ASSUME NEW c \in asks, c.kind = "import", Resolves(c, PhraseImported(c)) PROVE OnboardingKept'
  <2>1. CASE c.to = "screen" /\ c.ok
    <3>1. c.at = "resolves"
      BY <1>3 DEF Resolves
    <3>2. /\ Claim(c) \in Wallets /\ Claim(c).phrase = c.phrase /\ c.phrase # Absent
          /\ form.of = "import"
      BY <1>1, <1>3, <2>1, <3>1 DEF Creates
    <3>3. PICK f : f = [form EXCEPT !.claim = Claim(c), !.step = "success"]
      OBVIOUS
    <3>4. f \in ScreenForms /\ f.of = form.of /\ f.claim = Claim(c) /\ f.step = "success"
      BY <3>2, <3>3, FormIs DEF ScreenForms
    <3>5. Filled(f)
      BY <3>2, <3>4 DEF Filled, Claims, Creates
    <3>6. Resolves(c, f)
      BY <1>3, <2>1, <3>3 DEF PhraseImported
    <3> QED
      BY <1>3, <2>1, <3>4, <3>5, <3>6, ResolvesKeeps DEF Creates
  <2>2. CASE ~(c.to = "screen" /\ c.ok)
    <3>1. CASE ~c.ok
      <4>1. Resolves(c, form)
        BY <1>3, <3>1 DEF PhraseImported
      <4> QED
        BY <1>3, <3>1, <4>1, FormIs, ResolvesKeeps
    <3>2. CASE c.to # "screen"
      <4>1. Resolves(c, form)
        BY <1>3, <3>2 DEF Resolves
      <4> QED
        BY <1>3, <3>2, <4>1, FormIs, ResolvesKeeps
    <3> QED
      BY <2>2, <3>1, <3>2
  <2> QED
    BY <2>1, <2>2
<1>4. ASSUME NEW c \in asks, c.kind = "unlock", Resolves(c, form) PROVE OnboardingKept'
  BY <1>4, FormIs, ResolvesKeeps DEF Creates
<1>5. ASSUME NEW c \in asks, c.kind \in Resets, Resolves(c, [form EXCEPT !.busy = FALSE]) PROVE OnboardingKept'
  <2>1. PICK f : f = [form EXCEPT !.busy = FALSE]
    OBVIOUS
  <2>2. /\ f \in ScreenForms /\ f.of = form.of /\ f.claim = form.claim /\ f.phrase = form.phrase
        /\ f.step = form.step
    BY <2>1, FormIs DEF ScreenForms
  <2>3. Filled(f)
    BY <2>2, FormIs DEF Filled, Claims
  <2> QED
    BY <1>5, <2>1, <2>2, <2>3, ResolvesKeeps DEF Creates, Resets
<1> QED
  BY <1>2, <1>3, <1>4, <1>5, StatusArrivesKeeps, StatusSetKeeps, AnsweredToNobodyKeeps DEF AnswersNext
-----------------------------------------------------------------------------
(* The user's steps.                                                       *)
LEMMA TurnKeeps ==
    ASSUME OnboardingKept, NEW f \in ScreenForms, Turns(f), f.of = form.of, f.claim = form.claim, Filled(f)
    PROVE  OnboardingKept'
<1>1. form' = f /\ UNCHANGED <<wallet, opened, written, router, asks, marker, sent, heard, excused>>
  BY DEF Turns, worker, counts
<1>2. Recorded(asks, f, written, heard, wallet, excused)
  BY SameClaim DEF OnboardingKept
<1>3. Routed(router, f, marker) /\ FromScreens(asks, router, f)
  BY DEF OnboardingKept, Routed, FromScreens
<1>4. ScreensTyped'
  BY <1>1 DEF OnboardingKept, ScreensTyped
<1> QED
  BY <1>1, <1>2, <1>3, <1>4 DEF OnboardingKept

LEMMA SendKeeps ==
    ASSUME OnboardingKept, NEW kind \in {"create", "import", "reset", "overwrite", "unlock"},
           NEW phrase \in Words, NEW password \in Passcodes \cup {Absent}, NEW f \in ScreenForms,
           Sends(NewAsk(kind, phrase, password), f), f.of = form.of, f.claim = form.claim, Filled(f),
           form.of = ScreenFor(kind), kind = "import" => phrase \in Phrases,
           marker' = marker \/ (kind = "overwrite" /\ marker' \in {"create", "import"})
    PROVE  OnboardingKept'
<1>1. PICK d : d = NewAsk(kind, phrase, password)
  OBVIOUS
<1>2. /\ sent' = sent + 1 /\ asks' = asks \cup {d} /\ form' = f
      /\ UNCHANGED <<wallet, opened, written, router, heard, excused>>
  BY <1>1 DEF Sends, worker
<1>3. /\ asks \in SUBSET ScreenAsks /\ sent \in Nat /\ written \in 0..sent /\ written \in Nat /\ heard \in 0..sent
      /\ heard \in Nat /\ excused \in BOOLEAN /\ Numbered(asks, sent, written)
      /\ Recorded(asks, form, written, heard, wallet, excused)
      /\ marker \in {"none", "create", "import"} /\ router \in Routers
  BY DEF OnboardingKept, ScreensTyped
<1>4. /\ d \in ScreenAsks /\ d.id = sent + 1 /\ d.kind = kind /\ d.phrase = phrase /\ d.at = "asked" /\ d.ok
      /\ d.to = "screen"
  BY <1>1, <1>3 DEF NewAsk, ScreenAsks
<1>5. Numbered(asks', sent', written)
  BY <1>2, <1>3, <1>4, AddedNumbered
<1>6. Recorded(asks', f, written, heard, wallet, excused)
  <2>1. Recorded(asks', form, written, heard, wallet, excused)
    BY <1>2, <1>3, <1>4, AddedRecorded
  <2> QED
    BY <2>1, SameClaim
<1>7. asks' \in SUBSET ScreenAsks /\ sent' \in Nat /\ written \in 0..sent' /\ heard \in 0..sent'
      /\ marker' \in {"none", "create", "import"}
  BY <1>2, <1>3, <1>4
<1>8. ScreensTyped'
  BY <1>2, <1>7 DEF OnboardingKept, ScreensTyped
<1>9. ~router.loading
  BY <1>3 DEF OnboardingKept, Routed, Screen, ScreenFor, Creates
<1>10. FromScreens(asks', router, f)
  BY <1>2, <1>4, <1>9 DEF OnboardingKept, FromScreens
<1>11. marker' # marker => ~router.latched
  <2> SUFFICES ASSUME kind = "overwrite" PROVE ~router.latched
    OBVIOUS
  <2>1. Screen(router, router.path) = "unlock"
    BY DEF OnboardingKept, Routed, ScreenFor, Creates
  <2> QED
    BY <1>9, <2>1 DEF OnboardingKept, Routed, Screen, Latched
<1>12. Routed(router, f, marker')
  BY <1>11 DEF OnboardingKept, Routed
<1>13. MarkedBy(asks', marker')
  <2>1. CASE marker' = marker
    BY <1>2, <2>1 DEF OnboardingKept, MarkedBy
  <2>2. CASE kind = "overwrite"
    BY <1>2, <1>4, <2>2 DEF MarkedBy
  <2> QED
    BY <2>1, <2>2
<1> QED
  BY <1>2, <1>5, <1>6, <1>8, <1>10, <1>12, <1>13 DEF OnboardingKept

LEMMA PathKeeps ==
    ASSUME OnboardingKept, NEW path \in {"start", "create", "import"}, GoesTo(path),
           form.of \in {"start", "create", "import"}
    PROVE  OnboardingKept'
<1>1. PICK r : r = [router EXCEPT !.path = path]
  OBVIOUS
<1>2. router \in Routers /\ asks \in SUBSET ScreenAsks /\ form.of = Screen(router, router.path)
      /\ (Latched(router) => router.latched)
  BY DEF OnboardingKept, ScreensTyped, Routed
<1>3. r \in Routers /\ r.latched = router.latched /\ r.path = path /\ r.loading = router.loading
  BY <1>1, <1>2 DEF Routers
<1>4. router.latched
  BY <1>2 DEF Screen
<1>5. RenderRouter(r, marker, form, asks) /\ UNCHANGED <<wallet, opened, sent, written, heard, excused>>
  BY <1>1 DEF GoesTo, worker, counts
<1>6. FromScreens(asks, r, form)
  BY <1>3 DEF OnboardingKept, FromScreens
<1>7. /\ Numbered(asks, sent, written) /\ Recorded(asks, form, written, heard, wallet, excused)
      /\ MarkedBy(asks, marker)
  BY DEF OnboardingKept
<1>8. IF r.latched THEN r.path # "unlock" ELSE r.path \in {"start", "unlock"}
  BY <1>3, <1>4
<1> QED
  BY <1>2, <1>3, <1>5, <1>6, <1>7, <1>8, RenderKeeps

LEMMA ScreenKeeps ==
    ASSUME OnboardingKept, ScreenNext PROVE OnboardingKept'
<1>0. form \in ScreenForms /\ Filled(form) /\ form.claim \in Wallets /\ form.phrase \in Words
  BY FormIs
<1>1. ASSUME NEW f \in ScreenForms, Turns(f), f.of = form.of, f.claim = form.claim, f.phrase = form.phrase,
             f.step = "success" => form.of = "create" /\ form.step = "verify",
             form.of = "create" /\ f.step # "password" => form.step # "password",
             form.of = "import" => f.step # "password"
      PROVE  OnboardingKept'
  <2>1. Filled(f)
    BY <1>0, <1>1 DEF Filled, Claims
  <2> QED
    BY <1>1, <2>1, TurnKeeps
<1>2. CASE OnboardingStart \/ LeaveCreate \/ LeaveImport
  BY <1>2, PathKeeps DEF OnboardingStart, LeaveCreate, LeaveImport, On
<1>3. CASE RevealPhrase \/ handleProceedToVerify \/ BackToMnemonic \/ handleVerify
  <2>1. ASSUME NEW s \in {"mnemonic", "verify", "success"}, NEW b \in BOOLEAN,
               Turns([form EXCEPT !.step = s, !.revealed = b]), form.of = "create", form.step # "password",
               s = "success" => form.step = "verify"
        PROVE  OnboardingKept'
    <3>1. PICK f : f = [form EXCEPT !.step = s, !.revealed = b]
      OBVIOUS
    <3>2. /\ f \in ScreenForms /\ f.of = form.of /\ f.claim = form.claim /\ f.phrase = form.phrase /\ f.step = s
      BY <1>0, <3>1 DEF ScreenForms
    <3> QED
      BY <1>1, <2>1, <3>1, <3>2
  <2>2. form.revealed \in BOOLEAN /\ \A s : [form EXCEPT !.step = s] = [form EXCEPT !.step = s, !.revealed = form.revealed]
    BY <1>0 DEF ScreenForms
  <2>3. On("create", "mnemonic") => [form EXCEPT !.revealed = TRUE] = [form EXCEPT !.step = "mnemonic", !.revealed = TRUE]
    BY <1>0 DEF ScreenForms, On
  <2>4. CASE RevealPhrase
    BY <2>1, <2>3, <2>4 DEF RevealPhrase, On
  <2>5. CASE handleProceedToVerify
    BY <2>1, <2>2, <2>5 DEF handleProceedToVerify, On
  <2>6. CASE BackToMnemonic
    BY <2>1, <2>2, <2>6 DEF BackToMnemonic, On
  <2>7. CASE handleVerify
    BY <2>1, <2>2, <2>7 DEF handleVerify, On
  <2> QED
    BY <1>3, <2>4, <2>5, <2>6, <2>7
<1>4. ASSUME NEW p \in Phrases, handlePhraseContinue(p) PROVE OnboardingKept'
  <2>1. PICK f : f = [form EXCEPT !.phrase = p, !.step = "password"]
    OBVIOUS
  <2>2. Turns(f) /\ form.of = "import"
    BY <1>4, <2>1 DEF handlePhraseContinue, On
  <2>3. /\ f \in ScreenForms /\ f.of = form.of /\ f.claim = form.claim /\ f.phrase = p /\ f.step = "password"
    BY <1>0, <2>1 DEF ScreenForms, Words
  <2>4. Filled(f)
    BY <1>0, <2>2, <2>3 DEF Filled, Claims
  <2> QED
    BY <2>2, <2>3, <2>4, TurnKeeps
<1>5. CASE BackToPhrase
  <2>1. PICK f : f = [form EXCEPT !.step = "phrase"]
    OBVIOUS
  <2>2. Turns(f) /\ form.of = "import"
    BY <1>5, <2>1 DEF BackToPhrase, On
  <2>3. /\ f \in ScreenForms /\ f.of = form.of /\ f.claim = form.claim /\ f.phrase = form.phrase /\ f.step = "phrase"
    BY <1>0, <2>1 DEF ScreenForms
  <2> QED
    BY <1>1, <2>2, <2>3
<1>6. CASE \/ ForgotPassword \/ BackToUnlock \/ ResetAndWipe \/ ToggleAcknowledged \/ BackToPrompt
           \/ \E route \in {"create", "import"} : Overwrite(route)
  <2>1. ASSUME NEW f, f \in ScreenForms, Turns(f), f.of = form.of, f.claim = form.claim, f.phrase = form.phrase,
               form.of = "unlock", f.step # "success"
        PROVE  OnboardingKept'
    BY <1>1, <2>1
  <2>2. ASSUME NEW s \in {"unlock", "reset-prompt", "reset-confirm"}, form.of = "unlock",
               Turns([form EXCEPT !.step = s])
        PROVE  OnboardingKept'
    <3>1. PICK f : f = [form EXCEPT !.step = s]
      OBVIOUS
    <3>2. f \in ScreenForms /\ f.of = form.of /\ f.claim = form.claim /\ f.phrase = form.phrase /\ f.step = s
      BY <1>0, <3>1 DEF ScreenForms
    <3> QED
      BY <2>1, <2>2, <3>1, <3>2
  <2>3. CASE ForgotPassword \/ BackToUnlock \/ ResetAndWipe
    BY <2>2, <2>3 DEF ForgotPassword, BackToUnlock, ResetAndWipe, On
  <2>4. CASE ToggleAcknowledged
    <3>1. PICK f : f = [form EXCEPT !.revealed = ~form.revealed]
      OBVIOUS
    <3>2. (~form.revealed) \in BOOLEAN
      OBVIOUS
    <3>3. f \in ScreenForms /\ f.of = form.of /\ f.claim = form.claim /\ f.phrase = form.phrase /\ f.step = form.step
      BY <1>0, <3>1, <3>2 DEF ScreenForms
    <3>4. Turns(f) /\ form.of = "unlock" /\ form.step # "success"
      BY <2>4, <3>1 DEF ToggleAcknowledged, Confirming, On
    <3> QED
      BY <2>1, <3>3, <3>4
  <2>5. CASE BackToPrompt
    <3>1. PICK f : f = [form EXCEPT !.step = "reset-prompt", !.revealed = FALSE]
      OBVIOUS
    <3>2. f \in ScreenForms /\ f.of = form.of /\ f.claim = form.claim /\ f.phrase = form.phrase /\ f.step = "reset-prompt"
      BY <1>0, <3>1 DEF ScreenForms
    <3>3. Turns(f) /\ form.of = "unlock"
      BY <2>5, <3>1 DEF BackToPrompt, Confirming, On
    <3> QED
      BY <2>1, <3>2, <3>3
  <2>6. ASSUME NEW route \in {"create", "import"}, Overwrite(route) PROVE OnboardingKept'
    <3>1. PICK f : f = [form EXCEPT !.step = "overwrite-confirm", !.pending = route]
      OBVIOUS
    <3>2. f \in ScreenForms /\ f.of = form.of /\ f.claim = form.claim /\ f.phrase = form.phrase /\ f.step = "overwrite-confirm"
      BY <1>0, <3>1 DEF ScreenForms
    <3>3. Turns(f) /\ form.of = "unlock"
      BY <2>6, <3>1 DEF Overwrite, On
    <3> QED
      BY <2>1, <3>2, <3>3
  <2> QED
    BY <1>6, <2>3, <2>4, <2>5, <2>6
<1>7. ASSUME NEW pw \in Passcodes, handleCreatePassword(pw) PROVE OnboardingKept'
  <2>1. /\ Sends(NewAsk("create", Absent, pw), form) /\ marker' = marker /\ form.of = ScreenFor("create")
        /\ Absent \in Words
    BY <1>7 DEF handleCreatePassword, On, ScreenFor, Creates, Words
  <2> QED
    BY <1>0, <2>1, SendKeeps
<1>8. ASSUME NEW pw \in Passcodes, handleImport(pw) PROVE OnboardingKept'
  <2>1. /\ Sends(NewAsk("import", form.phrase, pw), form) /\ marker' = marker /\ form.of = ScreenFor("import")
        /\ form.phrase \in Phrases
    BY <1>0, <1>8 DEF handleImport, On, ScreenFor, Creates, Filled
  <2> QED
    BY <1>0, <2>1, SendKeeps
<1>9. ASSUME NEW pw \in Passcodes, handleUnlock(pw) PROVE OnboardingKept'
  <2>1. /\ Sends(NewAsk("unlock", Absent, pw), form) /\ marker' = marker /\ form.of = ScreenFor("unlock")
        /\ Absent \in Words
    BY <1>9 DEF handleUnlock, On, ScreenFor, Creates, Words
  <2> QED
    BY <1>0, <2>1, SendKeeps
<1>10. CASE handleReset \/ handleOverwrite
  <2>1. PICK f : f = [form EXCEPT !.busy = TRUE]
    OBVIOUS
  <2>2. /\ f \in ScreenForms /\ f.of = form.of /\ f.claim = form.claim /\ f.phrase = form.phrase
        /\ f.step = form.step
    BY <1>0, <2>1 DEF ScreenForms
  <2>3. Filled(f)
    BY <1>0, <2>2 DEF Filled, Claims
  <2>4. form.of = "unlock" /\ Absent \in Words /\ Absent \in Passcodes \cup {Absent} /\ form.pending \in {"create", "import"}
    BY <1>10, FormIs DEF handleReset, handleOverwrite, On, Words
  <2>5. ScreenFor("reset") = "unlock" /\ ScreenFor("overwrite") = "unlock"
    BY DEF ScreenFor, Creates
  <2>6. CASE handleReset
    <3>1. Sends(NewAsk("reset", Absent, Absent), f) /\ marker' = marker
      BY <2>1, <2>6 DEF handleReset
    <3> QED
      BY <2>2, <2>3, <2>4, <2>5, <3>1, SendKeeps
  <2>7. CASE handleOverwrite
    <3>1. Sends(NewAsk("overwrite", Absent, Absent), f) /\ marker' \in {"create", "import"}
      BY <2>1, <2>4, <2>7 DEF handleOverwrite
    <3> QED
      BY <2>2, <2>3, <2>4, <2>5, <3>1, SendKeeps
  <2> QED
    BY <1>10, <2>6, <2>7
<1> QED
  BY <1>2, <1>3, <1>4, <1>5, <1>6, <1>7, <1>8, <1>9, <1>10 DEF ScreenNext

-----------------------------------------------------------------------------
(* Polls, ends, other windows and closings.                                *)
LEMMA StatusAskKeeps == ASSUME OnboardingKept, checkStatus PROVE OnboardingKept'
<1>1. /\ asks' = asks \cup {Status} /\ \A x \in asks : x.kind # "status"
      /\ UNCHANGED <<wallet, opened, written, router, form, marker, sent, heard, excused>>
  BY DEF checkStatus, worker
<1>2. /\ asks \in SUBSET ScreenAsks /\ sent \in Nat /\ written \in Nat /\ heard \in Nat /\ excused \in BOOLEAN
      /\ Numbered(asks, sent, written) /\ Recorded(asks, form, written, heard, wallet, excused)
      /\ Status \in ScreenAsks /\ Status.id = 0 /\ Status.kind = "status" /\ Status.ok
  BY StatusIs DEF OnboardingKept, ScreensTyped
<1>3. PICK st : st = Status
  OBVIOUS
<1>4. Recorded(asks \cup {st}, form, written, heard, wallet, excused) /\ Numbered(asks \cup {st}, sent, written)
  BY <1>1, <1>2, <1>3, StatusAdded
<1>5. FromScreens(asks', router, form) /\ MarkedBy(asks', marker)
  BY <1>1, <1>2 DEF OnboardingKept, FromScreens, MarkedBy
<1> QED
  BY <1>1, <1>2, <1>3, <1>4, <1>5, OnlyAsks

Ended(c) == IF c.at \in {"asked", "stored"} THEN [c EXCEPT !.at = "answered", !.ok = FALSE] ELSE c
LEMMA EndedIs ==
    ASSUME NEW c \in ScreenAsks
    PROVE  /\ Ended(c) \in ScreenAsks /\ Ended(c).id = c.id /\ Ended(c).kind = c.kind /\ Ended(c).to = c.to
           /\ Ended(c).phrase = c.phrase /\ Ended(c).at \in {"answered", "resolves"}
           /\ (Ended(c).at = "resolves" => Ended(c).ok = c.ok /\ c.at = "resolves")
           /\ (HasWritten(Ended(c)) => Ended(c) = c)
           /\ (HasWritten(c) /\ c.at # "stored" => Ended(c) = c)
<1>1. CASE c.at \in {"asked", "stored"}
  <2>1. PICK d : d = [c EXCEPT !.at = "answered", !.ok = FALSE]
    OBVIOUS
  <2>2. /\ d \in ScreenAsks /\ d.id = c.id /\ d.kind = c.kind /\ d.to = c.to /\ d.phrase = c.phrase
        /\ d.at = "answered" /\ ~d.ok
    BY <2>1 DEF ScreenAsks
  <2>3. Ended(c) = d
    BY <1>1, <2>1 DEF Ended
  <2>4. ~HasWritten(d)
    BY <2>2 DEF HasWritten
  <2>5. c.at # "stored" => ~HasWritten(c)
    BY <1>1 DEF HasWritten
  <2> QED
    BY <2>2, <2>3, <2>4, <2>5
<1>2. CASE c.at \notin {"asked", "stored"}
  BY <1>2, AskTypes DEF Ended
<1> QED
  BY <1>1, <1>2

LEMMA WorkerEndKeeps == ASSUME OnboardingKept, WorkerEnds PROVE OnboardingKept'
<1>1. /\ asks' = {Ended(c) : c \in asks}
      /\ excused' = (excused \/ \E c \in asks : c.kind # "status" /\ c.at = "stored")
      /\ UNCHANGED <<wallet, opened, written, router, form, marker, heard, sent>>
  BY DEF WorkerEnds, worker, Ended
<1>2. /\ asks \in SUBSET ScreenAsks /\ sent \in Nat /\ written \in Nat /\ heard \in Nat /\ excused \in BOOLEAN
      /\ Numbered(asks, sent, written) /\ Recorded(asks, form, written, heard, wallet, excused)
  BY DEF OnboardingKept, ScreensTyped
<1>3. asks' \in SUBSET ScreenAsks /\ excused' \in BOOLEAN
  BY <1>1, <1>2, EndedIs
<1>4. ScreensTyped'
  BY <1>1, <1>3 DEF OnboardingKept, ScreensTyped
<1>5. \A y \in asks' : \E x \in asks :
         /\ y = Ended(x) /\ y.id = x.id /\ y.kind = x.kind /\ y.to = x.to /\ y.phrase = x.phrase
         /\ y.at \in {"answered", "resolves"} /\ (HasWritten(y) => y = x)
         /\ (HasWritten(x) /\ x.at # "stored" => y = x)
  BY <1>1, <1>2, EndedIs
<1>6. Numbered(asks', sent, written)
  <2>1. \A y \in asks' : y.id \in 0..sent /\ (y.kind = "status" <=> y.id = 0)
    BY <1>2, <1>5 DEF Numbered
  <2>2. \A x, y \in asks' : x.id = y.id => x = y
    <3> SUFFICES ASSUME NEW x \in asks', NEW y \in asks', x.id = y.id PROVE x = y
      OBVIOUS
    <3>1. PICK u \in asks : x = Ended(u) /\ x.id = u.id
      BY <1>5
    <3>2. PICK v \in asks : y = Ended(v) /\ y.id = v.id
      BY <1>5
    <3>3. u = v
      BY <1>2, <3>1, <3>2 DEF Numbered
    <3> QED
      BY <3>1, <3>2, <3>3
  <2>3. \A x, y \in asks' : x.to = "screen" /\ x.id # 0 /\ x.id <= y.id => y.to = "screen"
    BY <1>2, <1>5 DEF Numbered
  <2>4. \A y \in asks' : y.kind = "import" => y.phrase \in Phrases
    BY <1>2, <1>5 DEF Numbered
  <2>5. \A y \in asks' : HasWritten(y) => y.id <= written /\ (y.kind \in Creates => y.phrase \in Phrases)
    BY <1>2, <1>5 DEF Numbered
  <2>6. \A y \in asks' : y.at \notin {"asked", "stored"}
    BY <1>5
  <2> QED
    BY <2>1, <2>2, <2>3, <2>4, <2>5, <2>6 DEF Numbered
<1>7. Recorded(asks', form, written, heard, wallet, excused')
  <2>1. PICK ex \in BOOLEAN : ex = excused'
    BY <1>3
  <2> SUFFICES ASSUME ~ex PROVE Recorded(asks', form, written, heard, wallet, ex)
    BY <2>1 DEF Recorded, Newest, InOrder, Believed
  <2>2. ~excused /\ \A c \in asks : c.kind # "status" => c.at # "stored"
    BY <1>1, <2>1
  <2>3. \A x \in asks : x.id # 0 /\ x.id = written => HasWritten(x) /\ wallet = LeftBy(x)
    BY <1>2, <2>2 DEF Recorded, Newest
  <2>4. \A x \in asks : HasWritten(x) => x.at # "stored"
    BY <2>2 DEF HasWritten, Creates, Resets
  <2>5. Newest(asks', written, wallet, ex)
    BY <1>5, <2>3, <2>4 DEF Newest
  <2>6. \A x \in asks : \E y \in asks' : y.id = x.id
    BY <1>1, <1>2, EndedIs
  <2>7. InOrder(asks', written, heard, ex)
    BY <1>2, <1>5, <2>2, <2>6 DEF Recorded, InOrder
  <2>8. Believed(asks', form, written, wallet, ex)
    <3> SUFFICES ASSUME Claims(form) PROVE Believed(asks', form, written, wallet, ex)
      BY DEF Believed
    <3>1. /\ wallet = form.claim \/ \E c \in asks : c.id # 0 /\ c.id = written
          /\ \A c \in asks : c.id # 0 /\ c.to # "screen" => c.id < written
      BY <1>2, <2>2 DEF Recorded, Believed
    <3>2. wallet = form.claim \/ \E c \in asks' : c.id # 0 /\ c.id = written
      BY <2>6, <3>1
    <3>3. \A c \in asks' : c.id # 0 /\ c.to # "screen" => c.id < written
      BY <1>5, <3>1
    <3> QED
      BY <3>2, <3>3 DEF Believed
  <2> QED
    BY <2>5, <2>7, <2>8 DEF Recorded
<1>8. FromScreens(asks', router, form)
  BY <1>5 DEF OnboardingKept, FromScreens
<1>9. MarkedBy(asks', marker)
  <2> SUFFICES ASSUME marker # "none"
               PROVE  \E y \in asks' : y.kind = "overwrite" /\ y.to # "nobody" /\ (y.at = "resolves" => ~y.ok)
    BY DEF MarkedBy
  <2>1. PICK x \in asks : x.kind = "overwrite" /\ x.to # "nobody" /\ (x.at = "resolves" => ~x.ok)
    BY DEF OnboardingKept, MarkedBy
  <2>2. Ended(x) \in asks' /\ x \in ScreenAsks
    BY <1>1, <1>2
  <2> QED
    BY <2>1, <2>2, EndedIs
<1> QED
  BY <1>1, <1>4, <1>6, <1>7, <1>8, <1>9 DEF OnboardingKept

LEMMA ReopenKeeps == ASSUME OnboardingKept, Reopen PROVE OnboardingKept'
<1>1. /\ router' = ClosedPopup /\ form' = NewForm("spinner") /\ marker' = "none"
      /\ asks' = {[c EXCEPT !.to = "nobody"] : c \in {d \in asks : d.kind # "status" /\ d.at \in {"asked", "stored"}}}
      /\ UNCHANGED <<wallet, opened, written, sent, heard, excused>>
  BY DEF Reopen, worker
<1>2. /\ asks \in SUBSET ScreenAsks /\ Numbered(asks, sent, written)
      /\ Recorded(asks, form, written, heard, wallet, excused)
  BY DEF OnboardingKept, ScreensTyped
<1>3. \A y \in asks' : \E x \in asks : y = [x EXCEPT !.to = y.to] /\ y.to = "nobody" /\ y \in ScreenAsks
  BY <1>1, <1>2 DEF ScreenAsks
<1>4. asks' \in SUBSET ScreenAsks
  BY <1>3
<1>5. NewForm("spinner") \in ScreenForms /\ NewForm("spinner").of = "spinner" /\ Filled(NewForm("spinner"))
      /\ ~Claims(NewForm("spinner"))
  BY NewFormIs DEF Screens
<1>6. Numbered(asks', sent, written)
  BY <1>2, <1>3, <1>4, AwayNumbered
<1>7. Recorded(asks', form', written, heard, wallet, excused)
  BY <1>1, <1>2, <1>3, <1>4, <1>5, AwayRecorded
<1>8. ClosedPopup \in Routers
  BY DEF ClosedPopup, Routers
<1>9. ScreensTyped'
  BY <1>1, <1>4, <1>5, <1>8 DEF OnboardingKept, ScreensTyped
<1>10. Routed(ClosedPopup, NewForm("spinner"), "none")
  BY <1>5 DEF Routed, ClosedPopup, Screen, Latched
<1>11. FromScreens(asks', router', form')
  BY <1>3 DEF FromScreens
<1>12. MarkedBy(asks', marker')
  BY <1>1 DEF MarkedBy
<1> QED
  BY <1>1, <1>5, <1>6, <1>7, <1>9, <1>10, <1>11, <1>12 DEF OnboardingKept

LEMMA ElsewhereKeeps ==
    ASSUME OnboardingKept, NEW s \in [phrase : Phrases, password : Passcodes] \cup {NoWallet},
           NEW o \in Phrases \cup {Absent}, Elsewhere(s, o)
    PROVE  OnboardingKept'
<1>1. /\ wallet' = s /\ opened' = o /\ excused' = (excused \/ s # wallet)
      /\ UNCHANGED <<written, router, form, asks, marker, heard, sent>>
  BY DEF Elsewhere
<1>2. s \in Wallets /\ o \in Words
  BY DEF Wallets, Words, NoWallet
<1>3. ScreensTyped'
  BY <1>1, <1>2 DEF OnboardingKept, ScreensTyped
<1>4. Recorded(asks, form, written, heard, wallet', excused')
  <2>1. CASE s = wallet
    BY <1>1, <2>1 DEF OnboardingKept, Recorded, Newest, InOrder, Believed
  <2>2. CASE s # wallet
    BY <1>1, <2>2 DEF Recorded, Newest, InOrder, Believed
  <2> QED
    BY <2>1, <2>2
<1> QED
  BY <1>1, <1>3, <1>4 DEF OnboardingKept

LEMMA OnboardingStarts == ASSUME OnboardingInit PROVE OnboardingKept
<1>1. /\ router = ClosedPopup /\ form = NewForm("spinner") /\ asks = {} /\ marker = "none" /\ sent = 0
      /\ written = 0 /\ heard = 0 /\ excused = FALSE /\ opened \in {wallet.phrase, Absent}
  BY DEF OnboardingInit
<1>2. generated \in SUBSET Phrases
  BY OnboardingAssumption DEF OnboardingInit
<1>3. wallet \in Wallets
  BY <1>2 DEF OnboardingInit, Wallets, Words, NoWallet
<1>4. wallet.phrase \in Words
  BY <1>3 DEF Wallets
<1>5. NewForm("spinner") \in ScreenForms /\ NewForm("spinner").of = "spinner" /\ Filled(NewForm("spinner"))
      /\ ~Claims(NewForm("spinner"))
  BY NewFormIs DEF Screens
<1>6. ClosedPopup \in Routers /\ Routed(ClosedPopup, NewForm("spinner"), "none")
  BY <1>5 DEF ClosedPopup, Routers, Routed, Screen, Latched
<1>7. ScreensTyped
  <2>1. opened \in Words
    BY <1>1, <1>4 DEF Words
  <2>2. /\ router \in Routers /\ form \in ScreenForms /\ asks \in SUBSET ScreenAsks
        /\ marker \in {"none", "create", "import"}
    BY <1>1, <1>5, <1>6
  <2>3. sent \in Nat /\ written \in 0..sent /\ heard \in 0..sent
    BY <1>1
  <2>4. excused \in BOOLEAN
    BY <1>1, Zenon
  <2> QED
    BY <1>3, <2>1, <2>2, <2>3, <2>4 DEF ScreensTyped
<1>8. Recorded(asks, form, written, heard, wallet, excused)
  BY <1>1, <1>5 DEF Recorded, Newest, InOrder, Believed
<1> QED
  BY <1>1, <1>5, <1>6, <1>7, <1>8 DEF OnboardingKept, Numbered, FromScreens, MarkedBy

LEMMA OnboardingSteps ==
    ASSUME OnboardingKept, [OnboardingNext]_onboardingVars PROVE OnboardingKept'
<1>1. CASE UNCHANGED onboardingVars
  <2>1. UNCHANGED <<wallet, opened, router, form, asks, marker, sent, written, heard, excused>>
    BY <1>1 DEF onboardingVars
  <2>2. ScreensTyped'
    BY <2>1 DEF OnboardingKept, ScreensTyped
  <2> QED
    BY <2>1, <2>2 DEF OnboardingKept
<1> QED
  BY <1>1, WorkerKeeps, AnswersKeep, ScreenKeeps, StatusAskKeeps, WorkerEndKeeps, ReopenKeeps, ElsewhereKeeps
     DEF OnboardingNext

LEMMA KeptIsSaid == ASSUME OnboardingKept PROVE OnboardingInv
<1>1. ReadyIsStored
  <2> SUFFICES ASSUME form.step = "success", ~excused, \A c \in asks : c.kind \notin Creates \cup Resets
               PROVE  wallet = form.claim /\ (form.of = "create" => form.phrase = wallet.phrase)
    BY DEF ReadyIsStored
  <2>1. Claims(form) /\ (form.of = "create" => form.phrase = form.claim.phrase)
    BY DEF OnboardingKept, Filled
  <2>2. wallet = form.claim \/ \E c \in asks : c.id # 0 /\ c.id = written
    BY <2>1 DEF OnboardingKept, Recorded, Believed
  <2>3. ~\E c \in asks : c.id # 0 /\ c.id = written
    <3> SUFFICES ASSUME NEW c \in asks, c.id # 0, c.id = written PROVE FALSE
      OBVIOUS
    <3>1. HasWritten(c)
      BY DEF OnboardingKept, Recorded, Newest
    <3> QED
      BY <3>1 DEF HasWritten
  <2> QED
    BY <2>1, <2>2, <2>3
<1>2. MarkerConsumed
  BY DEF OnboardingKept, MarkedBy, MarkerConsumed
<1> QED
  BY <1>1, <1>2 DEF OnboardingInv

\* Whatever the order of answers, double calls, closings and ends of the worker: the success screen
\* speaks of the wallet that is stored, and a marker waits for its replacement only (Onboarding.tsx
\* CreateWallet and ImportWallet, Unlock.tsx handleOverwrite, App.tsx Router).
THEOREM OnboardingHolds == OnboardingSpec => []OnboardingInv
<1>1. OnboardingSpec => []OnboardingKept
  BY OnboardingStarts, OnboardingSteps, PTL DEF OnboardingSpec
<1> QED
  BY <1>1, KeptIsSaid, PTL

(* A render under the latch that goes nowhere leaves the screen.           *)
LEMMA LatchedStays ==
    ASSUME OnboardingKept, form.of \in Creates, NEW r \in Routers, r.latched = router.latched,
           r.path = router.path, ~r.loading, NEW cs, RenderRouter(r, marker, form, cs)
    PROVE  form' = form
<1>1. form.of = Screen(router, router.path) /\ (Latched(router) => router.latched)
  BY DEF OnboardingKept, Routed
<1>2. router.latched /\ router.path = form.of
  BY <1>1 DEF Screen, Creates
<1>3. Latched(r) /\ r.path = form.of /\ r.path # "unlock" /\ r.path # "start"
  BY <1>2 DEF Latched, Creates
<1>4. PathOf(r) = form.of
  BY <1>3 DEF PathOf
<1>5. \A p : Screen(r, p) = p
  BY <1>3 DEF Screen
<1>6. Screen(r, PathOf(r)) # "start"
  BY <1>3, <1>4, <1>5
<1> QED
  BY <1>4, <1>5, <1>6 DEF RenderRouter

LEMMA OfStays ==
    ASSUME OnboardingKept, OnboardingNext, form.of \in Creates
    PROVE  form'.of = form.of \/ LeaveCreate \/ LeaveImport \/ Reopen
<1>0. form \in ScreenForms /\ router \in Routers /\ asks \in SUBSET ScreenAsks /\ ~router.loading
  BY DEF OnboardingKept, ScreensTyped, Routed, Screen, Creates
<1>1. CASE WorkerNext
  BY <1>1 DEF WorkerNext, Stores, OpensSession, RefusesPhrase, EndsSession, Erases, Unlocks, ReadsSession, Unheard
<1>2. CASE AnswersNext
  <2>1. ASSUME NEW c \in asks, StatusArrives(c) PROVE form' = form
    <3>1. CASE c.ok
      <4>1. PICK r : r = [router EXCEPT !.loading = FALSE, !.has = c.has, !.unlocked = c.unlocked]
        OBVIOUS
      <4>2. r \in Routers /\ ~r.loading /\ r.latched = router.latched /\ r.path = router.path
        BY <1>0, <4>1, AskTypes DEF Routers
      <4>3. RenderRouter(r, marker, form, asks \ {c})
        BY <2>1, <3>1, <4>1 DEF StatusArrives
      <4> QED
        BY <4>2, <4>3, LatchedStays
    <3>2. CASE ~c.ok
      BY <2>1, <3>2 DEF StatusArrives
    <3> QED
      BY <3>1, <3>2
  <2>2. ASSUME NEW c \in asks, StatusSet(c) PROVE form' = form
    <3>1. CASE c.ok
      <4>1. PICK r : r = [router EXCEPT !.has = IF c.kind = "unlock" THEN router.has ELSE c.kind \notin Resets,
                                        !.unlocked = c.kind \notin Resets]
        OBVIOUS
      <4>2. (c.kind \notin Resets) \in BOOLEAN /\ router.has \in BOOLEAN
        BY <1>0 DEF Routers
      <4>3. r \in Routers /\ ~r.loading /\ r.latched = router.latched /\ r.path = router.path
        BY <1>0, <4>1, <4>2 DEF Routers
      <4>4. RenderRouter(r, marker, form, (asks \ {c}) \cup {[c EXCEPT !.at = "resolves"]})
        BY <2>2, <3>1, <4>1 DEF StatusSet
      <4> QED
        BY <4>3, <4>4, LatchedStays
    <3>2. CASE ~c.ok
      BY <2>2, <3>2 DEF StatusSet
    <3> QED
      BY <3>1, <3>2, <1>0, <2>2, AskTypes
  <2>3. ASSUME NEW c, NEW f, Resolves(c, f), f.of = form.of PROVE form'.of = form.of
    BY <2>3 DEF Resolves
  <2>4. \A c : WalletCreated(c).of = form.of /\ PhraseImported(c).of = form.of
    BY <1>0 DEF WalletCreated, PhraseImported, ScreenForms
  <2>5. [form EXCEPT !.busy = FALSE].of = form.of
    BY <1>0 DEF ScreenForms
  <2>6. \A c : AnsweredToNobody(c) => form' = form
    BY DEF AnsweredToNobody
  <2> QED
    BY <1>2, <2>1, <2>2, <2>3, <2>4, <2>5, <2>6 DEF AnswersNext
<1>3. CASE ScreenNext
  <2>1. ~OnboardingStart
    BY DEF OnboardingStart, Creates
  <2>2. ASSUME RevealPhrase \/ handleProceedToVerify \/ BackToMnemonic \/ handleVerify \/ BackToPhrase PROVE form'.of = form.of
    BY <1>0, <2>2 DEF RevealPhrase, handleProceedToVerify, BackToMnemonic, handleVerify, BackToPhrase, Turns, ScreenForms
  <2>3. ASSUME NEW p, handlePhraseContinue(p) PROVE form'.of = form.of
    BY <1>0, <2>3 DEF handlePhraseContinue, Turns, ScreenForms
  <2>4. ASSUME NEW pw, handleCreatePassword(pw) \/ handleImport(pw) \/ handleUnlock(pw) PROVE form'.of = form.of
    BY <2>4 DEF handleCreatePassword, handleImport, handleUnlock, Sends
  <2>5. ~(ForgotPassword \/ BackToUnlock \/ ResetAndWipe \/ ToggleAcknowledged \/ BackToPrompt
          \/ (\E route \in {"create", "import"} : Overwrite(route)) \/ handleReset \/ handleOverwrite)
    BY DEF ForgotPassword, BackToUnlock, ResetAndWipe, ToggleAcknowledged, BackToPrompt, Overwrite, handleReset,
           handleOverwrite, Confirming, On, Creates
  <2> QED
    BY <1>3, <2>1, <2>2, <2>3, <2>4, <2>5 DEF ScreenNext
<1>4. CASE checkStatus \/ WorkerEnds \/ \E s, o : Elsewhere(s, o)
  BY <1>4 DEF checkStatus, WorkerEnds, Elsewhere
<1> QED
  BY <1>1, <1>2, <1>3, <1>4 DEF OnboardingNext

\* "This keeps the mnemonic/verify/success steps visible even after createWallet() sets
\* hasWallet=true" (App.tsx:38), for any phrases, passwords and number of calls: only leaving, or
\* closing the popup, takes a screen of onboarding away.
THEOREM ScreensStay == OnboardingSpec => OnboardingStays
<1>1. OnboardingSpec => []OnboardingKept
  BY OnboardingStarts, OnboardingSteps, PTL DEF OnboardingSpec
<1>2. OnboardingKept /\ [OnboardingNext]_onboardingVars =>
        [form.of \in Creates /\ form'.of # form.of => LeaveCreate \/ LeaveImport \/ Reopen]_onboardingVars
  BY OfStays
<1> QED
  BY <1>1, <1>2, PTL DEF OnboardingSpec, OnboardingStays
=============================================================================
