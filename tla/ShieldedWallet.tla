--------------------------- MODULE ShieldedWallet ---------------------------
(***************************************************************************)
(* The extension's private wallet (background/shielded.ts, its note store  *)
(* and the shielded library) against a pool it sees through an indexer and *)
(* reaches through a relayer.                                              *)
(*                                                                         *)
(* A plan is a built and proven transact.  At most one of its outputs is   *)
(* this wallet's: a shielded or received note, or the change of a spend.   *)
(* So a note is named by the plan that creates it, and is on chain when    *)
(* that plan has landed.  Outputs have fresh blindings: two plans never    *)
(* make the same note, even for the same request.                          *)
(***************************************************************************)
EXTENDS Integers, Sequences, FiniteSetsExt

CONSTANTS
    Ops,         \* spends: "send", "unshield" or both
    Amounts,     \* amounts asked for
    Deposits,    \* amounts shielded and received
    Fees,        \* fees the relayer may quote
    Holdings,    \* amounts of the notes received, and scanned, at the start
    MaxPlans,    \* bound: plans built, received notes included
    MaxFaults,   \* bound: crashes, timeouts, lost answers, refusals
    Reinstalls   \* whether the note store may be lost

ASSUME WalletAssumptions ==
    /\ Ops \subseteq {"send", "unshield"}
    /\ Amounts \cup Deposits \subseteq Nat \ {0}
    /\ Fees \subseteq Nat /\ Fees # {}
    /\ Holdings \in Seq(Nat \ {0})
    /\ {MaxPlans, MaxFaults} \subseteq Nat
    /\ Reinstalls \in BOOLEAN

VARIABLES
    plans,     \* every plan built: [op, inputs, pay, own]
    chain,     \* the plans that landed, in order
    indexed,   \* how many of them the indexer has
    pending,   \* plans broadcast whose fate is open
    known,     \* note store: notes
    spent,     \* note store: notes flagged spent
    pc,        \* what the holder of the shielded lock is doing
    cur,       \* the plan it works on
    outcome,   \* what it will report: "hash" or "already-submitted"
    result,    \* what was reported for each plan
    split,     \* the auto-split loop of this screen, with its history
    faults

network == <<chain, indexed, pending>>
store   == <<known, spent>>
vars    == <<plans, chain, indexed, pending, known, spent, pc, cur, outcome,
             result, split, faults>>

Plans     == 1..Len(plans)
Landed    == {chain[k] : k \in 1..Len(chain)}
Seen(k)   == {chain[j] : j \in 1..k}                 \* the first k that landed
InputsOf(P) == UNION {plans[p].inputs : p \in P}
Nullified == InputsOf(Landed)
Own(P)    == {p \in P : plans[p].own > 0}            \* the notes P makes for us
Total(N)  == MapThenSumSet(LAMBDA n : plans[n].own, N)
Paid(P)   == MapThenSumSet(LAMBDA p : plans[p].pay, P)

\* goal and left: to be sent in all, and still.  The rest is history: the loop's own plans, the fee
\* it reckoned with, whether a chunk was quoted more, and whether another operation spent notes it counted on.
NoSplit == [state |-> "off", goal |-> 0, left |-> 0, chunks |-> {}, quoted |-> 0,
            dearer |-> FALSE, crossed |-> FALSE]

\* Another window's operation that spends, or one of a sheet opened again: a loop under way is crossed.
Crossing == IF split.state = "on" THEN [split EXCEPT !.crossed = TRUE] ELSE NoSplit

-----------------------------------------------------------------------------
(* Network and services (external) *)

(* A broadcast transact is applied, unless one of its inputs was spent.    *)
Land(p) ==
    /\ p \in pending
    /\ plans[p].inputs \cap Nullified = {}
    /\ chain' = Append(chain, p)
    /\ pending' = pending \ {p}
    /\ UNCHANGED <<plans, indexed, store, pc, cur, outcome, result, split, faults>>

(* It fails on chain, or expires.                                          *)
Drop(p) ==
    /\ p \in pending
    /\ pending' = pending \ {p}
    /\ UNCHANGED <<plans, chain, indexed, store, pc, cur, outcome, result, split, faults>>

Index ==
    /\ indexed < Len(chain)
    /\ indexed' = indexed + 1
    /\ UNCHANGED <<plans, chain, pending, store, pc, cur, outcome, result, split, faults>>

NewPlan(plan) ==
    /\ Len(plans) < MaxPlans
    /\ plans' = Append(plans, plan)
    /\ result' = Append(result, "none")

Incoming(a) == [op |-> "receive", inputs |-> {}, pay |-> 0, own |-> a]

(* Someone pays this wallet.                                               *)
Receive(a) ==
    /\ NewPlan(Incoming(a))
    /\ chain' = Append(chain, Len(plans'))
    /\ UNCHANGED <<indexed, pending, store, pc, cur, outcome, split, faults>>

-----------------------------------------------------------------------------
(* Operations: withShieldedLock runs one at a time, from "idle" to "idle"; *)
(* any other may take the lock between two chunks of a split.              *)

(* shieldedShield, buildShield: two dummy inputs, one note of our own.     *)
Shield(a) ==
    /\ pc = "idle"
    /\ NewPlan([op |-> "shield", inputs |-> {}, pay |-> 0, own |-> a])
    /\ cur' = Len(plans')
    /\ pc' = "submit"
    /\ split' = IF split.state = "on" THEN split ELSE NoSplit
    /\ UNCHANGED <<network, store, outcome, faults>>

Unspent == known \ spent

\* the k largest unspent notes; notes of one amount come in any order
Largest(k, U) ==
    {P \in kSubset(k, U) : \A n \in P, m \in U \ P : plans[n].own >= plans[m].own}

\* the two largest, or the only one
LargestTwo(U) == Largest(Min({2, Cardinality(U)}), U)

\* selectNotes: one note if it covers amount and fee, else two
SelectNotes(need) ==
    LET covering(k) == {P \in Largest(k, Unspent) : Total(P) >= need}
    IN  IF covering(1) # {} THEN covering(1) ELSE covering(2)

(* spendInputsFor: the tree comes from the indexer or, past it, from the   *)
(* RPC; a note that is in neither fails the build.                         *)
Locatable(N) == N \subseteq Landed

(* buildTransferTo, buildWithdraw: the fee is quoted again; change is ours. *)
Build(op, picked, amount, fee) ==
    /\ Locatable(picked)
    /\ Total(picked) >= amount + fee
    /\ NewPlan([op |-> op, inputs |-> picked, pay |-> amount,
                own |-> Total(picked) - amount - fee])
    /\ cur' = Len(plans')
    /\ pc' = "submit"

(* shieldedSend, shieldedUnshield.                                         *)
Spend(op, amount) ==
    /\ pc = "idle"
    /\ \E quoted, fee \in Fees : \E picked \in SelectNotes(amount + quoted) :
          Build(op, picked, amount, fee)
    /\ split' = Crossing
    /\ UNCHANGED <<network, store, outcome, faults>>

(* buildScan: own notes of the index that the store does not have, flagged *)
(* spent when the index has their nullifier.                               *)
Found == Own(Seen(indexed)) \ known

FoundSpent == Found \cap InputsOf(Seen(indexed))

(* shieldedScan: found notes are added, known ones are left as they are.   *)
Scan ==
    /\ pc = "idle"
    /\ Found # {}
    /\ known' = known \cup Found
    /\ spent' = spent \cup FoundSpent
    /\ UNCHANGED <<plans, network, pc, cur, outcome, result, split, faults>>

-----------------------------------------------------------------------------
(* The auto-split loop of the send screen, over shieldedSpendChunk.        *)

\* The unspent notes that no operation under way is spending.
Free == IF pc = "idle" THEN Unspent ELSE Unspent \ plans[cur].inputs

(* submit: an amount beyond one spend, within what the fees leave of the   *)
(* notes shown; these may be outdated, and no quote counts as no fee.      *)
StartSplit(amount) ==
    /\ split.state # "on"
    /\ \E shown \in SUBSET known, fee \in Fees \cup {0} :
          /\ \A P \in LargestTwo(shown) : amount > Total(P) - fee
          /\ amount <= Total(shown) - fee * ((Cardinality(shown) + 1) \div 2)
          /\ split' = [state |-> "on", goal |-> amount, left |-> amount, chunks |-> {}, quoted |-> fee,
                       dearer |-> FALSE, crossed |-> ~(shown \subseteq Free)]
    /\ UNCHANGED <<plans, network, store, pc, cur, outcome, result, faults>>

\* mutant of ChunkAmount: more than what is left
ChunkAmountAll(N, quoted, remaining) == Total(N) - quoted

\* what one chunk moves: all the notes N hold beyond the fee, or what is left
ChunkAmount(N, quoted, remaining) == Min({Total(N) - quoted, remaining})

(* shieldedSpendChunk: scan, then move what the two largest notes can.     *)
SpendChunk(op, remaining, quoted) ==
    /\ pc = "idle"
    /\ Found = {}                       \* the scan ran (Scan) and found no more
    /\ Unspent # {}
    /\ \E picked \in LargestTwo(Unspent), fee \in Fees :
          LET amount == ChunkAmount(picked, quoted, remaining)
          IN  amount > 0 /\ Build(op, picked, amount, fee)
    /\ UNCHANGED <<network, store, outcome, faults>>

(* This screen's next chunk.                                               *)
Chunk(op) ==
    /\ split.state = "on"
    /\ \E quoted \in Fees :
          /\ SpendChunk(op, split.left, quoted)
          /\ split' = [split EXCEPT !.left = @ - plans'[cur'].pay, !.chunks = @ \cup {cur'},
                                   !.dearer = @ \/ quoted > split.quoted]

(* A chunk of another window's loop, or of one started before the sheet    *)
(* was opened again.                                                       *)
OtherChunk(op, remaining) ==
    /\ \E quoted \in Fees : SpendChunk(op, remaining, quoted)
    /\ split' = Crossing

\* mutant of ChunkDone: one unspent note is not worth a chunk
ChunkDoneEarly == Cardinality(Unspent) <= 1

\* shieldedSpendChunk: nothing unspent or nothing left answers "done"
ChunkDone == Unspent = {} \/ split.left = 0

FinishSplit ==
    /\ pc = "idle" /\ split.state = "on"
    /\ Found = {}
    /\ ChunkDone
    /\ split' = [split EXCEPT !.state = "done"]
    /\ UNCHANGED <<plans, network, store, pc, cur, outcome, result, faults>>

(* The popup is closed; a chunk under way goes on without it.              *)
CloseScreen ==
    /\ split.state = "on"
    /\ split' = NoSplit
    /\ UNCHANGED <<plans, network, store, pc, cur, outcome, result, faults>>

(* A chunk that cannot be built (dust, a note that is nowhere, a fee that  *)
(* rose) throws, and the loop shows the error.                             *)
ChunkThrows ==
    /\ pc = "idle" /\ split.state = "on"
    /\ split.left > 0 /\ Unspent # {}
    /\ \E quoted, fee \in Fees, picked \in LargestTwo(Unspent) :
          \/ Total(picked) <= quoted
          \/ ~Locatable(picked)
          \/ ChunkAmount(picked, quoted, split.left) + fee > Total(picked)
    /\ split' = NoSplit
    /\ UNCHANGED <<plans, network, store, pc, cur, outcome, result, faults>>

-----------------------------------------------------------------------------
(* Submission *)

\* the answer goes to whoever asked: an error ends the loop whose chunk it was
Report(r) ==
    /\ result' = [result EXCEPT ![cur] = r]
    /\ pc' = "idle"
    /\ split' = IF r = "error" /\ cur \in split.chunks THEN NoSplit ELSE split

Relayed == plans[cur].op # "shield"

\* where an error leads: a relayed spend looks at its nullifiers, a shield throws
OnError ==
    IF Relayed
    THEN pc' = "check" /\ UNCHANGED <<result, split>>
    ELSE Report("error")

(* submitPlan: the plan is broadcast and its hash returned.                *)
Submit ==
    /\ pc = "submit"
    /\ plans[cur].inputs \cap Nullified = {}
    /\ pending' = pending \cup {cur}
    /\ pc' = "await"
    /\ UNCHANGED <<plans, chain, indexed, store, cur, outcome, result, split, faults>>

(* Simulation refuses an input that is spent.                              *)
SubmitRefused ==
    /\ pc = "submit"
    /\ plans[cur].inputs \cap Nullified # {}
    /\ OnError
    /\ UNCHANGED <<plans, network, store, cur, outcome, faults>>

(* The relayer cannot be reached or refuses, or its answer is lost after   *)
(* it has broadcast the plan.                                              *)
SubmitFails ==
    /\ pc = "submit"
    /\ faults < MaxFaults /\ faults' = faults + 1
    /\ \/ UNCHANGED pending
       \/ plans[cur].inputs \cap Nullified = {} /\ pending' = pending \cup {cur}
    /\ OnError
    /\ UNCHANGED <<plans, chain, indexed, store, cur, outcome>>

\* mutant of AwaitTx: the hash is taken for the confirmation
AwaitNothing ==
    /\ pc = "await"
    /\ pc' = "add" /\ outcome' = "hash" /\ UNCHANGED <<result, split>>
    /\ UNCHANGED <<plans, network, store, cur, faults>>

(* awaitTx: the transaction succeeded, or failed.                          *)
AwaitTx ==
    /\ pc = "await"
    /\ cur \notin pending
    /\ IF cur \in Landed
       THEN pc' = "add" /\ outcome' = "hash" /\ UNCHANGED <<result, split>>
       ELSE OnError /\ UNCHANGED outcome
    /\ UNCHANGED <<plans, network, store, cur, faults>>

TimeoutIsSuccess ==   \* mutant of AwaitTimeout
    /\ pc = "await"
    /\ faults < MaxFaults /\ faults' = faults + 1
    /\ pc' = "add" /\ outcome' = "hash"
    /\ UNCHANGED <<plans, network, store, cur, result, split>>

(* Forty polls without an answer, or a poll that fails; the transaction    *)
(* stays valid for longer and may still be applied.                        *)
AwaitTimeout ==
    /\ pc = "await"
    /\ faults < MaxFaults /\ faults' = faults + 1
    /\ OnError
    /\ UNCHANGED <<plans, network, store, cur, outcome>>

CheckForever ==   \* mutant of Check: keep asking until the spend shows
    /\ pc = "check"
    /\ plans[cur].inputs \cap InputsOf(Seen(indexed)) # {}
    /\ pc' = "add" /\ outcome' = "already-submitted" /\ UNCHANGED <<result, split>>
    /\ UNCHANGED <<plans, network, store, cur, faults>>

(* submitRelayedIdempotent's catch: if the index has ANY input's           *)
(* nullifier, the plan counts as landed; otherwise the error is thrown.    *)
Check ==
    /\ pc = "check"
    /\ IF plans[cur].inputs \cap InputsOf(Seen(indexed)) # {}
       THEN pc' = "add" /\ outcome' = "already-submitted" /\ UNCHANGED <<result, split>>
       ELSE Report("error") /\ UNCHANGED outcome
    /\ UNCHANGED <<plans, network, store, cur, faults>>

MarkThenAdd ==   \* mutant of AddNotes: the inputs are flagged first
    /\ pc = "add"
    /\ spent' = spent \cup (plans[cur].inputs \cap known)
    /\ pc' = "mark"
    /\ UNCHANGED <<plans, network, known, cur, outcome, result, split, faults>>

(* persistPlan, first half: addShieldedNotes(plan.added).                  *)
AddNotes ==
    /\ pc = "add"
    /\ known' = known \cup Own({cur})
    /\ pc' = "mark"
    /\ UNCHANGED <<plans, network, spent, cur, outcome, result, split, faults>>

(* persistPlan, second half: markShieldedSpent(plan.spent).                *)
MarkSpent ==
    /\ pc = "mark"
    /\ spent' = spent \cup (plans[cur].inputs \cap known)
    /\ Report(outcome)
    /\ UNCHANGED <<plans, network, known, cur, outcome, faults>>

(* The browser stops the service worker; storage and broadcasts remain.    *)
Crash ==
    /\ pc # "idle"
    /\ faults < MaxFaults /\ faults' = faults + 1
    /\ Report("error")
    /\ UNCHANGED <<plans, network, store, cur, outcome>>

(* The wallet is installed again from its seed, or its blob is unreadable. *)
Reinstall ==
    /\ Reinstalls
    /\ pc = "idle" /\ known # {}
    /\ faults < MaxFaults /\ faults' = faults + 1
    /\ known' = {} /\ spent' = {}
    /\ split' = NoSplit
    /\ UNCHANGED <<plans, network, pc, cur, outcome, result>>

-----------------------------------------------------------------------------
Init ==
    /\ plans = [n \in DOMAIN Holdings |-> Incoming(Holdings[n])]
    /\ result = [n \in DOMAIN Holdings |-> "none"]
    /\ chain = [n \in DOMAIN Holdings |-> n]
    /\ indexed = Len(Holdings) /\ pending = {}
    /\ known = DOMAIN Holdings /\ spent = {}
    /\ pc = "idle" /\ cur = 0 /\ outcome = "hash"
    /\ split = NoSplit
    /\ faults = 0

Work == \/ Submit \/ SubmitRefused \/ AwaitTx \/ Check \/ AddNotes \/ MarkSpent

Next ==
    \/ \E p \in pending : Land(p) \/ Drop(p)
    \/ Index
    \/ \E a \in Deposits : Receive(a) \/ Shield(a)
    \/ \E a \in Amounts, op \in Ops : Spend(op, a)
    \/ \E a \in Amounts : StartSplit(a)
    \/ \E op \in Ops : Chunk(op)
    \/ \E a \in Amounts, op \in Ops : OtherChunk(op, a)
    \/ Scan
    \/ FinishSplit
    \/ CloseScreen
    \/ ChunkThrows
    \/ Work
    \/ SubmitFails
    \/ AwaitTimeout
    \/ Crash
    \/ Reinstall

Spec == Init /\ [][Next]_vars

(* An operation goes on by itself, and the network decides every broadcast. *)
FairSpec ==
    /\ Spec
    /\ WF_vars(Work)
    /\ WF_vars(\E p \in pending : Land(p) \/ Drop(p))

-----------------------------------------------------------------------------
TypeOK ==
    /\ plans \in Seq([op : {"receive", "shield", "send", "unshield"},
                      inputs : SUBSET Plans, pay : Nat, own : Nat])
    /\ Landed \subseteq Plans /\ indexed \in 0..Len(chain) /\ pending \subseteq Plans \ Landed
    /\ spent \subseteq known /\ known \subseteq Own(Plans)
    /\ pc \in {"idle", "submit", "await", "check", "add", "mark"}
    /\ cur \in 0..Len(plans) /\ outcome \in {"hash", "already-submitted"}
    /\ result \in Seq({"none", "hash", "already-submitted", "error"})
    /\ split.state \in {"off", "on", "done"} /\ split.left \in 0..split.goal /\ split.chunks \subseteq Plans
    /\ faults \in 0..MaxFaults

(* The store holds no note that the pool does not: a balance shown, and    *)
(* inputs selected, are notes that exist.                                  *)
StoredNotesExist == known \subseteq Landed

(* A note flagged spent is spent: nothing brings a flagged note back, so a *)
(* wrong flag hides money ("fund-safe", shielded.ts:341).                  *)
MarkedIsSpent == spent \subseteq Nullified

(* "scan before selecting inputs so the note set is on-chain truth"        *)
(* (shielded.ts:356): between operations the unspent notes are unspent.    *)
StoreIsTruth == pc = "idle" => Unspent \cap Nullified = {}

(* "an already-spent input means it landed" (shielded.ts:153): a request   *)
(* reported as done was carried out, by this plan or an earlier one for    *)
(* the same thing.                                                         *)
SuccessMeansPaid ==
    \A p \in Plans :
        result[p] \in {"hash", "already-submitted"} =>
            \E q \in Landed : plans[q].op = plans[p].op /\ plans[q].pay = plans[p].pay

(* As long as no operation was interrupted, all of this holds.             *)
Truthful ==
    faults = 0 => /\ StoredNotesExist
                  /\ MarkedIsSpent
                  /\ StoreIsTruth
                  /\ SuccessMeansPaid

(* "true once the full requested amount has been sent" (shielded.ts:186):  *)
(* between chunks an uninterrupted split has sent what its progress says,  *)
(* whatever other operations run between them; and it has sent its goal    *)
(* when it ends, unless a chunk was quoted more than the split reckoned    *)
(* with, or another operation spent notes that it counted on.              *)
SplitPaysAll ==
    faults = 0 /\ split.state # "off" /\ pc = "idle" =>
        /\ Paid(split.chunks \cap Landed) = split.goal - split.left
        /\ split.state = "done" /\ ~split.dearer /\ ~split.crossed => split.left = 0

(* "adds new notes before marking inputs spent so a crash never loses the  *)
(* change note" (shielded.ts:147): a note flagged spent was spent by a     *)
(* payment that landed and whose change, if any, is stored; or a payment   *)
(* that never landed was reported as already submitted (wallet_success).   *)
ChangeKept ==
    \A n \in spent : \E p \in Plans :
        /\ n \in plans[p].inputs
        /\ IF p \in Landed THEN Own({p}) \subseteq known ELSE result[p] = "already-submitted"

(* A reported hash is that of a transaction that was applied.              *)
HashMeansLanded == \A p \in Plans : result[p] = "hash" => p \in Landed

(* "keep the chain alive on rejection so one failure does not wedge the    *)
(* queue" (shielded.ts:121): every operation gives the lock back.          *)
LockReleased == []<>(pc = "idle")

(* The store's types, what it says without faults, and what is reported.   *)
WalletInv == TypeOK /\ Truthful /\ HashMeansLanded
=============================================================================
