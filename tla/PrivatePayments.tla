--------------------------- MODULE PrivatePayments ---------------------------
(***************************************************************************)
(* The extension's private payments (background/privatePayments.ts): notes *)
(* of fixed denominations are committed to a pool from the user's account  *)
(* and revealed to the recipient by a relayer's job, or back to the owner. *)
(*                                                                         *)
(* All notes are of one pool and one relayer fee, so a note's leaf and its *)
(* nullifier are its counter.  `mem` is the copy of the notes that the     *)
(* holder of the source lock works on; `stored` is what saveNotes wrote.   *)
(* Time is counted in units of which Validity, Margin, Lag and Fresh are   *)
(* multiples.                                                              *)
(***************************************************************************)
EXTENDS Integers, SequencesExt

CONSTANTS
    MaxCounter,   \* bound: notes have counters below it
    MaxAttempts,  \* MAX_COMMIT_ATTEMPTS
    Validity,     \* txTimeout
    Margin,       \* COMMIT_INDEXER_MARGIN_MS
    Lag,          \* the longest a landed commit waits to be indexed
    Fresh,        \* how old the leaves of a pass may be for Margin to cover it
    MaxReclaims,  \* bound: reclaims broadcast
    MaxFaults,    \* bound: crashes, failed and lost calls, lost transactions
    Reinstalls    \* whether the note store may be lost

ASSUME PaymentAssumptions ==
    /\ {MaxCounter, MaxAttempts, Validity, Margin, Lag, Fresh, MaxReclaims, MaxFaults} \subseteq Nat
    /\ Reinstalls \in BOOLEAN

VARIABLES
    txs,      \* the account's transactions: [kind, counter, seq, state, age, lost]
    seq,      \* the account's sequence number
    indexed,  \* the commits that the relayer has indexed
    jobs,     \* the relayer's jobs: [counter, to, state]
    paid,     \* who was paid for each nullifier
    stored,   \* the note store
    mem,      \* the working copy of the lock's holder
    leaves,   \* the leaves it has fetched,
    leavesAge, \* and how old they are
    at,       \* the note it works on
    pc,       \* what it does
    faults

chain == <<txs, seq, indexed, jobs, paid>>
work  == <<mem, leaves, leavesAge, at, pc>>
vars  == <<txs, seq, indexed, jobs, paid, stored, mem, leaves, leavesAge, at, pc, faults>>

Counters == 0..(MaxCounter - 1)
Leaves   == {txs[t].counter : t \in indexed}
n        == mem[at]                           \* the note worked on
tx       == txs[Len(txs)]                     \* the transaction awaited
InFlight(note) == note.status \in {"pending", "committed", "scheduled"}

Fault == faults < MaxFaults /\ faults' = faults + 1

-----------------------------------------------------------------------------
(* The network, the indexer and the relayer's jobs (external) *)

Valid(t) == txs[t].state = "open" /\ txs[t].seq = seq + 1

Set(t, state) == txs' = [txs EXCEPT ![t].state = state]

(* A transaction is applied; the pool rejects a nullifier that was used.   *)
Land(t) ==
    /\ Valid(t)
    /\ seq' = seq + 1
    /\ LET c == txs[t].counter IN
       IF txs[t].kind = "commit"
       THEN Set(t, "landed") /\ UNCHANGED paid
       ELSE IF paid[c] = "nobody"
            THEN Set(t, "landed") /\ paid' = [paid EXCEPT ![c] = "owner"]
            ELSE Set(t, "failed") /\ UNCHANGED paid
    /\ UNCHANGED <<indexed, jobs, stored, work, faults>>

Revert(t) ==
    /\ Valid(t) /\ Fault
    /\ seq' = seq + 1
    /\ Set(t, "failed")
    /\ UNCHANGED <<indexed, jobs, paid, stored, work>>

(* Another transaction used its sequence number, or it was never included. *)
Expire(t) ==
    /\ txs[t].state = "open"
    /\ IF txs[t].seq <= seq THEN UNCHANGED faults ELSE Fault
    /\ Set(t, "gone")
    /\ UNCHANGED <<seq, indexed, jobs, paid, stored, work>>

Unindexed == {t \in DOMAIN txs : txs[t].kind = "commit" /\ txs[t].state = "landed"} \ indexed

Index(t) ==
    /\ t \in Unindexed
    /\ indexed' = indexed \cup {t}
    /\ UNCHANGED <<txs, seq, jobs, paid, stored, work, faults>>

(* The relayer reveals, or gives up.                                       *)
RunJob(j) ==
    /\ jobs[j].state = "queued"
    /\ LET c == jobs[j].counter
           end(s) == jobs' = [jobs EXCEPT ![j].state = s]
       IN  \/ /\ paid[c] = "nobody"
              /\ end("confirmed") /\ paid' = [paid EXCEPT ![c] = jobs[j].to]
              /\ UNCHANGED faults
           \/ paid[c] # "nobody" /\ end("nullifier") /\ UNCHANGED <<paid, faults>>
           \/ Fault /\ end("dead") /\ UNCHANGED paid
    /\ UNCHANGED <<txs, seq, indexed, stored, work>>

OldAge == Validity + Margin

(* Time passes: no transaction outlives its validity and no commit waits   *)
(* for the indexer longer than Lag.                                        *)
Tick ==
    /\ \A t \in DOMAIN txs :
          /\ txs[t].state = "open" => txs[t].age < Validity
          /\ t \in Unindexed => txs[t].age < Validity + Lag
    /\ txs' = [t \in DOMAIN txs |->
                  [txs[t] EXCEPT !.age = IF @ < OldAge THEN @ + 1 ELSE @]]
    /\ leavesAge' = IF pc = "idle" \/ leavesAge > Fresh THEN leavesAge ELSE leavesAge + 1
    /\ UNCHANGED <<seq, indexed, jobs, paid, stored, mem, leaves, at, pc, faults>>

-----------------------------------------------------------------------------
(* Operations under the source lock *)

UnlockedAlways == TRUE   \* mutant of Unlocked: operations interleave

(* withSourceLock: one operation at a time.                                *)
Unlocked == pc = "idle"

Release == mem' = <<>> /\ leaves' = {} /\ at' = 0 /\ pc' = "idle" /\ leavesAge' = 0

NewNote(c, to, status, t) ==
    [counter |-> c, to |-> to, status |-> status, tx |-> t, job |-> 0,
     attempts |-> 0, recovered |-> FALSE]

NextCounter ==
    Max({0} \cup {stored[k].counter + 1 : k \in DOMAIN stored})

(* prepareSend: k pieces, stored before anything is committed.             *)
Send(k) ==
    /\ Unlocked
    /\ NextCounter + k <= MaxCounter
    /\ stored' = stored \o
          [p \in 1..k |-> NewNote(NextCounter + p - 1, "recipient", "pending", 0)]
    /\ UNCHANGED <<chain, work, faults>>

(* processNotes: take the notes in order; the leaves are fetched once.     *)
BeginPass ==
    /\ Unlocked
    /\ \E k \in DOMAIN stored :
          /\ InFlight(stored[k])
          /\ \A m \in 1..(k - 1) : ~InFlight(stored[m])
          /\ at' = k
    /\ mem' = stored /\ leaves' = Leaves /\ pc' = "pass" /\ leavesAge' = 0
    /\ UNCHANGED <<chain, stored, faults>>

(* The note is done with: save all notes and take the next.                *)
Save(note) ==
    LET m    == [mem EXCEPT ![at] = note]
        rest == {k \in (at + 1)..Len(m) : InFlight(m[k])}
    IN  /\ stored' = m
        /\ IF rest = {} \/ pc = "claim"
           THEN Release
           ELSE at' = Min(rest) /\ mem' = m /\ pc' = "pass" /\ UNCHANGED <<leaves, leavesAge>>

(* commitOne: the leaf is there, so the commit landed.                     *)
AlreadyCommitted ==
    /\ pc = "pass" /\ n.status = "pending"
    /\ n.counter \in leaves
    /\ Save([n EXCEPT !.status = "committed"])
    /\ UNCHANGED <<chain, faults>>

\* mutant of LeafMissing: a note once committed is never committed again
LeafMissingPending ==
    /\ pc = "pass"
    /\ n.status = "pending"
    /\ n.counter \notin leaves

(* processNotes: pending, or committed with a leaf that does not show.     *)
LeafMissing ==
    /\ pc = "pass"
    /\ n.status \in {"pending", "committed"}
    /\ n.counter \notin leaves

\* mutant of ReArmElapsed: the margin for the indexer is left out
ReArmNoMargin(t) == txs[t].age >= Validity

(* commitReArmElapsed.                                                     *)
ReArmElapsed(t) == txs[t].age >= Validity + Margin

(* commitRetryDecision "wait" or "landed": the RPC says that the broadcast *)
(* landed, or says nothing and the window is open.                         *)
Hold ==
    /\ LeafMissing /\ n.tx # 0
    /\ txs[n.tx].state = "landed" \/ ~ReArmElapsed(n.tx)
    /\ Save([n EXCEPT !.status = "committed"])
    /\ UNCHANGED <<chain, faults>>

GoSubmit(note) ==
    /\ mem' = [mem EXCEPT ![at] = note]
    /\ pc' = "submit"
    /\ UNCHANGED <<seq, indexed, jobs, paid, leaves, leavesAge, at, faults>>

(* commitRetryDecision "resubmit": the RPC says it failed, or the window   *)
(* has elapsed.  (lost records a decision on leaves that were too old.)    *)
ReArm ==
    /\ LeafMissing /\ n.tx # 0
    /\ txs[n.tx].state = "failed" \/ ReArmElapsed(n.tx)
    /\ GoSubmit([n EXCEPT !.tx = 0, !.status = "pending"])
    /\ stored' = mem'
    /\ txs' = [txs EXCEPT ![n.tx].lost = @ \/ leavesAge > Fresh]

FirstCommit ==
    /\ LeafMissing /\ n.tx = 0
    /\ GoSubmit([n EXCEPT !.status = "pending"])
    /\ UNCHANGED <<stored, txs>>

NewTx(kind, c) ==
    txs' = Append(txs, [kind |-> kind, counter |-> c, seq |-> seq + 1,
                        state |-> "open", age |-> 0, lost |-> FALSE])

(* submitCommit: simulated, signed and sent at the account's sequence.     *)
Broadcast ==
    /\ pc = "submit"
    /\ NewTx("commit", n.counter)
    /\ mem' = [mem EXCEPT ![at].attempts = @ + 1]
    /\ pc' = "sent"
    /\ UNCHANGED <<seq, indexed, jobs, paid, stored, leaves, at, leavesAge, faults>>

(* onBroadcast: the hash is saved.                                         *)
SaveHash ==
    /\ pc = "sent"
    /\ mem' = [mem EXCEPT ![at].tx = Len(txs)]
    /\ stored' = mem'
    /\ pc' = "await"
    /\ UNCHANGED <<chain, leaves, at, leavesAge, faults>>

GaveUp(note) == note.attempts >= MaxAttempts

(* commitOne's catch: the hash is cleared.                                 *)
CommitThrows(note) ==
    Save([note EXCEPT !.tx = 0, !.status = IF GaveUp(note) THEN "failed" ELSE "pending"])

(* The factory check fails, or names another pool; then locked, a refused  *)
(* simulation or a refused send.                                           *)
SubmitFails ==
    /\ pc = "submit" /\ Fault
    /\ \/ CommitThrows(n)
       \/ Save([n EXCEPT !.tx = 0, !.status = "failed"])
       \/ CommitThrows([n EXCEPT !.attempts = @ + 1])
    /\ UNCHANGED chain

Awaited ==
    /\ pc = "await"
    /\ tx.state = "landed"
    /\ Save([n EXCEPT !.status = "committed"])
    /\ UNCHANGED <<chain, faults>>

AwaitedFailure ==
    /\ pc = "await"
    /\ tx.state = "failed"
    /\ CommitThrows(n)
    /\ UNCHANGED <<chain, faults>>

(* The polls end without an answer: the hash is returned all the same.     *)
Unconfirmed ==
    /\ pc = "await"
    /\ tx.age >= Validity
    /\ Save([n EXCEPT !.status = "committed"])
    /\ UNCHANGED <<chain, faults>>

(* The answer to the send is lost, or a poll throws: the transaction was   *)
(* broadcast, and its hash is forgotten.                                   *)
PollThrows ==
    /\ pc \in {"sent", "await"} /\ Fault
    /\ txs' = [txs EXCEPT ![Len(txs)].lost = TRUE]
    /\ CommitThrows(n)
    /\ UNCHANGED <<seq, indexed, jobs, paid>>

-----------------------------------------------------------------------------
(* Reveals *)

NewJob(note) == jobs' = Append(jobs, [counter |-> note.counter, to |-> note.to,
                                      state |-> "queued"])

\* mutant of Scheduled: the job's id is not kept
ScheduledNoJob(note) == [note EXCEPT !.status = "scheduled"]

\* reveal: what schedule's answer changes
Scheduled(note) == [note EXCEPT !.status = "scheduled", !.job = Len(jobs) + 1]

(* reveal: proven and scheduled with the relayer.                          *)
Reveal ==
    /\ pc = "pass" /\ n.status = "committed"
    /\ n.counter \in leaves
    /\ NewJob(n)
    /\ Save(Scheduled(n))
    /\ UNCHANGED <<txs, seq, indexed, paid, faults>>

(* The relayer cannot be reached or its answer is lost, or no proof is made. *)
RevealFails ==
    /\ pc = "pass" /\ n.status = "committed" /\ Fault
    /\ n.counter \in leaves
    /\ \/ (UNCHANGED jobs \/ NewJob(n)) /\ Save(n)
       \/ UNCHANGED jobs /\ Save([n EXCEPT !.status = "failed"])
    /\ UNCHANGED <<txs, seq, indexed, paid>>

\* mutant of JobOutcome: a job that died is taken for a delivery
JobOutcomeDead(s) == CASE s = "queued" -> "scheduled" [] OTHER -> "revealed"

\* confirmScheduled: a used nullifier means that an earlier attempt delivered
JobOutcome(s) ==
    CASE s = "queued" -> "scheduled"
      [] s \in {"confirmed", "nullifier"} -> "revealed"
      [] s = "dead" -> "failed"

ConfirmScheduled ==
    /\ pc = "pass" /\ n.status = "scheduled"
    /\ Save([n EXCEPT !.status = JobOutcome(jobs[n.job].state), !.recovered = FALSE])
    /\ UNCHANGED <<chain, faults>>

(* revealNote: the user asks again.                                        *)
RevealNote(k) ==
    /\ Unlocked
    /\ stored[k].status \in {"committed", "failed"}
    /\ stored[k].counter \in Leaves
    /\ NewJob(stored[k])
    /\ stored' = [stored EXCEPT ![k] = Scheduled(@)]
    /\ UNCHANGED <<txs, seq, indexed, paid, work, faults>>

Reclaimable(k) ==
    /\ Unlocked
    /\ stored[k].status \notin {"pending", "revealed"}
    /\ stored[k].counter \in Leaves

(* selfReclaim: the owner's own reveal is sent; the lock is kept.          *)
SelfReclaim(k) ==
    /\ Reclaimable(k)
    /\ paid[stored[k].counter] = "nobody"
    /\ Cardinality({t \in DOMAIN txs : txs[t].kind = "reveal"}) < MaxReclaims
    /\ NewTx("reveal", stored[k].counter)
    /\ mem' = stored /\ at' = k /\ pc' = "claim" /\ leavesAge' = 0 /\ leaves' = {}
    /\ UNCHANGED <<seq, indexed, jobs, paid, stored, faults>>

(* Simulation finds the nullifier used: delivered.                         *)
ReclaimRefused(k) ==
    /\ Reclaimable(k)
    /\ paid[stored[k].counter] # "nobody"
    /\ stored' = [stored EXCEPT ![k].status = "revealed"]
    /\ UNCHANGED <<chain, work, faults>>

(* The hash is returned, confirmed or not.                                 *)
Reclaimed ==
    /\ pc = "claim"
    /\ tx.state = "landed" \/ tx.age >= Validity
    /\ Save([n EXCEPT !.status = "revealed", !.recovered = TRUE])
    /\ UNCHANGED <<chain, faults>>

ReclaimReverted ==
    /\ pc = "claim"
    /\ tx.state = "failed"
    /\ Save(n)
    /\ UNCHANGED <<chain, faults>>

(* A poll throws, or no proof was made.                                    *)
ReclaimFails ==
    /\ pc = "claim" /\ Fault
    /\ Save(n) \/ Save([n EXCEPT !.status = "failed", !.recovered = FALSE])
    /\ UNCHANGED chain

-----------------------------------------------------------------------------
(* Failures *)

Sent == IF pc = "sent" THEN {Len(txs)} ELSE {}

(* The service worker stops, or the wallet is locked between two notes.    *)
Crash ==
    /\ pc # "idle" /\ Fault
    /\ txs' = [t \in DOMAIN txs |-> IF t \in Sent THEN [txs[t] EXCEPT !.lost = TRUE]
                                                  ELSE txs[t]]
    /\ Release
    /\ UNCHANGED <<seq, indexed, jobs, paid, stored>>

Reinstall ==
    /\ Reinstalls /\ Unlocked /\ stored # <<>> /\ Fault
    /\ stored' = <<>>
    /\ txs' = [t \in DOMAIN txs |-> [txs[t] EXCEPT !.lost = TRUE]]
    /\ UNCHANGED <<seq, indexed, jobs, paid, work>>

(* recoverFromSeed: the account's commits, as far as Horizon answers, that *)
(* no stored note has; each is revealed back to its owner.                 *)
Recover ==
    /\ Unlocked
    /\ \E upTo \in DOMAIN txs :
          LET known == {stored[k].counter : k \in DOMAIN stored}
              found == {t \in 1..upTo : /\ txs[t].kind = "commit"
                                        /\ txs[t].state = "landed"
                                        /\ txs[t].counter \notin known}
          IN  /\ found # {}
              /\ stored' = stored \o SetToSeq({NewNote(txs[t].counter, "owner", "committed", t) :
                                                  t \in found})
    /\ UNCHANGED <<chain, work, faults>>

-----------------------------------------------------------------------------
Init ==
    /\ txs = <<>> /\ seq = 0 /\ indexed = {} /\ jobs = <<>>
    /\ paid = [c \in Counters |-> "nobody"]
    /\ stored = <<>> /\ mem = <<>> /\ leaves = {} /\ at = 0 /\ pc = "idle" /\ leavesAge = 0
    /\ faults = 0

Pass ==
    \/ BeginPass \/ AlreadyCommitted \/ Hold \/ ReArm \/ FirstCommit \/ Broadcast
    \/ SaveHash \/ Awaited \/ AwaitedFailure \/ Unconfirmed \/ Reveal
    \/ ConfirmScheduled \/ Reclaimed \/ ReclaimReverted

Network ==
    \/ \E t \in DOMAIN txs : Land(t) \/ Expire(t) \/ Index(t)
    \/ \E j \in DOMAIN jobs : RunJob(j)

Next ==
    \/ \E k \in 1..2 : Send(k)
    \/ Pass
    \/ \E k \in DOMAIN stored : RevealNote(k) \/ SelfReclaim(k) \/ ReclaimRefused(k)
    \/ Network
    \/ \E t \in DOMAIN txs : Revert(t)
    \/ Tick
    \/ SubmitFails \/ PollThrows \/ RevealFails \/ ReclaimFails
    \/ Crash
    \/ Reinstall
    \/ Recover

Spec == Init /\ [][Next]_vars

(* The alarm starts a pass every minute, an operation goes on by itself,   *)
(* the network, the indexer and the relayer's jobs proceed, time passes.   *)
FairSpec ==
    /\ Spec
    /\ WF_vars(Pass)
    /\ WF_vars(Network)
    /\ WF_vars(Tick)

-----------------------------------------------------------------------------
Note == [counter : Counters, to : {"recipient", "owner"},
         status : {"pending", "committed", "scheduled", "revealed", "failed"},
         tx : 0..Len(txs), job : 0..Len(jobs), attempts : Nat, recovered : BOOLEAN]

TypeOK ==
    /\ \A t \in DOMAIN txs :
          /\ txs[t].kind \in {"commit", "reveal"} /\ txs[t].counter \in Counters
          /\ txs[t].state \in {"open", "landed", "failed", "gone"}
          /\ txs[t].seq \in 1..(seq + 1) /\ txs[t].age \in 0..OldAge
          /\ txs[t].lost \in BOOLEAN
    /\ indexed \subseteq DOMAIN txs
    /\ \A j \in DOMAIN jobs : jobs[j].state \in {"queued", "confirmed", "nullifier", "dead"}
    /\ paid \in [Counters -> {"nobody", "recipient", "owner"}]
    /\ stored \in Seq(Note) /\ mem \in Seq(Note)
    /\ \A k \in DOMAIN stored : stored[k].status = "scheduled" => stored[k].job # 0
    /\ pc \in {"idle", "pass", "submit", "sent", "await", "claim"}
    /\ at \in 0..Len(mem) /\ (pc = "idle" <=> at = 0)
    /\ leavesAge \in 0..(Fresh + 1) /\ faults \in 0..MaxFaults

DepositsOf(c) ==
    {t \in DOMAIN txs : txs[t].kind = "commit" /\ txs[t].counter = c /\ txs[t].state = "landed"}

(* "re-running recovers from persisted state without double-committing"    *)
(* (privatePayments.ts:730): no note is deposited twice.                   *)
DepositedOnce == \A c \in Counters : Cardinality(DepositsOf(c)) <= 1

(* The same for notes of which no broadcast was forgotten, or given up on  *)
(* leaves older than Fresh, across crashes, a lagging indexer, an RPC that *)
(* does not answer and a wallet that locks.                                *)
DepositedOnceIfKept ==
    \A c \in Counters :
        (\A t \in DOMAIN txs : txs[t].counter = c => ~txs[t].lost)
            => Cardinality(DepositsOf(c)) <= 1

(* The notes' types, and one deposit per note that is kept.                *)
PaymentsInv == TypeOK /\ DepositedOnceIfKept

(* A note shown as delivered was paid out, and, unless something failed,   *)
(* to the one it says: "delivered" is never said of a stranded deposit     *)
(* (privatePayments.ts:147).                                               *)
DeliveredIsPaid ==
    \A k \in DOMAIN stored :
        stored[k].status = "revealed" /\ ~stored[k].recovered =>
            /\ paid[stored[k].counter] # "nobody"
            /\ faults = 0 => paid[stored[k].counter] = stored[k].to

(* "Two awaited runs can interleave and read the same counter, deriving    *)
(* duplicate notes or clobbering the storage key" (privatePayments.ts:151):*)
(* a stored note stays, with its counter and what was delivered, until the *)
(* store is lost.                                                          *)
NothingClobbered ==
    [][\A k \in DOMAIN stored :
          \/ stored' = <<>>
          \/ /\ k \in DOMAIN stored'
             /\ stored'[k].counter = stored[k].counter
             /\ stored[k].status = "revealed" => stored'[k].status = "revealed"]_vars

(* Every note that is under way comes to an end, delivered or failed.      *)
Under(c) == \E k \in DOMAIN stored : stored[k].counter = c /\ InFlight(stored[k])

NoteSettles == \A c \in Counters : []<>~Under(c)
=============================================================================
