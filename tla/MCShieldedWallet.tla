--------------------------- MODULE MCShieldedWallet ---------------------------
(***************************************************************************)
(* What the extension does with notes, one part at a time: the shielded    *)
(* wallet, with three notes of three, where a payment of six needs two     *)
(* chunks; the document that makes its proofs, whose answers the wallet's  *)
(* model takes as steps that succeed or fail; and one private payment that *)
(* may be delivered, reclaimed or lost with its store.                     *)
(***************************************************************************)
EXTENDS ShieldedWallet, Offscreen

MCHoldings == <<3, 3, 3>>

VARIABLES focus, txs, seq, seen, jobs, paid, stored, mem, leaves, leavesAge, at, step, mishapsPaid

payVars == <<txs, seq, seen, jobs, paid, stored, mem, leaves, leavesAge, at, step, mishapsPaid>>
Pay == INSTANCE PrivatePayments WITH
    indexed <- seen, pc <- step, faults <- mishapsPaid,
    MaxCounter <- 1, MaxAttempts <- 2, Validity <- 1, Margin <- 2, Lag <- 1, Fresh <- 0,
    MaxReclaims <- 2, MaxFaults <- 1, Reinstalls <- TRUE

all == <<focus, vars, offscreenVars, payVars>>
InWallet(A) == focus = "wallet" /\ A /\ UNCHANGED <<focus, offscreenVars, payVars>>
InProver(A) == focus = "prover" /\ A /\ UNCHANGED <<focus, vars, payVars>>
InPayment(A) == focus = "payment" /\ A /\ UNCHANGED <<focus, vars, offscreenVars>>

WalletInit == focus \in {"wallet", "prover", "payment"} /\ Init /\ OffscreenInit /\ Pay!Init
WalletNext == InWallet(Next) \/ InProver(OffscreenNext) \/ InPayment(Pay!Next)
WalletSpec ==
    /\ WalletInit /\ [][WalletNext]_all
    /\ WF_all(InWallet(Work))
    /\ WF_all(InWallet(\E p \in pending : Land(p) \/ Drop(p)))
    /\ WF_all(InProver(Created))
    /\ \A r \in Proofs : WF_all(InProver(ensureOffscreen(r) \/ Runs(r)))
    /\ WF_all(InPayment(Pay!Pass)) /\ WF_all(InPayment(Pay!Network)) /\ WF_all(InPayment(Pay!Tick))

\* The private payment settles, here with reclaims, a second attempt and reinstalls.
NoteSettles == Pay!NoteSettles

\* Whoever waits is served: the lock is released, a proof request is answered, a private note settles,
\* and one that settles as delivered was paid.
EveryWaitEnds == LockReleased /\ ProofAnswered /\ NoteSettles /\ []Pay!DeliveredIsPaid
===============================================================================
