---------------------------- MODULE ShieldedSheet ----------------------------
(***************************************************************************)
(* The sheet that shields, sends and unshields.  It stays mounted when it  *)
(* is closed, so a request, and the loop that splits an amount the two     *)
(* largest notes cannot cover, go on and report to the next opening.       *)
(***************************************************************************)
EXTENDS Naturals

CONSTANTS
    Holders,        \* accounts of the wallet
    MaxAmount,      \* bound: amounts entered, and what notes can deliver
    MaxOpenings,    \* bound: openings of the sheet
    MaxLoops,       \* bound: submissions
    MaxHandovers    \* bound: changes of account

ASSUME SheetAssumption == MaxAmount \in Nat /\ MaxLoops \in Nat

SheetActions == {"shield", "send", "unshield"}
NoAction == "none"

VARIABLES
    form,           \* the sheet's state, see NewOpening
    opening,        \* history: openings of the sheet
    loops,          \* submissions in the order they were made
    loopCount,
    holder,         \* the account whose notes the worker spends
    guarded,        \* the account of the last scope the guard saw
    worth,          \* what chunks can still deliver of its notes at the fee the sheet was quoted
    trusted,        \* the asset's trustline exists
    outlived,       \* history: the sheet was opened again while a submission ran
    handovers       \* history: changes of account

sheetVars == <<form, opening, loops, loopCount, holder, guarded, worth, trusted, outlived, handovers>>

NewOpening(action) ==
    [action |-> action, submitting |-> FALSE, error |-> FALSE, done |-> FALSE,
     progress |-> 0, trustline |-> FALSE]
NoLoop == [at |-> "unused"]
SheetInit ==
    /\ form = NewOpening(NoAction) /\ opening = 0 /\ outlived = FALSE
    /\ loops = [n \in 1..MaxLoops |-> NoLoop] /\ loopCount = 0
    /\ holder \in Holders /\ guarded = holder /\ worth \in 0..MaxAmount
    /\ trusted \in BOOLEAN /\ handovers = 0

Split(l) == l.total > 1
Running(n) == loops[n].at \in {"asked", "answered", "failed"}
SomeRunning == \E n \in 1..MaxLoops : Running(n)

----------------------------------------------------------------------------
(* The sheet *)

\* openShieldedForPool, and the effect that clears the sheet
OpenSheet(action) ==
    /\ form.action = NoAction /\ opening < MaxOpenings
    /\ form' = NewOpening(action) /\ opening' = opening + 1
    /\ outlived' = (outlived \/ SomeRunning)
    /\ UNCHANGED <<loops, loopCount, holder, guarded, worth, trusted, handovers>>

\* A click beside it, Escape, the close button, Done, or another asset; nothing asks whether it is busy.
CloseSheet ==
    /\ form.action # NoAction /\ ~form.trustline
    /\ form' = [form EXCEPT !.action = NoAction]
    /\ UNCHANGED <<opening, loops, loopCount, holder, guarded, worth, trusted, outlived, handovers>>

OpenTrustline ==
    /\ form.action = "unshield" /\ ~trusted /\ ~form.trustline /\ ~form.done
    /\ form' = [form EXCEPT !.trustline = TRUE]
    /\ UNCHANGED <<opening, loops, loopCount, holder, guarded, worth, trusted, outlived, handovers>>
confirmTrustline ==
    /\ form.trustline
    /\ form' = [form EXCEPT !.trustline = FALSE]
    /\ trusted' \in {trusted, TRUE}
    /\ UNCHANGED <<opening, loops, loopCount, holder, guarded, worth, outlived, handovers>>

\* mutant of canSubmit: the guard against a second submission is gone
canSubmitAgain == ~form.done
canSubmit ==
    /\ ~form.done /\ ~form.submitting
    /\ form.action = "unshield" => trusted

\* What one transaction covers goes in one, and is paid or not as a whole: its
\* amount is 1.  More goes in chunks.  The balance and the fee this is judged by
\* may be outdated, or the fee not known yet: a split is cut when the notes it
\* counts on fall short.
submit ==
    /\ form.action # NoAction /\ ~form.trustline /\ canSubmit /\ loopCount < MaxLoops
    /\ loopCount' = loopCount + 1
    /\ form' = [form EXCEPT !.submitting = TRUE, !.error = FALSE, !.progress = 0]
    /\ \E amount \in (IF form.action = "shield" THEN {1} ELSE 1..MaxAmount) :
          loops' = [loops EXCEPT ![loopCount'] =
                       [at |-> "asked", opening |-> opening, by |-> holder, action |-> form.action,
                        total |-> amount, left |-> amount, delivered |-> 0, strayed |-> FALSE,
                        cut |-> amount > 1 /\ amount > worth]]
    /\ UNCHANGED <<opening, holder, guarded, worth, trusted, outlived, handovers>>

----------------------------------------------------------------------------
(* The worker, one operation at a time *)

\* A part of a submission is paid by the account of the moment; `dearer` when the fee has risen.
Paid(l, amount, dearer) ==
    [l EXCEPT !.at = "answered", !.left = @ - amount, !.delivered = @ + amount,
              !.strayed = @ \/ holder # l.by, !.cut = @ \/ dearer]

\* SHIELDED_SHIELD, SHIELDED_SEND and SHIELDED_UNSHIELD do all or fail.  A chunk sends what two notes are worth
\* beyond the fee, never less than planned unless it has risen; without a note it is done with nothing left.
Spends(n) ==
    LET l == loops[n] IN
    /\ l.at = "asked"
    /\ \/ loops' = [loops EXCEPT ![n].at = "failed"] /\ UNCHANGED worth
       \/ \E amount \in 1..l.left, dearer \in BOOLEAN, rest \in 0..MaxAmount :
             /\ ~Split(l) => amount = l.left /\ ~dearer
             /\ amount < l.left /\ ~dearer => amount + rest >= worth
             /\ loops' = [loops EXCEPT ![n] = Paid(l, amount, dearer)]
             /\ worth' = rest
       \/ /\ Split(l) /\ worth = 0
          /\ loops' = [loops EXCEPT ![n].at = "answered", ![n].left = 0] /\ UNCHANGED worth
    /\ UNCHANGED <<form, opening, loopCount, holder, guarded, trusted, outlived, handovers>>

\* A receipt, or another window's operation: the lock of the worker is free between two chunks.
NotesMove ==
    /\ worth' \in 0..MaxAmount
    /\ loops' = [n \in 1..MaxLoops |->
          IF Running(n) /\ Split(loops[n]) /\ worth' < worth THEN [loops[n] EXCEPT !.cut = TRUE] ELSE loops[n]]
    /\ UNCHANGED <<form, opening, loopCount, holder, guarded, trusted, outlived, handovers>>

\* mutants of ChunkFails: a failed chunk ends the loop as a finished one does, or leaves the button busy
ChunkFailsDone(f) == [f EXCEPT !.submitting = FALSE, !.progress = 0, !.done = TRUE]
ChunkFailsBusy(f) == [f EXCEPT !.progress = 0, !.error = TRUE]
ChunkFails(f) == [f EXCEPT !.submitting = FALSE, !.progress = 0, !.error = TRUE]

\* The answer of the chunk, or of the single transaction: the next chunk, the success screen, or the error.
Answer(n) ==
    LET l == loops[n] IN
    /\ \/ /\ l.at = "failed"
          /\ form' = ChunkFails(form) /\ loops' = [loops EXCEPT ![n].at = "ended"]
       \/ /\ l.at = "answered" /\ l.left > 0
          /\ form' = [form EXCEPT !.progress = l.total - l.left]
          /\ loops' = [loops EXCEPT ![n].at = "asked"]
       \/ /\ l.at = "answered" /\ l.left = 0
          /\ form' = [form EXCEPT !.submitting = FALSE, !.progress = 0, !.done = TRUE]
          /\ loops' = [loops EXCEPT ![n].at = "ended"]
    /\ UNCHANGED <<opening, loopCount, holder, guarded, worth, trusted, outlived, handovers>>

----------------------------------------------------------------------------
\* Another account is chosen, here or in another window.
Handover ==
    /\ handovers < MaxHandovers /\ handovers' = handovers + 1
    /\ holder' \in Holders \ {holder} /\ worth' \in 0..MaxAmount
    /\ UNCHANGED <<form, opening, loops, loopCount, guarded, trusted, outlived>>
\* The guard closes the sheet when the popup learns of it; a loop goes on.
ScopeGuard ==
    /\ guarded # holder /\ guarded' = holder
    /\ form' = [form EXCEPT !.action = NoAction, !.trustline = FALSE]
    /\ UNCHANGED <<opening, loops, loopCount, holder, worth, trusted, outlived, handovers>>

Progresses(n) == Spends(n) \/ Answer(n)
SheetNext ==
    \/ \E action \in SheetActions : OpenSheet(action)
    \/ CloseSheet \/ OpenTrustline \/ confirmTrustline \/ submit \/ NotesMove \/ Handover \/ ScopeGuard
    \/ \E n \in 1..MaxLoops : Progresses(n)

\* The worker answers every request, and an answer reaches its callback.
SheetFairness == \A n \in 1..MaxLoops : WF_sheetVars(Progresses(n))
SheetSpec == SheetInit /\ [][SheetNext]_sheetVars /\ SheetFairness

----------------------------------------------------------------------------
\* A submission starts no second auto-split loop beside a first.
OneLoop == \A m, n \in 1..MaxLoops : Running(m) /\ Running(n) /\ Split(loops[m]) /\ Split(loops[n]) => m = n

\* As long as no submission outlived its opening, there is one at a time, and
\* the button is busy exactly while it runs.
BusyWhileRunning ==
    ~outlived => /\ \A m, n \in 1..MaxLoops : Running(m) /\ Running(n) => m = n
                 /\ form.action # NoAction =>
                       (form.submitting <=> \E n \in 1..MaxLoops : Running(n) /\ loops[n].opening = opening)

\* The success screen follows a submission of this opening that delivered its
\* whole amount from the account it was made for, as long as no submission
\* outlived its opening and the account stayed.  Only a split may have
\* delivered less: one whose fee rose, or whose notes something else spent.
DoneIsDelivered ==
    ~outlived /\ handovers = 0 /\ form.action # NoAction /\ form.done =>
        \E n \in 1..MaxLoops :
            /\ loops[n].at = "ended" /\ loops[n].opening = opening /\ ~loops[n].strayed
            /\ loops[n].delivered = loops[n].total \/ (Split(loops[n]) /\ loops[n].cut)

\* Busy and done mean what they say.
SheetInv == BusyWhileRunning /\ DoneIsDelivered

\* A split spends the notes of the account it was started for.
SplitKeepsAccount == \A n \in 1..MaxLoops : loops[n] # NoLoop => ~loops[n].strayed

\* A busy button is released.
BusyEnds == []<>~form.submitting
==============================================================================
