-------------------------------- MODULE SendPage --------------------------------
(***************************************************************************)
(* The page that sends: a form, a choice between a public and a private    *)
(* send, a confirmation and a success sheet.  Requests are answered by the *)
(* worker while the page stays live, another window may switch the         *)
(* account, and the popup may be closed at any moment.                     *)
(***************************************************************************)
EXTENDS Naturals, Sequences, FiniteSets

CONSTANTS
    Owners,         \* accounts of the wallet
    Forms,          \* recipient, amount, asset and memo, as a record with a field "to"
    PrivateForms,   \* those in an asset that has pools
    Refused,        \* those whose recipient lacks the trustline or requires a memo that is missing
    Native,         \* each form, in XLM instead of its asset
    Blank,          \* a form that does not validate
    Nothing,
    Earlier,        \* payments made before the page opened
    MaxSends,       \* bound: confirmations
    MaxAway         \* bound: switches in another window and closings of the popup

ASSUME SendAssumption ==
    /\ PrivateForms \subseteq Forms /\ Refused \subseteq Forms /\ Blank \notin Forms
    /\ Native \in [Forms -> Forms] /\ \A f \in Forms : Native[Native[f]] = Native[f]
    /\ \A f \in Forms, weak \in BOOLEAN : [form |-> f, weak |-> weak] # Nothing
    /\ \A p \in Earlier : p.agreed

VARIABLES
    page,           \* the page's state, see NewPage
    account,        \* the account of the worker's session
    keptRecents,    \* recent recipients in storage, by account
    requests,       \* requests the worker has not answered, or whose answer is on its way
    sends, away,
    made            \* history: payments made or queued, and those made earlier

sendVars == <<page, account, keptRecents, requests, sends, away, made>>

NewPage(owner) ==
    [step |-> "form", mode |-> "public", form |-> Blank, loading |-> FALSE,
     quote |-> Nothing, acknowledged |-> FALSE,
     preview |-> Nothing,      \* lastPreviewRef: the form it was built from
     shown |-> owner,          \* status.publicKey, as last polled
     listed |-> FALSE,         \* the balances held list the form's asset
     recents |-> {},           \* recentRecipients
     reads |-> <<owner>>,      \* accounts whose stored recents are being read, in order
     passed |-> {},            \* history: forms the checks of the recipient let through
     ticked |-> Nothing,       \* history: the form whose warning was acknowledged
     toggled |-> FALSE,        \* history: the mode was changed while the step's request was loading
     fellBack |-> FALSE]       \* history: the asset became another under a request, or after its answer
SendInit ==
    /\ account \in Owners /\ page = NewPage(account)
    /\ made = Earlier /\ keptRecents = [o \in Owners |-> {p.form.to : p \in {e \in Earlier : e.by = o}}]
    /\ requests = {} /\ sends = 0 /\ away = 0

OnPage == UNCHANGED <<account, keptRecents, requests, sends, away, made>>
\* Storage answers before the user can click on.
Settled == page.reads = <<>>

\* selectedAssetObj: an asset that the balances do not list is taken for XLM.
Selected(p) == IF p.form \in Forms /\ ~p.listed THEN Native[p.form] ELSE p.form
selected == Selected(page)

\* One form, or its asset has become XLM on the way.
SameForm(f, g) == f = g \/ (page.fellBack /\ {f, g} \subseteq Forms /\ Native[f] = Native[g])

----------------------------------------------------------------------------
(* The form and the sheet over it *)

Type ==
    /\ page.step = "form"
    /\ \E f \in (Forms \cup {Blank}) \ {page.form}, listed \in {page.listed, TRUE} :
          page' = [page EXCEPT !.form = f, !.listed = listed]
    /\ OnPage

\* A form that does not validate, or exceeds the balance shown, stays where it is.
handleFormContinue ==
    /\ page.step = "form" /\ page.form \in Forms /\ Settled
    /\ page' = [page EXCEPT !.step = "privacy", !.mode = IF selected \in PrivateForms THEN @ ELSE "public"]
    /\ OnPage

\* The two choices stay enabled while the step is loading.
ChooseMode(m) ==
    /\ page.step = "privacy" /\ m # page.mode
    /\ m = "private" => selected \in PrivateForms
    /\ page' = [page EXCEPT !.mode = m, !.toggled = @ \/ page.loading]
    /\ OnPage

\* mutant of MayLeave: the sheet can be left while a request is out
MayLeaveLoading == TRUE
MayLeave == ~page.loading

\* Cancel, the close button, the header's arrow and a click beside the sheet
Back ==
    /\ page.step \in {"privacy", "confirm"} /\ MayLeave
    /\ page' = [page EXCEPT !.step = IF @ = "privacy" THEN "form" ELSE "privacy"]
    /\ OnPage

Ask(kind, ok) ==
    requests' = requests \cup
        {[kind |-> kind, form |-> selected, by |-> page.shown, ok |-> ok, at |-> "asked", heard |-> TRUE]}

\* mutant of Unticked: an acknowledgement outlives the quote it was given for
UntickedNot(p) == p
Unticked(p) == [p EXCEPT !.acknowledged = FALSE, !.ticked = Nothing]

handleContinue ==
    /\ page.step = "privacy" /\ ~page.loading /\ page.mode = "public"
    /\ page' = [page EXCEPT !.loading = TRUE, !.toggled = FALSE, !.fellBack = FALSE]
    /\ Ask("build", TRUE)
    /\ UNCHANGED <<account, keptRecents, sends, away, made>>
handlePrivateContinue ==
    /\ page.step = "privacy" /\ ~page.loading /\ page.mode = "private"
    /\ page' = [Unticked(page) EXCEPT !.loading = TRUE, !.toggled = FALSE, !.fellBack = FALSE]
    /\ Ask("quote", TRUE)
    /\ UNCHANGED <<account, keptRecents, sends, away, made>>

\* checkTrustline and checkMemoRequired; the latter lets pass when Horizon does not answer.
Checked(r) ==
    /\ r.kind = "build" /\ r.at = "asked"
    /\ \/ r.form \in Refused /\ requests' = requests \ {r} /\ page' = [page EXCEPT !.loading = FALSE]
       \/ /\ requests' = (requests \ {r}) \cup {[r EXCEPT !.at = "checked"]}
          /\ page' = [page EXCEPT !.passed = @ \cup {r.form}]
    /\ UNCHANGED <<account, keptRecents, sends, away, made>>

\* mutants of BuildAnswered and QuoteAnswered: an error goes on to the confirmation
BuildAnsweredAnyway(r) ==
    /\ r.kind = "build" /\ r.at = "checked"
    /\ page' = [page EXCEPT !.loading = FALSE, !.step = "confirm"]
    /\ requests' = requests \ {r} /\ UNCHANGED <<account, keptRecents, sends, away, made>>
BuildAnswered(r) ==
    /\ r.kind = "build" /\ r.at = "checked"
    /\ page' \in {[page EXCEPT !.loading = FALSE],
                  [page EXCEPT !.loading = FALSE, !.step = "confirm", !.preview = r.form]}
    /\ requests' = requests \ {r} /\ UNCHANGED <<account, keptRecents, sends, away, made>>
QuoteAnswered(r) ==
    /\ r.kind = "quote"
    /\ page' \in {[page EXCEPT !.loading = FALSE]} \cup
                 {[page EXCEPT !.loading = FALSE, !.step = "confirm", !.quote = [form |-> r.form, weak |-> w]] :
                    w \in BOOLEAN}
    /\ requests' = requests \ {r} /\ UNCHANGED <<account, keptRecents, sends, away, made>>

Weak == page.quote # Nothing /\ page.quote.weak
Acknowledge ==
    /\ page.step = "confirm" /\ page.mode = "private" /\ Weak
    /\ page' = [page EXCEPT !.acknowledged = ~@,
                            !.ticked = IF page.acknowledged THEN Nothing ELSE page.quote.form]
    /\ OnPage

\* What was checked and shown is this form, or the mode was changed under it.
Agreed ==
    \/ page.toggled
    \/ /\ page.mode = "public"
       /\ page.preview \in page.passed /\ SameForm(page.preview, selected)
    \/ /\ page.mode = "private" /\ page.quote # Nothing
       /\ SameForm(page.quote.form, selected) /\ (Weak => page.ticked = page.quote.form)

handleConfirm ==
    /\ page.step = "confirm" /\ page.mode = "public" /\ ~page.loading /\ Settled /\ sends < MaxSends
    /\ page' = [page EXCEPT !.loading = TRUE] /\ sends' = sends + 1
    /\ Ask("pay", Agreed)
    /\ UNCHANGED <<account, keptRecents, away, made>>
handlePrivateConfirm ==
    /\ page.step = "confirm" /\ page.mode = "private" /\ ~page.loading /\ Settled /\ sends < MaxSends
    /\ Weak => page.acknowledged
    /\ page' = [page EXCEPT !.loading = TRUE] /\ sends' = sends + 1
    /\ Ask("queue", Agreed)
    /\ UNCHANGED <<account, keptRecents, away, made>>

\* The recipient is kept; without an amount the form does not validate.
handleSendAgain ==
    /\ page.step = "success"
    /\ page' = [Unticked(page) EXCEPT !.step = "form", !.mode = "public", !.form = Blank, !.quote = Nothing]
    /\ OnPage

----------------------------------------------------------------------------
(* The worker, and what comes back *)

\* SIGN_AND_SUBMIT_PAYMENT and PRIVATE_PREPARE_SEND: what was done may be answered as failed.
Work(r) ==
    /\ r.kind \in {"pay", "queue"} /\ r.at = "asked"
    /\ \E answer \in {"done", "failed"}, landed \in BOOLEAN :
          /\ answer = "done" => landed
          /\ requests' = (requests \ {r}) \cup (IF r.heard THEN {[r EXCEPT !.at = answer]} ELSE {})
          /\ made' = IF landed
                     THEN made \cup {[kind |-> r.kind, form |-> r.form, by |-> r.by, agreed |-> r.ok]}
                     ELSE made
    /\ UNCHANGED <<page, account, keptRecents, sends, away>>

\* The list of the moment goes under the key of the account the confirmation was made for.
rememberRecipient(r) == keptRecents' = [keptRecents EXCEPT ![r.by] = page.recents \cup {r.form.to}]

\* mutant of Succeeds: an error ends in the success sheet as well
SucceedsAlways(r) == TRUE
Succeeds(r) == r.at = "done"

Answered(r) ==
    /\ r.at \in {"done", "failed"}
    /\ requests' = requests \ {r}
    /\ IF Succeeds(r)
       THEN /\ page' = [page EXCEPT !.loading = FALSE, !.step = "success", !.recents = @ \cup {r.form.to}]
            /\ rememberRecipient(r)
       ELSE page' = [page EXCEPT !.loading = FALSE] /\ UNCHANGED keptRecents
    /\ UNCHANGED <<account, sends, away, made>>

----------------------------------------------------------------------------
(* Other windows *)

SwitchElsewhere ==
    /\ away < MaxAway /\ away' = away + 1
    /\ account' \in Owners \ {account}
    /\ UNCHANGED <<page, keptRecents, requests, sends, made>>
\* useBalances clears the balances of the account shown before.
Refilled(p) ==
    page' = [p EXCEPT !.fellBack =
                @ \/ (Selected(p) # selected /\ (page.loading \/ page.step \in {"confirm", "success"}))]
PollStatus ==
    /\ page.shown # account
    /\ Refilled([page EXCEPT !.shown = account, !.listed = FALSE, !.reads = Append(@, account)])
    /\ OnPage
\* On a switch and every 30 s: none for an account that is not funded; an asset not listed gives way to XLM.
BalancesArrive ==
    /\ \/ \E listed \in BOOLEAN : Refilled([page EXCEPT !.listed = listed])
       \/ page.form \in Forms /\ Refilled([page EXCEPT !.listed = TRUE, !.form = Native[@]])
    /\ OnPage
RecentsRead ==
    /\ page.reads # <<>>
    /\ page' = [page EXCEPT !.recents = keptRecents[Head(page.reads)], !.reads = Tail(@)]
    /\ OnPage

\* The popup closes and opens again: what the worker was asked goes on unheard.
ReopenPopup ==
    /\ away < MaxAway /\ away' = away + 1
    /\ requests' = {[r EXCEPT !.heard = FALSE] :
                       r \in {q \in requests : q.kind \in {"pay", "queue"} /\ q.at = "asked"}}
    /\ page' = NewPage(account)
    /\ UNCHANGED <<account, keptRecents, sends, made>>

SendNext ==
    \/ Type \/ handleFormContinue \/ Back
    \/ \E m \in {"public", "private"} : ChooseMode(m)
    \/ handleContinue \/ handlePrivateContinue \/ Acknowledge
    \/ handleConfirm \/ handlePrivateConfirm \/ handleSendAgain
    \/ \E r \in requests : Checked(r) \/ BuildAnswered(r) \/ QuoteAnswered(r) \/ Work(r) \/ Answered(r)
    \/ SwitchElsewhere \/ PollStatus \/ BalancesArrive \/ RecentsRead \/ ReopenPopup

SendSpec == SendInit /\ [][SendNext]_sendVars

----------------------------------------------------------------------------
\* While a request of the page is out, the sheet shows the very form it was
\* made from, and there is one request at a time; only the asset may have
\* become XLM, when the balances changed meanwhile.
SentIsShown ==
    LET out == {r \in requests : r.heard} IN
    /\ Cardinality(out) <= 1
    /\ \A r \in out : /\ page.loading /\ SameForm(r.form, selected)
                      /\ page.step = (IF r.kind \in {"pay", "queue"} THEN "confirm" ELSE "privacy")

\* What is paid was checked and previewed for that recipient, or quoted and,
\* when the pool is small, acknowledged for that very form; unless the mode was
\* changed while the step was loading. When the balances changed after the
\* checks, it may be paid in XLM instead of the asset that was checked.
PaidAsAgreed == \A p \in made : p.agreed

\* The success sheet names a payment that was made, up to its asset when the
\* balances changed after it was sent.
SuccessIsPaid ==
    page.step = "success" =>
        \E p \in made : SameForm(p.form, selected) /\ p.kind = (IF page.mode = "public" THEN "pay" ELSE "queue")

\* What is shown, what was agreed to and what was paid are one payment.
SendInv == SentIsShown /\ PaidAsAgreed /\ SuccessIsPaid

\* Recent recipients do not bleed across accounts.
RecentsStayApart == \A o \in Owners : \A to \in keptRecents[o] : \E p \in made : p.by = o /\ p.form.to = to
==============================================================================
