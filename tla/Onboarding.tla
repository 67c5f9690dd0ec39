------------------------------ MODULE Onboarding ------------------------------
(***************************************************************************)
(* Which screen the popup shows before a wallet is open: the router's      *)
(* latch, the screens that create, import, unlock and replace a wallet,    *)
(* and the worker's answers to them.  The user may leave a screen, close   *)
(* the popup or use another window while an answer is on its way.          *)
(***************************************************************************)
EXTENDS Naturals, FiniteSets

CONSTANTS
    Phrases, Passcodes,
    Absent,         \* no phrase, no password
    Budgets         \* bounds: calls that write, acts of other windows and ends, polls

ASSUME OnboardingAssumption == Absent \notin Phrases \cup Passcodes /\ Phrases # {}

VARIABLES
    wallet,         \* the encrypted phrase, and the password it is encrypted with
    opened,         \* the phrase whose account the session has
    router,         \* what Router knows, and the path it is at
    form,           \* the mounted screen, see NewForm
    asks,           \* calls to the worker, till the screen has taken the answer
    marker,         \* sessionStorage cyphras_onboarding_start
    sent,           \* calls so far
    budget, generated,
    written, heard, \* the newest call that wrote, and that the popup heard of
    excused         \* history: see ReadyIsStored

onboardingVars ==
    <<wallet, opened, router, form, asks, marker, sent, budget, generated, written, heard, excused>>
Creates == {"create", "import"}
Resets == {"reset", "overwrite"}
worker == <<wallet, opened, generated, written>>
counts == <<sent, budget>>

NoWallet == [phrase |-> Absent, password |-> Absent]
\* step is also Unlock's view, revealed a view's acknowledgement, busy a reset on its way;
\* claim (history) is what the last answer taken says is stored
NewForm(of) ==
    [of |-> of,
     step |-> CASE of = "create" -> "password" [] of = "import" -> "phrase" [] of = "unlock" -> "unlock" [] OTHER -> "none",
     phrase |-> Absent, claim |-> NoWallet, revealed |-> FALSE, busy |-> FALSE, pending |-> "import"]

ClosedPopup == [loading |-> TRUE, has |-> FALSE, unlocked |-> FALSE, latched |-> FALSE, path |-> "start"]

-----------------------------------------------------------------------------
(* Router *)

\* mutant of Latched: onboarding lasts as long as there is no wallet
LatchedWhileEmpty(r) == ~r.loading /\ ~r.has
Latched(r) == r.latched \/ (~r.loading /\ ~r.has)

\* The path after the effects: unknown ones lead to the start, a locked wallet to its screen.
PathOf(r) ==
    IF r.loading THEN r.path
    ELSE IF Latched(r) THEN IF r.path = "unlock" THEN "start" ELSE r.path
    ELSE IF r.unlocked THEN "start" ELSE "unlock"

\* The component that is rendered at a path
Screen(r, path) ==
    IF r.loading THEN "spinner"
    ELSE IF Latched(r) THEN path
    ELSE IF r.unlocked THEN "pages" ELSE "unlock"

Untold(c) == IF c.to = "screen" THEN [c EXCEPT !.to = "popup"] ELSE c
\* What a render comes to: the start consumes the marker, a screen that goes is not told any more.
RenderRouter(r, m, f, cs) ==
    LET atStart == Screen(r, PathOf(r)) = "start"
        path == IF atStart /\ m # "none" THEN m ELSE PathOf(r)
        screen == Screen(r, path)
    IN  /\ router' = [r EXCEPT !.latched = Latched(r), !.path = path]
        /\ marker' = IF atStart THEN "none" ELSE m
        /\ form' = IF screen = f.of THEN f ELSE NewForm(screen)
        /\ asks' = IF screen = f.of THEN cs ELSE {Untold(c) : c \in cs}

NewAsk(kind, phrase, password) ==
    [kind |-> kind, id |-> sent + 1, phrase |-> phrase, password |-> password,
     at |-> "asked", ok |-> TRUE, to |-> "screen", has |-> FALSE, unlocked |-> FALSE]
\* The status is asked for; that the worker reads the wallet first is part of the same step.
Status == [NewAsk("status", Absent, Absent) EXCEPT !.id = 0, !.at = "stored", !.has = wallet # NoWallet]

-----------------------------------------------------------------------------
(* The worker: each handler's writes are steps of their own *)

Becomes(c, d) == asks' = (asks \ {c}) \cup {d}
Wrote(c) ==
    /\ written' = IF c.id > written THEN c.id ELSE written
    /\ excused' = (excused \/ c.id < written)
Unheard == UNCHANGED <<router, form, marker, heard, counts>>

\* generateMnemonic: which one makes no difference
NewPhrase == CHOOSE p \in Phrases : p \notin generated
\* CREATE_WALLET, IMPORT_WALLET: the phrase is stored, then the session
Stores(c) ==
    /\ c.kind \in Creates /\ c.at = "asked"
    /\ \E p \in Phrases :
          /\ p = IF c.kind = "create" THEN NewPhrase ELSE c.phrase
          /\ generated' = generated \cup {p}
          /\ wallet' = [phrase |-> p, password |-> c.password]
          /\ Becomes(c, [c EXCEPT !.phrase = p, !.at = "stored"])
    /\ Wrote(c) /\ UNCHANGED opened /\ Unheard
OpensSession(c) ==
    /\ c.kind \in Creates /\ c.at = "stored"
    /\ opened' = c.phrase /\ Becomes(c, [c EXCEPT !.at = "answered"])
    /\ UNCHANGED <<wallet, generated, written, excused>> /\ Unheard
\* A phrase with a wrong checksum
RefusesPhrase(c) ==
    /\ c.kind = "import" /\ c.at = "asked"
    /\ Becomes(c, [c EXCEPT !.at = "answered", !.ok = FALSE])
    /\ UNCHANGED <<worker, excused>> /\ Unheard

\* RESET_WALLET: the session goes, then the stored phrase
EndsSession(c) ==
    /\ c.kind \in Resets /\ c.at = "asked"
    /\ opened' = Absent /\ Becomes(c, [c EXCEPT !.at = "stored"])
    /\ UNCHANGED <<wallet, generated, written, excused>> /\ Unheard
Erases(c) ==
    /\ c.kind \in Resets /\ c.at = "stored"
    /\ wallet' = NoWallet /\ Becomes(c, [c EXCEPT !.at = "answered"])
    /\ Wrote(c) /\ UNCHANGED <<opened, generated>> /\ Unheard

\* UNLOCK_WALLET, which also refuses during a lockout
Unlocks(c) ==
    /\ c.kind = "unlock" /\ c.at = "asked"
    /\ \/ /\ wallet.phrase # Absent /\ c.password = wallet.password
          /\ opened' = wallet.phrase /\ Becomes(c, [c EXCEPT !.at = "answered"])
       \/ UNCHANGED opened /\ Becomes(c, [c EXCEPT !.at = "answered", !.ok = FALSE])
    /\ UNCHANGED <<wallet, generated, written, excused>> /\ Unheard

\* GET_WALLET_STATUS: the wallet was read when the popup asked
ReadsSession(c) ==
    /\ c.kind = "status" /\ c.at = "stored"
    /\ Becomes(c, [c EXCEPT !.at = "answered", !.unlocked = opened # Absent])
    /\ UNCHANGED <<worker, excused>> /\ Unheard

\* The service worker ends: its calls fail, also those that have written.
WorkerEnds ==
    /\ budget.others > 0 /\ budget' = [budget EXCEPT !.others = @ - 1] /\ \E c \in asks : c.at # "answered"
    /\ asks' = {IF c.at \in {"asked", "stored"} THEN [c EXCEPT !.at = "answered", !.ok = FALSE] ELSE c : c \in asks}
    /\ excused' = (excused \/ \E c \in asks : c.kind # "status" /\ c.at = "stored")
    /\ UNCHANGED <<worker, router, form, marker, heard, sent>>

\* The onboarding tab, or a side panel, does the same.
Elsewhere(s, o) ==
    /\ budget.others > 0 /\ budget' = [budget EXCEPT !.others = @ - 1]
    /\ <<s, o>> # <<wallet, opened>> /\ o \in {s.phrase, Absent}
    /\ s \in {wallet, NoWallet} \/ (s.phrase = NewPhrase /\ o = s.phrase)
    /\ wallet' = s /\ opened' = o /\ generated' = generated \cup ({s.phrase} \ {Absent})
    /\ excused' = (excused \/ s # wallet)
    /\ UNCHANGED <<written, router, form, asks, marker, heard, sent>>

-----------------------------------------------------------------------------
(* WalletContext *)

checkStatus ==
    /\ ~\E c \in asks : c.kind = "status"
    /\ budget.polls > 0 /\ budget' = [budget EXCEPT !.polls = @ - 1]
    /\ asks' = asks \cup {Status}
    /\ UNCHANGED <<worker, router, form, marker, sent, heard, excused>>
StatusArrives(c) ==
    /\ c.kind = "status" /\ c.at = "answered"
    /\ IF c.ok THEN RenderRouter([router EXCEPT !.loading = FALSE, !.has = c.has, !.unlocked = c.unlocked], marker, form, asks \ {c})
               ELSE asks' = asks \ {c} /\ UNCHANGED <<router, marker, form>>
    /\ UNCHANGED <<worker, counts, heard, excused>>

\* The answer sets the status; createWallet, importWallet and unlockWallet resolve after refreshAccounts.
StatusSet(c) ==
    /\ c.kind # "status" /\ c.at = "answered" /\ c.to # "nobody"
    /\ LET rest == (asks \ {c}) \cup {[c EXCEPT !.at = "resolves"]}
           erased == c.kind \in Resets
       IN  IF c.ok
           THEN RenderRouter([router EXCEPT !.has = IF c.kind = "unlock" THEN @ ELSE ~erased, !.unlocked = ~erased],
                       marker, form, rest)
           ELSE /\ asks' = rest \cup (IF c.kind = "unlock" /\ \A d \in asks : d.kind # "status" THEN {Status} ELSE {})
                /\ UNCHANGED <<router, marker, form>>
    /\ UNCHANGED <<worker, counts, heard, excused>>

\* mutant of CleansUp: a failed replacement leaves its marker
CleansUpNever(c) == FALSE
CleansUp(c) == c.kind = "overwrite" /\ ~c.ok
\* What follows the await in the screen that asked; of one that is gone, only the marker's removal counts.
Resolves(c, f) ==
    /\ c.at = "resolves" /\ asks' = asks \ {c}
    /\ form' = IF c.to = "screen" THEN f ELSE form
    /\ marker' = IF CleansUp(c) THEN "none" ELSE marker
    /\ heard' = IF c.id > heard THEN c.id ELSE heard
    /\ excused' = (excused \/ (c.to = "screen" /\ c.id < heard))
    /\ UNCHANGED <<worker, router, counts>>
AnsweredToNobody(c) ==
    /\ c.to = "nobody" /\ c.at = "answered" /\ asks' = asks \ {c}
    /\ UNCHANGED <<worker, router, form, marker, counts, heard, excused>>

-----------------------------------------------------------------------------
(* The screens of onboarding *)

On(screen, step) == form.of = screen /\ form.step = step
Turns(f) == form' = f /\ UNCHANGED <<worker, router, asks, marker, counts, heard, excused>>
GoesTo(path) ==
    /\ RenderRouter([router EXCEPT !.path = path], marker, form, asks)
    /\ UNCHANGED <<worker, counts, heard, excused>>
Sends(c, f) ==
    /\ budget.calls > 0 /\ budget' = [budget EXCEPT !.calls = @ - 1] /\ sent' = sent + 1
    /\ asks' = asks \cup {c} /\ form' = f
    /\ UNCHANGED <<worker, router, heard, excused>>

OnboardingStart == form.of = "start" /\ \E path \in {"create", "import"} : GoesTo(path)

\* The Continue button waits for the answer, the Enter key of the confirmation does not.
handleCreatePassword(pw) ==
    /\ On("create", "password")
    /\ Sends(NewAsk("create", Absent, pw), form) /\ UNCHANGED marker
Claim(c) == [phrase |-> c.phrase, password |-> c.password]
\* mutant of WalletCreated: a screen that has moved on keeps its phrase
WalletCreatedOnce(c) ==
    IF c.ok /\ form.step = "password"
    THEN [form EXCEPT !.phrase = c.phrase, !.claim = Claim(c), !.step = "mnemonic"]
    ELSE form
WalletCreated(c) ==
    IF c.ok THEN [form EXCEPT !.phrase = c.phrase, !.claim = Claim(c), !.step = "mnemonic"] ELSE form

RevealPhrase == On("create", "mnemonic") /\ Turns([form EXCEPT !.revealed = TRUE])
handleProceedToVerify == On("create", "mnemonic") /\ form.revealed /\ Turns([form EXCEPT !.step = "verify"])
BackToMnemonic == On("create", "verify") /\ Turns([form EXCEPT !.step = "mnemonic"])
\* The word is right.
handleVerify == On("create", "verify") /\ Turns([form EXCEPT !.step = "success"])
LeaveCreate == (On("create", "password") \/ On("create", "mnemonic")) /\ GoesTo("start")

\* Every word is one of the list.
handlePhraseContinue(p) == On("import", "phrase") /\ Turns([form EXCEPT !.phrase = p, !.step = "password"])
BackToPhrase == On("import", "password") /\ Turns([form EXCEPT !.step = "phrase"])
handleImport(pw) ==
    /\ On("import", "password")
    /\ Sends(NewAsk("import", form.phrase, pw), form) /\ UNCHANGED marker
PhraseImported(c) ==
    IF c.ok THEN [form EXCEPT !.claim = Claim(c), !.step = "success"] ELSE form
LeaveImport == On("import", "phrase") /\ GoesTo("start")

-----------------------------------------------------------------------------
(* Unlock *)

handleUnlock(pw) ==
    /\ On("unlock", "unlock") /\ Sends(NewAsk("unlock", Absent, pw), form) /\ UNCHANGED marker
ForgotPassword == On("unlock", "unlock") /\ Turns([form EXCEPT !.step = "reset-prompt"])
BackToUnlock == On("unlock", "reset-prompt") /\ Turns([form EXCEPT !.step = "unlock"])
ResetAndWipe == On("unlock", "reset-prompt") /\ Turns([form EXCEPT !.step = "reset-confirm"])
Overwrite(route) ==
    On("unlock", "reset-prompt") /\ Turns([form EXCEPT !.step = "overwrite-confirm", !.pending = route])
Confirming == On("unlock", "reset-confirm") \/ On("unlock", "overwrite-confirm")
ToggleAcknowledged == Confirming /\ Turns([form EXCEPT !.revealed = ~@])
BackToPrompt == Confirming /\ Turns([form EXCEPT !.step = "reset-prompt", !.revealed = FALSE])

handleReset ==
    /\ On("unlock", "reset-confirm") /\ form.revealed /\ ~form.busy
    /\ Sends(NewAsk("reset", Absent, Absent), [form EXCEPT !.busy = TRUE]) /\ UNCHANGED marker
handleOverwrite ==
    /\ On("unlock", "overwrite-confirm") /\ form.revealed /\ ~form.busy
    /\ Sends(NewAsk("overwrite", Absent, Absent), [form EXCEPT !.busy = TRUE]) /\ marker' = form.pending

\* The popup is closed and opened: sessionStorage goes with it, and its calls are answered to nobody.
Reopen ==
    /\ budget.others > 0 /\ budget' = [budget EXCEPT !.others = @ - 1]
    /\ router' = ClosedPopup
    /\ form' = NewForm("spinner") /\ marker' = "none"
    /\ asks' = {[c EXCEPT !.to = "nobody"] : c \in {d \in asks : d.kind # "status" /\ d.at \in {"asked", "stored"}}}
    /\ UNCHANGED <<worker, sent, heard, excused>>

-----------------------------------------------------------------------------
OnboardingInit ==
    /\ \E g \in SUBSET {CHOOSE p \in Phrases : TRUE} : generated = g
    /\ wallet \in [phrase : generated, password : Passcodes] \cup {NoWallet}
    /\ opened \in {wallet.phrase, Absent} /\ (wallet = NoWallet) = (generated = {})
    /\ router = ClosedPopup /\ form = NewForm("spinner")
    /\ asks = {} /\ marker = "none" /\ sent = 0 /\ budget \in Budgets
    /\ written = 0 /\ heard = 0 /\ excused = FALSE

WorkerNext == \E c \in asks :
    \/ Stores(c) \/ OpensSession(c) \/ RefusesPhrase(c) \/ EndsSession(c) \/ Erases(c) \/ Unlocks(c)
    \/ ReadsSession(c)
AnswersNext == \E c \in asks :
    \/ StatusArrives(c) \/ StatusSet(c) \/ AnsweredToNobody(c)
    \/ c.kind = "create" /\ Resolves(c, WalletCreated(c))
    \/ c.kind = "import" /\ Resolves(c, PhraseImported(c))
    \/ c.kind = "unlock" /\ Resolves(c, form)
    \/ c.kind \in Resets /\ Resolves(c, [form EXCEPT !.busy = FALSE])
ScreenNext ==
    \/ OnboardingStart \/ LeaveCreate \/ LeaveImport \/ RevealPhrase \/ handleProceedToVerify
    \/ BackToMnemonic \/ handleVerify \/ BackToPhrase
    \/ \E p \in Phrases : handlePhraseContinue(p)
    \/ \E pw \in Passcodes : handleCreatePassword(pw) \/ handleImport(pw) \/ handleUnlock(pw)
    \/ ForgotPassword \/ BackToUnlock \/ ResetAndWipe \/ ToggleAcknowledged \/ BackToPrompt
    \/ \E route \in {"create", "import"} : Overwrite(route)
    \/ handleReset \/ handleOverwrite
OnboardingNext ==
    \/ WorkerNext \/ AnswersNext \/ ScreenNext \/ checkStatus \/ WorkerEnds \/ Reopen
    \/ \E s \in [phrase : Phrases, password : Passcodes] \cup {NoWallet}, o \in Phrases \cup {Absent} : Elsewhere(s, o)

OnboardingSpec == OnboardingInit /\ [][OnboardingNext]_onboardingVars

-----------------------------------------------------------------------------
\* "This is the only way to recover your wallet." (Onboarding.tsx:356): under the success screen the
\* wallet stored is the one whose phrase was shown and verified, or imported, also when Enter sent a
\* second call - unless another window or a call that failed halfway replaced it, or calls overtook
\* one another in the worker or on their way back.
ReadyIsStored ==
    /\ form.step = "success" /\ ~excused
    /\ \A c \in asks : c.kind \notin Creates \cup Resets
    => wallet = form.claim /\ (form.of = "create" => form.phrase = wallet.phrase)

\* "This keeps the mnemonic/verify/success steps visible even after createWallet() sets
\* hasWallet=true" (App.tsx:38): no answer, poll or other window takes a screen of onboarding away.
OnboardingStays ==
    [][form.of \in Creates /\ form'.of # form.of => LeaveCreate \/ LeaveImport \/ Reopen]_onboardingVars

\* The marker that opens onboarding at a page never outlives the replacement it was set for: a later
\* onboarding starts at its start (Unlock.tsx handleOverwrite, Onboarding.tsx OnboardingStartRoute).
MarkerConsumed == marker # "none" => \E c \in asks : c.kind = "overwrite"

\* What the screens before a wallet is open leave behind is what they said.
OnboardingInv == ReadyIsStored /\ MarkerConsumed
=============================================================================
