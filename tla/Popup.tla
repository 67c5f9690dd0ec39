-------------------------------- MODULE Popup --------------------------------
(***************************************************************************)
(* What the popup shows of the wallet: it learns of the session by asking  *)
(* every three seconds, and fetches the balances of the account it shows   *)
(* while answers to earlier questions are still on their way.              *)
(***************************************************************************)
EXTENDS Naturals, FiniteSets

CONSTANTS
    Users,          \* accounts
    Unknown,        \* no account: a locked wallet, a list or a balance not loaded
    MaxCommands,    \* bound: switches, locks and unlocks, of this window or another
    MaxFunds        \* bound: fundings with the friendbot

ASSUME PopupAssumption == Unknown \notin Users

VARIABLES
    session,        \* the worker's session key: the account, or Unknown
    active,         \* activePublicKey of the stored list
    popup,          \* the popup's state, see NewPopup
    calls,          \* questions without an answer, and answers on their way
    commands, funds,
    strayed,        \* history: a kept closure fetched for an account no longer shown
    crossed         \* history: a scan was made for another account than the one listed

popupVars == <<session, active, popup, calls, commands, funds, strayed, crossed>>

NewPopup ==
    [shown |-> Unknown,        \* status.publicKey; the pages are mounted while there is one
     listed |-> Unknown,       \* accountsState.activePublicKey
     balances |-> Unknown,     \* the account the public balances are of
     byPool |-> Unknown,       \* the account the private balances are of
     funding |-> Unknown]      \* the account whose refresh handleFundWithFriendbot holds
PopupInit ==
    /\ active \in Users /\ session \in {active, Unknown}
    /\ popup = NewPopup /\ calls = {} /\ commands = 0 /\ funds = 0
    /\ strayed = FALSE /\ crossed = FALSE

Question(kind, who) == [kind |-> kind, who |-> who, at |-> "asked"]
\* mutant of Current: the answers of earlier runs paint
CurrentAll(kind, asked) == asked
\* runIdRef moves on: an answer to what was asked before changes nothing, and is no longer followed.
Current(kind, asked) == {c \in asked : c.kind # kind}

\* What follows from showing another account or listing another as active: the effects of
\* useBalances and useShieldedBalances, which live as long as the pages are mounted.
View(shown, listed, asked) ==
    LET other == shown # popup.shown
        rescope == listed # popup.listed \/ (shown = Unknown) # (popup.shown = Unknown)
        stale == (IF other THEN Current("fetch", asked) ELSE asked)
        staler == (IF rescope THEN Current("scan", stale) ELSE stale)
    IN  /\ popup' = [shown |-> shown, listed |-> listed,
                     balances |-> IF other THEN Unknown ELSE popup.balances,
                     byPool |-> IF rescope THEN Unknown ELSE popup.byPool,
                     funding |-> IF shown = Unknown THEN Unknown ELSE popup.funding]
        /\ calls' = staler \cup (IF other /\ shown # Unknown THEN {Question("fetch", shown)} ELSE {})
                           \cup (IF rescope /\ shown # Unknown THEN {Question("scan", Unknown)} ELSE {})

----------------------------------------------------------------------------
(* The worker *)

\* switchAccount, unlockWallet, importWallet, createWallet, lockWallet, resetWallet
Command(who) ==
    /\ commands < MaxCommands /\ commands' = commands + 1
    /\ who # session
    /\ calls' = calls \cup {Question("command", who)}
    /\ UNCHANGED <<session, active, popup, funds, strayed, crossed>>
Obey(who) == session' = who /\ active' = (IF who = Unknown THEN active ELSE who)
\* The same in another window
Elsewhere(who) ==
    /\ commands < MaxCommands /\ commands' = commands + 1
    /\ who # session /\ Obey(who)
    /\ UNCHANGED <<popup, calls, funds, strayed, crossed>>

Replace(c, answers) == calls' = (calls \ {c}) \cup answers
Serve(c) ==
    /\ c.at = "asked"
    /\ \/ /\ c.kind = "command" /\ Obey(c.who) /\ Replace(c, {[c EXCEPT !.at = "answered"]})
          /\ UNCHANGED crossed
       \/ /\ c.kind \in {"status", "accounts"}
          /\ Replace(c, {[c EXCEPT !.at = "answered", !.who = IF c.kind = "status" THEN session ELSE active]})
          /\ UNCHANGED <<session, active, crossed>>
       \/ \* shieldedScan, for the account of the moment; a locked wallet has no answer
          /\ c.kind = "scan"
          /\ Replace(c, {[c EXCEPT !.at = "answered", !.who = IF session = Unknown THEN Unknown ELSE active]})
          /\ crossed' = (crossed \/ (session # Unknown /\ active # popup.listed))
          /\ UNCHANGED <<session, active>>
    /\ UNCHANGED <<popup, commands, funds, strayed>>

----------------------------------------------------------------------------
(* The popup *)

\* mutant of Polls: the status is asked for only while the popup shows a locked wallet
PollsLocked == popup.shown = Unknown
Polls == TRUE
\* The interval of three seconds, in which the worker answers
checkStatus ==
    /\ Polls /\ ~\E c \in calls : c.kind = "status"
    /\ calls' = calls \cup {Question("status", Unknown)}
    /\ UNCHANGED <<session, active, popup, commands, funds, strayed, crossed>>

StatusArrives(c) ==
    /\ c.kind = "status" /\ c.at = "answered"
    /\ View(c.who, IF c.who = Unknown THEN Unknown ELSE popup.listed,
            (calls \ {c}) \cup (IF c.who = Unknown THEN {} ELSE {Question("accounts", Unknown)}))
    /\ UNCHANGED <<session, active, commands, funds, strayed, crossed>>
refreshAccounts(c) ==
    /\ c.kind = "accounts" /\ c.at = "answered"
    /\ View(popup.shown, c.who, calls \ {c})
    /\ UNCHANGED <<session, active, commands, funds, strayed, crossed>>
CommandAnswered(c) ==
    /\ c.kind = "command" /\ c.at = "answered"
    /\ View(c.who, IF c.who = Unknown THEN Unknown ELSE popup.listed,
            (calls \ {c}) \cup (IF c.who = Unknown THEN {} ELSE {Question("accounts", Unknown)}))
    /\ UNCHANGED <<session, active, commands, funds, strayed, crossed>>

\* FETCH_HORIZON_ACCOUNT, then the prices, for which the run stays; the balances are painted after each.
BalancesArrive(c) ==
    /\ c.kind = "fetch" /\ popup.shown # Unknown
    /\ calls' \in {calls, calls \ {c}}
    /\ popup' = [popup EXCEPT !.balances = c.who]
    /\ UNCHANGED <<session, active, commands, funds, strayed, crossed>>
\* An error; an unreachable Horizon is taken for an unfunded account.
BalancesFail(c) ==
    /\ c.kind = "fetch" /\ Replace(c, {})
    /\ popup' \in {popup, [popup EXCEPT !.balances = Unknown]}
    /\ UNCHANGED <<session, active, commands, funds, strayed, crossed>>
ShieldedArrive(c) ==
    /\ c.kind = "scan" /\ c.at = "answered" /\ popup.shown # Unknown
    /\ Replace(c, {})
    /\ popup' = [popup EXCEPT !.byPool = c.who]
    /\ UNCHANGED <<session, active, commands, funds, strayed, crossed>>

\* mutant of Refetches: the balances are fetched once per account
RefetchesNever == FALSE
Refetches == popup.shown # Unknown
\* fetchBalances: the interval of thirty seconds, and the page's own refresh
fetchBalances ==
    /\ Refetches /\ Question("fetch", popup.shown) \notin calls
    /\ calls' = calls \cup {Question("fetch", popup.shown)}
    /\ UNCHANGED <<session, active, popup, commands, funds, strayed, crossed>>
\* The stored notes changed.
refreshShielded ==
    /\ popup.shown # Unknown /\ ~\E c \in calls : c.kind = "scan"
    /\ calls' = calls \cup {Question("scan", Unknown)}
    /\ UNCHANGED <<session, active, popup, commands, funds, strayed, crossed>>

\* The refresh that is called at the end is the one of the account shown at the start.
handleFundWithFriendbot ==
    /\ popup.shown # Unknown /\ popup.funding = Unknown /\ funds < MaxFunds /\ funds' = funds + 1
    /\ popup' = [popup EXCEPT !.funding = popup.shown]
    /\ UNCHANGED <<session, active, calls, commands, strayed, crossed>>
Funded ==
    /\ popup.funding # Unknown
    /\ popup' = [popup EXCEPT !.funding = Unknown]
    /\ \/ UNCHANGED <<calls, strayed>>
       \/ /\ calls' = calls \cup {Question("fetch", popup.funding)}
          /\ strayed' = (strayed \/ (popup.funding # popup.shown))
    /\ UNCHANGED <<session, active, commands, funds, crossed>>

Handles(c) ==
    \/ Serve(c) \/ StatusArrives(c) \/ refreshAccounts(c) \/ CommandAnswered(c)
    \/ BalancesArrive(c) \/ BalancesFail(c) \/ ShieldedArrive(c)
PopupNext ==
    \/ \E who \in Users \cup {Unknown} : Command(who) \/ Elsewhere(who)
    \/ checkStatus \/ fetchBalances \/ refreshShielded \/ handleFundWithFriendbot \/ Funded
    \/ \E c \in calls : Handles(c)

\* A question of this kind, or an answer to one, is taken.
Takes(kind, at) == \E c \in calls : c.kind = kind /\ c.at = at /\ Handles(c)
Kinds == {"command", "status", "accounts"}
\* The worker answers, the intervals fire, and Horizon answers again and again.
PopupFairness ==
    /\ WF_popupVars(checkStatus) /\ WF_popupVars(fetchBalances)
    /\ \A kind \in Kinds, at \in {"asked", "answered"} : WF_popupVars(Takes(kind, at))
    /\ SF_popupVars(\E c \in calls : c.who = popup.shown /\ BalancesArrive(c))
    /\ WF_popupVars(\E c \in calls : c.who # popup.shown /\ BalancesFail(c))
PopupSpec == PopupInit /\ [][PopupNext]_popupVars /\ PopupFairness

----------------------------------------------------------------------------
\* The public balances on the screen are those of the account on the screen.
BalancesAreForShown == popup.balances \in {Unknown, popup.shown}

\* They are, unless a closure kept from before a switch fetched others.
BalancesAreOwn == ~strayed => BalancesAreForShown

\* The private balances are those of the account listed as active, unless the
\* worker made a scan for an account the popup had not heard of.
ShieldedIsForListed == ~crossed => popup.byPool \in {Unknown, popup.listed}

\* Late answers paint nothing over another account.
PopupInv == BalancesAreOwn /\ ShieldedIsForListed

\* The popup shows the session's account and lists the stored one as active, or
\* shows a locked wallet.
Follows == popup.shown = session /\ popup.listed = (IF session = Unknown THEN Unknown ELSE active)

\* Balances of another account do not stay.
BalancesRecover == <>[]BalancesAreForShown
==============================================================================
