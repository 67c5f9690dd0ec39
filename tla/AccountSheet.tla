----------------------------- MODULE AccountSheet -----------------------------
(***************************************************************************)
(* The sheet that lists the accounts, where they are switched, removed and *)
(* dragged into another order, and the dialog over it that adds one.  Both *)
(* stay mounted while answers are on their way, the popup's list is        *)
(* replaced by every poll, and another window may do the same.             *)
(***************************************************************************)
EXTENDS Naturals, SequencesExt

CONSTANTS
    Derived,        \* accounts of the wallet's own phrase, by their index
    Phrase, Secret, \* the accounts of a phrase and of a secret key to import
    Nobody,         \* no account
    MaxActs         \* bound: calls that write, and acts of another window

ASSUME AccountSheetAssumption ==
    /\ Derived \in Seq(ToSet(Derived)) /\ Derived # <<>> /\ IsInjective(Derived) /\ Phrase # Secret
    /\ {Phrase, Secret, Nobody} \cap ToSet(Derived) = {} /\ Nobody \notin {Phrase, Secret}

VARIABLES
    kept,           \* what the worker has stored: the list, the active account, whether it is open
    context,        \* WalletContext: the list and status.publicKey
    sheet,          \* AccountSwitcher, see NewSheet
    dialog,         \* AddWalletModal, see Fresh
    asks,           \* calls to the worker, till what awaits them has gone on
    acts,
    added,          \* history: what the calls of this opening of the dialog added
    removed,        \* history: accounts that were removed
    halted          \* history: a call failed after the worker had stored what it adds

accountSheetVars == <<kept, context, sheet, dialog, asks, acts, added, removed, halted>>

Types == {"add-account", "import-phrase", "import-key"}
InputOf(type) == CASE type = "import-phrase" -> "phrase" [] type = "import-key" -> "key" [] OTHER -> "choose"

\* The dialog as reset leaves it; a field holds the account its words or its key stand for.
Fresh == [step |-> "choose", type |-> "none", phrase |-> Nobody, key |-> Nobody,
          password |-> FALSE, loading |-> FALSE, open |-> FALSE]
\* local is the list that is drawn, which a drop changes first.
NewSheet(list) == [open |-> FALSE, local |-> list, switching |-> Nobody, removing |-> Nobody]

AccountSheetInit ==
    /\ \E n \in 1..Len(Derived) :
          kept = [list |-> SubSeq(Derived, 1, n), active |-> Derived[1], open |-> TRUE]
    /\ context = [list |-> kept.list, shown |-> kept.active]
    /\ sheet = NewSheet(kept.list) /\ dialog = Fresh
    /\ asks = {} /\ acts = 0 /\ added = {} /\ removed = {} /\ halted = FALSE

history == <<added, removed, halted>>
Mounted == context.shown # Nobody
Shown(s, d) == sheet' = s /\ dialog' = d

NewAsk(kind, who) ==
    [kind |-> kind, id |-> acts + 1, at |-> "asked", ok |-> TRUE, who |-> who, list |-> <<>>,
     from |-> "context", heard |-> TRUE]
\* The status is read as it is asked for.
Poll == [NewAsk("poll", IF kept.open THEN kept.active ELSE Nobody) EXCEPT !.id = 0, !.at = "answered"]
Becomes(c, d) == asks' = (asks \ {c}) \cup {d}
\* A call that writes, made by a click
Writes(c) == acts < MaxActs /\ acts' = acts + 1 /\ asks' = asks \cup {c}

----------------------------------------------------------------------------
(* The worker *)

\* The index after the highest listed
NextDerived ==
    LET used == {i \in DOMAIN Derived : Derived[i] \in ToSet(kept.list)}
    IN  {Derived[i] : i \in DOMAIN Derived \cap {Max(used \cup {1}) + 1}}
\* ADD_ACCOUNT, IMPORT_HD_WALLET, IMPORT_SECRET_KEY: a wrong password or an account that is listed is refused.
Adds(c) ==
    /\ c.kind \in Types /\ c.at = "asked"
    /\ \/ /\ c.kind = "add-account" => kept.open
          /\ \E who \in IF c.kind = "add-account" THEN NextDerived ELSE {c.who} \ ToSet(kept.list) :
                /\ kept' = [kept EXCEPT !.list = Append(@, who)]
                /\ added' = added \cup {a \in {[type |-> c.kind, who |-> who]} : c.heard}
                /\ \/ halted' = halted /\ Becomes(c, [c EXCEPT !.at = "answered", !.who = who])
                   \/ halted' = TRUE /\ Becomes(c, [c EXCEPT !.at = "answered", !.ok = FALSE])
       \/ Becomes(c, [c EXCEPT !.at = "answered", !.ok = FALSE]) /\ UNCHANGED <<kept, added, halted>>
    /\ UNCHANGED <<context, sheet, dialog, acts, removed>>
\* SWITCH_ACCOUNT, REMOVE_ACCOUNT, REORDER_ACCOUNTS, which appends what the order leaves out
Removable == ToSet(kept.list) \ {kept.active, Derived[1]}
\* SelectSeq, in a form the proofs can unfold
Filtered(list, keep) ==
    LET F[i \in 0..Len(list)] ==
            IF i = 0 THEN <<>> ELSE IF list[i] \in keep THEN Append(F[i - 1], list[i]) ELSE F[i - 1]
    IN  F[Len(list)]
Without(list, who) == Filtered(list, ToSet(list) \ {who})
Reordered(list, order) == Filtered(order, ToSet(list)) \o Filtered(list, ToSet(list) \ ToSet(order))
Obeys(c) ==
    /\ c.kind \in {"switch", "remove", "reorder"} /\ c.at = "asked"
    /\ c.kind = "reorder" => \A d \in asks : d.kind = "reorder" => c.id <= d.id
    /\ \/ /\ c.kind = "switch" /\ kept.open /\ c.who \in ToSet(kept.list)
          /\ kept' = [kept EXCEPT !.active = c.who] /\ removed' = removed
          /\ Becomes(c, [c EXCEPT !.at = "answered"])
       \/ /\ c.kind = "remove" /\ c.who \in Removable
          /\ kept' = [kept EXCEPT !.list = Without(@, c.who)] /\ removed' = removed \cup {c.who}
          /\ Becomes(c, [c EXCEPT !.at = "answered"])
       \/ /\ c.kind = "reorder"
          /\ kept' = [kept EXCEPT !.list = Reordered(@, c.list)] /\ asks' = asks \ {c} /\ removed' = removed
       \/ /\ c.kind # "reorder"
          /\ Becomes(c, [c EXCEPT !.at = "answered", !.ok = FALSE]) /\ UNCHANGED <<kept, removed>>
    /\ UNCHANGED <<context, sheet, dialog, acts, added, halted>>
\* GET_ACCOUNTS
Tells(c) ==
    /\ c.at = "listing" /\ Becomes(c, [c EXCEPT !.at = "listed", !.list = kept.list])
    /\ UNCHANGED <<kept, context, sheet, dialog, acts, history>>

\* Another window switches, removes, locks or unlocks.
OtherWindow ==
    /\ acts < MaxActs /\ acts' = acts + 1
    /\ \/ kept.open /\ \E a \in ToSet(kept.list) \ {kept.active} :
             \/ kept' = [kept EXCEPT !.active = a] /\ removed' = removed
             \/ a # Derived[1] /\ kept' = [kept EXCEPT !.list = Without(@, a)] /\ removed' = removed \cup {a}
       \/ kept' = [kept EXCEPT !.open = ~@] /\ removed' = removed
    /\ UNCHANGED <<context, sheet, dialog, asks, added, halted>>

----------------------------------------------------------------------------
(* WalletContext *)

checkWallet ==
    /\ \A c \in asks : c.kind # "poll"
    /\ asks' = asks \cup {Poll} /\ UNCHANGED <<kept, context, sheet, dialog, acts, history>>

\* A poll that finds the wallet locked: the pages go, and what they await finds nobody.
Locks(c) ==
    /\ c.kind = "poll" /\ c.at = "answered" /\ c.who = Nobody
    /\ context' = [list |-> <<>>, shown |-> Nobody] /\ Shown(NewSheet(<<>>), Fresh) /\ added' = {}
    /\ asks' = {[d EXCEPT !.heard = FALSE] : d \in asks \ {c}}
    /\ UNCHANGED <<kept, acts, removed, halted>>
\* The status of an open wallet, or of a switch; every answer is followed by refreshAccounts.
Learns(c) ==
    /\ c.at = "answered" /\ c.ok /\ ~(c.kind = "poll" /\ c.who = Nobody)
    /\ context' = IF c.kind = "poll" \/ (c.kind = "switch" /\ Mounted) THEN [context EXCEPT !.shown = c.who] ELSE context
    /\ sheet' = IF c.kind = "poll" /\ ~Mounted THEN NewSheet(context.list) ELSE sheet
    /\ Becomes(c, [c EXCEPT !.at = "listing"])
    /\ UNCHANGED <<kept, dialog, acts, history>>

\* What follows the await in the dialog and in handleSwitch; whether the dialog's switch succeeded is not
\* looked at.
Finished(c) == [dialog EXCEPT !.loading = FALSE, !.step = IF c.ok \/ c.kind = "switch" THEN "success" ELSE @]
SwitchEnds(c, s) == [s EXCEPT !.switching = Nobody, !.open = @ /\ ~c.ok]
Resumes(c, s) ==
    IF c.from = "dialog" /\ c.kind = "add-account" /\ c.ok
    THEN Becomes(c, [c EXCEPT !.kind = "switch", !.at = "asked"]) /\ Shown(s, dialog)
    ELSE /\ asks' = asks \ {c}
         /\ dialog' = IF c.from = "dialog" /\ c.heard THEN Finished(c) ELSE dialog
         /\ sheet' = IF c.from = "sheet" /\ c.kind = "switch" /\ c.heard THEN SwitchEnds(c, s) ELSE s

\* refreshAccounts: the drawn list is replaced, whatever was dropped on it meanwhile.
ListArrives(c) ==
    /\ c.at = "listed"
    /\ context' = [context EXCEPT !.list = c.list]
    /\ Resumes(c, [sheet EXCEPT !.local = IF Mounted THEN c.list ELSE @])
    /\ UNCHANGED <<kept, acts, history>>
Refused(c) ==
    /\ c.at = "answered" /\ ~c.ok
    /\ Resumes(c, sheet) /\ UNCHANGED <<kept, context, acts, history>>

----------------------------------------------------------------------------
(* AccountSwitcher *)

OpenSwitcher ==
    /\ Mounted /\ context.list # <<>> /\ ~sheet.open /\ ~dialog.open
    /\ Shown([sheet EXCEPT !.open = TRUE], dialog)
    /\ UNCHANGED <<kept, context, asks, acts, history>>
\* The backdrop, the close button or the active account; the dialogs lie over them.
CloseSwitcher ==
    /\ sheet.open /\ ~dialog.open /\ sheet.removing = Nobody
    /\ Shown([sheet EXCEPT !.open = FALSE], dialog)
    /\ UNCHANGED <<kept, context, asks, acts, history>>
OnList == sheet.open /\ ~dialog.open /\ sheet.removing = Nobody

handleSwitch(who) ==
    /\ OnList /\ who \in ToSet(sheet.local) \ {sheet.switching, context.shown}
    /\ Shown([sheet EXCEPT !.switching = who], dialog)
    /\ Writes([NewAsk("switch", who) EXCEPT !.from = "sheet"])
    /\ UNCHANGED <<kept, context, history>>
AskRemoval(who) ==
    /\ OnList /\ Len(sheet.local) > 1 /\ who \in ToSet(sheet.local) \ {context.shown}
    /\ Shown([sheet EXCEPT !.removing = who], dialog)
    /\ UNCHANGED <<kept, context, asks, acts, history>>
CancelRemoval ==
    /\ sheet.removing # Nobody /\ Shown([sheet EXCEPT !.removing = Nobody], dialog)
    /\ UNCHANGED <<kept, context, asks, acts, history>>
handleRemove ==
    /\ sheet.removing # Nobody /\ Shown([sheet EXCEPT !.removing = Nobody], dialog)
    /\ Writes([NewAsk("remove", sheet.removing) EXCEPT !.from = "sheet"])
    /\ UNCHANGED <<kept, context, history>>
\* One is dragged onto the place of another.
Moved(list, i, j) == InsertAt(RemoveAt(list, i), j, list[i])
onDrop(i, j) ==
    /\ OnList /\ {i, j} \subseteq DOMAIN sheet.local /\ i # j
    /\ Shown([sheet EXCEPT !.local = Moved(@, i, j)], dialog)
    /\ Writes([NewAsk("reorder", Nobody) EXCEPT !.list = Moved(sheet.local, i, j)])
    /\ UNCHANGED <<kept, context, history>>

----------------------------------------------------------------------------
(* AddWalletModal *)

Turn(d) == Shown(sheet, d) /\ UNCHANGED <<kept, context, asks, acts, history>>
OpenDialog == OnList /\ Turn([dialog EXCEPT !.open = TRUE])
At(step) == dialog.open /\ dialog.step = step
selectType(type) ==
    /\ At("choose")
    /\ Turn([dialog EXCEPT !.type = type, !.step = IF type = "add-account" THEN "password" ELSE InputOf(type)])
\* Every word is one of the list; a key starts with S and has its length.
handlePhraseContinue == At("phrase") /\ Turn([dialog EXCEPT !.phrase = Phrase, !.step = "password"])
handleKeyContinue == At("key") /\ Turn([dialog EXCEPT !.key = Secret, !.step = "password"])

\* mutant of Idle: nothing waits for the answer
IdleAlways == TRUE
Idle == ~dialog.loading
handleBack ==
    /\ Idle
    /\ \/ (At("phrase") \/ At("key")) /\ Turn([dialog EXCEPT !.step = "choose"])
       \/ At("password") /\ Turn([dialog EXCEPT !.step = InputOf(dialog.type)])
\* "Block closing mid-import so the wallet is never left half-applied."
handleClose ==
    /\ dialog.open /\ Idle
    /\ Shown(sheet, Fresh) /\ added' = {}
    /\ UNCHANGED <<kept, context, asks, acts, removed, halted>>
\* The password is typed, then the button or the Enter key
handlePasswordSubmit ==
    /\ At("password") /\ Idle
    /\ Shown(sheet, [dialog EXCEPT !.loading = TRUE, !.password = TRUE])
    /\ LET who == IF dialog.type = "import-phrase" THEN dialog.phrase ELSE dialog.key
       IN  Writes([NewAsk(dialog.type, who) EXCEPT !.from = "dialog"])
    /\ UNCHANGED <<kept, context, history>>

----------------------------------------------------------------------------
Goes(c) == Adds(c) \/ Obeys(c) \/ Tells(c) \/ Locks(c) \/ Learns(c) \/ ListArrives(c) \/ Refused(c)
AccountSheetNext ==
    \/ \E c \in asks : Goes(c)
    \/ checkWallet \/ OtherWindow
    \/ OpenSwitcher \/ CloseSwitcher \/ CancelRemoval \/ handleRemove
    \/ \E who \in ToSet(sheet.local) : handleSwitch(who) \/ AskRemoval(who)
    \/ \E i, j \in DOMAIN sheet.local : onDrop(i, j)
    \/ OpenDialog \/ handlePhraseContinue \/ handleKeyContinue
    \/ \E type \in Types : selectType(type)
    \/ handleBack \/ handleClose \/ handlePasswordSubmit

----------------------------------------------------------------------------
\* "Block closing mid-import so the wallet is never left half-applied." (AddWalletModal.tsx:67): a dialog
\* that is closed has forgotten its phrase, key and password, and no late answer turns its page.
ClosedIsFresh == ~dialog.open => dialog = Fresh

\* One confirmation adds one account, by the button or by Enter, unless a call failed after it had stored.
AddedOnce == ~halted => \A a, b \in added : a = b

\* Under "Account added!" and "Wallet imported!" there is the account of the type and the input shown,
\* unless it was removed since.
SuccessIsHeld ==
    dialog.step = "success" => \E a \in added :
        /\ a.type = dialog.type /\ a.who \in ToSet(kept.list) \cup removed
        /\ a.type = "import-phrase" => a.who = dialog.phrase
        /\ a.type = "import-key" => a.who = dialog.key

\* An account added or imported is one account, of what the dialog shows.
AccountSheetInv == ClosedIsFresh /\ AddedOnce /\ SuccessIsHeld
===============================================================================
