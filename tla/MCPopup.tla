------------------------------- MODULE MCPopup -------------------------------
(***************************************************************************)
(* The popup beside the sheets that stay mounted in it, one at a time:     *)
(* what the popup shows of the session, what the shielded sheet does, the  *)
(* accounts' sheet with its dialog, and the window of an approval.  One    *)
(* or both of the phrase's accounts are listed.                            *)
(***************************************************************************)
EXTENDS Popup, ShieldedSheet, AccountSheet, ApprovalPage, TLC
CONSTANTS u1, u2, a1, a2, n1

MCDerived == <<a1, a2>>

VARIABLE focus

all == <<focus, popupVars, sheetVars, accountSheetVars, pageVars>>
InPopup(A) == focus = "popup" /\ A /\ UNCHANGED <<focus, sheetVars, accountSheetVars, pageVars>>
InSheet(A) == focus = "sheet" /\ A /\ UNCHANGED <<focus, popupVars, accountSheetVars, pageVars>>
InAccounts(A) == focus = "accounts" /\ A /\ UNCHANGED <<focus, popupVars, sheetVars, pageVars>>
InApproval(A) == focus = "approval" /\ A /\ UNCHANGED <<focus, popupVars, sheetVars, accountSheetVars>>

PopupPartsInit ==
    /\ focus \in {"popup", "sheet", "accounts", "approval"}
    /\ PopupInit /\ SheetInit /\ AccountSheetInit /\ PageInit
    /\ active = u1 /\ holder = u1 /\ (focus # "accounts" => Len(kept.list) = 1)
    /\ worth = MaxAmount /\ (focus # "sheet" => trusted)
    /\ focus # "popup" => session = u1
    /\ signer = u1 /\ (chain = n1 <=> focus # "approval")
PopupPartsNext == InPopup(PopupNext) \/ InSheet(SheetNext) \/ InAccounts(AccountSheetNext) \/ InApproval(PageNext)
PopupPartsSpec ==
    /\ PopupPartsInit /\ [][PopupPartsNext]_all
    /\ WF_all(InPopup(checkStatus)) /\ WF_all(InPopup(fetchBalances))
    /\ \A kind \in Kinds, at \in {"asked", "answered"} : WF_all(InPopup(Takes(kind, at)))
    /\ SF_all(InPopup(\E c \in calls : c.who = popup.shown /\ BalancesArrive(c)))
    /\ WF_all(InPopup(\E c \in calls : c.who # popup.shown /\ BalancesFail(c)))
    /\ \A n \in 1..MaxLoops : WF_all(InSheet(Progresses(n)))

\* When the accounts rest, what the popup shows follows the worker's session, where the popup runs.
PopupFollows == <>[](focus = "popup" => Follows)

\* The popup follows the worker, balances of another account go, and a busy sheet is released.
PopupProgress == PopupFollows /\ BalancesRecover /\ BusyEnds
==============================================================================
