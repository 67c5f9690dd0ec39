----------------------------- MODULE MCExtension -----------------------------
(***************************************************************************)
(* The extension, one part at a time: what its worker keeps in storage -   *)
(* the accounts and their keys, the failed attempts, the networks and a    *)
(* batch of private payments - and the popup: the screens before a wallet is open,  *)
(* the pages that send and that swap, and the gesture of private mode.     *)
(***************************************************************************)
EXTENDS Accounts, Lockout, Networks, PrivatePayments, SendPage, SwapPage, PullToPrivate, Onboarding, TLC
CONSTANTS c1, c2, c3, p1, p2, h1, h2, s1, o1, o2, t1, t2

VARIABLE focus

Two(first, second, keys, halting) ==
    [calls |-> (c1 :> first) @@ (c2 :> second) @@ (c3 :> {}), keys |-> keys, missed |-> {}, stops |-> halting]
Three(first, second, third, keys) ==
    [calls |-> (c1 :> first) @@ (c2 :> second) @@ (c3 :> third), keys |-> keys, missed |-> {}, stops |-> 0]
Owned == {Primary, h1, s1}

MCPlans ==
    { \* a password change beside every handler that writes an entry, and a stop
      Two({"password"}, {"importHd", "importSk", "rename", "remove", "removeHd", "secret"}, Owned, 1),
      \* the list written by two windows
      Two({"add", "switch", "reorder", "rename"}, {"remove", "removeHd", "importSk", "createHd"}, Owned, 1),
      \* the session opened and closed beside itself and beside an import
      Two({"unlock", "switch"}, {"lock", "reset", "importHd", "remove", "phrase"}, Owned, 1),
      \* a wallet created, filled and opened
      Three({"create"}, {"importHd", "importSk"}, {"lock", "unlock"}, {}),
      \* an unlock that cannot read the active account's key, beside what may change the list
      [Two({"unlock"}, {"switch", "reorder", "rename", "password"}, Owned, 1) EXCEPT !.missed = {h1, s1}],
      \* a removal, then what the session and an unlock make of it
      Three({"switch"}, {"remove", "removeHd"}, {"unlock"}, Owned) }

\* A payment in either asset, one to a recipient without the trustline; the other account has paid another.
InXlm(to) == [to |-> to, asset |-> "XLM"]
InUsdc(to) == [to |-> to, asset |-> "USDC"]
MCForms == {InXlm("d1"), InUsdc("d1")}
MCNative == [f \in MCForms |-> InXlm(f.to)]
MCRefused == {InUsdc("d1")}
MCEarlier == {[kind |-> "pay", form |-> InXlm("d2"), by |-> o2, agreed |-> TRUE]}

\* A trade from an asset that another account may lack, and the one from XLM.
MCNativeFrom == [t \in {t1, t2} |-> t2]

\* Two calls beside another window, the worker's end or a new popup; or one, and a poll meanwhile.
MCBudgets == {[calls |-> 2, others |-> 1, polls |-> 1], [calls |-> 1, others |-> 1, polls |-> 2]}

----------------------------------------------------------------------------
storage == <<accountVars, lockoutVars, networkVars, vars>>
screens == <<sendVars, swapVars, pullVars, onboardingVars>>
ExtensionInit ==
    /\ focus \in {"accounts", "lockout", "networks", "payments", "send", "swap", "pull", "onboarding"}
    /\ AccountsInit /\ LockoutInit /\ NetworksInit /\ Init /\ SendInit /\ SwapInit /\ PullInit /\ OnboardingInit
    /\ focus # "accounts" => plan.keys = {}
    /\ account = o1
    /\ focus # "swap" => price = 1
    /\ focus # "onboarding" => wallet = NoWallet /\ budget.polls = 1
ExtensionNext ==
    \/ focus = "accounts" /\ AccountsNext /\ UNCHANGED <<lockoutVars, networkVars, vars, screens>>
    \/ focus = "lockout" /\ LockoutNext /\ UNCHANGED <<accountVars, networkVars, vars, screens>>
    \/ focus = "networks" /\ NetworksNext /\ UNCHANGED <<accountVars, lockoutVars, vars, screens>>
    \/ focus = "payments" /\ Next /\ UNCHANGED <<accountVars, lockoutVars, networkVars, screens>>
    \/ focus = "send" /\ SendNext /\ UNCHANGED <<storage, swapVars, pullVars, onboardingVars>>
    \/ focus = "swap" /\ SwapNext /\ UNCHANGED <<storage, sendVars, pullVars, onboardingVars>>
    \/ focus = "pull" /\ PullNext /\ UNCHANGED <<storage, sendVars, swapVars, onboardingVars>>
    \/ focus = "onboarding" /\ OnboardingNext /\ UNCHANGED <<storage, sendVars, swapVars, pullVars>>
ExtensionSpec ==
    ExtensionInit /\ [][ExtensionNext /\ UNCHANGED focus]_<<focus, storage, screens>>

\* What is stored goes only by the act meant to remove it: a key by its removal, a lockout by the right
\* password, a network by its removal, a private note with its store.
NothingIsLost == KeysOnlyRemoved /\ LockoutStands /\ OnlyRemovalsRemove /\ NothingClobbered
==============================================================================
