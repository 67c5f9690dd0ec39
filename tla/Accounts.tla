------------------------------- MODULE Accounts -------------------------------
(***************************************************************************)
(* The accounts the wallet holds and the keys behind them.  The list of    *)
(* accounts, the secondary recovery phrases and the imported keys are       *)
(* three storage entries, each read whole and written whole in separate     *)
(* awaits; every phrase and key is encrypted under the password.  Requests  *)
(* of two windows interleave and the worker may stop between two writes.    *)
(***************************************************************************)
EXTENDS Naturals, Sequences, FiniteSets, SequencesExt

CONSTANTS
    Calls,         \* requests; each arrives at most once
    Passwords,
    HDs, SKs,      \* ids of secondary phrases and of imported keys
    MaxIndex,      \* bound: highest index an account is derived at
    Plans,         \* scenarios: which handlers each request may be, how often the worker stops
    Primary, Nil

Wallets == {Primary} \cup HDs \cup SKs
Imported(w) == w \in SKs                         \* walletId.startsWith('sk:')
Account(w, i) == [wallet |-> w, index |-> i]     \* stands for its public key as well
AllAccounts == {Account(w, i) : w \in Wallets \ SKs, i \in 0..MaxIndex} \cup {Account(w, 0) : w \in SKs}
First == Account(Primary, 0)

Requests == {"create", "unlock", "lock", "reset", "add", "switch", "rename", "remove", "createHd",
             "importHd", "importSk", "reorder", "removeHd", "password", "phrase", "secret"}

\* A plan starts without a wallet, or with one that has the primary phrase and at most one key that
\* a change of password missed.
ASSUME AccountsAssumptions ==
    /\ MaxIndex \in Nat
    /\ Primary \notin HDs \cup SKs /\ HDs \cap SKs = {} /\ Nil \notin Passwords \cup AllAccounts
    /\ \A p \in Plans :
          /\ \A c \in Calls : p.calls[c] \subseteq Requests
          /\ p.stops \in Nat /\ p.keys \subseteq Wallets /\ p.missed \subseteq p.keys \ {Primary}
          /\ p.keys # {} => Primary \in p.keys /\ Passwords # {}
          /\ p.missed # {} => \A q \in Passwords : Passwords # {q}

VARIABLES
    main,       \* the password the recovery phrase is encrypted under; Nil without a wallet
    store,      \* the accounts store: accounts, active
    hdList, skList,     \* stored entries: id and the password it is encrypted under
    open,       \* chrome.storage.session: pk, secret, seed, hd, sk
    call,       \* the state of each request's handler
    plan, stops,
    \* History, read by no action:
    stale,      \* an entry was written from a copy, or of a key, that had changed since it was read
    rekeyed,    \* the password changed between a handler's check of it and its use
    cut,        \* a handler was cut short, by a stop or by CREATE_HD_WALLET's error
    crossed     \* two handlers that write the session overlapped

accountVars == <<main, store, hdList, skList, open, call, plan, stops, stale, rekeyed, cut, crossed>>

----------------------------------------------------------------------------
(* The handlers' programs. *)

OpenSession == <<"putAccount", "putSecret", "putSeed">>
CloseSession == <<"dropAccount", "dropSecret", "dropSeed", "dropHd", "dropSk">>
RemoveKey(w) ==
    IF Imported(w) THEN <<"getSk", "saveSk", "getExtraSk", "putExtraSk">>
    ELSE <<"getHd", "saveHd", "getExtraHd", "putExtraHd">>

CREATE_WALLET == <<"putMain", "saveStore">> \o OpenSession
UNLOCK == <<"decrypt", "getStore", "fill", "getHd", "extraHd", "getSk", "extraSk", "choose">> \o OpenSession
\* mutant of LOCK: the imported keys stay in the session
LOCKKeepsKeys == SubSeq(CloseSession, 1, 4)
LOCK == CloseSession
RESET_WALLET == <<"verify">> \o CloseSession \o <<"clearWallet">>
ADD_ACCOUNT == <<"verify", "mnemonic", "getStore", "saveStore">>
SWITCH == <<"getStore", "mnemonic", "saveStore", "putAccount", "putSecret">>
RENAME_ACCOUNT(w) ==
    IF Imported(w) THEN <<"getStore", "getSk", "saveSk", "saveStore">> ELSE <<"getStore", "saveStore">>
\* mutant of REMOVE_ACCOUNT: the key of an imported account is left behind
REMOVE_ACCOUNTKeepsKey(w) == <<"verify", "getStore", "saveStore">>
REMOVE_ACCOUNT(w) ==
    <<"verify", "getStore", "saveStore">> \o (IF Imported(w) THEN RemoveKey(w) ELSE <<>>)
CREATE_HD_WALLET == <<"verify", "getHd", "saveHd", "throws">>
IMPORT_HD_WALLET == <<"verify", "getStore", "getHd", "saveHd", "saveStore", "getExtraHd", "putExtraHd">>
IMPORT_SECRET_KEY == <<"verify", "getStore", "getSk", "saveSk", "saveStore", "getExtraSk", "putExtraSk">>
REORDER_ACCOUNTS == <<"getStore", "saveStore">>
REMOVE_HD_WALLET(w) == <<"getStore", "saveStore">> \o RemoveKey(w)
CHANGE_PASSWORD == <<"verify", "decrypt", "getHd", "getSk", "rewrite">>
GET_RECOVERY_PHRASE == <<"verify", "decrypt">>
GET_SECRET_KEY(w) ==
    <<"verify", "getStore">> \o
    (IF w = Primary THEN <<"decrypt">> ELSE IF Imported(w) THEN <<"getSk", "reveal">> ELSE <<"getHd", "reveal">>)

ProgramOf(op, w) ==
    CASE op = "create" -> CREATE_WALLET      [] op = "unlock" -> UNLOCK
      [] op = "lock" -> LOCK                 [] op = "reset" -> RESET_WALLET
      [] op = "add" -> ADD_ACCOUNT           [] op = "switch" -> SWITCH
      [] op = "rename" -> RENAME_ACCOUNT(w)  [] op = "remove" -> REMOVE_ACCOUNT(w)
      [] op = "createHd" -> CREATE_HD_WALLET [] op = "importHd" -> IMPORT_HD_WALLET
      [] op = "importSk" -> IMPORT_SECRET_KEY [] op = "reorder" -> REORDER_ACCOUNTS
      [] op = "removeHd" -> REMOVE_HD_WALLET(w) [] op = "password" -> CHANGE_PASSWORD
      [] op = "phrase" -> GET_RECOVERY_PHRASE [] op = "secret" -> GET_SECRET_KEY(w)

----------------------------------------------------------------------------
Idle == [op |-> Nil, todo |-> <<>>, st |-> "new", pw |-> Nil, next |-> Nil, target |-> Nil,
         accounts |-> {}, active |-> Nil, hd |-> {}, sk |-> {}, extra |-> {}, chosen |-> Nil]
Empty == [accounts |-> {}, active |-> Nil]
Closed == [pk |-> Nil, secret |-> Nil, seed |-> FALSE, hd |-> {}, sk |-> {}]
Ids(list) == {e.id : e \in list}
Entry(w, p) == [id |-> w, under |-> p]

AccountsTypeOK ==
    /\ main \in Passwords \cup {Nil}
    /\ store.accounts \subseteq AllAccounts /\ store.active \in AllAccounts \cup {Nil}
    /\ hdList \subseteq [id : HDs, under : Passwords] /\ skList \subseteq [id : SKs, under : Passwords]
    /\ open.pk \in AllAccounts \cup {Nil} /\ open.secret \in AllAccounts \cup {Nil}
    /\ open.hd \subseteq HDs /\ open.sk \subseteq SKs
    /\ \A c \in Calls : call[c].st = "open" <=> call[c].todo # <<>>
    /\ plan \in Plans /\ stops \in 0..plan.stops

\* A wallet with its primary account, and one secondary phrase or imported key per id, open or
\* locked; or no wallet; or one locked with a key that an earlier change of password missed (`rekeyed`).
AccountsInit ==
    /\ plan \in Plans /\ stops = 0
    /\ IF plan.keys = {}
       THEN main = Nil /\ store = Empty /\ hdList = {} /\ skList = {} /\ open = Closed /\ rekeyed = FALSE
       ELSE LET p == CHOOSE p \in Passwords : TRUE
                under(w) == IF w \in plan.missed THEN CHOOSE q \in Passwords : q # p ELSE p
                opened == [pk |-> First, secret |-> First, seed |-> TRUE,
                           hd |-> plan.keys \cap HDs, sk |-> plan.keys \cap SKs]
            IN /\ main = p
               /\ store \in [accounts : {{Account(w, 0) : w \in plan.keys}},
                             active : {First} \cup {Account(w, 0) : w \in plan.missed}]
               /\ hdList = {Entry(w, under(w)) : w \in plan.keys \cap HDs}
               /\ skList = {Entry(w, under(w)) : w \in plan.keys \cap SKs}
               /\ open \in {Closed} \cup {o \in {opened} : plan.missed = {}}
               /\ rekeyed = (plan.missed # {})
    /\ call = [c \in Calls |-> Idle]
    /\ stale = FALSE /\ cut = FALSE /\ crossed = FALSE

----------------------------------------------------------------------------
Doing(c, step) == call[c].st = "open" /\ call[c].todo # <<>> /\ Head(call[c].todo) = step

Over(x, st) == [Idle EXCEPT !.op = x.op, !.target = x.target, !.st = st]
Forward(x) == IF Len(x.todo) = 1 THEN Over(x, "done") ELSE [x EXCEPT !.todo = Tail(@)]
\* mutant of Denied: the handler goes on after its error
DeniedGoesOn(x) == [x EXCEPT !.st = "refused"]
Denied(x) == Over(x, "refused")
Ends(c, x) == call' = [call EXCEPT ![c] = x]
Proceeds(c, ok) == Ends(c, IF ok THEN Forward(call[c]) ELSE Denied(call[c]))

Unasked == {"lock", "switch", "rename", "reorder", "removeHd"}   \* no password in the message
Optional == {"add", "remove", "reset"}      \* checked when the message has one
Opens == {"create", "unlock", "lock", "reset", "switch"}
OpenWriters == Opens \cup {"importHd", "importSk", "remove", "removeHd"}

\* A request of one of the wallet's windows.  Onboarding is shown only without a wallet, keys are
\* added only in an open one, and a new key has a new id.
Submit(c) ==
    /\ call[c].st = "new"
    /\ \E op \in plan.calls[c], p \in Passwords \cup {Nil}, q \in Passwords \cup {Nil}, t \in AllAccounts :
          /\ op = "password" <=> q # Nil
          /\ op \in Unasked => p = Nil
          /\ p = Nil => op \in Unasked \cup Optional
          /\ op = "create" => main = Nil
          /\ op \in {"createHd", "importHd", "importSk"} =>
                /\ open.pk # Nil /\ t.index = 0
                /\ t.wallet \in (IF op = "importSk" THEN SKs ELSE HDs)
                /\ t \in store.accounts \/ t.wallet \notin Ids(hdList \cup skList)
                /\ \A d \in Calls : call[d].st # "new" => call[d].target # t
          /\ op \in {"create", "unlock", "lock", "reset", "reorder", "password", "phrase"} => t = First
          /\ op = "removeHd" => t.wallet # Primary /\ t.index = 0
          /\ op \in {"add", "removeHd"} => t.index = 0
          /\ call' = [call EXCEPT ![c] =
                [Idle EXCEPT !.op = op, !.todo = ProgramOf(op, t.wallet), !.st = "open", !.pw = p,
                             !.next = q, !.target = t]]
          /\ crossed' = (crossed \/ \E d \in Calls :
                /\ call[d].st = "open" /\ {op, call[d].op} \subseteq OpenWriters
                /\ {op, call[d].op} \cap Opens # {})
    /\ UNCHANGED <<main, store, hdList, skList, open, plan, stops, stale, rekeyed, cut>>

Kept == <<main, store, hdList, skList, open, plan, stops, stale, rekeyed, cut, crossed>>

\* verifyPassword, where a password is given; decryptMnemonic
Verify(c) ==
    /\ Doing(c, "verify") \/ Doing(c, "decrypt")
    /\ Proceeds(c, call[c].pw = main \/ (call[c].pw = Nil /\ call[c].op \in Optional))
    /\ UNCHANGED Kept

\* What a handler checks in the store before it goes on with t.
\* mutant of Fits: a phrase is removed with the active account
FitsActive(op, t) ==
    CASE op \in {"switch", "rename", "secret"} -> t \in store.accounts
      [] op \in {"importHd", "importSk"} -> t \notin store.accounts
      [] op = "remove" -> /\ Cardinality(store.accounts) > 1
                          /\ t \in store.accounts /\ t \notin {First, store.active}
      [] OTHER -> TRUE
Fits(op, t) ==
    CASE op \in {"switch", "rename", "secret"} -> t \in store.accounts
      [] op \in {"importHd", "importSk"} -> t \notin store.accounts
      [] op = "remove" -> /\ Cardinality(store.accounts) > 1
                          /\ t \in store.accounts /\ t \notin {First, store.active}
      [] op = "removeHd" -> \A a \in store.accounts : a = store.active => a.wallet # t.wallet
      [] OTHER -> TRUE

\* getAccountsStore
GetStore(c) ==
    LET x == call[c] IN
    /\ Doing(c, "getStore")
    /\ Ends(c, IF Fits(x.op, x.target)
               THEN Forward([x EXCEPT !.accounts = store.accounts, !.active = store.active])
               ELSE Denied(x))
    /\ UNCHANGED Kept

\* ADD_ACCOUNT and SWITCH_ACCOUNT take the key from what the session holds.
Mnemonic(c) ==
    LET w == call[c].target.wallet IN
    /\ Doing(c, "mnemonic")
    /\ Proceeds(c, IF w = Primary THEN open.seed
                   ELSE w \in open.hd \/ (call[c].op = "switch" /\ w \in open.sk))
    /\ UNCHANGED Kept

GetHd(c) ==
    LET x == call[c] IN
    /\ Doing(c, "getHd")
    /\ Ends(c, IF x.op = "password" /\ \E e \in hdList : e.under # x.pw THEN Denied(x)
               ELSE Forward([x EXCEPT !.hd = hdList]))
    /\ UNCHANGED Kept

GetSk(c) ==
    LET x == call[c] IN
    /\ Doing(c, "getSk")
    /\ Ends(c, IF x.op = "password" /\ \E e \in skList : e.under # x.pw THEN Denied(x)
               ELSE Forward([x EXCEPT !.sk = skList]))
    /\ UNCHANGED Kept

\* GET_SECRET_KEY
RevealKey(c) ==
    LET x == call[c] IN
    /\ Doing(c, "reveal")
    /\ Proceeds(c, Entry(x.target.wallet, x.pw) \in x.hd \cup x.sk)
    /\ UNCHANGED Kept

----------------------------------------------------------------------------
(* Writes of local storage. *)

nextIndex(accounts, w) ==
    LET used == {a.index : a \in {a \in accounts : a.wallet = w}}
    IN IF used = {} THEN 1 ELSE 1 + CHOOSE i \in used : \A j \in used : j <= i

\* The store as the handler leaves it, from the copy it read.
EditedStore(x) ==
    LET w == x.target.wallet IN
    CASE x.op = "create" -> [accounts |-> {First}, active |-> First]
      [] x.op = "add" -> [accounts |-> x.accounts \cup {Account(w, nextIndex(x.accounts, w))},
                          active |-> x.active]
      [] x.op = "switch" -> [accounts |-> x.accounts, active |-> x.target]
      [] x.op = "remove" -> [accounts |-> x.accounts \ {x.target}, active |-> x.active]
      [] x.op = "removeHd" -> [accounts |-> {a \in x.accounts : a.wallet # w}, active |-> x.active]
      [] x.op \in {"importHd", "importSk"} ->
            [accounts |-> x.accounts \cup {x.target}, active |-> x.active]
      [] OTHER -> [accounts |-> x.accounts, active |-> x.active]

Unread(x) == [accounts |-> x.accounts, active |-> x.active] # store

\* What a handler lists was taken away after the handler took it: the wallet was reset, or the
\* phrase (ADD_ACCOUNT derives from the session's copy) or the key removed.
Gone(x) ==
    /\ x.op \in {"add", "importHd", "importSk"}
    /\ x.accounts = {} \/ x.target.wallet \in (HDs \cup SKs) \ Ids(hdList \cup skList)
\* A removal takes the entry away after it took the accounts away; one may be back.
Relisted(x) == x.op \in {"remove", "removeHd"} /\ \E a \in store.accounts : a.wallet = x.target.wallet

SaveStore(c) ==
    LET x == call[c] IN
    /\ Doing(c, "saveStore")
    /\ x.op = "add" => nextIndex(x.accounts, x.target.wallet) <= MaxIndex
    /\ store' = EditedStore(x)
    /\ stale' = (stale \/ Unread(x) \/ Gone(x))
    /\ Ends(c, Forward(x))
    /\ UNCHANGED <<main, hdList, skList, open, plan, stops, rekeyed, cut, crossed>>

\* mutant of EditedList: a new entry replaces the list
EditedListReplaced(x, list) ==
    LET w == x.target.wallet IN
    IF x.op \in {"createHd", "importHd", "importSk"} THEN {Entry(w, x.pw)}
    ELSE IF x.op = "rename" THEN list ELSE {e \in list : e.id # w}
EditedList(x, list) ==
    LET w == x.target.wallet IN
    IF x.op \in {"createHd", "importHd", "importSk"} THEN list \cup {Entry(w, x.pw)}
    ELSE IF x.op = "rename" THEN list ELSE {e \in list : e.id # w}

\* An entry is encrypted under the password that was checked a while ago.
Rekeyed(x) == x.op \in {"createHd", "importHd", "importSk"} /\ x.pw # main

SaveHd(c) ==
    LET x == call[c] IN
    /\ Doing(c, "saveHd")
    /\ hdList' = EditedList(x, x.hd)
    /\ stale' = (stale \/ x.hd # hdList \/ Relisted(x)) /\ rekeyed' = (rekeyed \/ Rekeyed(x))
    /\ Ends(c, Forward(x))
    /\ UNCHANGED <<main, store, skList, open, plan, stops, cut, crossed>>

SaveSk(c) ==
    LET x == call[c] IN
    /\ Doing(c, "saveSk")
    /\ skList' = EditedList(x, x.sk)
    /\ stale' = (stale \/ x.sk # skList \/ Relisted(x)) /\ rekeyed' = (rekeyed \/ Rekeyed(x))
    /\ Ends(c, Forward(x))
    /\ UNCHANGED <<main, store, hdList, open, plan, stops, cut, crossed>>

\* `store` is read above its declaration: the handler ends with a ReferenceError, after the phrase was
\* stored and before any account is, and the window gets no answer.
Throws(c) ==
    /\ Doing(c, "throws")
    /\ Ends(c, Over(call[c], "lost"))
    /\ cut' = TRUE
    /\ UNCHANGED <<main, store, hdList, skList, open, plan, stops, stale, rekeyed, crossed>>

\* changePassword: every credential under the new password in one write
\* mutant of Reencrypted: the imported keys are forgotten
ReencryptedHdOnly(list, p) == {IF e.id \in HDs THEN Entry(e.id, p) ELSE e : e \in list}
Reencrypted(list, p) == {Entry(e.id, p) : e \in list}

Rewrite(c) ==
    LET x == call[c] IN
    /\ Doing(c, "rewrite")
    /\ main' = x.next
    /\ hdList' = IF x.hd # {} THEN Reencrypted(x.hd, x.next) ELSE hdList
    /\ skList' = IF x.sk # {} THEN Reencrypted(x.sk, x.next) ELSE skList
    /\ stale' = (stale \/ x.hd # hdList \/ x.sk # skList)
    /\ Ends(c, Forward(x))
    /\ rekeyed' = (rekeyed \/ main # x.pw)
    /\ UNCHANGED <<store, open, plan, stops, cut, crossed>>

\* encryptAndStoreMnemonic
PutMain(c) ==
    /\ Doing(c, "putMain")
    /\ main' = call[c].pw /\ rekeyed' = (rekeyed \/ main # Nil)
    /\ Ends(c, Forward(call[c]))
    /\ UNCHANGED <<store, hdList, skList, open, plan, stops, stale, cut, crossed>>

ClearWallet(c) ==
    /\ Doing(c, "clearWallet")
    /\ main' = Nil /\ store' = Empty /\ hdList' = {} /\ skList' = {}
    /\ Ends(c, Forward(call[c]))
    /\ UNCHANGED <<open, plan, stops, stale, rekeyed, cut, crossed>>

----------------------------------------------------------------------------
(* The session. *)

\* UNLOCK_WALLET fills an empty list with the primary account.
Fill(c) ==
    LET x == call[c]
        filled == [accounts |-> {First}, active |-> First]
    IN /\ Doing(c, "fill")
       /\ IF x.accounts = {}
          THEN /\ store' = filled /\ stale' = (stale \/ Unread(x))
               /\ Ends(c, Forward([x EXCEPT !.accounts = {First}, !.active = First]))
          ELSE Ends(c, Forward(x)) /\ UNCHANGED <<store, stale>>
       /\ UNCHANGED <<main, hdList, skList, open, plan, stops, rekeyed, cut, crossed>>

Readable(list, p) == {e.id : e \in {e \in list : e.under = p}}

ExtraHd(c) ==
    /\ Doing(c, "extraHd")
    /\ open' = [open EXCEPT !.hd = Readable(call[c].hd, call[c].pw)]
    /\ Ends(c, Forward(call[c]))
    /\ UNCHANGED <<main, store, hdList, skList, plan, stops, stale, rekeyed, cut, crossed>>

ExtraSk(c) ==
    /\ Doing(c, "extraSk")
    /\ open' = [open EXCEPT !.sk = Readable(call[c].sk, call[c].pw)]
    /\ Ends(c, Forward(call[c]))
    /\ UNCHANGED <<main, store, hdList, skList, plan, stops, stale, rekeyed, cut, crossed>>

\* The account UNLOCK_WALLET opens: the active one; the primary one instead when its key is missing.
ActiveOf(x) ==
    IF x.active \in x.accounts THEN x.active
    ELSE IF x.active # Nil /\ Account(Primary, x.active.index) \in x.accounts
    THEN Account(Primary, x.active.index)
    ELSE CHOOSE a \in x.accounts : TRUE
Chosen(x) ==
    LET a == ActiveOf(x)
    IN IF a.wallet = Primary \/ a.wallet \in Readable(x.hd \cup x.sk, x.pw) THEN a ELSE First

\* The stored active account is aligned with the account opened when that one was not the active one.
\* mutant of Choose: it is not
ChooseUnaligned(c) ==
    /\ Doing(c, "choose")
    /\ Ends(c, Forward([call[c] EXCEPT !.chosen = Chosen(call[c])]))
    /\ UNCHANGED Kept
Choose(c) ==
    LET x == call[c]
        to == Chosen(x)
        coerced == to # ActiveOf(x) /\ to # x.active
    IN /\ Doing(c, "choose")
       /\ store' = IF coerced THEN [accounts |-> x.accounts, active |-> to] ELSE store
       /\ stale' = (stale \/ (coerced /\ Unread(x)))
       /\ Ends(c, Forward([x EXCEPT !.chosen = to]))
       /\ UNCHANGED <<main, hdList, skList, open, plan, stops, rekeyed, cut, crossed>>

\* An import adds its key to the session's copy, a removal takes it out: read, then written.
GetExtra(c) ==
    LET x == call[c] IN
    /\ Doing(c, "getExtraHd") \/ Doing(c, "getExtraSk")
    /\ Ends(c, Forward([x EXCEPT !.extra = IF Doing(c, "getExtraHd") THEN open.hd ELSE open.sk]))
    /\ UNCHANGED Kept

PutExtra(c) ==
    LET x == call[c]
        w == x.target.wallet
        extra == IF x.op \in {"importHd", "importSk"} THEN x.extra \cup {w} ELSE x.extra \ {w}
    IN /\ Doing(c, "putExtraHd") \/ Doing(c, "putExtraSk")
       /\ open' = IF Doing(c, "putExtraHd") THEN [open EXCEPT !.hd = extra] ELSE [open EXCEPT !.sk = extra]
       /\ Ends(c, Forward(x))
       /\ UNCHANGED <<main, store, hdList, skList, plan, stops, stale, rekeyed, cut, crossed>>

Opened(x) == CASE x.op = "create" -> First [] x.op = "switch" -> x.target [] x.op = "unlock" -> x.chosen

\* What one await of a handler sets or removes in chrome.storage.session.
SessionWrite(x, step) ==
    CASE step = "putAccount" -> [open EXCEPT !.pk = Opened(x)]
      [] step = "putSecret" -> [open EXCEPT !.secret = Opened(x)]
      [] step = "putSeed" -> [open EXCEPT !.seed = TRUE]
      [] step = "dropAccount" -> [open EXCEPT !.pk = Nil]
      [] step = "dropSecret" -> [open EXCEPT !.secret = Nil]
      [] step = "dropSeed" -> [open EXCEPT !.seed = FALSE]
      [] step = "dropHd" -> [open EXCEPT !.hd = {}]
      [] step = "dropSk" -> [open EXCEPT !.sk = {}]

WriteSession(c) ==
    \E step \in ToSet(OpenSession \o CloseSession) :
        /\ Doing(c, step)
        /\ open' = SessionWrite(call[c], step)
        /\ Ends(c, Forward(call[c]))
        /\ UNCHANGED <<main, store, hdList, skList, plan, stops, stale, rekeyed, cut, crossed>>

\* The worker stops: what its handlers had still to do is lost, the storage stays.
Stop ==
    /\ stops < plan.stops
    /\ stops' = stops + 1
    /\ cut' = (cut \/ \E c \in Calls : call[c].st = "open")
    /\ call' = [c \in Calls |-> IF call[c].st = "open" THEN Over(call[c], "lost")
                                 ELSE call[c]]
    /\ UNCHANGED <<main, store, hdList, skList, open, plan, stale, rekeyed, crossed>>

AccountsStep(c) ==
    \/ Verify(c) \/ GetStore(c) \/ Mnemonic(c) \/ GetHd(c) \/ GetSk(c) \/ RevealKey(c)
    \/ SaveStore(c) \/ SaveHd(c) \/ SaveSk(c) \/ Throws(c) \/ Rewrite(c) \/ PutMain(c) \/ ClearWallet(c)
    \/ Fill(c) \/ ExtraHd(c) \/ ExtraSk(c) \/ Choose(c) \/ GetExtra(c) \/ PutExtra(c) \/ WriteSession(c)

AccountsNext == Stop \/ \E c \in Calls : Submit(c) \/ AccountsStep(c)
AccountsSpec == AccountsInit /\ [][AccountsNext]_accountVars

----------------------------------------------------------------------------
(* Properties. *)

Quiet == \A c \in Calls : call[c].st # "open"

\* changePassword re-encrypts every credential in one write, since one it missed would lock its account
\* out: every listed account of a secondary phrase or an imported key has its entry, under the
\* password the wallet opens with, at every step of every handler and whatever was cut short, unless
\* an entry was written from an outdated copy or under a password checked before it changed.
NoneBricked ==
    ~stale /\ ~rekeyed =>
        /\ \A a \in store.accounts : a.wallet # Primary => Entry(a.wallet, main) \in hdList \cup skList
        /\ \A e \in hdList \cup skList : e.under = main

\* The active account is one of the list: switching, removing, adding and the alignment of an unlock
\* agree on it, unless one of them wrote an outdated copy of the list.
ActiveListed == ~stale /\ store.accounts # {} => store.active \in store.accounts

\* An open wallet signs for the account the list shows as active (the code's comment in
\* UNLOCK_WALLET: else "a send silently spends primary's funds"), once no handler runs, none was cut
\* short, and no two handlers wrote the session at once.
SessionMatches ==
    Quiet /\ ~crossed /\ ~cut /\ ~stale /\ open.pk # Nil =>
        open.pk = store.active /\ open.secret = store.active /\ open.seed

\* A locked wallet leaves no key behind: without the public key the session holds no secret, phrase
\* or imported key, once the handlers are done and none was cut short or crossed.
LockForgets == Quiet /\ ~crossed /\ ~cut /\ open.pk = Nil => open = Closed

\* An imported key is stored only for a listed account: a key whose account is gone is gone too.
NoOrphans ==
    Quiet /\ ~cut /\ ~stale => \A e \in skList : \E a \in store.accounts : a.wallet = e.id

\* The list, the keys and the session belong together.
AccountsInv == AccountsTypeOK /\ NoneBricked /\ ActiveListed /\ SessionMatches /\ LockForgets /\ NoOrphans

\* A phrase or key disappears from storage only when the user removes it or resets the wallet, or
\* when a handler overwrites the list with an outdated copy of it.
KeysOnlyRemoved ==
    [][\A w \in Ids(hdList \cup skList) \ Ids(hdList' \cup skList') :
          \/ stale'
          \/ \E c \in Calls :
                /\ call[c].st = "open" /\ call'[c] # call[c]
                /\ \/ call[c].op = "reset"
                   \/ call[c].op \in {"remove", "removeHd"} /\ call[c].target.wallet = w]_accountVars
=============================================================================
