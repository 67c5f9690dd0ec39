------------------------------- MODULE Session -------------------------------
(***************************************************************************)
(* The extension's service worker: requests of web pages and of the        *)
(* wallet's own windows, the session they share, the approvals that stop   *)
(* them, the idle lock and the worker's restarts.  A handler is the        *)
(* sequence of the steps it awaits; between two steps any other handler    *)
(* may run.                                                                *)
(***************************************************************************)
EXTENDS Naturals, Sequences, FiniteSets, SequencesExt

CONSTANTS
    Slots,        \* requests; each arrives at most once
    Pages,        \* origins
    Accounts,
    Networks,
    None,
    Mixes         \* scenarios: the programs each slot may run, the pages, and the bounds on how
                  \* often the wallet locks by itself and the worker stops

Seats == Pages \X Accounts \X Networks    \* who is allowed, as which account, where

VARIABLES
    session,      \* chrome.storage.session: account, secret, whether the seed is there
    active,       \* the accounts store's activePublicKey
    network,      \* the active network
    allow,        \* the allowlist, a set of seats
    payloads,     \* requests whose approval payload is stored
    pending,      \* pendingRequests
    connecting,   \* pendingConnectOrigins
    windows,      \* each request's window: none, up (not mapped yet), mapped
    req,          \* the state of each request's handler
    mix, locks, restarts,
    \* History, read by no action:
    said,         \* requests the user approved while they were pending
    agreed,       \* seats the user agreed to
    revoked,      \* seats taken back since, with no grant of them under way
    rewound,      \* a stored list was acted on after it had changed
    overlapped,   \* two writers of the session overlapped, or one was cut short
    kept,         \* the last lock found a request pending and kept the secrets
    sealed        \* locked for good: only a password may open the wallet

stored == <<session, active, network, allow, payloads>>
worker == <<pending, connecting, windows, req>>
bounds == <<mix, locks, restarts>>
history == <<said, agreed, revoked, rewound, overlapped, kept, sealed>>
vars == <<stored, worker, bounds, history>>

----------------------------------------------------------------------------
(* The handlers' programs. *)

requireUnlockedAndAllowed == <<"session", "unlock", "network", "allowed">>

Asked(rest) == <<"payload", "putPayload", "wait", "cleared", "putCleared">> \o rest

IS_CONNECTED == <<"session">>
GET_ADDRESS == <<"account", "network", "allowed">>
GET_PUBLIC_KEY == <<"account", "network", "allowed">>
REQUEST_ACCESS == <<"session", "connect">>    \* and what Connect and Known go on with
GET_NETWORK == <<"session", "network">>
GET_NETWORK_DETAILS == <<"session", "network">>
SIGN_TRANSACTION == requireUnlockedAndAllowed \o <<"secret", "network">> \o Asked(<<"sign">>)
SIGN_MESSAGE == requireUnlockedAndAllowed \o <<"secret">> \o Asked(<<"sign">>)
SIGN_AUTH_ENTRY == requireUnlockedAndAllowed \o <<"secret", "network">> \o Asked(<<"sign">>)
SUBMIT_TRANSACTION == <<"session", "network", "fetch">>
SIGN_AND_SUBMIT ==
    requireUnlockedAndAllowed \o <<"secret", "network">> \o Asked(<<"sign", "fetch">>)
ADD_ASSET ==
    requireUnlockedAndAllowed \o <<"secret">> \o Asked(<<"network", "fetch", "sign", "fetch">>)
REMOVE_ASSET ==
    requireUnlockedAndAllowed \o <<"secret">> \o Asked(<<"network", "fetch", "sign", "fetch">>)
ESTIMATE_FEE == <<"session", "network", "fetch">>
GET_ACCOUNT_INFO == <<"account", "network", "allowed", "fetch">>
GET_BALANCE == <<"account", "network", "allowed", "fetch">>
GET_ASSETS == <<"account", "network", "allowed", "fetch">>
HAS_TRUSTLINE == <<"account", "network", "allowed", "network", "fetch">>
GET_TRANSACTION == <<"session", "network", "fetch">>
REVOKE_ACCESS == <<"account", "network", "list", "revoke">>
REVOKE_ALL_ACCESS == <<"account", "network", "list", "revokeAll">>
IS_ALLOWED == <<"account", "network", "allowed">>
IS_CONNECTED_AND_ALLOWED == <<"session", "network", "allowed">>
ADD_TOKEN == requireUnlockedAndAllowed \o Asked(<<>>)
BUILD_PAYMENT_XDR == requireUnlockedAndAllowed \o <<"network", "fetch">>
BUILD_PATH_PAYMENT_XDR == requireUnlockedAndAllowed \o <<"network", "fetch", "fetch">>
BUILD_MANAGE_OFFER_XDR == requireUnlockedAndAllowed \o <<"network", "fetch">>
READ_CONTRACT == requireUnlockedAndAllowed \o <<"network", "fetch">>
SIMULATE_CONTRACT == <<"session", "network", "fetch">>
INVOKE_CONTRACT ==
    requireUnlockedAndAllowed \o <<"secret", "network", "fetch", "fetch">>
        \o Asked(<<"sign", "fetch", "fetch">>)
GET_CONTRACT_SPEC == <<"session", "network", "fetch", "fetch">>

SIGN_AND_SUBMIT_PAYMENT == <<"secret", "account", "fetch", "sign", "fetch">>
CHANGE_TRUSTLINE == <<"secret", "account", "fetch", "sign", "fetch">>
SIGN_AND_SUBMIT_SWAP == <<"secret", "account", "fetch", "fetch", "sign", "fetch">>
GET_WALLET_STATUS == <<"session">>
BUILD_PAYMENT == <<"account", "fetch", "fetch">>
GET_SWAP_QUOTE == <<"account", "fetch", "fetch">>
GET_CONNECTED_APPS == <<"account", "network", "list">>
FETCH_HORIZON_ACCOUNT == <<"network", "fetch">>
PRIVATE_QUOTE == <<"network", "secret", "account", "controls", "fetch">>
PRIVATE_REVEAL_NOTE == <<"network", "secret", "account", "controls", "fetch">>
PRIVATE_SELF_RECLAIM == <<"network", "secret", "account", "controls", "sign", "fetch">>
PRIVATE_RECOVER_FROM_SEED == <<"network", "secret", "account", "controls", "fetch">>
PRIVATE_LIST_NOTES == <<"network", "secret", "account", "controls", "fetch">>
PRIVATE_PREPARE_SEND == <<"network", "secret", "account", "controls", "sign", "fetch">>
SWITCH_ACCOUNT == <<"seed", "saveActive", "putAccount", "putSecret">>
UNLOCK_WALLET == <<"active", "putAccount", "putSecret", "putSeed">>
LOCK_WALLETKeepsSecret == <<"dropAccount", "dropSeed">>    \* mutant of LOCK_WALLET
LOCK_WALLET == <<"dropAccount", "dropSecret", "dropSeed">>
SET_ACTIVE_NETWORK == <<"setNetwork">>

Programs ==
    {IS_CONNECTED, GET_ADDRESS, GET_PUBLIC_KEY, REQUEST_ACCESS, GET_NETWORK, GET_NETWORK_DETAILS,
     SIGN_TRANSACTION, SIGN_MESSAGE, SIGN_AUTH_ENTRY, SUBMIT_TRANSACTION, SIGN_AND_SUBMIT,
     ADD_ASSET, REMOVE_ASSET, ESTIMATE_FEE, GET_ACCOUNT_INFO, GET_BALANCE, GET_ASSETS,
     HAS_TRUSTLINE, GET_TRANSACTION, REVOKE_ACCESS, REVOKE_ALL_ACCESS, IS_ALLOWED,
     IS_CONNECTED_AND_ALLOWED, ADD_TOKEN, BUILD_PAYMENT_XDR, BUILD_PATH_PAYMENT_XDR,
     BUILD_MANAGE_OFFER_XDR, READ_CONTRACT, SIMULATE_CONTRACT, INVOKE_CONTRACT,
     GET_CONTRACT_SPEC, SIGN_AND_SUBMIT_PAYMENT, CHANGE_TRUSTLINE, SIGN_AND_SUBMIT_SWAP,
     GET_WALLET_STATUS, BUILD_PAYMENT, GET_SWAP_QUOTE, GET_CONNECTED_APPS,
     FETCH_HORIZON_ACCOUNT, PRIVATE_QUOTE, PRIVATE_REVEAL_NOTE, PRIVATE_SELF_RECLAIM,
     PRIVATE_RECOVER_FROM_SEED, PRIVATE_LIST_NOTES, PRIVATE_PREPARE_SEND,
     SWITCH_ACCOUNT, UNLOCK_WALLET, LOCK_WALLET, SET_ACTIVE_NETWORK}

ASSUME SessionAssumption ==
    /\ Accounts # {} /\ Networks # {}
    /\ \A a \in Accounts : a # None
    /\ \A n \in Networks : n # None
    /\ \A p \in Pages : p # None
    /\ None \notin Slots
    /\ \A m \in Mixes :
          /\ \A r \in Slots : m.calls[r] \subseteq Programs
          /\ m.pages \subseteq Pages
          /\ m.locks \in Nat /\ m.restarts \in Nat

----------------------------------------------------------------------------

At(r, step) == req[r].st = "open" /\ req[r].todo # <<>> /\ Head(req[r].todo) = step
Runs(r, steps) == req[r].st = "open" /\ Range(req[r].todo) \cap steps # {}



Blank == [st |-> "new", todo |-> <<>>, origin |-> None, want |-> None, pk |-> None,
          secret |-> None, net |-> None, seen |-> {}, no |-> FALSE, signed |-> FALSE,
          shown |-> None, begun |-> FALSE, moved |-> FALSE, sure |-> FALSE,
          connect |-> FALSE]

\* The handler's next await, or its answer when there is none left.
Resumed(x, rest) ==
    [x EXCEPT !.todo = rest,
              !.st = IF rest # <<>> THEN "open" ELSE IF x.no THEN "refused" ELSE "done"]
Advanced(x) == Resumed(x, Tail(x.todo))
\* mutant of Refused: an error is answered and the handler goes on
RefusedGoesOn(x) == [x EXCEPT !.st = "refused"]
Refused(x) == [x EXCEPT !.todo = <<>>, !.st = "refused"]

\* mutant of Released: no finally, only the answer releases
ReleasedOnAnswer(x) == IF x.connect /\ x.st = "done" THEN {x.origin} ELSE {}

\* finally { pendingConnectOrigins.delete(origin) }
Released(x) == IF x.connect /\ x.st \in {"done", "refused"} THEN {x.origin} ELSE {}
Becomes(r, x) == req' = [req EXCEPT ![r] = x] /\ connecting' = connecting \ Released(x)

Begun(q) == req[q].st = "open" /\ req[q].begun

\* A session half written: the account and the secret may not belong together.
HalfWritten == \E q \in Slots : Begun(q) /\ Runs(q, {"putSecret", "dropSecret"})

\* What a write of s to the session does to the handlers that have read it, all but r.
Disturbed(r, s) ==
    LET read(q) == {req[q].pk, req[q].secret} \ {None}
    IN [q \in Slots |->
          [req[q] EXCEPT !.moved = @ \/ (q # r /\ Runs(q, {"sign"}) /\ read(q) # {}
                                         /\ ~({s.pk, s.secret} \subseteq read(q)))]]

Seat(x) == <<x.origin, x.pk, x.net>>
mismatch(x) == x.want # None /\ x.want # x.net
GrantSeat(x) == <<x.origin, x.pk, IF mismatch(x) THEN x.want ELSE x.net>>

----------------------------------------------------------------------------
TypeOK ==
    /\ session \in [pk : Accounts \cup {None}, secret : Accounts \cup {None}, seed : BOOLEAN]
    /\ active \in Accounts /\ network \in Networks
    /\ allow \subseteq Seats /\ agreed \subseteq Seats /\ revoked \subseteq Seats
    /\ payloads \subseteq Slots /\ pending \subseteq Slots /\ said \subseteq Slots
    /\ connecting \subseteq Pages
    /\ windows \in [Slots -> {"none", "up", "mapped"}]
    /\ \A r \in Slots :
          /\ req[r].st \in {"new", "open", "done", "refused", "lost"}
          /\ req[r].st = "open" <=> req[r].todo # <<>>
          /\ req[r].pk \in Accounts \cup {None} /\ req[r].net \in Networks \cup {None}
    /\ mix \in Mixes /\ locks \in 0..mix.locks /\ restarts \in 0..mix.restarts
    /\ {rewound, overlapped, kept, sealed} \subseteq BOOLEAN

Init ==
    /\ active = CHOOSE a \in Accounts : TRUE
    /\ network = CHOOSE n \in Networks : TRUE
    /\ session \in {[pk |-> None, secret |-> None, seed |-> FALSE],
                    [pk |-> active, secret |-> active, seed |-> TRUE]}
    /\ allow \in {{}, {<<p, active, network>> : p \in Pages}}
    /\ agreed = allow
    /\ payloads = {} /\ pending = {} /\ connecting = {} /\ said = {} /\ revoked = {}
    /\ windows = [r \in Slots |-> "none"]
    /\ req = [r \in Slots |-> Blank]
    /\ mix \in Mixes /\ locks = 0 /\ restarts = 0
    /\ rewound = FALSE /\ overlapped = FALSE /\ kept = FALSE
    /\ sealed = (session.pk = None)

\* chrome.runtime.onMessage: the worker takes a request and runs its handler to the first await.
Arrive(r) ==
    /\ req[r].st = "new"
    /\ \E program \in mix.calls[r], p \in mix.pages \cup {None}, w \in Networks \cup {None}, a \in Accounts :
          /\ p = None <=> Head(program) \notin {"session", "account"}
          /\ w # None => Range(program) \cap {"connect", "setNetwork"} # {}
          /\ "setNetwork" \in Range(program) => w # None
          /\ req' = [req EXCEPT ![r] =
                [Blank EXCEPT !.st = "open", !.todo = program, !.origin = p, !.want = w,
                              !.pk = IF "saveActive" \in Range(program) THEN a ELSE None]]
          /\ sealed' = (sealed /\ "active" \notin Range(program))
    /\ UNCHANGED <<stored, pending, connecting, windows, bounds, said, agreed, revoked, rewound,
                   overlapped, kept>>

----------------------------------------------------------------------------
(* Steps that read. *)

Passive == <<stored, pending, windows, bounds, history>>

\* chrome.storage.session.get(SESSION_KEY) at the top of handleExternalRequest: a request that finds
\* an account does not wait for an unlock later.
ReadSession(r) ==
    /\ At(r, "session")
    /\ LET x == [req[r] EXCEPT !.pk = session.pk, !.moved = HalfWritten]
           rest == Tail(x.todo)
       IN Becomes(r, Resumed(x, IF session.pk # None /\ rest # <<>> /\ Head(rest) = "unlock"
                                THEN Tail(rest) ELSE rest))
    /\ UNCHANGED Passive

\* The same, in the handlers that answer an error at once when the wallet is locked.
ReadAccount(r) ==
    /\ At(r, "account")
    /\ Becomes(r, IF session.pk = None THEN Refused(req[r])
                  ELSE Advanced([req[r] EXCEPT !.pk = session.pk, !.moved = @ \/ HalfWritten]))
    /\ UNCHANGED Passive

\* getSessionSecret
ReadSecret(r) ==
    /\ At(r, "secret")
    /\ Becomes(r, IF session.secret = None THEN Refused(req[r])
                  ELSE Advanced([req[r] EXCEPT !.secret = session.secret, !.moved = @ \/ HalfWritten]))
    /\ UNCHANGED Passive

\* mutant of Controls: any secret will do
ControlsAny(r) == At(r, "controls") /\ Becomes(r, Advanced([req[r] EXCEPT !.sure = TRUE])) /\ UNCHANGED Passive

\* buildPrivateEnv refuses a secret that does not control the account.
Controls(r) ==
    /\ At(r, "controls")
    /\ Becomes(r, IF req[r].secret # req[r].pk THEN Refused(req[r]) ELSE Advanced([req[r] EXCEPT !.sure = TRUE]))
    /\ UNCHANGED Passive

\* getActiveNetwork
ReadNetwork(r) ==
    /\ At(r, "network")
    /\ Becomes(r, Advanced([req[r] EXCEPT !.net = network]))
    /\ UNCHANGED Passive

\* isAllowed, where a request that is not allowed is refused
Allowed(r) ==
    /\ At(r, "allowed")
    /\ Becomes(r, IF Seat(req[r]) \in allow THEN Advanced(req[r]) ELSE Refused(req[r]))
    /\ UNCHANGED Passive

\* A call of Horizon or of Soroban, which answers or fails.
Fetch(r) ==
    /\ At(r, "fetch")
    /\ Becomes(r, Advanced(req[r])) \/ Becomes(r, Refused(req[r]))
    /\ UNCHANGED Passive

Sign(r) ==
    /\ At(r, "sign")
    /\ Becomes(r, Advanced([req[r] EXCEPT !.signed = TRUE]))
    /\ UNCHANGED Passive

----------------------------------------------------------------------------
(* Lists kept in one storage entry: read in one await, written whole in a later one. *)

\* getAllowList
ReadList(r) ==
    /\ At(r, "list")
    /\ Becomes(r, Advanced([req[r] EXCEPT !.seen = allow]))
    /\ UNCHANGED Passive

\* What a handler decides from a list that has changed since it read it.
StaleList(r, now) == rewound' = (rewound \/ req[r].seen # now)

SaveList(r, list) ==
    /\ allow' = list
    /\ StaleList(r, allow)

\* grantAccess writes only a list that lacks the origin.
Grant(r) ==
    LET x == req[r] IN
    /\ At(r, "grant")
    /\ IF GrantSeat(x) \in x.seen THEN StaleList(r, allow) /\ UNCHANGED allow
       ELSE SaveList(r, x.seen \cup {GrantSeat(x)})
    /\ Becomes(r, Advanced([x EXCEPT !.seen = {}]))
    /\ UNCHANGED <<session, active, network, payloads, pending, windows, bounds, said, agreed,
                   revoked, overlapped, kept, sealed>>

\* revokeAccess and revokeAllAccess: no write when the list has no entry for the account and network.
Revoke(r) ==
    LET x == req[r]
        here == {s \in Seats : s[2] = x.pk /\ s[3] = x.net}
        gone == IF At(r, "revoke") THEN {Seat(x)} ELSE here
        granting == {GrantSeat(req[q]) : q \in {q \in said : Runs(q, {"grant"})}}
    IN /\ At(r, "revoke") \/ At(r, "revokeAll")
       /\ \/ SaveList(r, x.seen \ gone)
          \/ x.seen \cap here = {} /\ StaleList(r, allow) /\ UNCHANGED allow
       /\ revoked' = revoked \cup (gone \ granting)
       /\ Becomes(r, Advanced([x EXCEPT !.seen = {}]))
       /\ UNCHANGED <<session, active, network, payloads, pending, windows, bounds, said, agreed,
                      overlapped, kept, sealed>>

\* storeApprovalPayload, clearApprovalPayload: their reads
ReadPayloads(r) ==
    /\ At(r, "payload") \/ At(r, "cleared")
    /\ Becomes(r, Advanced([req[r] EXCEPT !.seen = payloads]))
    /\ UNCHANGED Passive

\* waitForApproval runs to its await at once: the resolver is registered and the window asked for.
Asks(r) == pending' = pending \cup {r} /\ windows' = [windows EXCEPT ![r] = "up"]

\* storeApprovalPayload's write, and waitForApproval
PutPayload(r) ==
    /\ At(r, "putPayload")
    /\ payloads' = req[r].seen \cup {r}
    /\ StaleList(r, payloads)
    /\ Asks(r)
    /\ Becomes(r, Advanced([req[r] EXCEPT !.seen = {}]))
    /\ UNCHANGED <<session, active, network, allow, bounds, said, agreed, revoked, overlapped,
                   kept, sealed>>

DroppedAll(r) == {}    \* mutant of Dropped: the whole entry is removed
Dropped(r) == req[r].seen \ {r}

\* clearApprovalPayload's write
PutCleared(r) ==
    /\ At(r, "putCleared")
    /\ payloads' = Dropped(r)
    /\ StaleList(r, payloads)
    /\ Becomes(r, Advanced([req[r] EXCEPT !.seen = {}]))
    /\ UNCHANGED <<session, active, network, allow, pending, windows, bounds, said, agreed,
                   revoked, overlapped, kept, sealed>>

----------------------------------------------------------------------------
(* REQUEST_ACCESS *)

\* One connect at a time per origin; a network the page names must be in the list.
Connect(r) ==
    LET x == req[r] IN
    /\ At(r, "connect")
    /\ IF x.origin \in connecting
       THEN req' = [req EXCEPT ![r] = Refused(x)] /\ UNCHANGED connecting
       ELSE /\ req' = [req EXCEPT ![r] = Resumed([x EXCEPT !.connect = TRUE],
                          IF x.pk = None THEN <<"network", "unlock", "known">>
                          ELSE <<"network", "known">>)]
            /\ connecting' = connecting \cup {x.origin}
    /\ UNCHANGED Passive

UnknownNetwork(r) ==
    /\ At(r, "network") /\ req[r].connect /\ req[r].want # None
    /\ Becomes(r, Refused(req[r]))
    /\ UNCHANGED Passive

\* An origin allowed already is answered; any other waits for the user.
Known(r) ==
    LET x == req[r] IN
       /\ At(r, "known")
       /\ IF Seat(x) \in allow /\ ~mismatch(x)
          THEN Becomes(r, Resumed(x, <<"network">>)) /\ UNCHANGED <<pending, windows>>
          ELSE /\ Becomes(r, Resumed(x,
                       IF mismatch(x) THEN <<"wait", "list", "grant", "setNetwork", "answer">>
                       ELSE <<"wait", "list", "grant", "answer">>))
               /\ Asks(r)
       /\ UNCHANGED <<stored, bounds, history>>

\* The network the answer names; the one asked about stays in the grant.
Answer(r) == At(r, "answer") /\ Becomes(r, Advanced(req[r])) /\ UNCHANGED Passive

\* setActiveNetwork
SetNetwork(r) ==
    /\ At(r, "setNetwork")
    /\ network' = req[r].want
    /\ Becomes(r, Advanced(req[r]))
    /\ UNCHANGED <<session, active, allow, payloads, pending, windows, bounds, history>>

----------------------------------------------------------------------------
(* The end of a wait. *)

ResolvedAlways(x, yes) == Advanced(x)    \* mutant of Resolved: the answer is not looked at

\* A refusal still clears the stored payload.
Resolved(x, yes) ==
    IF yes THEN Advanced(x)
    ELSE Resumed([x EXCEPT !.no = TRUE],
                 IF x.connect THEN <<>> ELSE <<"cleared", "putCleared">>)

\* mutant of Resolve: the resolver is deleted and not called
ResolveForgotten(r, yes) == pending' = pending \ {r} /\ UNCHANGED <<req, connecting>>

Resolve(r, yes) == pending' = pending \ {r} /\ Becomes(r, Resolved(req[r], yes))

\* APPROVAL_RESPONSE: the page posts the user's choice and closes; a request that is not pending any
\* more ignores it.  The page offers "yes" only while the wallet is unlocked.
Click(r, yes) ==
    /\ windows[r] # "none"
    /\ yes => session.pk # None
    /\ windows' = [windows EXCEPT ![r] = "none"]
    /\ IF r \in pending
       THEN /\ pending' = pending \ {r}
            /\ Becomes(r, [Resolved(req[r], yes) EXCEPT !.shown = session.pk])
            /\ said' = IF yes THEN said \cup {r} ELSE said
            /\ agreed' = IF yes /\ req[r].connect THEN agreed \cup {GrantSeat(req[r])} ELSE agreed
            /\ revoked' = IF yes /\ req[r].connect THEN revoked \ {GrantSeat(req[r])} ELSE revoked
       ELSE UNCHANGED <<pending, req, connecting, said, agreed, revoked>>
    /\ UNCHANGED <<stored, bounds, rewound, overlapped, kept, sealed>>

\* approvalWindowToRequest learns the window only when chrome.windows.create calls back.
Mapped(r) ==
    /\ windows[r] = "up"
    /\ windows' = [windows EXCEPT ![r] = "mapped"]
    /\ UNCHANGED <<stored, pending, connecting, req, bounds, history>>

\* chrome.windows.onRemoved: a window not mapped yet closes unnoticed.
Close(r) ==
    /\ windows[r] # "none"
    /\ windows' = [windows EXCEPT ![r] = "none"]
    /\ IF r \in pending /\ windows[r] = "mapped" THEN Resolve(r, FALSE)
       ELSE UNCHANGED <<pending, connecting, req>>
    /\ UNCHANGED <<stored, bounds, history>>

\* Five minutes
Timeout(r) ==
    /\ r \in pending
    /\ Resolve(r, FALSE)
    /\ UNCHANGED <<stored, windows, bounds, history>>

\* openAndWaitForUnlock: two minutes passed, or the user closed the window.
GiveUpUnlock(r) ==
    /\ At(r, "unlock")
    /\ Becomes(r, Refused(req[r]))
    /\ UNCHANGED Passive

----------------------------------------------------------------------------
(* Handlers that write the session, one storage call at a time. *)

Unlocks(x) == Range(x.todo) \cap {"active", "putSeed"} # {}
Same(r, q) == Unlocks(req[r]) /\ Unlocks(req[q]) /\ req[r].pk = req[q].pk
Overlap(r) == \E q \in Slots \ {r} : Begun(q) /\ ~Same(r, q)

\* UNLOCK_WALLET, the password being right: which account is active, and its key.
ReadActive(r) ==
    /\ At(r, "active")
    /\ Becomes(r, Advanced([req[r] EXCEPT !.pk = active, !.begun = TRUE]))
    /\ UNCHANGED Passive

\* SWITCH_ACCOUNT derives the target's key from the session's seed.
ReadSeed(r) ==
    /\ At(r, "seed")
    /\ Becomes(r, IF session.seed THEN Advanced([req[r] EXCEPT !.begun = TRUE]) ELSE Refused(req[r]))
    /\ UNCHANGED Passive

\* saveAccountsStore
SaveActive(r) ==
    /\ At(r, "saveActive")
    /\ active' = req[r].pk
    /\ Becomes(r, Advanced(req[r]))
    /\ UNCHANGED <<session, network, allow, payloads, pending, windows, bounds, history>>

\* SESSION_KEY is stored first: storage.onChanged resumes every request that waits for an unlock,
\* before the secret is there.
PutAccount(r) ==
    LET s == [session EXCEPT !.pk = req[r].pk]
        woken == {q \in Slots : At(q, "unlock")}
    IN /\ At(r, "putAccount")
       /\ session' = s
       /\ req' = [q \in Slots |->
             IF q = r THEN Advanced(req[r])
             ELSE IF q \in woken THEN Advanced([req[q] EXCEPT !.pk = s.pk])
             ELSE Disturbed(r, s)[q]]
       /\ overlapped' = (overlapped \/ Overlap(r))
       /\ UNCHANGED <<active, network, allow, payloads, pending, connecting, windows, bounds, said,
                      agreed, revoked, rewound, kept, sealed>>

\* storeSessionSecret, storeSessionMnemonic, clearSessionSecret, clearSessionMnemonic and the
\* removal of SESSION_KEY
Written(r, s) ==
    /\ session' = s
    /\ req' = [Disturbed(r, s) EXCEPT ![r] = Advanced(req[r])]
    /\ overlapped' = (overlapped \/ Overlap(r))
    /\ UNCHANGED <<active, network, allow, payloads, pending, connecting, windows, bounds, said,
                   agreed, revoked, rewound>>

PutSecret(r) ==
    /\ At(r, "putSecret")
    /\ Written(r, [session EXCEPT !.secret = req[r].pk])
    /\ kept' = FALSE /\ UNCHANGED sealed

PutSeed(r) ==
    /\ At(r, "putSeed")
    /\ Written(r, [session EXCEPT !.seed = TRUE])
    /\ UNCHANGED <<kept, sealed>>

\* LOCK_WALLET, whatever is pending
DropAccount(r) ==
    /\ At(r, "dropAccount")
    /\ session' = [session EXCEPT !.pk = None]
    /\ req' = [Disturbed(r, session') EXCEPT ![r] = Advanced([req[r] EXCEPT !.begun = TRUE])]
    /\ overlapped' = (overlapped \/ Overlap(r))
    /\ UNCHANGED <<active, network, allow, payloads, pending, connecting, windows, bounds, said,
                   agreed, revoked, rewound, kept, sealed>>

DropSecret(r) ==
    /\ At(r, "dropSecret")
    /\ Written(r, [session EXCEPT !.secret = None])
    /\ kept' = FALSE /\ UNCHANGED sealed

\* Nothing under way may open the wallet again.
Final(r) == \A q \in Slots \ {r} : ~Begun(q) /\ ~(req[q].st = "open" /\ Unlocks(req[q]))

DropSeed(r) ==
    /\ At(r, "dropSeed")
    /\ Written(r, [session EXCEPT !.seed = FALSE])
    /\ sealed' = (sealed \/ (session.pk = None /\ session.secret = None /\ Final(r)))
    /\ UNCHANGED kept

LockedBut == [pk |-> None, secret |-> None, seed |-> session.seed]    \* mutant of Locked: the seed stays
Locked == [pk |-> None, secret |-> None, seed |-> FALSE]

\* The idle lock, and the lock when a window with a zero timeout closes: the account goes, and the
\* secrets too unless a request is pending.
lockSession ==
    /\ locks < mix.locks
    /\ locks' = locks + 1
    /\ session' = IF pending = {} THEN Locked
                  ELSE [session EXCEPT !.pk = None]
    /\ kept' = (pending # {} /\ session.secret # None)
    /\ sealed' = (sealed \/ (pending = {} /\ Final(None)))
    /\ overlapped' = (overlapped \/ \E q \in Slots : Begun(q))
    /\ req' = Disturbed(None, session')
    /\ UNCHANGED <<active, network, allow, payloads, pending, connecting, windows, mix, restarts,
                   said, agreed, revoked, rewound>>

\* The worker stops: what it kept in memory is gone, the requests' channels close.
Restart ==
    /\ restarts < mix.restarts
    /\ restarts' = restarts + 1
    /\ pending' = {} /\ connecting' = {}
    /\ windows' = [r \in Slots |-> IF windows[r] = "mapped" THEN "up" ELSE windows[r]]
    /\ req' = [r \in Slots |->
          IF req[r].st = "open" THEN [req[r] EXCEPT !.st = "lost", !.todo = <<>>] ELSE req[r]]
    /\ overlapped' = (overlapped \/ \E q \in Slots : Begun(q))
    /\ UNCHANGED <<stored, mix, locks, said, agreed, revoked, rewound, kept, sealed>>

----------------------------------------------------------------------------
Step(r) ==
    \/ ReadSession(r) \/ ReadAccount(r) \/ ReadSecret(r) \/ ReadNetwork(r) \/ UnknownNetwork(r)
    \/ Controls(r) \/ Allowed(r) \/ Fetch(r) \/ Sign(r)
    \/ ReadList(r) \/ Grant(r) \/ Revoke(r) \/ ReadPayloads(r) \/ PutPayload(r) \/ PutCleared(r)
    \/ Connect(r) \/ Known(r) \/ SetNetwork(r) \/ Answer(r)
    \/ ReadActive(r) \/ ReadSeed(r) \/ SaveActive(r) \/ PutAccount(r) \/ PutSecret(r) \/ PutSeed(r)
    \/ DropAccount(r) \/ DropSecret(r) \/ DropSeed(r)

Next ==
    \/ \E r \in Slots : \/ Arrive(r) \/ Step(r) \/ Mapped(r) \/ Close(r) \/ Timeout(r)
                        \/ GiveUpUnlock(r) \/ \E yes \in BOOLEAN : Click(r, yes)
    \/ lockSession \/ Restart

Spec == Init /\ [][Next]_vars

\* The storage calls, the fetches and the timers end; the user need do nothing.
Fairness == \A r \in Slots : WF_vars(Step(r)) /\ WF_vars(Timeout(r)) /\ WF_vars(GiveUpUnlock(r))
FairSpec == Spec /\ Fairness

----------------------------------------------------------------------------
AtRest == \A r \in Slots : ~Begun(r)

\* Between two uses of the wallet the session is whole: an account comes with its own secret and is the
\* one stored as active, and no secret stays behind a lock but the one a pending request was left
\* ("realigned below so session and UI never diverge", UNLOCK_WALLET); unless writers overlapped.
RestCoherent ==
    AtRest /\ ~overlapped =>
        /\ session.pk # None => session.secret = session.pk /\ active = session.pk
        /\ session.pk = None => session.secret = None \/ kept

\* A lock with nothing pending holds until a password is given: neither a waiting request nor a switch
\* of account opens the wallet again (lockSession, LOCK_WALLET, SWITCH_ACCOUNT).
LockHolds == sealed => session.pk = None /\ session.secret = None

\* The session is whole at rest, and a lock holds.
SessionInv == TypeOK /\ RestCoherent /\ LockHolds

\* What a page asks to be signed is signed only after the user's yes to that very request, given while
\* it was pending, and never for a page the user has not connected (waitForApproval, the late answers
\* of a timed-out, closed or orphaned window).
OnlyApproved ==
    \A r \in Slots : req[r].signed /\ req[r].origin # None =>
        /\ r \in said
        /\ \E n \in Networks : <<req[r].origin, req[r].pk, n>> \in agreed

\* The secret that signs is the secret of the account that was checked and is reported, unless the
\* session was written while or between they were read (requireUnlockedAndAllowed, getSessionSecret);
\* a private payment, which compares them, makes no exception (buildPrivateEnv).
SignerIsReported ==
    \A r \in Slots : req[r].signed /\ req[r].secret # req[r].pk =>
        ~req[r].sure /\ (req[r].moved \/ overlapped)

\* An origin is on the allowlist only for the account and the network the user agreed to, and a seat
\* taken back stays empty (grantAccess, revokeAccess: two awaits each), unless a list was
\* acted on after it had changed.
OnlyAgreed == allow \subseteq agreed /\ (~rewound => allow \cap revoked = {})

\* While a page asks the user to approve, what it has to show is stored, unless two requests stored
\* their payloads at the same time (storeApprovalPayload, clearApprovalPayload).
PayloadIsThere ==
    \A r \in pending : ~req[r].connect /\ ~rewound => r \in payloads

\* Only a connect that is being served keeps its origin from connecting again.
ConnectNotWedged ==
    \A p \in connecting : \E r \in Slots :
        req[r].st = "open" /\ req[r].connect /\ req[r].origin = p

\* What handlers share in storage agrees with the requests: seats as agreed and not taken back, payloads
\* of open pages, origins of connects under way.
StoresAgree == OnlyAgreed /\ PayloadIsThere /\ ConnectNotWedged

\* "Signing as" (SignTransaction.tsx:91): the account the page names when the user says yes is the one
\* whose key signs.  It does not hold: the page shows the session's account of the moment, the key was
\* read before the page opened.
SignsAsShown == \A r \in said : req[r].signed => req[r].secret = req[r].shown

\* Every request is answered, or its worker was stopped.
Answered == <>[](\A r \in Slots : req[r].st \in {"new", "done", "refused", "lost"})

=============================================================================
