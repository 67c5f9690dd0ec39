---------------------------- MODULE ApprovalPage ----------------------------
(***************************************************************************)
(* The window in which the user approves a request: what the page shows is *)
(* read from its address, from the session's storage and from the worker,  *)
(* each at a time of its own; the answer it sends races with the closing   *)
(* of the window, the time-out and a stop of the worker; and what the      *)
(* worker then does it does with what it read before the window opened.    *)
(***************************************************************************)
EXTENDS Naturals, Sequences

CONSTANTS
    Requests,
    Signers, Chains,   \* accounts and networks
    FirstChain,        \* DEFAULT_NETWORKS[0], shown until the worker has answered
    Nothing,
    MaxMoves,          \* bound: switches, locks and stops of the worker
    MaxPresses         \* bound: presses of the buttons of one page

ASSUME ApprovalPageAssumption ==
    FirstChain \in Chains /\ Nothing \notin Signers \cup Chains /\ {MaxMoves, MaxPresses} \subseteq Nat

\* A page reads what it is asked from storage or has it in its address; a refusal may leave the
\* buttons alone; and the network is the one before the window opened, the one after, or none.
Page(stored, quiet, chain) == [stored |-> stored, quiet |-> quiet, chain |-> chain]
GrantAccess     == Page(FALSE, TRUE, "before")
SignTransaction == Page(TRUE, TRUE, "before")
SignMessage     == Page(TRUE, TRUE, "none")
SignAuthEntry   == Page(TRUE, FALSE, "before")
AddToken        == Page(TRUE, FALSE, "none")
AddAsset        == Page(FALSE, FALSE, "after")
RemoveAsset     == Page(FALSE, FALSE, "after")

ApprovalApp ==
    {GrantAccess, SignTransaction, SignMessage, SignAuthEntry, AddToken, AddAsset, RemoveAsset}

VARIABLES
    signer,     \* the session's account, or Nothing when locked
    chain,      \* the active network
    payloads,   \* the requests whose payload is in the session's storage
    request,    \* the worker's side of each request
    page,       \* the window of each request
    wire,       \* the answers a page sent, not yet received
    moves,
    saw,        \* history: what a page showed at its first press
    moved       \* history: what was switched since the request began

pageVars == <<signer, chain, payloads, request, page, wire, moves, saw, moved>>
worker == <<signer, chain, payloads, request>>

NewRequest == [st |-> "new", kind |-> GrantAccess, signer |-> Nothing, chain |-> Nothing,
               named |-> Nothing, used |-> Nothing]
NewPage == [st |-> "none", status |-> Nothing, network |-> FirstChain, loaded |-> FALSE,
            read |-> FALSE, content |-> Nothing, loading |-> FALSE, presses |-> 0]
NotSeen == [pressed |-> "nothing", status |-> Nothing, chain |-> Nothing, loaded |-> FALSE]

PageInit ==
    /\ signer \in Signers /\ chain \in Chains /\ payloads = {} /\ moves = 0
    /\ request = [r \in Requests |-> NewRequest]
    /\ page = [r \in Requests |-> NewPage]
    /\ wire = [r \in Requests |-> <<>>]
    /\ saw = [r \in Requests |-> NotSeen]
    /\ moved = [r \in Requests |-> [signer |-> FALSE, chain |-> FALSE]]

Pending(r) == request[r].st = "pending"
\* a connect with another network, which its page's address names
Told(r) == request[r].kind = GrantAccess /\ request[r].named # Nothing

-----------------------------------------------------------------------------
(* The wallet *)

\* The worker reads account and network, stores the payload and opens the window; a connect may
\* name another network than the active one, and a signature the passphrase of any.
Ask(r, kind, named) ==
    /\ request[r].st = "new" /\ signer # Nothing
    /\ named # Nothing => kind \in {GrantAccess, SignTransaction, SignAuthEntry}
    /\ kind = GrantAccess => named # chain
    /\ request' = [request EXCEPT ![r] = [@ EXCEPT !.st = "pending", !.kind = kind, !.signer = signer,
                      !.chain = IF named = Nothing THEN chain ELSE named, !.named = named]]
    /\ payloads' = IF kind.stored THEN payloads \cup {r} ELSE payloads
    /\ page' = [page EXCEPT ![r].st = "open"]
    /\ UNCHANGED <<signer, chain, wire, moves, saw, moved>>

\* mutant of Decided: the last answer counts
DecidedAgain(r, approved) ==
    [request[r] EXCEPT !.st = IF @ \in {"pending", "yes", "no"} THEN (IF approved THEN "yes" ELSE "no") ELSE @]
\* The first that comes of answer, closing and time-out finds the resolver.
Decided(r, approved) ==
    [request[r] EXCEPT !.st = IF @ = "pending" THEN (IF approved THEN "yes" ELSE "no") ELSE @]

Received(r) ==
    /\ wire[r] # <<>>
    /\ request' = [request EXCEPT ![r] = Decided(r, Head(wire[r]))]
    /\ wire' = [wire EXCEPT ![r] = Tail(@)]
    /\ UNCHANGED <<signer, chain, payloads, page, moves, saw, moved>>

\* The window was removed, or five minutes have passed.
GivenUp(r) ==
    /\ Pending(r)
    /\ request' = [request EXCEPT ![r] = Decided(r, FALSE)]
    /\ UNCHANGED <<signer, chain, payloads, page, wire, moves, saw, moved>>

Noted(what) ==
    [r \in Requests |-> IF request[r].st \in {"pending", "yes"} THEN [moved[r] EXCEPT ![what] = TRUE]
                        ELSE moved[r]]

\* The payload is cleared; after a yes the worker acts, and a connect switches to the network it named.
Proceed(r) ==
    /\ request[r].st \in {"yes", "no"}
    /\ payloads' = payloads \ {r}
    /\ IF request[r].st = "yes"
       THEN /\ request' = [request EXCEPT ![r] = [@ EXCEPT !.st = "over", !.used =
                   [signer |-> request[r].signer,
                    chain |-> IF request[r].kind.chain = "after" THEN chain ELSE request[r].chain]]]
            /\ chain' = IF Told(r) THEN request[r].named ELSE chain
            /\ moved' = IF chain' = chain THEN moved ELSE [Noted("chain") EXCEPT ![r] = moved[r]]
       ELSE request' = [request EXCEPT ![r].st = "over"] /\ UNCHANGED <<chain, moved>>
    /\ UNCHANGED <<signer, page, wire, moves, saw>>

\* Another window switches the account or the network, or locks the wallet.
Switch ==
    /\ moves < MaxMoves /\ moves' = moves + 1
    /\ \/ /\ signer' \in (Signers \cup {Nothing}) \ {signer} /\ moved' = Noted("signer")
          /\ UNCHANGED chain
       \/ /\ chain' \in Chains \ {chain} /\ moved' = Noted("chain")
          /\ UNCHANGED signer
    /\ UNCHANGED <<payloads, request, page, wire, saw>>

\* The worker stops: nobody waits for the answers any more.
Stop ==
    /\ moves < MaxMoves /\ moves' = moves + 1
    /\ request' = [r \in Requests |-> IF request[r].st \in {"pending", "yes", "no"}
                                      THEN [request[r] EXCEPT !.st = "over"] ELSE request[r]]
    /\ UNCHANGED <<signer, chain, payloads, page, wire, saw, moved>>

-----------------------------------------------------------------------------
(* The page *)

\* Answers to what the page asks when it mounts: the status, again every three seconds; the active
\* network, once; and the payload of its request.
StatusLearned(r) == page' = [page EXCEPT ![r].status = signer]
NetworkLearned(r) ==
    ~page[r].loaded /\ page' = [page EXCEPT ![r] = [@ EXCEPT !.network = chain, !.loaded = TRUE]]
PayloadRead(r) ==
    /\ request[r].kind.stored /\ ~page[r].read
    /\ page' = [page EXCEPT ![r] = [@ EXCEPT !.read = TRUE,
                   !.content = IF r \in payloads THEN r ELSE Nothing]]
Fills(r) ==
    /\ page[r].st = "open"
    /\ StatusLearned(r) \/ NetworkLearned(r) \/ PayloadRead(r)
    /\ UNCHANGED <<worker, wire, moves, saw, moved>>

\* the network the page says the request is for
ShownChain(r) == IF Told(r) THEN request[r].named ELSE page[r].network

\* The shell disables the approval while no account is shown, and the refusal while it is loading.
ApprovalShell(r, approved) ==
    IF approved THEN page[r].status # Nothing ELSE ~page[r].loading

\* setLoading, which some pages leave alone when the user refuses
Loading(r, approved) == page[r].loading \/ approved \/ ~request[r].kind.quiet

respond(r, approved) ==
    /\ page[r].st = "open" /\ ApprovalShell(r, approved)
    /\ page[r].presses < MaxPresses
    /\ page' = [page EXCEPT ![r] = [@ EXCEPT !.presses = page[r].presses + 1,
                   !.loading = Loading(r, approved)]]
    /\ wire' = [wire EXCEPT ![r] = Append(@, approved)]
    /\ saw' = IF saw[r].pressed # "nothing" THEN saw
              ELSE [saw EXCEPT ![r] = [pressed |-> IF approved THEN "yes" ELSE "no",
                       status |-> page[r].status, chain |-> ShownChain(r),
                       loaded |-> page[r].loaded \/ Told(r)]]
    /\ UNCHANGED <<worker, moves, moved>>

\* The user closes the window, or the answer's callback does.
Closed(r) ==
    /\ page[r].st = "open"
    /\ page' = [page EXCEPT ![r].st = "closed"]
    /\ UNCHANGED <<worker, wire, moves, saw, moved>>

PageNext ==
    \/ \E r \in Requests :
          \/ \E kind \in ApprovalApp, named \in Chains \cup {Nothing} : Ask(r, kind, named)
          \/ Received(r) \/ GivenUp(r) \/ Proceed(r)
          \/ Fills(r) \/ respond(r, TRUE) \/ respond(r, FALSE) \/ Closed(r)
    \/ Switch \/ Stop

PageSpec == PageInit /\ [][PageNext]_pageVars

-----------------------------------------------------------------------------
\* The worker goes ahead only when the first button pressed was the approval, whatever is pressed,
\* closed or timed out afterwards (waitForApproval, APPROVAL_RESPONSE).
FirstPressRules ==
    \A r \in Requests : request[r].st = "yes" \/ request[r].used # Nothing => saw[r].pressed = "yes"

\* What the worker did, it did with the account and on the network that the page showed when the
\* approval was pressed, unless they were switched since the request began, the page had not yet
\* heard which network is active, or the request brought a passphrase of its own, of which its page
\* is told nothing (handleExternalRequest, NetworkProvider).
ShownIsUsed ==
    \A r \in Requests : request[r].used # Nothing =>
        /\ ~moved[r].signer => saw[r].status = request[r].used.signer
        /\ /\ request[r].kind.chain # "none" /\ saw[r].loaded /\ ~moved[r].chain
           /\ request[r].named = Nothing \/ Told(r)
           => saw[r].chain = request[r].used.chain

\* A page that has read while its request was pending shows what is asked (storeApprovalPayload
\* before the window, clearApprovalPayload after the answer).
PendingIsShown ==
    \A r \in Requests : Pending(r) /\ page[r].read => page[r].content = r

ApprovalInv == FirstPressRules /\ ShownIsUsed /\ PendingIsShown
=============================================================================
