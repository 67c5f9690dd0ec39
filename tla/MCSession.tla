------------------------------ MODULE MCSession ------------------------------
EXTENDS Session
CONSTANTS r1, r2, r3, p1

Scenario(one, two, three, pages, l, s) ==
    [calls |-> [r \in Slots |-> CASE r = r1 -> one [] r = r2 -> two [] OTHER -> three],
     pages |-> pages, locks |-> l, restarts |-> s]

Reads == {IS_CONNECTED, GET_ADDRESS, GET_PUBLIC_KEY, GET_NETWORK, GET_NETWORK_DETAILS,
          SUBMIT_TRANSACTION, ESTIMATE_FEE, GET_ACCOUNT_INFO, GET_BALANCE, GET_ASSETS,
          HAS_TRUSTLINE, GET_TRANSACTION, IS_ALLOWED, IS_CONNECTED_AND_ALLOWED,
          SIMULATE_CONTRACT, GET_CONTRACT_SPEC, GET_WALLET_STATUS, BUILD_PAYMENT,
          GET_SWAP_QUOTE, GET_CONNECTED_APPS, FETCH_HORIZON_ACCOUNT, PRIVATE_QUOTE,
          PRIVATE_REVEAL_NOTE, PRIVATE_RECOVER_FROM_SEED, PRIVATE_LIST_NOTES}
Builds == {BUILD_PAYMENT_XDR, BUILD_PATH_PAYMENT_XDR, BUILD_MANAGE_OFFER_XDR, READ_CONTRACT}
Payments == {SIGN_AND_SUBMIT_PAYMENT, CHANGE_TRUSTLINE, SIGN_AND_SUBMIT_SWAP,
             PRIVATE_PREPARE_SEND, PRIVATE_SELF_RECLAIM}
Switches == {LOCK_WALLET, SWITCH_ACCOUNT}

MCMixes == {
    \* A request to sign against a switch or a lock, an unlock and the idle lock.
    Scenario({SIGN_TRANSACTION, SIGN_AUTH_ENTRY}, Switches, {UNLOCK_WALLET}, {p1}, 1, 0),
    Scenario({SIGN_MESSAGE}, {UNLOCK_WALLET}, {SWITCH_ACCOUNT}, {p1}, 1, 0),
    \* Two writers of the session, the idle lock, a request that waits, the worker's restart.
    Scenario({UNLOCK_WALLET}, Switches \cup {UNLOCK_WALLET}, {ADD_TOKEN}, {p1}, 1, 0),
    Scenario({UNLOCK_WALLET}, Switches, {UNLOCK_WALLET}, {p1}, 1, 1),
    \* Two sites connect while access is taken back or the network changes.
    Scenario({REQUEST_ACCESS}, {REQUEST_ACCESS}, {SET_ACTIVE_NETWORK}, Pages, 0, 0),
    Scenario({REQUEST_ACCESS}, {REVOKE_ACCESS, REVOKE_ALL_ACCESS}, {}, Pages, 0, 1),
    Scenario({REQUEST_ACCESS}, {UNLOCK_WALLET}, {}, {p1}, 1, 1),
    \* Two approvals share the payload store.
    Scenario({SIGN_TRANSACTION, ADD_TOKEN}, {SIGN_AND_SUBMIT}, {}, {p1}, 0, 0),
    Scenario({ADD_TOKEN}, {ADD_TOKEN}, {}, {p1}, 1, 1),
    \* The long handlers while the network changes.
    Scenario({ADD_ASSET, REMOVE_ASSET, INVOKE_CONTRACT}, {SET_ACTIVE_NETWORK}, {LOCK_WALLET}, {p1}, 0, 1),
    \* The wallet's own payments, and the reads, during a switch.
    Scenario(Payments, {SWITCH_ACCOUNT}, {UNLOCK_WALLET}, {p1}, 1, 0),
    Scenario(Reads \cup Builds, {SWITCH_ACCOUNT, REVOKE_ACCESS}, {}, {p1}, 0, 0)}
=============================================================================
