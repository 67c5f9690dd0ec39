# Cyphras: a TLA+ verification of the shielded pool and its services

Cyphras is a browser wallet for Stellar with a shielded pool. This directory
holds TLA+ modules that model the repository's own logic, TLC configurations
that check them on small instances, and TLAPS proofs of the facts that matter
most. Every definition is a translation of code under `src/`; `PROJECT.json`
maps each one to the lines it stands for.

## 1. The system: inventory

| Component | State it keeps | Operations | Hard behaviour |
|---|---|---|---|
| **Vault contract** (`contracts/vault`, `contracts/types`) | admin, token, domain, limits, TVL, pause flag; Merkle frontier, ring of 64 roots, next leaf; one entry per nullifier; registered keys | `init`, `set_paused`, `upgrade`, `bump_ttl`, `transact`, `register_commitment`, `register_enc_key` | proofs are made against a root and land later; calls are replayed, reordered or mismatched; limits and a finite tree; storage entries expire |
| **Circuit** (`circuits/`) | none | the joinsplit statement, Merkle membership, scalar reduction | equality in a field, aliasing of scalars, wrapping sums |
| **Verifier, Poseidon2** (`contracts/verifier`, `contracts/poseidon2`) | none | pairing check, permutation | cryptography, taken as sound and injective |
| **Indexer** (`offchain-go/internal/indexer`, twin in `offchain/indexer`) | Postgres: leaves, nullifiers, cursor, deploy ledger, gap flag; per-process hub | ingest tick, batch apply, `/health`, `/notes`, `/nullifier`, `/stream` | RPC answers that omit events, retention horizon, reorganised tail, crash between windows, readers racing the ingest |
| **Relayer** (`offchain-go/internal/relayer`, twin in `offchain/relayer`) | observed network cost, account sequence on chain | `/quote`, `/submit` | concurrent requests, estimate learned before a check, simulate-then-send, transactions that fail on chain |
| **Keeper** (`offchain-go/cmd/keeper`) | last result | `bump_ttl` once a week | failures wait a full period; which entries it reaches |
| **Shielded wallet** (`extension/src/shielded`, `background/shielded.ts`, `background/shieldedNotes.ts`) | encrypted note set, in-memory lock, note tree rebuilt per spend | scan, shield, send, unshield, spend in chunks | service worker may stop between any two awaits; a submit that times out may land; an indexer that lags; retries |
| **Private payments** (`background/privatePayments.ts`, `extension/src/private`) | encrypted records of fixed-denomination notes | commit, reveal, confirm, reclaim, recover | commit retried after a lost answer, relayer schedule, reclaim racing a reveal |
| **Wallet session and approvals** (`background/index.ts`, `background/keyManager.ts`) | the session's public key and secrets, pending approvals and their payloads, connecting origins, allowlist | some fifty requests of pages and of the wallet's windows, the idle lock | approval and unlock windows that close or time out while an answer arrives; account or network switched while one is pending; the worker restarts |
| **Accounts and keys** (`background/index.ts`, `background/keyManager.ts`) | list of accounts, secondary phrases, imported keys, all under the password; the session's copies | create, import, unlock, lock, reset, add, switch, rename, reorder, remove, change password | each entry is read whole and written whole in separate awaits by a dozen handlers; stops between two writes |
| **Lockout** (`background/index.ts`) | failed attempts, end of the lockout | count, lock, reset | a counter read and written in two awaits, by several windows |
| **Networks** (`background/networks.ts`) | custom networks, edited defaults, active id | add, edit, remove, activate | windows that write outdated lists |
| **Offscreen prover** (`app/src/offscreen-main.ts`, `background/offscreenProver*.ts`) | a promise chain, two kinds of cached artifacts | prove, scan | document created twice, artifacts evicted by one request under another, failures in the queue |
| **Note streams** (`indexer/api.go`) | one listening connection, a buffered channel per subscriber | listen, broadcast, subscribe | wake-ups lost on reconnection, dropped when a buffer is full |
| **Send and swap pages** (`pages/Send.tsx`, `pages/Swap.tsx`) | a form, a mode, a preview or quote, a step | checks, quotes, confirmation | the form, the account and the price move while a request is out |
| **Private mode, shielded sheet** (`hooks/usePullToPrivate.ts`, `components/ShieldedSend.tsx`, `pages/Home.tsx`) | gesture, timers, palette; form, guard and split loop | peel, swipe, exit; submit, chunks | animations and timers that share the root's classes; a loop that outlives its sheet |
| **Popup state** (`context/WalletContext.tsx`, `hooks/useBalances.ts`, `hooks/useShieldedBalances.ts`) | status, list, shown account, balances | polls, commands, fetches | late answers for another account; another window switches or locks |
| **Account switcher, add-wallet dialog** (`components/AccountSwitcher.tsx`, `components/AddWalletModal.tsx`) | a local order, a dialog with secrets | switch, remove, drag, add, import | answers after a lock or a poll; Enter and the button |
| **Approval windows** (`pages/SignTransaction.tsx` and its siblings, `background/index.ts`) | a page per request, its busy flag; the pending approval behind it | show, approve, reject, close | the page shows the session of the moment; a second press, a close or a timeout races the first press; the worker stops |
| **Onboarding and unlock** (`App.tsx`, `pages/Onboarding.tsx`, `pages/Unlock.tsx`) | the router's latch, a marker, a form per screen | create, import, unlock, reset, replace | the popup closes or another window acts while the worker writes |
| **Other screens, content scripts, analytics, deployment** | none of their own | presentation, a relay, I/O | |

How they interact: the wallet asks the indexer for leaves (and trusts it only
while `/health` is ok), rebuilds the tree, proves a joinsplit in the offscreen
document and hands proof and external data either to the vault directly
(shielding) or to the relayer (send, unshield), which simulates, checks its fee
and sends. The vault emits one event per leaf and per nullifier; the indexer
reads those events from the RPC's limited history into Postgres. The keeper
extends storage lifetimes. Nothing but the chain is authoritative: the note
set, the indexer and the relayer's view are caches that can be stale.

What makes each part correct:

* vault: tokens held = TVL = value of unspent notes; a note is spent once; a
  recent root stays usable for a known number of calls; funds go where the
  proof says; a note can always leave while the pool is open;
* circuit: each scalar has one reduction, so each note has one nullifier; sums
  do not wrap;
* Merkle frontier: computes the root of the full tree from 20 saved nodes;
* indexer: the stored leaves are a gapless prefix of the chain's, nullifiers
  never run behind leaves, every finalised leaf is eventually served;
* relayer: quotes cover what the network charges, and the estimate recovers;
* wallet: the local notes agree with the chain, a payment reported as done was
  made, no spend is lost or repeated;
* private payments: a note is deposited once, revealed once, never both
  revealed and reclaimed, and always recoverable;
* session: a page gets a signature only by the user's yes, from the account
  that was checked; a lock holds; every request ends;
* accounts: no account is locked out by a password change, the open session is
  the active account's, keys go only when they are removed;
* lockout and networks: every guess counts; the active network is listed;
* prover: requests neither share keys nor failures, and each is answered;
* screens: what is confirmed is what was shown and checked; late answers paint
  nothing over another account; the phrase shown is the wallet stored.

## 2. The modules

Each implementation module is parameterised by CONSTANTS with named
assumptions; an `MC*` module gives TLC what a `.cfg` cannot write, and the
`.cfg` files hold the bounds. Components that meet only in storage or on the
chain share an `MC*` module: its variable `focus` is chosen once in the
initial state, and only the chosen part steps. Operators whose comment
says "mutant of" stand for a plausible bug; nothing in the specification uses
them, and `PROJECT.json` pairs each one with the property that catches it.
A module states its properties in named parts, and one conjunction of
those parts is what a run checks.

| Module | Models | Run |
|---|---|---|
| `Vault` | `contracts/vault` `init`, `set_paused`, `transact`; the joinsplit statement; the token ledger; implements `ShieldedLedger` | `vault` |
| `ShieldedLedger` | abstract: a book of coins, each spent whole into two new ones | `vault` |
| `MerkleTree` | `merkle.rs`, `tree.ts`, `merkleProof.circom`: frontier, scan, rebuild and climb | `vault` |
| `VaultTtl` | `bump_ttl`, entry lifetimes, the keeper's loop | `indexer`, `vault_ttl_config` |
| `Registry` | `register_commitment`, `register_enc_key` | `indexer` |
| `Indexer` | the ingest loop, its tables, `/health` | `indexer` |
| `IndexerTs` | the loop in TypeScript over the same chain and tables | `indexer` |
| `NoteStream` | the listener, the hub, the clients that rescan | `indexer` |
| `Relayer` | `/quote`, `/submit`, the shared cost and the account's sequence number | `relayer` |
| `ShieldedWallet` | shield, send, unshield, scan, the split loop, the note store; the pool, the indexer and the relayer are its environment | `wallet`, `wallet_success` |
| `PrivatePayments` | the note processor, commits, reveals, reclaim, recovery; the account, the relayer's jobs and the index are its environment | `wallet`, `extension`, `private_double` |
| `Offscreen` | the offscreen document: creation, queue, artifacts | `wallet` |
| `Session` | requests of pages and windows, gate, approvals, idle lock, restart | `session`, `session_shown` |
| `Accounts` | the handlers over accounts, phrases, keys, password | `extension` |
| `Lockout` | failed attempts and the lockout | `extension` |
| `Networks` | the list of networks and the active one | `extension` |
| `SendPage`, `SwapPage` | the two pages, with the worker's part in them | `extension` |
| `PullToPrivate` | the gesture of private mode and the document's classes | `extension` |
| `Onboarding` | router, onboarding screens, unlock screen | `extension` |
| `Popup` | what the popup shows of session and balances | `popup` |
| `ShieldedSheet` | the sheet with its split loop across closings and switches | `popup`, `parallel_split` |
| `AccountSheet` | the account switcher and the add-wallet dialog | `popup` |
| `ApprovalPage` | the window of an approval, the request behind it, the session it shows | `popup` |
| `Sums` | sums over sets of numbers, induction over finite sets, `\div` and `%`, first elements | |
| `VaultProofs` | theorems on `Vault`, `MerkleTree`, `VaultTtl`, `Registry` | |
| `OffchainProofs` | theorems on `Indexer`, `IndexerTs`, `NoteStream`, `Relayer` | |
| `WalletProofs` | theorems on `ShieldedWallet`, `Offscreen` | |
| `ExtensionProofs` | theorems on `Networks`, `Lockout`, `PrivatePayments`, `SendPage`, `SwapPage`, `PullToPrivate`, `Onboarding` | |
| `AccountsProofs`, `SessionProofs` | theorems on `Accounts`, on `Session` | |
| `PopupProofs` | theorems on `Popup`, `ShieldedSheet`, `AccountSheet`, `ApprovalPage` | |

### Vault

A leaf is the amount its commitment hides, and its index is its identity, so
the nullifier of leaf `i` is `i`. A root is the number of leaves it commits to:
the tree only grows and the hash is taken as injective. A proof is the
assignment it proves and never expires, so `Transact` ranges over every
provable assignment with every external data: replays, proofs made long ago
and proofs delivered by another account are all among its inputs. What stays
concrete is the order of `transact`'s checks, the ring of roots and its
index (two inserts per call), the field of the public amount with its
wrap-around, the circuit's range checks, TVL, and the token transfers with
insufficient balance. A call that fails is rolled back by the host, so it is
no step. `spends` and `owed` are history variables: how often each leaf was
spent, and the balances that the bound external data prescribe. External data
never name the vault itself as recipient or relayer (the transfers of
`lib.rs:265-271` would then move nothing while TVL falls), and nobody sends the
vault tokens outside `transact`: `Custody` is an equality under these two.

* `Backed`: TVL is the value of the unspent notes. This needs the circuit's
  ranges and the contract's arithmetic together; without the ranges an output
  of `FieldP - 1` creates value.
* `VaultSafe`: types, `VaultInv`, `SpentOnce` (one spend per leaf),
  `PaidAsBound` (balances are those the proofs bind), `Custody` (tokens held
  equal TVL), `RootWindow` (the known roots are exactly those of the last
  `RootHistory` inserts, that is of about half as many calls).
* `Exitable`: in an open pool with room for two leaves, every unspent note can
  leave whole, whatever limits are configured.
* `ImplementsLedger`: the contract implements `ShieldedLedger!Spec`, where
  coins are leaf indexes and `unspent` maps the spendable ones to amounts.

### MerkleTree

`Vault` takes the tree as a list; `MerkleTree` justifies it. A hash is the pair
of its arguments. The contract inserts through its frontier into a ring of
roots; the wallet fetches leaves from the indexer or scans events window by
window from nodes that lag, forget and cut pages, checks that they are
contiguous and rebuilds; the circuit climbs from a leaf. `TreeSound`: the
newest roots are those of the full tree (`RingIsOfTree`), a tree that is built is one
the contract had (`BuiltIsPast`), every path climbs to its root (`PathsProve`),
and nothing but a leaf does (`OnlyLeavesProve`).

### VaultTtl, Registry

Time is in ledgers. An entry lives until a ledger; `extend_ttl` moves that
forward only when little is left; writing an entry does not move it. The keeper
calls at its interval, sometimes late (`Slack`), sometimes in vain
(`MaxFailed` in a row). `bump_ttl` reaches the tree entries and the instance
(`Bumped`); the configuration entries are a third kind that it leaves out.
Registrations are signed in one order and applied in any, or never;
`Register` is both contract functions, which differ in key and payload only.

### Indexer, IndexerTs and NoteStream

The tick is split where the code awaits the RPC or the database: plan (latest
ledger, resume point, retention), scan one window, gap handling, finish. Each
RPC answer comes from a node of the `provider` that may be behind the network
by its `lag`, so two calls of one tick may disagree; `rewrites` says whether the
entry that the deploy ledger is read from is ever written again. A batch of
rows is one transaction. A crash loses `locals`, never `tables`. A transact's
two leaves and its nullifiers share a ledger, as the contract emits them.
`TablesFollow`: what is stored is a prefix of the leaves (`Gapless`) with their
nullifiers (`NullifiersFollow`). `ClaimsHold`: types; the cursor has passed
stored leaves only (`CursorComplete`); a ready `/health` stands for every leaf
that the node asked has had for longer than the limit (`HealthyIsComplete`). The
last two are claimed where the code has means for them (`Covered`): the
confirmations reach the nodes' lag and the entry is not rewritten. The runs
visit providers on both sides.
`IndexerTs` replaces the window's fetch by pages that may come from two nodes,
and the re-anchoring by a tick of its own (`Rediscover`).

In `NoteStream` a commit notifies the one listening connection, if there is
one; the hub forwards to buffered channels and drops what does not fit; the
answer's headers go out before the subscription. `missed` is history: a
notification was sent while nothing listened for the client. `WakePending`:
whoever is behind has something on its way, or missed one.

### Relayer

`/submit` is cut at its RPC calls and at its two uses of the mutex: the
precheck, loading the sequence number, the simulation, `learnCost`, the fee
check against the simulated cost, sending. Any number of requests interleave.
`Bid` is a client that did not ask for a quote. `peak` and `quoted` are history:
the highest cost the relayer met since a quote, and the observed cost the quote
was for. A transaction applies when its sequence number is the next one; when
its note has been spent it reverts, at the relayer's cost.

### ShieldedWallet, PrivatePayments, Offscreen

The shielded lock serialises the operations, so there is one holder, whose
program counter moves through submit, await, check, add notes, mark spent.
Between any two of these the service worker may stop. The indexer shows a
prefix of what landed, so a scan may be behind. A plan pays out an amount and
may make one note of ours; a note is named by its plan. `split` is the loop of
the sheet (`ShieldedSend.tsx`) around `shieldedSpendChunk`. The lock is taken
per operation and free between two chunks, so shields, spends (`Spend`), chunks
of another loop (`OtherChunk`), scans and receipts all run in the middle of a
split; the loop may have been planned on notes that one of them is spending.
`dearer` and `crossed` are history: a chunk was quoted a higher fee than the loop
reckoned with, and another operation spent since the loop began, or was
already spending notes it counted on. `SplitPaysAll` says that without faults the books are right
at every chunk, crossed or not, and that a split that ends has paid its goal
unless it is dearer or crossed. `ChangeKept`: a note flagged spent was spent by a
payment that landed and whose change is stored, or was flagged for a
payment reported as already submitted that never landed, which is finding 2.

In `PrivatePayments` there is one pool and one relayer fee, so a note's leaf
and nullifier are its counter. `mem` is the working copy of the lock's holder,
`stored` what it saved: the code loads once and saves after each note, and a
crash returns to `stored`. The clock counts units of which the transaction
timeout (`Validity`), the re-arm margin, the indexer's lag and the age of the
fetched leaves are multiples. `lost` marks a transaction whose hash the code
forgot, or that it gave up on looking at leaves older than `Fresh`: the two
ways in which the code's own guards do not see a broadcast. `PaymentsInv`: types,
and `DepositedOnceIfKept`. `DeliveredIsPaid`: what is shown as delivered was paid.

In `Offscreen` three requests of both kinds share the document: the worker
creates it once, the queue runs one at a time, a load evicts the other kind's
artifacts, and fetches, hashes, proofs and `initPoseidon` may fail.
`ProverSafe`: never both kinds resident, never another network's key, and a
request fails only for a mishap of its own.

### Session

A handler is the list of the steps it awaits (`Program`), so that any two
handlers interleave at every await, with the user's clicks, closed windows,
time-outs, the idle lock and a restart of the worker between them. The session
and the allowlist are entries read in one step and written in another. History
variables mark what excuses a property: `overlapped` (two writers of the
session), `rewound` (a list written from an outdated copy), `kept` (a lock left
the secret to a pending request). `OnlyApproved`: no signature without the
user's yes to that very request. `SignerIsReported`: the secret that signs is
the checked account's. `SessionInv`: whole at rest (`RestCoherent`), and a
lock holds (`LockHolds`). `StoresAgree`: seats, payloads and connecting origins
agree with the requests. `Answered`: every request ends.

### Accounts, Lockout, Networks

The list of accounts, the phrases and the keys are three entries; a handler
reads one, awaits, and writes it whole. An encryption is the password it was
made under. Handlers of up to three calls interleave, and the worker may stop
between two writes. `stale`, `rekeyed`, `crossed` and `cut` mark an outdated
write, a password changed under a handler, two writers of the session and
a stopped handler. `AccountsInv` joins `NoneBricked` (every credential is there
under the current password), `ActiveListed`, `SessionMatches` (the open key is
the active account's), `LockForgets`, `NoOrphans`.
`Lockout` cuts attempts at their awaits; `overlapped` marks attempts made at
once and a count cut off by a stop. `EveryGuessCounts` and `LockoutStands` speak of
the rest: windows past the check when a lockout begins or expires. `Networks` cuts each edit into read and
write: `NetworksInv` (defaults stay, the active network is listed and chosen).

### The screens

State that React batches is one record; a step is an event handler up to its
first await, and another the code after it, which runs on whatever the state is
then. `SendPage`: `SendInv` says that the request out is for the form on the
screen, what is paid was checked and agreed to, and success names a payment
made. A switch in another window clears the balances the page holds, and from
then on an asset they do not list is taken for XLM, at any step
(`PollStatus`, `BalancesArrive`, `Selected`); `fellBack` marks that this happened
under a request or after its answer, and `SendInv` then speaks up to that change
of asset and no other. `SwapPage`: `SwapInv` says the same of quotes and of the
minimum received; there the effect of the balances sets the asset sold to XLM and
leaves the quote (`BalancesChange`, `fellBack`). `PullToPrivate`: `PaletteInv` says that the palette follows the mode
and is armed under every fold. `Onboarding`: `ReadyIsStored`,
`MarkerConsumed` and `OnboardingStays`. `Popup`: `PopupInv` says that the balances
shown are the shown account's. `ShieldedSheet`: `SheetInv` says that busy and done mean
what they say while no submission outlives its opening. Amounts there are in
units, a single transaction's being one; `worth` is what chunks can still deliver
of the account's notes at the fee the sheet was quoted, `NotesMove` is whatever else
moves notes between two chunks, and `cut` marks a split that was entered beyond
`worth`, met a higher fee, or lost notes to something else: only such a split may
end in the success screen with less than its amount. What a chunk's answer is
worth (a payment taken for another's) is the wallet's model. `AccountSheet`:
`AccountSheetInv` says that one confirmation adds one account, success names
one that is held, and a closed dialog has forgotten its secrets. `ApprovalPage`:
`ApprovalInv` says that the worker goes ahead only if approving was the first
button pressed (`FirstPressRules`), with the account and the network that the
page showed then (`ShownIsUsed`), and a page that has read shows its own request
as long as that is pending (`PendingIsShown`). History variables (`toggled`, `fellBack`, `raced`, `cutShort`, `excused`, `strayed`,
`crossed`, `cut`, `outlived`, `halted`) name the ways out that the code leaves open; section 7
lists them.

## 3. The runs

| Run | Bounds | Shows |
|---|---|---|
| `vault` | 2 accounts with 1 token, 6 leaves (3 transacts), ring of 3, field of 11, range 3; tree of depth 3, ring of 4, 5 ledgers, nodes that lag by 1 and keep 3 | `VaultSafe`, `Backed`, `Exitable`, `TreeSound`, `ImplementsLedger` |
| `indexer` | loop: 6 ledgers, 3 transacts, lag 1, 2 faults; lagging loop: 4 transacts, lag 2 over 1 confirmation, a rewritten entry, retention 4, pages of 3; TypeScript loop: 5 ledgers, 3 transacts, retention 4, pages of 2, 1 fault, lag 1 or 2, the entry rewritten or not; stream: 2 clients, buffer of 2, 3 batches, 2 breaks; rent: units of 20 000 ledgers, horizon of 60, one failed call in a row; keys: 2 owners, 2 kinds, 3 versions, 3 calls | `TablesFollow`, `ClaimsHold`, `WakePending`, `RentSafe`, `RegistryInv`, `ServicesProgress` (every final leaf is stored, a client that stays sees every batch, the TypeScript loop is ready only with its leaves) |
| `wallet` | 3 notes of 3, amounts 1 and 6, 5 plans, 1 fault, reinstalls; 3 proofs, 1 mishap, 1 stop; 1 private note, 2 attempts, 2 reclaims, 1 fault, reinstalls | `WalletInv`, `SplitPaysAll`, `ChangeKept`, `ProverSafe`, `EveryWaitEnds` (with `DeliveredIsPaid` under an index that lags, reclaims and reinstalls) |
| `relayer` | 3 requests, 2 notes, costs 70, 770 and 1000 around 700, 1 restart | `RelayerSafe`, `QuoteHonoured`, `OutlierSafe` |
| `session` | 12 scenarios of two or three requests (`MCMixes`), 2 accounts, 2 origins, 2 networks, at most 1 idle lock and 1 restart | `SessionInv`, `OnlyApproved`, `SignerIsReported`, `StoresAgree`, `Answered` |
| `extension` | accounts: 6 plans of two or three calls, 1 stop; lockout: 2 windows, 3 attempts allowed, 6 tries, 1 stop; networks: 3 edits, 2 defaults, 2 customs; payments: 2 notes, 1 fault; send: 2 forms, the second in an asset whose recipient lacks the trustline, an earlier payment of the other account, 1 send, 1 switch or reopening; swap: 2 trades, one from XLM and one not, 2 slippages, 3 quotes, 1 price move; gesture: 6 gestures; onboarding: 3 phrases, 2 calls, 1 act elsewhere, 1 poll, or 1 call and 2 polls | `AccountsInv`, `EveryGuessCounts`, `NetworksInv`, `PaymentsInv` (no double deposit unless a broadcast was forgotten), `DeliveredIsPaid`, `SendInv`, `SwapInv`, `PaletteInv`, `OnboardingInv`, `OnboardingStays`, `NothingIsLost` (keys, lockout, networks and private notes go only by the act meant for it) |
| `popup` | 2 accounts, 1 command, 1 funding; 2 openings, 2 submissions of up to 2 units over notes worth up to 2, 1 switch; 2 derived accounts, one or both listed at the start, 2 acts; 1 approval, 2 presses, 1 move | `PopupInv`, `SheetInv`, `AccountSheetInv`, `ApprovalInv`, `PopupProgress` (the popup follows the session, balances of another account go, a busy sheet is released) |
| `vault_ttl_config` | deployed thresholds, no failed call | violation: the configuration entries archive |
| `wallet_success` | amounts 1 and 5, 6 plans, 1 fault | violation: a success is reported for a payment never made |
| `private_double` | 1 note, 1 fault | violation: one note is deposited twice |
| `session_shown` | one request to sign, one switch | violation: the page names one account, another's key signs |
| `parallel_split` | 2 openings, 2 submissions | violation: two split loops side by side |

Why the bounds are enough. The vault's ring of three is odd and smaller than
the leaves of three calls, so a root leaves the window, and `Capacity` is reached
so that a full tree occurs; supply, caps and ranges are the smallest at which
a limit can bind and an output can wrap. The tree of eight leaves has a ring
that wraps and a scan of several windows. The indexer's windows and pages are
shorter than the chain, so a tick takes several windows; the stream's buffer is
shorter than what is stored, so a channel fills. The wallet has one note more
than a plan has inputs, which a split needs. One fault suffices for every
single-failure hazard listed; the two-fault combinations of the indexer are
checked, those of the wallets are not. The relayer's costs are a cheap
outlier, a drift within the headroom and a jump beyond it; a quote, its own
simulation and foreign ones in between take three requests. The session's
scenarios pair each shared entry's writers with each other and with what waits
for them; all fifty requests together would only repeat those pairs with
longer prefixes. Two calls and one act of another window are what the races of
the screens need; new phrases and keys are interchangeable, so the next one
made is named in order. In `Onboarding` the status poll's read is merged with
its asking, in `AccountSheet` one poll is under way at a time: an answer of a
poll that is overtaken by another changes what a single late one changes.
In the `extension` run the indexer shows private payments without lag; the
lagging case is the `wallet` run's.

Symmetry is used for the dummies and commitments of `vault` and the clients
of `relayer`, and in neither run is a liveness property checked.
`CHECK_DEADLOCK FALSE` stands where the bounds end a behaviour: a full tree, the
last ledger, all calls applied, every request answered, the popup at rest.

## 4. Fairness

* `Indexer`: the loop runs on a ticker for ever (`WF` of `Tick`) and ledgers
  keep closing. Faults are bounded, not fair: `StoredInTheEnd` says that the
  index recovers once they stop.
* `NoteStream`: the listener reconnects every second, the hub and each
  request's goroutine go on, a client scans when it is woken.
* `ShieldedWallet`: an operation that holds the lock proceeds (`Work`): the polls
  for a transaction are bounded by a count, and each broadcast lands or is dropped,
  since transactions carry time bounds. Of the fetches only
  the two of `tree.ts:47-49` have a timeout in the code: that the others are answered
  or fail is an assumption on the network and the browser, and one that hangs holds
  the lock and every operation behind it.
* `PrivatePayments`: the alarm fires every minute (`Pass`), the network, the
  relayer's jobs and its index proceed, and time passes.
* `Offscreen`: the document is created or the attempt fails, and the event loop
  runs each queued request.
* `Session`: each handler's next step happens (`WF` of `Step`), an approval
  window times out after five minutes (`Timeout`), an unlock window that closes
  or is given up ends its wait (`GiveUpUnlock`). Users are not fair.
* `Popup`: intervals fire, and each kind of message proceeds at each of its
  stages (`WF` of `Takes`, one per kind and stage, since a runtime answers every
  message); Horizon answers a question of the shown account again and again
  (`SF`, since every switch overtakes a pending answer), and one of another
  account ends (`WF`).
* `ShieldedSheet`: each submission's next answer arrives (`WF` of
  `Progresses`), under the same assumption on the worker's fetches.
* Progress is stated as what holds from some time on (`<>[]`) or again and again
  (`[]<>`), with the bounds' end included: a budget that is used up must leave
  the state reached, not merely stop.
* The other modules promise nothing that needs fairness; what they leave to
  the user or to the caller is not claimed.

## 5. What is proved

The theorems hold for every value of the constants that meets the module's
assumptions: any number of accounts, requests, windows, ledgers, leaves and
costs, any order of steps, any bound on faults. Every invariant that a passing
run checks is stated by one, and so are the action properties and the
refinement: `NothingIsLost`, a conjunction in `MCExtension`, by `KeysKept`,
`LockoutHolds`, `NetworksRemain` and `NotesStay`. A run shows the property on a
small instance, with every mutant of the code caught; the theorem says that
the instance's size does not matter. In each module an inductive invariant
(often named `...Kept` or `...IInv`) holds initially, by each action, and
implies the property.

**`Sums`**. Sums of a function over a finite set of numbers, with the laws that
`Backed` and the split need (one element more, a disjoint union, monotony), and
induction: over naturals by the least counterexample, over finite sets through
a bijection with `1..n`; first elements of sequences; remainders.

**`VaultProofs`**. From `VaultAssumptions`: `Invariance` proves `VaultInv`, from
which `NoDoubleSpend`, `PaymentsBound`, `CustodyHolds` and `WindowExact`, together
`VaultIsSafe`. `RootWindow` is not inductive: that the known roots are the last
ones needs to know which slot holds which root (`RootRing`, an argument about
adding one modulo the ring's length). `ValueConserved` (`Backed`) carries `Books`: the
sum over unspent leaves moves with TVL at each transact (`Movement`), which is
where the circuit's ranges and the contract's arithmetic meet. `NoNoteStuck`
(`Exitable`) exhibits the transact by which a note leaves. `Refinement`
(`ImplementsLedger`) maps each transact to one `Move` of `ShieldedLedger`, with
`FieldSum` turning the equation in the field into one in the integers.

`TreeHolds` (`TreeSound`) is for every depth, ring, window, page, lag and retention.
The full tree is a recursive function on its height, so each one is first
shown to exist (by extension from `0..n` to `n + 1`). `TreeKept` says of the frontier
that it holds the left siblings the next leaf needs; an insert then climbs the
full tree (`FrontAdvances`), and the ring holds the newest roots. A tree built
on the first `m` leaves is the full tree when the contract had `m`; and since a
hash determines its pair, a climb that ends in the root started at a leaf.

From `RentAssumptions`: `RentInv` is inductive, what is left of each bumped
entry covers the next call and every failure still allowed. With `Margin`
(`(MaxFailed + 1) * (Interval + Slack)` within `THRESHOLD` and within the lifetime
of a new entry) it gives `RentIsSafe`; `BumpOnlyProlongs` needs no margin. For the
registries `LatestStored` carries the calls applied, of which an entry is a
maximum, and `PublishedIsFinal` follows from the version's comparison.

**`OffchainProofs`**. `TablesFollowTheChain`: the rows are `0..n-1` for some `n`
within the chain (`Prefix`). `CommitKeeps` shows that a batch without a gap ends
at the first index it does not hold, a minimum of a set of naturals
(`MinOfSet`). No assumption on the RPC is used: answers may leave out anything.

`ClaimsStand` (`ClaimsHold`) adds what was read: every leaf before the tick's window,
and up to the cursor, is stored (`ClaimsKept`). A window's answer holds all of it
because the last ledger to read is behind the confirmations, hence behind
every node (`NodesReach`), and the window does not start before the history
(`AnswersHoldWindow`); an empty table starts from the deploy ledger, before
which nothing is on the chain (`NothingBefore`); a rewind goes to a ledger before
which everything is stored, since ledgers are in the leaves' order. Where the
provider is not `Covered` the claims say nothing, and the code keeps none.
`TsTablesFollowTheChain` and `TsClaimsStand` say the same of the TypeScript loop. Its pages
need a fact of their own: a first page that is not full is the whole answer, and
what a full one leaves out comes after all of it (`ShortPageIsAll`,
`AfterFirstPage`), so that pages from two nodes are together the window.

`TsReadyStands` takes the case `ClaimsHold` leaves out, an entry that was rewritten:
when the confirmations cover the nodes' lag (`Near`), a ready answer of the
TypeScript loop is complete once the deploy ledger is not after leaf 0
(`ReadyIsComplete`, which the run checks as a part of `ServicesProgress`). With a late
deploy ledger the cursor runs past leaves it never read, so `ReadyKept` keeps two
things apart: nothing is stored while the deploy ledger is late (a batch without
leaf 0 is a gap or holds no leaf at all), and after the walk back has put it right
either the flag is still up or everything up to the cursor has been read again
from the new one, because an empty table starts from the deploy ledger whatever
the cursor says.

`DroppedWakesAreHarmless`: a push into a full channel leaves a positive count, and
a connection that does not listen holds no backlog. `RelayerIsSafe`:
past the precheck a request names this relayer, past the fee check its fee
covers its own simulated cost, and the truncated decay never passes the cost
met. `QuotesHonoured`: `QuoteCovers` shows through four truncating products that a
quote is at least what is required for any cost within its headroom, and
`AllCovered` that the observed cost and the request's own are among those met
since. `OutliersAreSafe` (`OutlierSafe`) has the deployed margins as hypothesis
(`OutlierMargins`: margin at least 20 %, floor at most 5 %, buffer at least 10 %),
and costs large enough that truncation does not eat the margin.

**`WalletProofs`**. `WalletHolds` (`WalletInv`): the holder of the lock is honest, that is,
what each program counter says of its plan agrees with the chain as far as the
answers it rests on (`Honest`), so a hash reported has landed and local notes are
as true as the last scan. `ChangeIsKept` names for each note flagged spent the plan
it was flagged for: one that landed has its change stored before the flag is set.
`SplitsPay` (`SplitPaysAll`) holds with any other operations between the chunks: the
books are a sum over the loop's own plans, which no other operation touches. For
the goal of a loop that is neither dearer nor crossed it is an exchange argument: some set `V` of unspent
notes still pays what is left, `left <= Total(V) - q * ceil(|V| / 2)`; a
chunk spends the two largest notes, and swapping those into `V` leaves the
inequality standing for the next chunk. `ProverHolds` (`ProverSafe`): the
head of the queue is the only one that runs, and what is resident is what it
has loaded.

**`ExtensionProofs`**. `NetworksHold`, `NetworksRemain`: what an edit has read contains the
defaults, and it loses another's network only if it was outdated. `GuessesCount`,
`LockoutHolds`: while attempts do not overlap, the counter plus the handlers about
to write it is the number of wrong passwords (`AllCounted`). `NoDoubleDeposit`
(`PaymentsInv`): there is one live commit per note that the store still traces,
working copy and store agree, and leaves that do not show a commit bound its
age. It has the hypothesis `Margin > Lag + Fresh`: the re-arm margin
(`COMMIT_INDEXER_MARGIN_MS`) exceeds the index's lag and the age of the fetched
leaves together, which is what the code has it for. Its exception, a broadcast
whose hash was forgotten, is finding 3.
`DeliveredMeansPaid` and `NotesStay` need no such hypothesis. `SendHolds`, `SwapHolds`:
what is out was read off the form in the step that sent it, and every step
that changes the form withdraws, disables or marks it. Taking XLM for an asset
is idempotent, so after any number of falls the form and what was asked for have
the same payment in XLM (`SameForm`, `SameTrade`). `PaletteHolds`: the
classes on the root are a function of the mode, the gesture and the timers that
are armed. `OnboardingHolds`: calls are numbered as they are sent, the newest write is
the one stored, it is heard of last, and a form believes it or is about to
hear. `ScreensStay` rests on the router's latch.

**`AccountsProofs`**. `AccountsHold` and `KeysKept` from `AccountsKept`. A handler is a
sequence of steps, so the invariant is about order: which write is ahead of
which (`Follows`), what each handler has read at each await, and whose key
everyone holds. A key is listed, or some handler still owes its listing or
removal (`Adding`, `Removing`); a session is at rest or being opened; the handlers
that open or close it are alone, those that import or remove go beside it,
and two that go beside one another in any other way set a history variable.

**`SessionProofs`**. `Base` types the session. `StoresHold`, `ApprovalsHold`,
`SignerHolds` and `SessionWhole` rest on the order of each program: a program counter
past the approval implies the request's yes, one past the check carries the
account that was checked, and a lock leaves no secret except to a request
that is marked (`kept`).

**`PopupProofs`**. `NothingPaintedOver`: an answer with the current run id asks for the
account shown. `SheetHolds`: a busy sheet has its loop; what a running split has left is within
what the notes are worth unless it is cut (`Delivering`), so a chunk that finds no
note ends only one that is, and a sheet that says done has otherwise paid all. `AccountSheetHolds`: a dialog that waits has one call, of its type and
input, and hears its answer; what stays after a removal is a filtered list
(by induction on its length). `ApprovalHolds`: the first button
pressed decides, and carries what the page showed.

Recursive definitions (the tree, the sums) are functions over bounded domains, and
what they compute is proved by induction as said above. The folds of the
community modules stay outside the proofs.

## 6. What is only model-checked

* Liveness (`ServicesProgress`, `EveryWaitEnds`, `Answered`, `PopupProgress`): the
  proof system has no rules for fairness.
* The findings: a violation is a behaviour, which TLC shows.

## 7. Where the code and its own words differ

Five runs end in a violation and are findings in `PROJECT.json`:

1. `vault_ttl_config`: `bump_ttl` "so the pool never archives" (`lib.rs:142`)
   leaves out the configuration entries.
2. `wallet_success`: a spent nullifier is read as "it landed"
   (`shielded.ts:153`), also when another payment spent the note.
3. `private_double`: a throw is read as "the deposit did not complete"
   (`privatePayments.ts:311`), also after the broadcast.
4. `session_shown`: "Signing as" (`SignTransaction.tsx:91`) names the session's
   account of the moment; the key was read before the page opened.
5. `parallel_split`: the guard against "a parallel auto-split loop"
   (`ShieldedSend.tsx:357`) is reset when the sheet is opened again.

Met while modelling, with no run of their own. In the services:

* `cmd/keeper/main.go:110`: a failed call waits the whole interval. With the
  deployed seven days (about 121 000 ledgers) and `THRESHOLD` 200 000,
  `Margin` allows no failure: one can let the tree archive.
* `ingest.go:158`: the deploy ledger is an entry's last modification. Were the
  instance entry ever rewritten after leaf 0 (`upgrade` does), a fresh indexer
  would start too late and report itself ready; `Covered` therefore leaves out
  providers with `rewrites`.
* `api.go:133-138`: when the health handler's own RPC call fails the lag is
  left out of the answer, which is ok unless a gap is known, while
  `offchain/README.md:49` promises not-ready for a lag beyond the threshold.
* `api.go:184-186`: the stream's headers are flushed before the subscription: a
  client that scans on "open" can miss the batch in between.
* `relayer.go:253`: a spend that reverts on chain costs the relayer its gas;
  the floor protects it only for spends that land.
* `relayer.go:63`: one cheap outlier cannot drop the quote under the real cost
  (`OutlierSafe`); two in a row can.

In the shielded wallet and private payments:

* `submit.ts:108`: `notesSpentByNullifiers` asks whether any input is spent, and
  `shielded.ts:341` then flags all of them; scans skip notes already known
  (`vault.ts:375`), so the unspent one stays out of sight until the store is
  rebuilt.
* `shielded.ts:371`: a chunk that finds no note left answers done with nothing
  remaining, though line 186 defines done as the full amount sent. A split whose
  fee rose on the way (`dearer`), that another window or a loop of an earlier
  opening crossed (`crossed`; the lock of lines 120-124 is free between chunks), or
  that was entered over an outdated balance, ends in the success screen of
  `ShieldedSend.tsx:416-421` with less than its goal (`cut`).
* `tree.ts`: leaf indexes and paths come from two separate fetches, and only
  the RPC branch of `fetchCommitments` checks that leaves are contiguous.
* `background/index.ts:2878`: a reclaim whose polls go unanswered is recorded
  as revealed, and revealed notes are not looked at again.
* `privatePayments.ts:745`: one pass uses one fetch of the leaves, so a pass of
  several slow commits outlives the margin of `COMMIT_INDEXER_MARGIN_MS`.
* `privatePayments.ts:202`: after the store is lost, a send before recovery
  counts from zero again and reuses a nullifier.
* `offscreen-main.ts:54-82`: the artifacts are cached before `initPoseidon`, so
  one failed initialisation makes every later reveal of that network fail
  (`uninitialised`).

In the worker:

* `index.ts:4317`: `CREATE_HD_WALLET` uses `store` before the `const` at line
  4321: it throws after the phrase was saved, and its account is never listed.
* `ADD_ACCOUNT` does not ask whether the derived account was imported as a key;
  racing `REMOVE_HD_WALLET` it lists an account without a phrase; an import
  racing `CHANGE_PASSWORD` is stored under the old password (`rekeyed`);
  `REMOVE_ACCOUNT` of a phrase's last account leaves the phrase.
* `index.ts:2743`: attempts made at once count as one, and a stop between the
  count and the lockout leaves a full counter unlocked (`overlapped`);
  `RESET_FAILED_ATTEMPTS` (`index.ts:3155`) has no sender.
* `index.ts:1179`: `SIGN_TRANSACTION` and `SIGN_AUTH_ENTRY` sign for the
  `networkPassphrase` the site names, while the page shows the active network.
* `RESET_WALLET` beside an `ADD_ACCOUNT` or an import, and two creations at once,
  leave entries of two wallets side by side (`stale`).
* A lock with a request pending keeps the secret (`kept`); waiting requests
  resume before an unlock has stored its secret.
* `networks.ts`: `editNetwork` does not ask for a unique name;
  `NetworkContext` is not refreshed by another window's switch.
* `FETCH_HORIZON_ACCOUNT` uses the stored active network, and takes an
  unreachable Horizon for an unfunded account (`unfunded: !res || 404`).

On the screens:

* `Send.tsx:49` says that recents do "not bleed across accounts or networks":
  `rememberRecipient` (line 886), which a late answer calls as it was before a
  switch, writes the list now on the page, the new account's, under the old
  account's key (`RecentsStayApart` does not hold).
* `Send.tsx`: switching the mode while a step loads skips its checks or shows
  another's quote (`toggled`); the "Max fee" is the preview's; when the
  worker ends, `handleConfirm` throws without an error on the screen; Confirm
  after a lost Horizon answer pays twice.
* `Send.tsx:575-581`, `614-622`: an asset that the balances do not list is taken
  for XLM, then replaced by it, on any step; `useBalances.ts:264-281` clears the
  balances when another window switches the account. A confirmation open then shows and pays
  the amount in XLM, in place of the asset whose trustline, preview or anonymity
  set was checked, and the success sheet may name another asset than was sent
  (`fellBack`).
* `Swap.tsx:517-523`: the effect of the balances sets the asset sold to XLM on any step
  and keeps the quote: until the timer has fetched another, the sheet shows a
  quote and a "Min received" for the asset before, and confirms with XLM
  (`fellBack`).
* `Swap.tsx:988`: "Min received" is of the quote shown; the worker computes the
  minimum again from a new path (`MinIsKept` holds only while the price does
  not fall). Quotes carry no run id, and the timer may refetch under the
  confirmation.
* `ShieldedSend.tsx`: a split goes on after the account is switched and spends
  the new account's notes (`SplitKeepsAccount` does not hold, since
  `SHIELDED_SPEND_CHUNK` names no account); for an account without notes it ends
  in the success screen; an old loop's end resets the guard of a new opening.
* `useBalances.ts`: "a fetch only commits state if its captured id still
  matches": the refresh that the friendbot and the send page keep from before a
  switch takes a new id for the old account (`strayed`).
* `useShieldedBalances.ts`: balances scanned for an account the popup has not
  heard of stay when the account is switched back before the poll (`crossed`).
* `usePullToPrivate.ts`: an exit between entering and the render leaves the
  private palette (`cutShort`); one in a swipe leaves `private-dragging`.
* `useHistory` has no run id; the address and notes on `Home` stay the previous
  account's until they are fetched.
* `Onboarding.tsx:440`, `581`: Enter is not guarded by `loading`, so two
  creations may be out; the imported phrase can be edited while its answer is
  out; a window latched in onboarding replaces a wallet created elsewhere
  without the confirmation of `Unlock`; of two overlapping replacements, the
  failure of the first removes the marker of the second (`excused`).
* `AddWalletModal.tsx`: the switch after an added account may fail unseen, and
  nothing navigates to Home (`AccountSwitcher.tsx:196`); a call that failed
  after it had stored can be repeated (`halted`).
* `AccountSwitcher.tsx`: one rename's late answer closes another's edit; a poll's
  older list undoes a dropped order until the next poll.

## 8. What is not modelled

`PROJECT.json` lists every component with its status. Cryptography (pairings,
Poseidon2, note encryption, password derivation) is taken as sound and
injective. `upgrade` replaces the code modelled here. The scalar reduction of
`keypair.circom` and the choice of denominations are pure arithmetic on numbers
of 254 bits, which a small modulus would not represent. Of the TypeScript indexer the
loop is modelled and its read-only queries and fan-out are not; the TypeScript
relayer is superseded by the Go port. Content scripts relay; analytics,
the logging client and deployment are I/O. Of the remaining screens
(assets, details, history, settings) every change of state goes through a
handler that is modelled. Wallets of the format before phrases, prices,
icons and labels, and the geometry of the peel are left out. The properties
speak of what the model tells apart: a reclaim recorded as revealed
(`index.ts:2878`) and a health answer whose RPC call failed (`api.go:133`) are
described in section 7 and have no property of their own, since one would only
restate the code.

## 9. What could come next

1. `PoolSystem`: the vault, the indexer and the wallet composed, so that a
   wallet plans from an index that lags and its proofs use roots that expire.
   Today each is checked against an environment that allows what the others do.
2. An abstract book of deliveries that `PrivatePayments` implements, as the vault
   implements `ShieldedLedger`.
3. Two faults at once in the wallets; the remaining screens; the TypeScript
   relayer, should it be deployed again.
