------------------------------- MODULE Offscreen -------------------------------
(***************************************************************************)
(* The offscreen document that proves: the worker creates it on demand,    *)
(* its requests run one at a time, and each loads the artifacts it needs   *)
(* after it evicts those of the other kind.                                *)
(***************************************************************************)
EXTENDS Naturals, Sequences, SequencesExt, FiniteSets

CONSTANTS
    Proofs,        \* requests: each is made at most once
    ProofKinds,    \* "reveal": a private payment; "spend": a shielded operation; "scan"
    Nets,
    MaxMishaps,    \* bound: failed fetches, hashes that differ, failed proofs, failed initialisations
    MaxStops,      \* bound: stops of the worker
    None

ASSUME OffscreenAssumption == IsFiniteSet(Proofs) /\ ProofKinds \subseteq {"reveal", "spend", "scan"}

VARIABLES
    proof,         \* each request: st, kind, net, key: the network whose key proved it
    document,      \* chrome.offscreen.hasDocument
    creating,      \* the worker's `creating`
    creations,     \* createDocument calls the browser works on; FALSE when their worker stopped
    proveQueue,    \* the requests the document holds, in order; only the first runs
    reveals,       \* artifactsByNetwork: the networks whose key is resident
    shielded,      \* shieldedArtifacts is resident
    scanVerified,  \* scanPoseidonVerified
    poseidonReady,
    mishaps, halts,
    \* History
    hit,           \* the requests that a mishap befell
    uninitialised  \* an initialisation failed

offscreenVars == <<proof, document, creating, creations, proveQueue, reveals, shielded, scanVerified,
                   poseidonReady, mishaps, halts, hit, uninitialised>>
docVars == <<document, creating, creations>>
artifacts == <<reveals, shielded, scanVerified, poseidonReady>>
history == <<mishaps, halts, hit, uninitialised>>

OffscreenInit ==
    /\ proof = [r \in Proofs |-> [st |-> "new", kind |-> None, net |-> None, key |-> None]]
    /\ document = FALSE /\ creating = FALSE /\ creations = <<>> /\ proveQueue = <<>>
    /\ reveals = {} /\ shielded = FALSE /\ scanVerified = FALSE /\ poseidonReady = FALSE
    /\ mishaps = 0 /\ halts = 0 /\ hit = {} /\ uninitialised = FALSE

Moves(r, st) == proof' = [proof EXCEPT ![r].st = st]

\* generateProof, offscreenShielded: the request asks whether there is a document
Ask(r) ==
    /\ proof[r].st = "new"
    /\ \E k \in ProofKinds, n \in Nets :
          proof' = [proof EXCEPT ![r] = [st |-> "asks", kind |-> k, net |-> n, key |-> None]]
    /\ UNCHANGED <<docVars, proveQueue, artifacts, history>>

ensureOffscreen(r) ==
    /\ proof[r].st = "asks"
    /\ IF document THEN Moves(r, "queued") /\ proveQueue' = Append(proveQueue, r) /\ UNCHANGED docVars
       ELSE /\ Moves(r, "awaits") /\ UNCHANGED <<proveQueue, document>>
            /\ creating' = TRUE
            /\ creations' = IF creating THEN creations ELSE Append(creations, TRUE)
    /\ UNCHANGED <<artifacts, history>>

Awaiting == {r \in Proofs : proof[r].st = "awaits"}

\* createDocument ends: a second document is refused, and with it everyone who awaited that call.
Created ==
    /\ creations # <<>>
    /\ creations' = Tail(creations) /\ document' = TRUE
    /\ IF ~Head(creations) THEN UNCHANGED <<creating, proof, proveQueue>>
       ELSE /\ creating' = FALSE
            /\ proof' = [r \in Proofs |->
                  IF r \in Awaiting THEN [proof[r] EXCEPT !.st = IF document THEN "error" ELSE "queued"]
                  ELSE proof[r]]
            /\ proveQueue' = IF document THEN proveQueue ELSE proveQueue \o SetToSeq(Awaiting)
    /\ UNCHANGED <<artifacts, history>>

\* The worker stops; the document goes on for nobody.
WorkerStops ==
    /\ halts < MaxStops /\ halts' = halts + 1
    /\ creating' = FALSE /\ creations' = [k \in DOMAIN creations |-> FALSE]
    /\ proof' = [r \in Proofs |-> IF proof[r].st \in {"asks", "awaits"} THEN [proof[r] EXCEPT !.st = "lost"]
                                  ELSE proof[r]]
    /\ UNCHANGED <<document, proveQueue, artifacts, mishaps, hit, uninitialised>>

----------------------------------------------------------------------------
(* In the document. *)

\* mutant of withProveLock: a request starts at once
withProveLockNone(r) == r \in ToSet(proveQueue)
withProveLock(r) == proveQueue # <<>> /\ Head(proveQueue) = r

\* Both answers release the lock.
\* mutant of EndsProof: an error leaves the queue waiting
EndsProofStuck(r, st) ==
    /\ Moves(r, st)
    /\ proveQueue' = IF st = "error" THEN proveQueue ELSE Tail(proveQueue)
EndsProof(r, st) ==
    /\ Moves(r, st) /\ proveQueue' = Tail(proveQueue)

Befalls(r) == mishaps < MaxMishaps /\ mishaps' = mishaps + 1 /\ hit' = hit \cup {r}

\* mutant of Cached: the artifacts are not kept by network
CachedAny(r) == reveals # {}
Cached(r) == proof[r].net \in reveals

\* The start of runShielded's and loadArtifacts' loads: what is not cached is fetched, and the other
\* kind's artifacts go first.
Load(r) ==
    LET kind == proof[r].kind
        cached == CASE kind = "reveal" -> Cached(r) [] kind = "spend" -> shielded [] kind = "scan" -> scanVerified
    IN /\ withProveLock(r) /\ proof[r].st = "queued"
       /\ Moves(r, IF cached THEN "proves" ELSE "fetches")
       /\ shielded' = (shielded /\ (cached \/ kind # "reveal"))
       /\ reveals' = IF ~cached /\ kind = "spend" THEN {} ELSE reveals
       /\ UNCHANGED <<docVars, proveQueue, scanVerified, poseidonReady, history>>

\* Every artifact fetched had its pinned hash.
Verified(r) ==
    LET kind == proof[r].kind IN
    /\ withProveLock(r) /\ proof[r].st = "fetches"
    /\ Moves(r, IF kind = "reveal" /\ ~poseidonReady THEN "initialises" ELSE "proves")
    /\ reveals' = IF kind = "reveal" THEN reveals \cup {proof[r].net} ELSE reveals
    /\ shielded' = (shielded \/ kind = "spend")
    /\ scanVerified' = (scanVerified \/ kind = "scan")
    /\ UNCHANGED <<docVars, proveQueue, poseidonReady, history>>

\* A fetch failed or a hash differs.
Refuse(r) ==
    /\ withProveLock(r) /\ proof[r].st = "fetches"
    /\ Befalls(r) /\ EndsProof(r, "error")
    /\ UNCHANGED <<docVars, artifacts, halts, uninitialised>>

\* initPoseidon, after the artifacts are cached: when it fails they stay, and the next request that
\* finds them does not call it again.
initPoseidon(r) ==
    /\ withProveLock(r) /\ proof[r].st = "initialises"
    /\ \/ poseidonReady' = TRUE /\ Moves(r, "proves") /\ UNCHANGED <<proveQueue, mishaps, hit, uninitialised>>
       \/ Befalls(r) /\ uninitialised' = TRUE /\ EndsProof(r, "error") /\ UNCHANGED poseidonReady
    /\ UNCHANGED <<docVars, reveals, shielded, scanVerified, halts>>

\* fullProve; a reveal hashes before it proves and throws without Poseidon.
Prove(r) ==
    LET reveal == proof[r].kind = "reveal"
        key == IF reveal /\ ~(proof[r].net \in reveals) THEN CHOOSE n \in reveals : TRUE ELSE proof[r].net
    IN /\ withProveLock(r) /\ proof[r].st = "proves"
       /\ \/ /\ reveal => poseidonReady
             /\ proof' = [proof EXCEPT ![r].st = "done", ![r].key = key]
             /\ proveQueue' = Tail(proveQueue)
             /\ UNCHANGED <<mishaps, hit>>
          \/ reveal /\ ~poseidonReady /\ EndsProof(r, "error") /\ UNCHANGED <<mishaps, hit>>
          \/ Befalls(r) /\ EndsProof(r, "error")
       /\ UNCHANGED <<docVars, artifacts, halts, uninitialised>>

Runs(r) == Load(r) \/ Verified(r) \/ Refuse(r) \/ initPoseidon(r) \/ Prove(r)
OffscreenNext ==
    \/ Created \/ WorkerStops
    \/ \E r \in Proofs : Ask(r) \/ ensureOffscreen(r) \/ Runs(r)

OffscreenSpec == OffscreenInit /\ [][OffscreenNext]_offscreenVars

----------------------------------------------------------------------------
\* "Each prove path evicts the other so the two ~30MB blobs are never both resident": whatever order
\* requests of both kinds arrive in and whichever of their loads fail.
NeverBothResident == ~(shielded /\ reveals # {})

\* "a testnet proof can never be built against the mainnet key or vice versa"
KeyOfItsNetwork == \A r \in Proofs : proof[r].key \in {None, proof[r].net}

\* A request fails only for a mishap of its own: the queue, the eviction and the shared creation of the
\* document pass no failure on, but for a failed initPoseidon, whose artifacts stay cached, and a
\* document that the worker asked for before it stopped.
FailsAlone ==
    \A r \in Proofs : proof[r].st = "error" =>
        r \in hit \/ halts > 0 \/ (uninitialised /\ proof[r].kind = "reveal")

\* Every request is answered in the end, or its worker stopped.
ProofAnswered == <>[](\A r \in Proofs : proof[r].st \in {"new", "done", "error", "lost"})

\* The requests that share the document do each other no harm.
ProverSafe == NeverBothResident /\ KeyOfItsNetwork /\ FailsAlone
=============================================================================
