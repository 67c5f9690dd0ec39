---------------------------- MODULE WalletProofs ----------------------------
(***************************************************************************)
(* The shielded wallet of the worker and the offscreen document that       *)
(* proves for it: what holds for any notes, proofs and networks.           *)
(***************************************************************************)
EXTENDS ShieldedWallet, Offscreen, Sums

Running == {"fetches", "initialises", "proves"}
ProofStates == {"new", "asks", "awaits", "queued", "error", "lost", "done"} \cup Running
ProofRequests == [st : ProofStates, kind : ProofKinds \cup {None}, net : Nets \cup {None}, key : Nets \cup {None}]

OffscreenTyped ==
    /\ proof \in [Proofs -> ProofRequests]
    /\ document \in BOOLEAN /\ creating \in BOOLEAN  /\ proveQueue \in Seq(Proofs)
    /\ reveals \subseteq Nets /\ shielded \in BOOLEAN /\ scanVerified \in BOOLEAN /\ poseidonReady \in BOOLEAN
    /\ halts \in Nat /\ uninitialised \in BOOLEAN

(* What runs is the first of the queue, and what it loaded stays there.    *)
OnlyFirstRuns == \A r \in Proofs : proof[r].st \in Running => withProveLock(r)
(* A request has a kind and a network from its start.                      *)
Named == \A r \in Proofs : proof[r].st # "new" => proof[r].kind \in ProofKinds /\ proof[r].net \in Nets
(* What a step of a proof has loaded before it.                            *)
Loaded ==
    \A r \in Proofs :
        /\ proof[r].st = "fetches" =>
              /\ proof[r].kind = "reveal" => ~shielded
              /\ proof[r].kind = "spend" => reveals = {}
        /\ proof[r].st = "initialises" => proof[r].kind = "reveal"
        /\ proof[r].st \in {"initialises", "proves"} /\ proof[r].kind = "reveal" => proof[r].net \in reveals
        /\ proof[r].st = "proves" /\ proof[r].kind = "reveal" => poseidonReady \/ uninitialised
(* A key stays without Poseidon only after a failed initialisation.        *)
Initialised ==
    reveals # {} => poseidonReady \/ uninitialised \/ \E r \in Proofs : proof[r].st = "initialises"
(* As long as no worker stopped, one document is created once.             *)
CreatedOnce ==
    halts = 0 => /\ creating => creations = <<TRUE>> /\ ~document
                 /\ ~creating => creations = <<>>
ProverKept ==
    /\ OffscreenTyped /\ OnlyFirstRuns /\ Named /\ Loaded /\ Initialised /\ CreatedOnce
    /\ NeverBothResident /\ KeyOfItsNetwork /\ FailsAlone

(* A finite set put in some order.                                         *)
LEMMA SetToSeqType == ASSUME NEW S, IsFiniteSet(S) PROVE SetToSeq(S) \in Seq(S)
<1>1. ExistsBijection(1..Cardinality(S), S) /\ Cardinality(S) \in Nat
  BY FS_CardinalityType
<1>2. PICK f \in [1..Cardinality(S) -> S] : IsInjective(f)
  <2>1. PICK f : f \in Bijection(1..Cardinality(S), S)
    BY <1>1 DEF ExistsBijection
  <2>2. f \in [1..Cardinality(S) -> S] /\ IsInjective(f)
    BY <2>1 DEF Bijection, Injection, IsInjective
  <2> QED
    BY <2>2
<1>3. SetToSeq(S) \in [1..Cardinality(S) -> S]
  BY <1>2 DEF SetToSeq
<1> QED
  BY <1>1, <1>3

LEMMA HeadOne ==
    ASSUME NEW x
    PROVE  Head(<<x>>) = x /\ Tail(<<x>>) = <<>> /\ Append(<<>>, x) = <<x>>
  OBVIOUS

LEMMA HeadStays ==
    ASSUME NEW S, NEW q \in Seq(S), NEW p \in Seq(S), q # <<>>
    PROVE  q \o p # <<>> /\ Head(q \o p) = Head(q) /\ \A x \in S : Append(q, x) # <<>> /\ Head(Append(q, x)) = Head(q)
  OBVIOUS

(* A request that changes its state                                        *)
LEMMA MovesTo ==
    ASSUME OffscreenTyped, NEW r \in Proofs, NEW st \in ProofStates, Moves(r, st)
    PROVE  /\ proof' \in [Proofs -> ProofRequests]
           /\ \A s \in Proofs \ {r} : proof'[s] = proof[s]
           /\ proof'[r].st = st /\ proof'[r].kind = proof[r].kind
           /\ proof'[r].net = proof[r].net /\ proof'[r].key = proof[r].key
  BY DEF OffscreenTyped, ProofRequests, Moves

(* Requests that change their state together                               *)
MoveAll(S, st) == proof' = [r \in Proofs |-> IF r \in S THEN [proof[r] EXCEPT !.st = st] ELSE proof[r]]

LEMMA MoveTogether ==
    ASSUME OffscreenTyped, NEW S \in SUBSET Proofs, NEW st \in ProofStates, MoveAll(S, st)
    PROVE  /\ proof' \in [Proofs -> ProofRequests]
           /\ \A r \in Proofs : /\ proof'[r].kind = proof[r].kind /\ proof'[r].net = proof[r].net
                                /\ proof'[r].key = proof[r].key
                                /\ proof'[r].st = IF r \in S THEN st ELSE proof[r].st
<1>1. ASSUME NEW x \in ProofRequests
      PROVE  /\ [x EXCEPT !.st = st] \in ProofRequests /\ [x EXCEPT !.st = st].st = st
             /\ [x EXCEPT !.st = st].kind = x.kind /\ [x EXCEPT !.st = st].net = x.net
             /\ [x EXCEPT !.st = st].key = x.key
  BY DEF ProofRequests
<1>2. ASSUME NEW r \in Proofs
      PROVE  proof[r] \in ProofRequests /\ proof'[r] = IF r \in S THEN [proof[r] EXCEPT !.st = st] ELSE proof[r]
  BY DEF OffscreenTyped, MoveAll
<1>3. ASSUME NEW r \in Proofs
      PROVE  /\ proof'[r] \in ProofRequests
             /\ proof'[r].kind = proof[r].kind /\ proof'[r].net = proof[r].net /\ proof'[r].key = proof[r].key
             /\ proof'[r].st = IF r \in S THEN st ELSE proof[r].st
  <2>1. CASE r \in S
    <3>1. proof[r] \in ProofRequests /\ proof'[r] = [proof[r] EXCEPT !.st = st]
      BY <1>2, <2>1, Zenon
    <3> QED
      BY <1>1, <2>1, <3>1
  <2>2. CASE r \notin S
    BY <1>2, <2>2
  <2> QED
    BY <2>1, <2>2
<1>4. proof' = [r \in Proofs |-> proof'[r]]
  BY Zenon DEF MoveAll
<1> QED
  BY <1>3, <1>4

(* While a request runs under the lock, no other does.                     *)
LEMMA RunsAlone ==
    ASSUME ProverKept, NEW r \in Proofs, withProveLock(r)
    PROVE  \A s \in Proofs \ {r} : proof[s].st \notin Running
  BY DEF ProverKept, OnlyFirstRuns, withProveLock

(* The worker's steps leave what runs alone. *)
LEMMA OthersKeep ==
    ASSUME ProverKept, OffscreenTyped', UNCHANGED artifacts,
           \A r \in Proofs : proof'[r].kind = proof[r].kind /\ proof'[r].net = proof[r].net /\ proof'[r].key = proof[r].key,
           \A r \in Proofs : proof'[r].st \in Running \/ proof[r].st \in Running => proof'[r].st = proof[r].st,
           \A r \in Proofs : proof'[r].st # "new" => proof[r].st # "new",
           \A r \in Proofs : proof[r].st \in Running => withProveLock(r)',
           uninitialised' = uninitialised, CreatedOnce', FailsAlone'
    PROVE  ProverKept'
<1>1. OnlyFirstRuns' /\ Named' /\ NeverBothResident' /\ KeyOfItsNetwork'
  BY DEF ProverKept, OnlyFirstRuns, Named, NeverBothResident, KeyOfItsNetwork,
     artifacts
<1>2. Loaded'
  <2> SUFFICES ASSUME NEW r \in Proofs, proof'[r].st \in Running
               PROVE  /\ proof[r].st = proof'[r].st /\ proof'[r].kind = proof[r].kind /\ proof'[r].net = proof[r].net
    BY DEF ProverKept, Loaded, artifacts, Running
  <2> QED
    OBVIOUS
<1>3. Initialised'
  <2>1. ASSUME NEW r \in Proofs, proof[r].st = "initialises" PROVE proof'[r].st = "initialises"
    BY <2>1 DEF Running
  <2> QED
    BY <2>1 DEF ProverKept, Initialised, artifacts
<1> QED
  BY <1>1, <1>2, <1>3 DEF ProverKept

LEMMA EnsureKeeps ==
    ASSUME ProverKept, NEW r \in Proofs, ensureOffscreen(r)
    PROVE  ProverKept'
<1> USE DEF ProverKept
<1>1. proof[r].st = "asks" /\ UNCHANGED artifacts /\ UNCHANGED history
  BY DEF ensureOffscreen
<1>2. CASE document
  <2>1. Moves(r, "queued") /\ proveQueue' = Append(proveQueue, r) /\ UNCHANGED docVars
    BY <1>2 DEF ensureOffscreen
  <2>2. proveQueue' \in Seq(Proofs) /\ \A s \in Proofs : withProveLock(s) => withProveLock(s)'
    BY <2>1, HeadStays DEF withProveLock, OffscreenTyped
  <2>3. OffscreenTyped'
    BY <1>1, <2>1, <2>2, MovesTo DEF OffscreenTyped, ProofStates, artifacts,
       history, docVars
  <2>4. CreatedOnce'
    BY <1>1, <2>1 DEF CreatedOnce, history, docVars
  <2>5. FailsAlone'
    BY <1>1, <2>1, MovesTo DEF FailsAlone, history, ProofStates
  <2> QED
    BY <1>1, <2>1, <2>2, <2>3, <2>4, <2>5, MovesTo, OthersKeep DEF OnlyFirstRuns,
       ProofStates, Running, history
<1>3. CASE ~document
  <2>1. /\ Moves(r, "awaits") /\ UNCHANGED <<proveQueue, document>> /\ creating' = TRUE
        /\ creations' = IF creating THEN creations ELSE Append(creations, TRUE)
    BY <1>3 DEF ensureOffscreen
  <2>3. OffscreenTyped'
    BY <1>1, <2>1, MovesTo DEF OffscreenTyped, ProofStates, artifacts, history
  <2>4. CreatedOnce'
    <3>1. Append(<<>>, TRUE) = <<TRUE>>
      BY HeadOne, Zenon
    <3> QED
      BY <1>1, <1>3, <2>1, <3>1 DEF CreatedOnce, history
  <2>5. FailsAlone'
    BY <1>1, <2>1, MovesTo DEF FailsAlone, history, ProofStates
  <2> QED
    BY <1>1, <2>1, <2>3, <2>4, <2>5, MovesTo, OthersKeep DEF OnlyFirstRuns,
       ProofStates, Running, history, withProveLock
<1> QED
  BY <1>2, <1>3

LEMMA ProofAsked == ASSUME ProverKept, NEW r \in Proofs, Ask(r) PROVE ProverKept'
<1> USE DEF ProverKept
<1>1. PICK k \in ProofKinds, n \in Nets : proof' = [proof EXCEPT ![r] = [st |-> "asks", kind |-> k, net |-> n, key |-> None]]
  BY DEF Ask
<1>2. proof[r].st = "new" /\ UNCHANGED <<docVars, proveQueue, artifacts, history>>
  BY DEF Ask
<1> DEFINE asked == [st |-> "asks", kind |-> k, net |-> n, key |-> None]
<1>3. /\ asked \in ProofRequests /\ asked.st = "asks" /\ asked.kind = k /\ asked.net = n /\ asked.key = None
  BY DEF ProofRequests, ProofStates
<1>4. proof' = [proof EXCEPT ![r] = asked]
  BY <1>1
<1> HIDE DEF asked
<1>5. OffscreenTyped'
  BY <1>2, <1>3, <1>4 DEF OffscreenTyped, docVars, artifacts, history
<1>6. proof'[r] = asked /\ \A s \in Proofs \ {r} : proof'[s] = proof[s]
  BY <1>4 DEF OffscreenTyped
<1>7. OnlyFirstRuns' /\ Named' /\ NeverBothResident' /\ KeyOfItsNetwork' /\ FailsAlone' /\ CreatedOnce'
  BY <1>2, <1>3, <1>6 DEF OnlyFirstRuns, Named, NeverBothResident, KeyOfItsNetwork,
     FailsAlone, CreatedOnce, artifacts, history,
     docVars, withProveLock, Running
<1>8. Loaded' /\ Initialised'
  BY <1>2, <1>3, <1>6 DEF Loaded, Initialised, artifacts, history
<1> QED
  BY <1>5, <1>7, <1>8

LEMMA CreatedKeeps == ASSUME ProverKept, Created PROVE ProverKept'
<1> USE DEF ProverKept
<1>1. /\ creations # <<>> /\ creations' = Tail(creations) /\ document' = TRUE /\ UNCHANGED artifacts /\ UNCHANGED history
  BY DEF Created
<1>3. CASE ~Head(creations)
  <2>1. UNCHANGED <<creating, proof, proveQueue>>
    BY <1>3 DEF Created
  <2>2. OffscreenTyped'
    BY <1>1, <2>1 DEF OffscreenTyped, artifacts, history
  <2>3. halts # 0
    <3>1. Head(<<TRUE>>) = TRUE
      BY HeadOne, Zenon
    <3> QED
      BY <1>1, <1>3, <3>1 DEF CreatedOnce
  <2>4. CreatedOnce' /\ FailsAlone'
    BY <1>1, <2>1, <2>3 DEF CreatedOnce, FailsAlone, history
  <2> QED
    BY <1>1, <2>1, <2>2, <2>4, OthersKeep DEF OnlyFirstRuns, history, withProveLock
<1>4. CASE Head(creations)
  <2>1. /\ creating' = FALSE
        /\ proof' = [r \in Proofs |->
                  IF r \in Awaiting THEN [proof[r] EXCEPT !.st = IF document THEN "error" ELSE "queued"]
                  ELSE proof[r]]
        /\ proveQueue' = IF document THEN proveQueue ELSE proveQueue \o SetToSeq(Awaiting)
    BY <1>4 DEF Created
  <2>2. /\ proof' \in [Proofs -> ProofRequests]
        /\ \A r \in Proofs : /\ proof'[r].kind = proof[r].kind /\ proof'[r].net = proof[r].net /\ proof'[r].key = proof[r].key
                             /\ proof'[r].st = IF proof[r].st = "awaits" THEN IF document THEN "error" ELSE "queued"
                                               ELSE proof[r].st
    <3>1. PICK st \in ProofStates : st = IF document THEN "error" ELSE "queued"
      BY DEF ProofStates
    <3>2. OffscreenTyped /\ MoveAll(Awaiting, st)
      BY <2>1, <3>1 DEF MoveAll
    <3>3. Awaiting \in SUBSET Proofs /\ \A r \in Proofs : r \in Awaiting <=> proof[r].st = "awaits"
      BY DEF Awaiting
    <3>4. /\ proof' \in [Proofs -> ProofRequests]
          /\ \A r \in Proofs : /\ proof'[r].kind = proof[r].kind /\ proof'[r].net = proof[r].net
                               /\ proof'[r].key = proof[r].key
                               /\ proof'[r].st = IF r \in Awaiting THEN st ELSE proof[r].st
      BY <3>2, <3>3, MoveTogether
    <3> QED
      BY <3>1, <3>3, <3>4
  <2>3. SetToSeq(Awaiting) \in Seq(Proofs)
    <3>1. Awaiting \subseteq Proofs /\ IsFiniteSet(Awaiting)
      BY OffscreenAssumption, FS_Subset DEF Awaiting
    <3> QED
      BY <3>1, SetToSeqType
  <2>4. proveQueue' \in Seq(Proofs) /\ \A s \in Proofs : withProveLock(s) => withProveLock(s)'
    BY <2>1, <2>3, HeadStays DEF withProveLock, OffscreenTyped
  <2>5. OffscreenTyped'
    BY <1>1, <2>1, <2>2, <2>4 DEF OffscreenTyped, artifacts, history
  <2>6. halts = 0 => creations = <<TRUE>> /\ ~document
    BY <1>1 DEF CreatedOnce
  <2>7. CreatedOnce'
    <3>1. Tail(<<TRUE>>) = <<>>
      BY HeadOne, Zenon
    <3> QED
      BY <1>1, <2>1, <2>6, <3>1 DEF CreatedOnce, history
  <2>8. FailsAlone'
    <3>0. halts # 0 => halts > 0
      BY DEF OffscreenTyped
    <3>1. halts > 0 \/ ~document
      BY <2>6, <3>0
    <3> QED
      BY <1>1, <2>2, <3>1 DEF FailsAlone, history
  <2> QED
    BY <1>1, <2>2, <2>4, <2>5, <2>7, <2>8, OthersKeep DEF OnlyFirstRuns, Running,
       history
<1> QED
  BY <1>3, <1>4

LEMMA StopKeeps == ASSUME ProverKept, WorkerStops PROVE ProverKept'
<1> USE DEF ProverKept
<1>1. /\ halts' = halts + 1 /\ creating' = FALSE /\ creations' = [k \in DOMAIN creations |-> FALSE]
      /\ proof' = [r \in Proofs |-> IF proof[r].st \in {"asks", "awaits"} THEN [proof[r] EXCEPT !.st = "lost"]
                                  ELSE proof[r]]
      /\ UNCHANGED <<document, proveQueue, artifacts, mishaps, hit, uninitialised>>
  BY DEF WorkerStops
<1>3. /\ proof' \in [Proofs -> ProofRequests]
      /\ \A r \in Proofs : /\ proof'[r].kind = proof[r].kind /\ proof'[r].net = proof[r].net /\ proof'[r].key = proof[r].key
                           /\ proof'[r].st = IF proof[r].st \in {"asks", "awaits"} THEN "lost" ELSE proof[r].st
  <2> DEFINE S == {r \in Proofs : proof[r].st \in {"asks", "awaits"}}
  <2>1. OffscreenTyped /\ MoveAll(S, "lost")
    BY <1>1 DEF MoveAll
  <2>2. "lost" \in ProofStates
    BY DEF ProofStates
  <2>3. S \in SUBSET Proofs /\ \A r \in Proofs : r \in S <=> proof[r].st \in {"asks", "awaits"}
    OBVIOUS
  <2> HIDE DEF S
  <2>4. /\ proof' \in [Proofs -> ProofRequests]
        /\ \A r \in Proofs : /\ proof'[r].kind = proof[r].kind /\ proof'[r].net = proof[r].net
                             /\ proof'[r].key = proof[r].key
                             /\ proof'[r].st = IF r \in S THEN "lost" ELSE proof[r].st
    BY <2>1, <2>2, <2>3, MoveTogether
  <2> QED
    BY <2>3, <2>4
<1>4. halts' \in Nat /\ halts' # 0 /\ halts' > 0
  BY <1>1 DEF OffscreenTyped
<1>5. OffscreenTyped'
  BY <1>1, <1>3, <1>4 DEF OffscreenTyped, artifacts
<1>6. CreatedOnce' /\ FailsAlone'
  BY <1>4 DEF CreatedOnce, FailsAlone
<1> QED
  BY <1>1, <1>3, <1>5, <1>6, OthersKeep DEF OnlyFirstRuns, Running, withProveLock

(* In the document, one request at a time. *)
LEMMA LoadKeeps == ASSUME ProverKept, NEW r \in Proofs, Load(r) PROVE ProverKept'
<1> USE DEF ProverKept
<1>1. /\ withProveLock(r) /\ proof[r].st = "queued" /\ UNCHANGED <<docVars, proveQueue, scanVerified, poseidonReady, history>>
      /\ proof[r].kind \in {"reveal", "spend", "scan"} /\ proof[r].net \in Nets
  BY OffscreenAssumption DEF Load, Named
<1> DEFINE cached == CASE proof[r].kind = "reveal" -> Cached(r) [] proof[r].kind = "spend" -> shielded [] proof[r].kind = "scan" -> scanVerified
           st == IF cached THEN "proves" ELSE "fetches"
<1>2. /\ Moves(r, st) /\ shielded' = (shielded /\ (cached \/ proof[r].kind # "reveal"))
      /\ reveals' = IF ~cached /\ proof[r].kind = "spend" THEN {} ELSE reveals
  BY DEF Load
<1>3. proof[r].kind = "reveal" => (cached <=> proof[r].net \in reveals)
  BY <1>1 DEF Cached
<1>4. proof[r].kind = "spend" => (cached <=> shielded)
  BY <1>1
<1>5. st \in {"proves", "fetches"} /\ (st = "proves" <=> cached)
  OBVIOUS
<1> HIDE DEF cached, st
<1>6. /\ proof' \in [Proofs -> ProofRequests] /\ \A s \in Proofs \ {r} : proof'[s] = proof[s]
      /\ proof'[r].st = st /\ proof'[r].kind = proof[r].kind
      /\ proof'[r].net = proof[r].net /\ proof'[r].key = proof[r].key
  BY <1>2, <1>5, MovesTo DEF ProofStates, Running
<1>7. \A s \in Proofs : proof[s].st \notin Running
  BY <1>1, RunsAlone DEF Running
<1>8. OffscreenTyped'
  BY <1>1, <1>2, <1>6 DEF OffscreenTyped, docVars, history
<1>9. OnlyFirstRuns'
  BY <1>1, <1>6, <1>7 DEF OnlyFirstRuns, withProveLock
<1>10. Named' /\ KeyOfItsNetwork'
  BY <1>1, <1>6 DEF Named, KeyOfItsNetwork
<1>11. NeverBothResident'
  BY <1>2 DEF NeverBothResident
<1>12. Initialised'
  BY <1>1, <1>2, <1>7 DEF Initialised, Running, history
<1>13. Loaded'
  <2>1. \A s \in Proofs \ {r} : proof'[s].st \notin Running
    BY <1>6, <1>7
  <2>2. st = "fetches" => (proof[r].kind = "reveal" => ~shielded') /\ (proof[r].kind = "spend" => reveals' = {})
    BY <1>2, <1>5
  <2>3. st = "proves" /\ proof[r].kind = "reveal" => proof[r].net \in reveals'
    BY <1>2, <1>3, <1>5
  <2>4. st = "proves" /\ proof[r].kind = "reveal" => poseidonReady' \/ uninitialised'
    BY <1>1, <2>3, <1>7, <1>3, <1>5 DEF Initialised, Running, history
  <2> QED
    BY <1>5, <1>6, <2>1, <2>2, <2>3, <2>4 DEF Loaded, Running
<1>14. CreatedOnce'
  BY <1>1 DEF CreatedOnce, docVars, history
<1>15. FailsAlone'
  BY <1>1, <1>5, <1>6 DEF FailsAlone, history
<1> QED
  BY <1>8, <1>9, <1>10, <1>11, <1>12, <1>13, <1>14, <1>15

LEMMA VerifiedKeeps ==
    ASSUME ProverKept, NEW r \in Proofs, Verified(r)
    PROVE  ProverKept'
<1> USE DEF ProverKept
<1>1. /\ withProveLock(r) /\ proof[r].st = "fetches" /\ UNCHANGED <<docVars, proveQueue, poseidonReady, history>>
      /\ proof[r].kind \in ProofKinds /\ proof[r].net \in Nets
  BY DEF Verified, Named
<1> DEFINE st == IF proof[r].kind = "reveal" /\ ~poseidonReady THEN "initialises" ELSE "proves"
<1>2. /\ Moves(r, st)
      /\ reveals' = IF proof[r].kind = "reveal" THEN reveals \cup {proof[r].net} ELSE reveals
      /\ shielded' = (shielded \/ proof[r].kind = "spend")
      /\ scanVerified' = (scanVerified \/ proof[r].kind = "scan")
  BY DEF Verified
<1>3. st \in {"proves", "initialises"} /\ (st = "initialises" <=> proof[r].kind = "reveal" /\ ~poseidonReady)
  OBVIOUS
<1> HIDE DEF st
<1>6. /\ proof' \in [Proofs -> ProofRequests] /\ \A s \in Proofs \ {r} : proof'[s] = proof[s]
      /\ proof'[r].st = st /\ proof'[r].kind = proof[r].kind
      /\ proof'[r].net = proof[r].net /\ proof'[r].key = proof[r].key
  BY <1>2, <1>3, MovesTo DEF ProofStates, Running
<1>7. \A s \in Proofs \ {r} : proof[s].st \notin Running /\ proof'[s].st \notin Running
  BY <1>1, <1>6, RunsAlone
<1>8. OffscreenTyped'
  BY <1>1, <1>2, <1>6 DEF OffscreenTyped, docVars, history
<1>9. OnlyFirstRuns'
  BY <1>1, <1>6, <1>7 DEF OnlyFirstRuns, withProveLock
<1>10. Named' /\ KeyOfItsNetwork'
  BY <1>1, <1>6 DEF Named, KeyOfItsNetwork
<1>11. NeverBothResident'
  BY <1>1, <1>2 DEF NeverBothResident, Loaded
<1>12. Initialised'
  BY <1>1, <1>2, <1>3, <1>6, <1>7 DEF Initialised, Running, history
<1>13. Loaded'
  BY <1>1, <1>2, <1>3, <1>6, <1>7 DEF Loaded, Running
<1>14. CreatedOnce'
  BY <1>1 DEF CreatedOnce, docVars, history
<1>15. FailsAlone'
  BY <1>1, <1>3, <1>6 DEF FailsAlone, history
<1> QED
  BY <1>8, <1>9, <1>10, <1>11, <1>12, <1>13, <1>14, <1>15

(* The end of a request leaves nothing running.                            *)
LEMMA EndKeeps ==
    ASSUME ProverKept, NEW r \in Proofs, withProveLock(r), NEW st \in {"done", "error"},
           proof' \in [Proofs -> ProofRequests], \A s \in Proofs \ {r} : proof'[s] = proof[s],
           proof'[r].st = st, proof'[r].kind = proof[r].kind, proof'[r].net = proof[r].net,
           proof'[r].key \in {None, proof[r].net}, proof[r].st # "new",
           proveQueue' = Tail(proveQueue), UNCHANGED docVars, UNCHANGED artifacts, halts' = halts,
           uninitialised' \in BOOLEAN, uninitialised => uninitialised', hit \subseteq hit',
           proof[r].st = "initialises" => uninitialised',
           st = "error" => r \in hit' \/ (uninitialised /\ proof[r].kind = "reveal")
    PROVE  ProverKept'
<1> USE DEF ProverKept
<1>1. \A s \in Proofs : proof'[s].st \notin Running
  BY RunsAlone DEF Running
<1>2. proveQueue' \in Seq(Proofs)
  BY DEF OffscreenTyped, withProveLock
<1>3. OffscreenTyped'
  BY <1>2 DEF OffscreenTyped, docVars, artifacts
<1>4. OnlyFirstRuns' /\ Loaded'
  BY <1>1 DEF OnlyFirstRuns, Loaded, Running
<1>5. Named' /\ KeyOfItsNetwork' /\ NeverBothResident'
  BY DEF Named, KeyOfItsNetwork, NeverBothResident, artifacts
<1>6. Initialised'
  <2>1. ASSUME NEW s \in Proofs, proof[s].st = "initialises" PROVE s = r
    BY <2>1, RunsAlone DEF Running
  <2> QED
    BY <2>1 DEF Initialised, artifacts
<1>7. CreatedOnce' /\ FailsAlone'
  BY DEF CreatedOnce, FailsAlone, docVars
<1> QED
  BY <1>3, <1>4, <1>5, <1>6, <1>7

LEMMA RefuseKeeps ==
    ASSUME ProverKept, NEW r \in Proofs, Refuse(r)
    PROVE  ProverKept'
<1>1. /\ withProveLock(r) /\ proof[r].st = "fetches" /\ Moves(r, "error") /\ proveQueue' = Tail(proveQueue)
      /\ UNCHANGED <<docVars, artifacts, halts, uninitialised>> /\ hit' = hit \cup {r}
  BY DEF Refuse, Befalls, EndsProof
<1>2. OffscreenTyped /\ proof[r].key \in {None, proof[r].net}
  BY DEF ProverKept, KeyOfItsNetwork
<1> QED
  BY <1>1, <1>2, MovesTo, EndKeeps DEF OffscreenTyped, ProofStates

LEMMA InitKeeps ==
    ASSUME ProverKept, NEW r \in Proofs, initPoseidon(r)
    PROVE  ProverKept'
<1> USE DEF ProverKept
<1>1. withProveLock(r) /\ proof[r].st = "initialises" /\ UNCHANGED <<docVars, reveals, shielded, scanVerified, halts>>
  BY DEF initPoseidon
<1>2. OffscreenTyped /\ proof[r].key \in {None, proof[r].net}
  BY DEF KeyOfItsNetwork
<1>3. CASE poseidonReady' = TRUE /\ Moves(r, "proves") /\ UNCHANGED <<proveQueue, mishaps, hit, uninitialised>>
  <2>6. /\ proof' \in [Proofs -> ProofRequests] /\ \A s \in Proofs \ {r} : proof'[s] = proof[s]
        /\ proof'[r].st = "proves" /\ proof'[r].kind = proof[r].kind
        /\ proof'[r].net = proof[r].net /\ proof'[r].key = proof[r].key
    BY <1>3, MovesTo DEF ProofStates, Running
  <2>7. \A s \in Proofs \ {r} : proof[s].st \notin Running /\ proof'[s].st \notin Running
    BY <1>1, <2>6, RunsAlone
  <2>8. OffscreenTyped'
    BY <1>1, <1>3, <2>6 DEF OffscreenTyped, docVars
  <2>9. OnlyFirstRuns'
    BY <1>1, <1>3, <2>6, <2>7 DEF OnlyFirstRuns, withProveLock
  <2>10. Named' /\ KeyOfItsNetwork' /\ NeverBothResident'
    BY <1>1, <2>6 DEF Named, KeyOfItsNetwork, NeverBothResident
  <2>11. Initialised'
    BY <1>3 DEF Initialised
  <2>12. Loaded'
    BY <1>1, <1>3, <2>6, <2>7 DEF Loaded, Running
  <2>13. CreatedOnce' /\ FailsAlone'
    BY <1>1, <1>3, <2>6 DEF CreatedOnce, FailsAlone, docVars
  <2> QED
    BY <2>8, <2>9, <2>10, <2>11, <2>12, <2>13
<1>4. CASE Befalls(r) /\ uninitialised' = TRUE /\ EndsProof(r, "error") /\ UNCHANGED poseidonReady
  <2>1. Moves(r, "error") /\ proveQueue' = Tail(proveQueue) /\ hit' = hit \cup {r}
    BY <1>4 DEF Befalls, EndsProof
  <2> QED
    BY <1>1, <1>2, <1>4, <2>1, MovesTo, EndKeeps DEF ProofStates, artifacts
<1> QED
  BY <1>3, <1>4 DEF initPoseidon

LEMMA ProveKeeps == ASSUME ProverKept, NEW r \in Proofs, Prove(r) PROVE ProverKept'
<1> USE DEF ProverKept
<1> DEFINE key == IF proof[r].kind = "reveal" /\ ~(proof[r].net \in reveals) THEN CHOOSE n \in reveals : TRUE ELSE proof[r].net
<1>1. withProveLock(r) /\ proof[r].st = "proves" /\ UNCHANGED <<docVars, artifacts, halts, uninitialised>>
  BY DEF Prove
<1>2. /\ OffscreenTyped /\ proof[r].key \in {None, proof[r].net} /\ proof[r].net \in Nets
      /\ proof[r].kind = "reveal" => proof[r].net \in reveals /\ (poseidonReady \/ uninitialised)
  BY <1>1 DEF KeyOfItsNetwork, Named, Loaded
<1>3. key = proof[r].net
  BY <1>2
<1>4. CASE proof' = [proof EXCEPT ![r].st = "done", ![r].key = key] /\ proveQueue' = Tail(proveQueue) /\ hit' = hit
  <2>1. proof' = [proof EXCEPT ![r].st = "done", ![r].key = proof[r].net]
    BY <1>3, <1>4
  <2>2. /\ proof' \in [Proofs -> ProofRequests] /\ \A s \in Proofs \ {r} : proof'[s] = proof[s]
        /\ proof'[r].st = "done" /\ proof'[r].kind = proof[r].kind
        /\ proof'[r].net = proof[r].net /\ proof'[r].key = proof[r].net
    BY <1>2, <2>1 DEF OffscreenTyped, ProofRequests, ProofStates
  <2> QED
    BY <1>1, <1>2, <1>4, <2>2, EndKeeps DEF OffscreenTyped
<1>5. ASSUME EndsProof(r, "error"), hit \subseteq hit', r \in hit' \/ (proof[r].kind = "reveal" /\ ~poseidonReady) PROVE ProverKept'
  <2>1. Moves(r, "error") /\ proveQueue' = Tail(proveQueue)
    BY <1>5 DEF EndsProof
  <2> QED
    BY <1>1, <1>2, <1>5, <2>1, MovesTo, EndKeeps DEF ProofStates, OffscreenTyped
<1> QED
  BY <1>4, <1>5 DEF Prove, Befalls

(* background/index.ts and offscreen.ts: for any proofs asked for on any   *)
(* networks, over a worker that stops and documents that are created       *)
(* twice: the big keys are never resident together, a proof is made with   *)
(* the key of its network, and a proof that fails takes no other with it.  *)
THEOREM ProverHolds == OffscreenSpec => []ProverSafe
<1>1. OffscreenInit => ProverKept
  <2> SUFFICES ASSUME OffscreenInit PROVE ProverKept
    OBVIOUS
  <2>1. proof \in [Proofs -> ProofRequests] /\ \A r \in Proofs : proof[r].st = "new" /\ proof[r].key = None
    BY DEF OffscreenInit, ProofRequests, ProofStates
  <2>2. document = FALSE /\ creating = FALSE /\ shielded = FALSE /\ scanVerified = FALSE /\ poseidonReady = FALSE
        /\ uninitialised = FALSE
    BY DEF OffscreenInit
  <2>3. OffscreenTyped
    <3>1. /\ document \in BOOLEAN /\ creating \in BOOLEAN /\ shielded \in BOOLEAN /\ scanVerified \in BOOLEAN
          /\ poseidonReady \in BOOLEAN /\ uninitialised \in BOOLEAN
      BY <2>2, Zenon
    <3>2. proveQueue \in Seq(Proofs) /\ reveals \subseteq Nets /\ halts \in Nat
      BY DEF OffscreenInit
    <3> QED
      BY <2>1, <3>1, <3>2 DEF OffscreenTyped
  <2> QED
    BY <2>1, <2>2, <2>3 DEF OffscreenInit, ProverKept, OnlyFirstRuns, Named,
       Loaded, Initialised, CreatedOnce, NeverBothResident,
             KeyOfItsNetwork, FailsAlone, Running
<1>2. ProverKept /\ [OffscreenNext]_offscreenVars => ProverKept'
  <2> SUFFICES ASSUME ProverKept, [OffscreenNext]_offscreenVars PROVE ProverKept'
    OBVIOUS
  <2>1. CASE UNCHANGED offscreenVars
    BY <2>1 DEF offscreenVars, docVars, artifacts, history, ProverKept,
       OffscreenTyped, OnlyFirstRuns, Named, Loaded, Initialised,
       CreatedOnce, NeverBothResident, KeyOfItsNetwork, FailsAlone, withProveLock
  <2> QED
    BY <2>1, ProofAsked, EnsureKeeps, CreatedKeeps, StopKeeps, LoadKeeps,
       VerifiedKeeps, RefuseKeeps, InitKeeps, ProveKeeps
          DEF OffscreenNext, Runs
<1>3. ProverKept => ProverSafe
  BY DEF ProverKept, ProverSafe
<1> QED
  BY <1>1, <1>2, <1>3, PTL DEF OffscreenSpec

-----------------------------------------------------------------------------
(* The wallet *)

(* Sums over plans are sums of functions of them.  *)
OwnIn(pl, N) == MapThenSumSet(LAMBDA n : pl[n].own, N)
PayIn(pl, N) == MapThenSumSet(LAMBDA n : pl[n].pay, N)
OwnOf(pl) == [p \in DOMAIN pl |-> pl[p].own]
PayOf(pl) == [p \in DOMAIN pl |-> pl[p].pay]

\* The inputs of the plans P
Ins(pl, P) == UNION {pl[p].inputs : p \in P}

Results == {"none", "hash", "already-submitted", "error"}
Made == [op : {"receive", "shield", "send", "unshield"}, inputs : SUBSET Nat, pay : Nat, own : Nat]
Splits == [state : {"off", "on", "done"}, goal : Nat, left : Nat, chunks : SUBSET Nat, quoted : Nat,
           dearer : BOOLEAN, crossed : BOOLEAN]
SplitTyped == split \in Splits /\ split.left <= split.goal /\ split.chunks \subseteq Plans

Busy == {"submit", "await", "check", "add", "mark"}

WalletTyped ==
    /\ plans \in Seq(Made) /\ \A p \in Plans : plans[p].inputs \subseteq Plans
    /\ result \in Seq(Results) /\ Len(result) = Len(plans)
    /\ chain \in Seq(Nat) /\ Landed \subseteq Plans /\ indexed \in 0..Len(chain)
    /\ pending \subseteq Plans \ Landed
    /\ spent \subseteq known /\ known \subseteq Own(Plans)
    /\ pc \in Busy \cup {"idle"} /\ cur \in 0..Len(plans) /\ (pc # "idle" => cur \in Plans)
    /\ outcome \in {"hash", "already-submitted"}
    /\ SplitTyped
    /\ faults \in 0..MaxFaults

(* What the operation that holds the lock has done, and what was reported. *)
Stages ==
    /\ pc = "submit" => cur \notin Landed \cup pending
    /\ pc \in {"add", "mark"} /\ outcome = "hash" => cur \in Landed
    /\ pc = "mark" => Own({cur}) \subseteq known
    /\ pc # "idle" => result[cur] = "none"

(* What was taken for another payment over its note can land no more. *)
Taken ==
    /\ \A p \in Plans : result[p] = "already-submitted" => plans[p].inputs \cap Nullified # {}
    /\ pc \in {"add", "mark"} /\ outcome = "already-submitted" => plans[cur].inputs \cap Nullified # {}

(* The inputs of an operation that has landed and is not recorded yet. *)
Unrecorded == IF pc # "idle" /\ cur \in Landed THEN plans[cur].inputs ELSE {}

(* Without faults, the operation that holds the lock is the only one whose fate is open. *)
Honest ==
    /\ StoredNotesExist /\ MarkedIsSpent
    /\ \A p \in Plans : plans[p].inputs \subseteq known
    /\ \A p \in Plans : result[p] \in {"hash", "already-submitted"} => p \in Landed
    /\ pending \subseteq (IF pc = "await" THEN {cur} ELSE {})
    /\ pc \notin {"idle", "mark"} => cur \notin known
    /\ pc \in {"submit", "check"} => cur \notin Landed
    /\ pc \in {"add", "mark"} => cur \in Landed /\ outcome = "hash"
    /\ pc # "idle" => plans[cur].inputs \subseteq Unspent
    /\ Unspent \cap Nullified \subseteq Unrecorded

Chunks == split.chunks \cap Landed
(* What a chunk of the split moves, while it is under way and until it lands. *)
Moving == IF pc # "idle" /\ cur \in split.chunks /\ cur \notin Landed THEN plans[cur].pay ELSE 0
(* What the notes V can pay two by two, with the fee q for each pair *)
Pays(pl, V, q, left) == left <= OwnIn(pl, V) - q * ((Cardinality(V) + 1) \div 2)

Splitting ==
    /\ split.state = "done" => pc = "idle"
    /\ split.state # "off" => PayIn(plans, Chunks) + split.left + Moving = split.goal
    /\ split.state = "done" /\ ~split.dearer /\ ~split.crossed => split.left = 0
    /\ split.state = "on" /\ ~split.dearer /\ ~split.crossed =>
         \E V \in SUBSET Free : Pays(plans, V, split.quoted, split.left)

WalletKept ==
    /\ WalletTyped /\ Stages /\ Taken /\ HashMeansLanded /\ ChangeKept
    /\ faults = 0 => Honest /\ Splitting

-----------------------------------------------------------------------------
LEMMA TotalsAreSums ==
    /\ \A N : Total(N) = OwnIn(plans, N) /\ Paid(N) = PayIn(plans, N)
    /\ \A N : Total(N)' = OwnIn(plans', N) /\ Paid(N)' = PayIn(plans', N)
<1>1. \A N : Total(N) = OwnIn(plans, N) /\ Paid(N) = PayIn(plans, N)
  BY DEF Total, Paid, OwnIn, PayIn
<1>2. \A N : Total(N)' = OwnIn(plans', N) /\ Paid(N)' = PayIn(plans', N)
  BY DEF Total, Paid, OwnIn, PayIn, MapThenSumSet, MapThenFoldSet
<1> QED
  BY <1>1, <1>2

LEMMA OwnIsSum ==
    ASSUME NEW pl, NEW N \in SUBSET (DOMAIN pl), IsFiniteSet(N)
    PROVE  OwnIn(pl, N) = SumOf(OwnOf(pl), N)
<1> DEFINE w == OwnOf(pl)
           Form(g) == g = [s \in SUBSET N |-> IF s = {} THEN 0 ELSE pl[FirstOf(s)].own + g[s \ {FirstOf(s)}]]
           iter == CHOOSE g : Form(g)
<1>1. \A s \in SUBSET N : s # {} => w[FirstOf(s)] = pl[FirstOf(s)].own
  BY FirstIn DEF OwnOf
<1>2. OwnIn(pl, N) = iter[N]
  BY DEF OwnIn, MapThenSumSet, MapThenFoldSet, FirstOf
<1> HIDE DEF w
<1>3. \A g : Sums(g, w, SUBSET N) <=> Form(g)
  <2> TAKE g
  <2>1. \A s \in SUBSET N : (IF s = {} THEN 0 ELSE w[FirstOf(s)] + g[s \ {FirstOf(s)}])
                            = (IF s = {} THEN 0 ELSE pl[FirstOf(s)].own + g[s \ {FirstOf(s)}])
    BY <1>1, Zenon
  <2>2. [s \in SUBSET N |-> IF s = {} THEN 0 ELSE w[FirstOf(s)] + g[s \ {FirstOf(s)}]]
          = [s \in SUBSET N |-> IF s = {} THEN 0 ELSE pl[FirstOf(s)].own + g[s \ {FirstOf(s)}]]
    BY <2>1
  <2> QED
    BY <2>2, Zenon DEF Sums
<1>4. PICK h : Sums(h, w, SUBSET N) /\ SumOf(w, N) = h[N]
  BY SumIsSums
<1>5. Form(iter)
  <2>1. Form(h)
    BY <1>3, <1>4, Zenon
  <2> HIDE DEF Form
  <2> QED
    BY <2>1, Zenon
<1> HIDE DEF iter, Form
<1>6. Sums(iter, w, SUBSET N)
  BY <1>3, <1>5, Zenon
<1>7. iter[N] = h[N]
  <2>1. \A R : IsFiniteSet(R) /\ R \subseteq N /\ R \subseteq N => iter[R] = h[R]
    BY <1>4, <1>6, SumsAgree, SMTT(60)
  <2> QED
    BY <2>1, Zenon
<1> QED
  BY <1>2, <1>4, <1>7 DEF w

LEMMA PayIsSum ==
    ASSUME NEW pl, NEW N \in SUBSET (DOMAIN pl), IsFiniteSet(N)
    PROVE  PayIn(pl, N) = SumOf(PayOf(pl), N)
<1> DEFINE w == PayOf(pl)
           Form(g) == g = [s \in SUBSET N |-> IF s = {} THEN 0 ELSE pl[FirstOf(s)].pay + g[s \ {FirstOf(s)}]]
           iter == CHOOSE g : Form(g)
<1>1. \A s \in SUBSET N : s # {} => w[FirstOf(s)] = pl[FirstOf(s)].pay
  BY FirstIn DEF PayOf
<1>2. PayIn(pl, N) = iter[N]
  BY DEF PayIn, MapThenSumSet, MapThenFoldSet, FirstOf
<1> HIDE DEF w
<1>3. \A g : Sums(g, w, SUBSET N) <=> Form(g)
  <2> TAKE g
  <2>1. \A s \in SUBSET N : (IF s = {} THEN 0 ELSE w[FirstOf(s)] + g[s \ {FirstOf(s)}])
                            = (IF s = {} THEN 0 ELSE pl[FirstOf(s)].pay + g[s \ {FirstOf(s)}])
    BY <1>1, Zenon
  <2>2. [s \in SUBSET N |-> IF s = {} THEN 0 ELSE w[FirstOf(s)] + g[s \ {FirstOf(s)}]]
          = [s \in SUBSET N |-> IF s = {} THEN 0 ELSE pl[FirstOf(s)].pay + g[s \ {FirstOf(s)}]]
    BY <2>1
  <2> QED
    BY <2>2, Zenon DEF Sums
<1>4. PICK h : Sums(h, w, SUBSET N) /\ SumOf(w, N) = h[N]
  BY SumIsSums
<1>5. Form(iter)
  <2>1. Form(h)
    BY <1>3, <1>4, Zenon
  <2> HIDE DEF Form
  <2> QED
    BY <2>1, Zenon
<1> HIDE DEF iter, Form
<1>6. Sums(iter, w, SUBSET N)
  BY <1>3, <1>5, Zenon
<1>7. iter[N] = h[N]
  <2>1. \A R : IsFiniteSet(R) /\ R \subseteq N /\ R \subseteq N => iter[R] = h[R]
    BY <1>4, <1>6, SumsAgree, SMTT(60)
  <2> QED
    BY <2>1, Zenon
<1> QED
  BY <1>2, <1>4, <1>7 DEF w

\* Sequences of plans
Books == Seq(Made)

LEMMA PlansFinite == ASSUME NEW pl \in Books, NEW N \in SUBSET (DOMAIN pl) PROVE IsFiniteSet(N)
<1>1. DOMAIN pl = 1..Len(pl) /\ Len(pl) \in Nat
  BY DEF Books
<1>2. IsFiniteSet(1..Len(pl))
  BY <1>1, FS_Interval
<1> QED
  BY <1>1, <1>2, FS_Subset

LEMMA BookTypes ==
    ASSUME NEW pl \in Books
    PROVE  /\ \A p \in DOMAIN pl : OwnOf(pl)[p] \in Nat
           /\ \A p \in DOMAIN pl : PayOf(pl)[p] \in Nat
<1>1. DOMAIN pl = 1..Len(pl)
  BY DEF Books
<1>2. \A p \in 1..Len(pl) : pl[p] \in Made
  BY DEF Books
<1>3. \A p \in DOMAIN pl : pl[p].own \in Nat /\ pl[p].pay \in Nat
  BY <1>1, <1>2 DEF Made
<1> QED
  BY <1>3 DEF OwnOf, PayOf

LEMMA SumTypes ==
    ASSUME NEW pl \in Books
    PROVE  /\ \A N \in SUBSET (DOMAIN pl) : OwnIn(pl, N) \in Nat /\ PayIn(pl, N) \in Nat
           /\ OwnIn(pl, {}) = 0 /\ PayIn(pl, {}) = 0
<1>1. /\ \A p \in DOMAIN pl : OwnOf(pl)[p] \in Nat
      /\ \A p \in DOMAIN pl : PayOf(pl)[p] \in Nat
  BY BookTypes
<1>2. \A N \in SUBSET (DOMAIN pl) : IsFiniteSet(N)
  BY PlansFinite
<1>3. /\ \A N \in SUBSET (DOMAIN pl) : IsFiniteSet(N) => SumOf(OwnOf(pl), N) \in Nat
      /\ \A N \in SUBSET (DOMAIN pl) : IsFiniteSet(N) => SumOf(PayOf(pl), N) \in Nat
  <2>1. \A N \in SUBSET (DOMAIN pl) : IsFiniteSet(N) => SumOf(OwnOf(pl), N) \in Nat
    BY <1>1, SumNat, Zenon
  <2>2. \A N \in SUBSET (DOMAIN pl) : IsFiniteSet(N) => SumOf(PayOf(pl), N) \in Nat
    BY <1>1, SumNat, Zenon
  <2> QED
    BY <2>1, <2>2
<1>4. \A N \in SUBSET (DOMAIN pl) : OwnIn(pl, N) = SumOf(OwnOf(pl), N) /\ PayIn(pl, N) = SumOf(PayOf(pl), N)
  BY <1>2, OwnIsSum, PayIsSum
<1>5. OwnIn(pl, {}) = SumOf(OwnOf(pl), {}) /\ PayIn(pl, {}) = SumOf(PayOf(pl), {})
  BY <1>4
<1> QED
  BY <1>2, <1>3, <1>4, <1>5, SumEmpty

LEMMA OneMore ==
    ASSUME NEW pl \in Books, NEW N \in SUBSET (DOMAIN pl), NEW x \in DOMAIN pl, x \notin N
    PROVE  /\ OwnIn(pl, N \cup {x}) = pl[x].own + OwnIn(pl, N)
           /\ PayIn(pl, N \cup {x}) = pl[x].pay + PayIn(pl, N)
<1>1. /\ \A p \in DOMAIN pl : OwnOf(pl)[p] \in Int
      /\ \A p \in DOMAIN pl : PayOf(pl)[p] \in Int
  BY BookTypes
<1>2. IsFiniteSet(N) /\ IsFiniteSet(N \cup {x}) /\ N \cup {x} \in SUBSET (DOMAIN pl)
  BY PlansFinite
<1>3. SumOf(OwnOf(pl), N \cup {x}) = OwnOf(pl)[x] + SumOf(OwnOf(pl), N)
  BY <1>1, <1>2, SumAdd, Zenon
<1>4. SumOf(PayOf(pl), N \cup {x}) = PayOf(pl)[x] + SumOf(PayOf(pl), N)
  BY <1>1, <1>2, SumAdd, Zenon
<1>5. OwnOf(pl)[x] = pl[x].own /\ PayOf(pl)[x] = pl[x].pay
  BY DEF OwnOf, PayOf
<1> QED
  BY <1>2, <1>3, <1>4, <1>5, OwnIsSum, PayIsSum

LEMMA SumsSame ==
    ASSUME NEW pl \in Books, NEW ql \in Books, DOMAIN pl \subseteq DOMAIN ql,
           \A p \in DOMAIN pl : ql[p] = pl[p], NEW N \in SUBSET (DOMAIN pl)
    PROVE  OwnIn(ql, N) = OwnIn(pl, N) /\ PayIn(ql, N) = PayIn(pl, N)
<1>1. \A p \in DOMAIN pl : OwnOf(ql)[p] = OwnOf(pl)[p] /\ PayOf(ql)[p] = PayOf(pl)[p]
  BY DEF OwnOf, PayOf
<1>2. IsFiniteSet(N) /\ N \in SUBSET (DOMAIN ql)
  BY PlansFinite
<1>3. \A S \in SUBSET (DOMAIN pl) : IsFiniteSet(S) => SumOf(OwnOf(ql), S) = SumOf(OwnOf(pl), S)
  BY <1>1, SumSame, SMTT(60)
<1>4. \A S \in SUBSET (DOMAIN pl) : IsFiniteSet(S) => SumOf(PayOf(ql), S) = SumOf(PayOf(pl), S)
  BY <1>1, SumSame, SMTT(60)
<1> QED
  BY <1>2, <1>3, <1>4, OwnIsSum, PayIsSum

-----------------------------------------------------------------------------
LEMMA NullifiedIs ==
    /\ Nullified = Ins(plans, Landed) /\ Nullified' = Ins(plans', Landed')
    /\ InputsOf(Seen(indexed)) = Ins(plans, Seen(indexed))
    /\ InputsOf(Seen(indexed))' = Ins(plans', Seen(indexed)')
BY DEF Nullified, InputsOf, Ins

LEMMA PlanTypes ==
    ASSUME WalletTyped
    PROVE  /\ plans \in Books /\ DOMAIN plans = Plans /\ Len(plans) \in Nat /\ Plans \subseteq Nat
           /\ \A p \in Plans : plans[p] \in Made /\ plans[p].own \in Nat /\ plans[p].pay \in Nat
<1>1. plans \in Seq(Made)
  BY DEF WalletTyped
<1>2. \A p \in Plans : plans[p] \in Made
  BY <1>1 DEF Plans
<1> QED
  BY <1>1, <1>2 DEF Books, Plans, Made

LEMMA SplitTypes ==
    ASSUME WalletTyped
    PROVE  /\ split.state \in {"off", "on", "done"} /\ split.goal \in Nat /\ split.left \in Nat
           /\ split.chunks \subseteq Plans /\ split.quoted \in Nat
           /\ split.dearer \in BOOLEAN /\ split.crossed \in BOOLEAN
  BY DEF WalletTyped, SplitTyped, Splits

(* A plan is added. *)
LEMMA PlanAdded ==
    ASSUME WalletTyped, NEW x \in Made, x.inputs \subseteq Plans, NewPlan(x)
    PROVE  LET n == Len(plans) + 1 IN
           /\ Len(plans') = n /\ Plans' = Plans \cup {n} /\ n \in Nat \ Plans
           /\ plans' \in Seq(Made) /\ plans'[n] = x /\ \A p \in Plans : plans'[p] = plans[p]
           /\ \A p \in Plans' : plans'[p].inputs \subseteq Plans'
           /\ result' \in Seq(Results) /\ Len(result') = n
           /\ result'[n] = "none" /\ \A p \in Plans : result'[p] = result[p]
<1> DEFINE n == Len(plans) + 1
<1>1. plans' = Append(plans, x) /\ result' = Append(result, "none") /\ plans \in Seq(Made) /\ result \in Seq(Results)
      /\ Len(result) = Len(plans)
  BY DEF WalletTyped, NewPlan
<1>2. /\ Len(plans') = n /\ n \in Nat /\ plans' \in Seq(Made) /\ plans'[n] = x
      /\ \A p \in 1..Len(plans) : plans'[p] = plans[p]
  BY <1>1
<1>3. /\ result' \in Seq(Results) /\ Len(result') = n /\ result'[n] = "none"
      /\ \A p \in 1..Len(plans) : result'[p] = result[p]
  BY <1>1 DEF Results
<1>4. Plans' = Plans \cup {n} /\ n \notin Plans
  BY <1>1, <1>2 DEF Plans
<1>5. \A p \in Plans' : plans'[p].inputs \subseteq Plans'
  BY <1>2, <1>4 DEF Plans, WalletTyped
<1> QED
  BY <1>2, <1>3, <1>4, <1>5 DEF Plans

LEMMA InsSame ==
    ASSUME NEW pl, NEW ql, NEW P, \A p \in P : ql[p] = pl[p]
    PROVE  Ins(ql, P) = Ins(pl, P)
  BY DEF Ins

LEMMA Appended ==
    ASSUME WalletTyped, NEW p \in Nat, chain' = Append(chain, p), indexed' = indexed
    PROVE  /\ Landed' = Landed \cup {p} /\ chain' \in Seq(Nat)
           /\ indexed' \in 0..Len(chain') /\ Seen(indexed)' = Seen(indexed)
<1>1. chain \in Seq(Nat) /\ indexed \in 0..Len(chain)
  BY DEF WalletTyped
<1>2. /\ chain' \in Seq(Nat) /\ Len(chain') = Len(chain) + 1 /\ Len(chain) \in Nat
      /\ chain'[Len(chain) + 1] = p /\ \A k \in 1..Len(chain) : chain'[k] = chain[k]
  BY <1>1
<1>3. Landed' = Landed \cup {p}
  <2>1. 1..Len(chain') = 1..Len(chain) \cup {Len(chain) + 1}
    BY <1>2
  <2> QED
    BY <1>2, <2>1 DEF Landed
<1>4. Seen(indexed)' = Seen(indexed)
  BY <1>1, <1>2 DEF Seen
<1> QED
  BY <1>1, <1>2, <1>3, <1>4

LEMMA Quiet ==
    ASSUME UNCHANGED plans, UNCHANGED chain
    PROVE  /\ Plans' = Plans /\ Landed' = Landed /\ Nullified' = Nullified
           /\ Own(Plans)' = Own(Plans) /\ (UNCHANGED cur => Own({cur})' = Own({cur}))
           /\ (UNCHANGED split => Chunks' = Chunks)
  BY DEF Plans, Landed, Nullified, InputsOf, Own, Chunks

LEMMA SeenLanded == ASSUME WalletTyped PROVE Seen(indexed) \subseteq Landed /\ Ins(plans, Seen(indexed)) \subseteq Nullified
  BY DEF WalletTyped, Seen, Landed, Ins, Nullified, InputsOf

LEMMA LandKeeps ==
    ASSUME WalletKept, NEW p \in pending, Land(p)
    PROVE  WalletKept'
<1> USE DEF WalletKept
<1>1. /\ chain' = Append(chain, p) /\ pending' = pending \ {p} /\ p \in Plans /\ p \in Nat /\ p \notin Landed
      /\ UNCHANGED <<plans, indexed, known, spent, pc, cur, outcome, result, split, faults>>
  BY DEF Land, store, WalletTyped, Plans
<1>2. /\ Landed' = Landed \cup {p} /\ chain' \in Seq(Nat)
      /\ indexed' \in 0..Len(chain')
  BY <1>1, Appended
<1>3. Plans' = Plans /\ Own(Plans)' = Own(Plans) /\ Own({cur})' = Own({cur})
  BY <1>1 DEF Plans, Own
<1>4. WalletTyped'
  BY <1>1, <1>2, <1>3 DEF WalletTyped, SplitTyped
<1>5. Stages'
  BY <1>1, <1>2, <1>3 DEF Stages
<1>6. HashMeansLanded' /\ ChangeKept' /\ Taken'
  <2>1. HashMeansLanded'
    BY <1>1, <1>2, <1>3 DEF HashMeansLanded
  <2>2. Nullified \subseteq Nullified' /\ plans[p].inputs \cap Nullified = {}
    BY <1>1, <1>2 DEF Land, Nullified, InputsOf
  <2>3. Taken'
    BY <1>1, <1>3, <2>2 DEF Taken
  <2>4. ASSUME NEW n \in spent
        PROVE  \E q \in Plans : /\ n \in plans[q].inputs
                               /\ IF q \in Landed' THEN Own({q}) \subseteq known ELSE result[q] = "already-submitted"
    <3>1. PICK q \in Plans : /\ n \in plans[q].inputs
                            /\ IF q \in Landed THEN Own({q}) \subseteq known ELSE result[q] = "already-submitted"
      BY <2>4 DEF ChangeKept
    <3>2. q \notin Landed => q # p
      BY <2>2, <3>1 DEF Taken
    <3> QED
      BY <1>2, <3>1, <3>2
  <2>5. ChangeKept'
    BY <1>1, <1>3, <2>4 DEF ChangeKept, Own
  <2> QED
    BY <2>1, <2>3, <2>5
<1>7. ASSUME faults = 0 PROVE Honest' /\ Splitting'
  <2>1. pc = "await" /\ p = cur
    BY <1>7 DEF Honest
  <2>2. Nullified' = Nullified \cup plans[cur].inputs
    BY <1>1, <1>2, <2>1 DEF Nullified, InputsOf
  <2>3. Unspent' = Unspent /\ Unrecorded' = plans[cur].inputs /\ Unrecorded = {}
    BY <1>1, <1>2, <2>1 DEF Unspent, Unrecorded
  <2>4. Honest'
    BY <1>1, <1>2, <1>3, <1>7, <2>1, <2>2, <2>3 DEF Honest, StoredNotesExist, MarkedIsSpent
  <2>5. Splitting'
    <3>1. Free' = Free
      BY <1>1 DEF Free, Unspent
    <3>2. CASE split.state = "off"
      BY <1>1, <3>2 DEF Splitting
    <3>3. CASE split.state # "off" /\ cur \notin split.chunks
      <4>1. Chunks' = Chunks /\ Moving' = Moving
        BY <1>1, <1>2, <2>1, <3>3 DEF Chunks, Moving
      <4> QED
        BY <1>1, <1>7, <3>1, <4>1 DEF Splitting
    <3>4. CASE split.state # "off" /\ cur \in split.chunks
      <4>1. split.state # "done"
        BY <1>7, <2>1 DEF Splitting
      <4>2. Chunks' = Chunks \cup {cur} /\ cur \notin Chunks /\ Chunks \in SUBSET Plans
        BY <1>1, <1>2, <2>1, <3>4 DEF Chunks, WalletTyped
      <4>3. DOMAIN plans = Plans /\ plans \in Books
        BY DEF WalletTyped, Plans, Books
      <4>4. PayIn(plans, Chunks \cup {cur}) = plans[cur].pay + PayIn(plans, Chunks)
        BY <1>1, <2>1, <4>2, <4>3, OneMore
      <4>5. PayIn(plans, Chunks) \in Nat /\ plans[cur].pay \in Nat /\ split.left \in Nat
        BY <1>1, <2>1, <4>2, <4>3, SumTypes, PlanTypes, SplitTypes
      <4>6. PayIn(plans, Chunks) + split.left + plans[cur].pay = split.goal
        BY <1>1, <1>7, <2>1, <3>4 DEF Splitting, Moving
      <4>7. Moving' = 0
        BY <1>1, <1>2, <2>1 DEF Moving
      <4>8. PayIn(plans', Chunks') + split'.left + Moving' = split'.goal
        BY <1>1, <4>2, <4>4, <4>5, <4>6, <4>7
      <4> QED
        BY <1>1, <1>7, <2>1, <3>1, <4>1, <4>8 DEF Splitting
    <3> QED
      BY <3>2, <3>3, <3>4
  <2> QED
    BY <2>4, <2>5
<1> QED
  BY <1>1, <1>4, <1>5, <1>6, <1>7

LEMMA DropKeeps ==
    ASSUME WalletKept, NEW p \in pending, Drop(p)
    PROVE  WalletKept'
<1> USE DEF WalletKept
<1>1. /\ pending' = pending \ {p}
      /\ UNCHANGED <<plans, chain, indexed, known, spent, pc, cur, outcome, result, split, faults>>
  BY DEF Drop, store
<1>2. /\ Plans' = Plans /\ Landed' = Landed /\ Nullified' = Nullified
      /\ Own(Plans)' = Own(Plans) /\ Own({cur})' = Own({cur}) /\ Chunks' = Chunks
  BY <1>1, Quiet
<1>3. WalletTyped'
  BY <1>1, <1>2 DEF WalletTyped, SplitTyped
<1>4. Stages'
  BY <1>1, <1>2 DEF Stages
<1>5. HashMeansLanded' /\ ChangeKept' /\ Taken'
  BY <1>1, <1>2 DEF HashMeansLanded, ChangeKept, Own, Taken
<1>6. ASSUME faults = 0 PROVE Honest' /\ Splitting'
  <2>1. Honest'
    BY <1>1, <1>2, <1>6 DEF Honest, StoredNotesExist, MarkedIsSpent, Unspent, Unrecorded
  <2>2. Splitting'
    BY <1>1, <1>2, <1>6 DEF Splitting, Moving, Free, Unspent
  <2> QED
    BY <2>1, <2>2
<1> QED
  BY <1>1, <1>3, <1>4, <1>5, <1>6

LEMMA IndexKeeps ==
    ASSUME WalletKept, Index
    PROVE  WalletKept'
<1> USE DEF WalletKept
<1>1. /\ indexed' = indexed + 1 /\ indexed < Len(chain)
      /\ UNCHANGED <<plans, chain, pending, known, spent, pc, cur, outcome, result, split, faults>>
  BY DEF Index, store
<1>2. /\ Plans' = Plans /\ Landed' = Landed /\ Nullified' = Nullified
      /\ Own(Plans)' = Own(Plans) /\ Own({cur})' = Own({cur}) /\ Chunks' = Chunks
  BY <1>1, Quiet
<1>3. WalletTyped'
  BY <1>1, <1>2 DEF WalletTyped, SplitTyped
<1>4. Stages'
  BY <1>1, <1>2 DEF Stages
<1>5. HashMeansLanded' /\ ChangeKept' /\ Taken'
  BY <1>1, <1>2 DEF HashMeansLanded, ChangeKept, Own, Taken
<1>6. ASSUME faults = 0 PROVE Honest' /\ Splitting'
  <2>1. Honest'
    BY <1>1, <1>2, <1>6 DEF Honest, StoredNotesExist, MarkedIsSpent, Unspent, Unrecorded
  <2>2. Splitting'
    BY <1>1, <1>2, <1>6 DEF Splitting, Moving, Free, Unspent
  <2> QED
    BY <2>1, <2>2
<1> QED
  BY <1>1, <1>3, <1>4, <1>5, <1>6

(* What a plan added leaves as it was. *)
LEMMA AddedKeeps ==
    ASSUME WalletTyped, NEW x \in Made, x.inputs \subseteq Plans, NewPlan(x)
    PROVE  /\ \A P \in SUBSET Plans : Ins(plans', P) = Ins(plans, P)
           /\ \A P \in SUBSET Plans : OwnIn(plans', P) = OwnIn(plans, P) /\ PayIn(plans', P) = PayIn(plans, P)
           /\ Own(Plans) \subseteq Own(Plans)'
           /\ ChangeKept /\ UNCHANGED <<known, spent>> /\ (\A p \in Plans : p \in Landed' <=> p \in Landed) => ChangeKept'
           /\ Taken /\ Nullified' = Nullified => \A p \in Plans' : result'[p] = "already-submitted" => plans'[p].inputs \cap Nullified' # {}
<1>1. LET n == Len(plans) + 1 IN
      /\ Plans' = Plans \cup {n} /\ n \notin Plans /\ plans' \in Seq(Made)
      /\ \A p \in Plans : plans'[p] = plans[p] /\ result'[p] = result[p]
      /\ result'[n] = "none"
  BY PlanAdded
<1>2. \A P \in SUBSET Plans : Ins(plans', P) = Ins(plans, P)
  BY <1>1, InsSame
<1>3. plans' \in Books /\ DOMAIN plans' = Plans' /\ plans \in Books /\ DOMAIN plans = Plans
  BY <1>1, PlanTypes DEF Books, Plans
<1>4. \A P \in SUBSET Plans : OwnIn(plans', P) = OwnIn(plans, P) /\ PayIn(plans', P) = PayIn(plans, P)
  <2> SUFFICES ASSUME NEW P \in SUBSET Plans
               PROVE  OwnIn(plans', P) = OwnIn(plans, P) /\ PayIn(plans', P) = PayIn(plans, P)
    OBVIOUS
  <2>1. DOMAIN plans \subseteq DOMAIN plans' /\ P \in SUBSET (DOMAIN plans)
        /\ \A p \in DOMAIN plans : plans'[p] = plans[p]
    BY <1>1, <1>3
  <2> QED
    BY <1>3, <2>1, SumsSame, Zenon
<1>5. Own(Plans) \subseteq Own(Plans)'
  BY <1>1 DEF Own
<1>6. ASSUME ChangeKept, UNCHANGED <<known, spent>>, \A p \in Plans : p \in Landed' <=> p \in Landed PROVE ChangeKept'
  BY <1>1, <1>6 DEF ChangeKept, Own
<1>7. ASSUME Taken, Nullified' = Nullified, NEW p \in Plans', result'[p] = "already-submitted"
      PROVE  plans'[p].inputs \cap Nullified' # {}
  BY <1>1, <1>7 DEF Taken
<1> QED
  BY <1>2, <1>4, <1>5, <1>6, <1>7

LEMMA ReceiveKeeps ==
    ASSUME WalletKept, NEW a \in Deposits, Receive(a)
    PROVE  WalletKept'
<1> USE DEF WalletKept
<1> DEFINE n == Len(plans) + 1
           x == Incoming(a)
<1>1. /\ NewPlan(x) /\ chain' = Append(chain, n)
      /\ UNCHANGED <<indexed, pending, known, spent, pc, cur, outcome, split, faults>>
  <2>1. NewPlan(x) /\ UNCHANGED <<indexed, pending, known, spent, pc, cur, outcome, split, faults>>
    BY DEF Receive, store
  <2>2. x \in Made /\ x.inputs = {}
    BY WalletAssumptions DEF Incoming, Made
  <2>3. Len(plans') = n
    BY <2>1, <2>2, PlanAdded
  <2> QED
    BY <2>1, <2>3 DEF Receive
<1>2. x \in Made /\ x.inputs = {} /\ x.op = "receive"
  BY WalletAssumptions DEF Incoming, Made
<1>3. /\ Len(plans') = n /\ Plans' = Plans \cup {n} /\ n \in Nat \ Plans
      /\ plans' \in Seq(Made) /\ plans'[n] = x /\ \A p \in Plans : plans'[p] = plans[p]
      /\ \A p \in Plans' : plans'[p].inputs \subseteq Plans'
      /\ result' \in Seq(Results) /\ Len(result') = n
      /\ result'[n] = "none" /\ \A p \in Plans : result'[p] = result[p]
  BY <1>1, <1>2, PlanAdded
<1>4. /\ \A P \in SUBSET Plans : Ins(plans', P) = Ins(plans, P)
      /\ \A P \in SUBSET Plans : OwnIn(plans', P) = OwnIn(plans, P) /\ PayIn(plans', P) = PayIn(plans, P)
      /\ Own(Plans) \subseteq Own(Plans)'
      /\ ((\A p \in Plans : p \in Landed' <=> p \in Landed) => ChangeKept')
      /\ (Nullified' = Nullified => \A p \in Plans' : result'[p] = "already-submitted" => plans'[p].inputs \cap Nullified' # {})
  <2>1. x.inputs \subseteq Plans
    BY <1>2
  <2> HIDE DEF x
  <2> QED
    BY <1>1, <1>2, <2>1, AddedKeeps
<1> HIDE DEF x
<1>5. /\ Landed' = Landed \cup {n} /\ chain' \in Seq(Nat)
      /\ indexed' \in 0..Len(chain')
  BY <1>1, <1>3, Appended
<1>6. WalletTyped'
  <2>1. Landed' \subseteq Plans' /\ pending' \subseteq Plans' \ Landed'
    BY <1>1, <1>3, <1>5 DEF WalletTyped
  <2>2. spent' \subseteq known' /\ known' \subseteq Own(Plans)'
    BY <1>1, <1>4 DEF WalletTyped
  <2>3. cur' \in 0..Len(plans') /\ (pc' # "idle" => cur' \in Plans')
    BY <1>1, <1>3, PlanTypes DEF WalletTyped
  <2>4. SplitTyped'
    BY <1>1, <1>3 DEF WalletTyped, SplitTyped
  <2> QED
    BY <1>1, <1>3, <1>5, <2>1, <2>2, <2>3, <2>4 DEF WalletTyped
<1>7. Stages'
  BY <1>1, <1>3, <1>5 DEF Stages, Own, WalletTyped
<1>8. HashMeansLanded' /\ ChangeKept'
  BY <1>1, <1>3, <1>4, <1>5 DEF HashMeansLanded
<1>9. Nullified' = Nullified
  <2>1. Ins(plans', Landed \cup {n}) = Ins(plans', Landed)
    BY <1>2, <1>3 DEF Ins
  <2>2. Landed \in SUBSET Plans
    BY DEF WalletTyped
  <2> QED
    BY <1>4, <1>5, <2>1, <2>2, NullifiedIs
<1>11. Taken'
  BY <1>1, <1>3, <1>4, <1>9 DEF Taken, WalletTyped
<1>10. ASSUME faults = 0 PROVE Honest' /\ Splitting'
  <2>1. Unrecorded' = Unrecorded /\ Unspent' = Unspent /\ (pc # "idle" => cur # n /\ plans'[cur] = plans[cur])
    BY <1>1, <1>3, <1>5 DEF Unrecorded, Unspent, WalletTyped
  <2>2. Honest'
    BY <1>1, <1>2, <1>3, <1>5, <1>9, <1>10, <2>1 DEF Honest, StoredNotesExist, MarkedIsSpent
  <2>3. Splitting'
    <3>1. Free' = Free /\ Moving' = Moving
      BY <1>1, <1>3, <1>5, <2>1 DEF Free, Moving, WalletTyped
    <3>2. Chunks' = Chunks /\ Chunks \in SUBSET Plans
      BY <1>1, <1>3, <1>5, SplitTypes DEF Chunks
    <3>3. PayIn(plans', Chunks') = PayIn(plans, Chunks)
      BY <1>4, <3>2
    <3>4. \A V \in SUBSET Free : Pays(plans', V, split.quoted, split.left) <=> Pays(plans, V, split.quoted, split.left)
      <4>1. Free \subseteq Plans
        BY DEF Free, Unspent, WalletTyped, Own
      <4> QED
        BY <1>4, <4>1 DEF Pays
    <3> QED
      BY <1>1, <1>3, <1>10, <2>1, <3>1, <3>3, <3>4, PlanTypes, SplitTypes DEF Splitting
  <2> QED
    BY <2>2, <2>3
<1> QED
  BY <1>1, <1>6, <1>7, <1>8, <1>10, <1>11

(* A new operation takes the lock, with a plan over unspent notes. *)
LEMMA BeginKeeps ==
    ASSUME WalletKept, pc = "idle", NEW x \in Made, x.inputs \subseteq Unspent, NewPlan(x),
           cur' = Len(plans'), pc' = "submit", UNCHANGED <<chain, indexed, pending, known, spent, outcome, faults>>,
           SplitTyped', faults = 0 => Splitting'
    PROVE  WalletKept'
<1> USE DEF WalletKept
<1> DEFINE n == Len(plans) + 1
<1>1. x.inputs \subseteq Plans
  BY DEF Unspent, WalletTyped, Own
<1>2. /\ Len(plans') = n /\ Plans' = Plans \cup {n} /\ n \in Nat \ Plans
      /\ plans' \in Seq(Made) /\ plans'[n] = x /\ \A p \in Plans : plans'[p] = plans[p]
      /\ \A p \in Plans' : plans'[p].inputs \subseteq Plans'
      /\ result' \in Seq(Results) /\ Len(result') = n
      /\ result'[n] = "none" /\ \A p \in Plans : result'[p] = result[p]
  BY <1>1, PlanAdded
<1>4. Landed' = Landed
  BY DEF Landed
<1>3. /\ \A P \in SUBSET Plans : Ins(plans', P) = Ins(plans, P)
      /\ Own(Plans) \subseteq Own(Plans)' /\ ChangeKept'
      /\ (Nullified' = Nullified => \A p \in Plans' : result'[p] = "already-submitted" => plans'[p].inputs \cap Nullified' # {})
  BY <1>1, <1>4, AddedKeeps
<1>5. WalletTyped'
  <2>1. Landed' \subseteq Plans' /\ pending' \subseteq Plans' \ Landed'
    BY <1>2, <1>4 DEF WalletTyped
  <2>2. spent' \subseteq known' /\ known' \subseteq Own(Plans)'
    BY <1>3 DEF WalletTyped
  <2>3. cur' \in 0..Len(plans') /\ cur' \in Plans'
    BY <1>2
  <2> QED
    BY <1>2, <1>4, <2>1, <2>2, <2>3 DEF WalletTyped, Busy
<1>6. Stages'
  BY <1>2, <1>4 DEF Stages, WalletTyped
<1>7. HashMeansLanded'
  BY <1>2, <1>4 DEF HashMeansLanded
<1>8. Nullified' = Nullified
  <2>1. Landed \in SUBSET Plans
    BY DEF WalletTyped
  <2> QED
    BY <1>3, <1>4, <2>1, NullifiedIs
<1>10. Taken'
  BY <1>3, <1>8 DEF Taken
<1>9. ASSUME faults = 0 PROVE Honest'
  <2>1. Unspent' = Unspent /\ Unspent \subseteq known /\ n \notin known /\ n \notin Landed /\ cur' = n
    BY <1>2 DEF Unspent, WalletTyped, Own
  <2>2. Unspent \cap Nullified = {} /\ Unrecorded' = {} /\ pending = {}
    BY <1>4, <1>9, <2>1 DEF Honest, Unrecorded
  <2>3. plans'[cur'].inputs \subseteq Unspent
    BY <1>2, <2>1
  <2> QED
    BY <1>2, <1>4, <1>8, <1>9, <2>1, <2>2, <2>3 DEF Honest, StoredNotesExist, MarkedIsSpent
<1> QED
  BY <1>3, <1>5, <1>6, <1>7, <1>9, <1>10

LEMMA NoSplitKept == split' = NoSplit => SplitTyped' /\ Splitting'
  BY DEF NoSplit, Splits, SplitTyped, Splitting

(* An operation that is not a chunk of this split takes the lock. *)
LEMMA AsideKeeps ==
    ASSUME WalletKept, pc = "idle", NEW x \in Made, x.inputs \subseteq Unspent, NewPlan(x),
           cur' = Len(plans'), pc' = "submit", UNCHANGED <<chain, indexed, pending, known, spent, outcome, faults>>,
           split' = Crossing \/ (x.inputs = {} /\ split' = IF split.state = "on" THEN split ELSE NoSplit)
    PROVE  WalletKept'
<1>0. WalletTyped
  BY DEF WalletKept
<1>1. CASE split.state # "on"
  <2>1. split' = NoSplit
    BY <1>1 DEF Crossing
  <2> QED
    BY <2>1, NoSplitKept, BeginKeeps
<1>2. CASE split.state = "on"
  <2> DEFINE n == Len(plans) + 1
  <2>1. x.inputs \subseteq Plans
    BY <1>0 DEF Unspent, WalletTyped, Own
  <2>2. /\ Len(plans') = n /\ Plans' = Plans \cup {n} /\ n \in Nat \ Plans /\ cur' = n
        /\ plans'[n] = x /\ \A p \in Plans : plans'[p] = plans[p]
    BY <1>0, <2>1, PlanAdded
  <2>3. \A P \in SUBSET Plans : OwnIn(plans', P) = OwnIn(plans, P) /\ PayIn(plans', P) = PayIn(plans, P)
    BY <1>0, <2>1, AddedKeeps
  <2>4. /\ split'.state = "on" /\ split'.goal = split.goal /\ split'.left = split.left /\ split'.chunks = split.chunks
        /\ split'.quoted = split.quoted /\ split'.dearer = split.dearer
        /\ (~split'.crossed => ~split.crossed /\ x.inputs = {}) /\ split' \in Splits
    BY <1>0, <1>2 DEF Crossing, WalletTyped, SplitTyped, Splits
  <2>5. SplitTyped'
    BY <1>0, <2>2, <2>4 DEF SplitTyped, WalletTyped
  <2>6. ASSUME faults = 0 PROVE Splitting'
    <3>1. Splitting
      BY <2>6 DEF WalletKept
    <3>2. Chunks' = Chunks /\ Chunks \in SUBSET Plans
      BY <1>0, <2>4, SplitTypes DEF Chunks, Landed
    <3>3. Moving = 0 /\ Moving' = 0
      BY <1>0, <2>2, <2>4, SplitTypes DEF Moving
    <3>4. PayIn(plans', Chunks') + split'.left + Moving' = split'.goal
      BY <1>2, <2>3, <2>4, <3>1, <3>2, <3>3 DEF Splitting
    <3>5. ASSUME ~split'.dearer, ~split'.crossed
          PROVE  \E V \in SUBSET Free' : Pays(plans', V, split'.quoted, split'.left)
      <4>1. PICK V \in SUBSET Free : Pays(plans, V, split.quoted, split.left)
        BY <1>2, <2>4, <3>1, <3>5 DEF Splitting
      <4>2. Free = Unspent /\ Free' = Unspent /\ V \in SUBSET Plans
        BY <1>0, <2>2, <2>4, <3>5 DEF Free, Unspent, WalletTyped, Own
      <4>3. Pays(plans', V, split'.quoted, split'.left)
        BY <2>3, <2>4, <4>1, <4>2 DEF Pays
      <4> QED
        BY <4>1, <4>2, <4>3
    <3> QED
      BY <2>4, <3>4, <3>5 DEF Splitting
  <2> QED
    BY <2>5, <2>6, BeginKeeps
<1> QED
  BY <1>1, <1>2

LEMMA ShieldKeeps ==
    ASSUME WalletKept, NEW a \in Deposits, Shield(a)
    PROVE  WalletKept'
<1> DEFINE x == [op |-> "shield", inputs |-> {}, pay |-> 0, own |-> a]
<1>1. /\ pc = "idle" /\ NewPlan(x) /\ cur' = Len(plans') /\ pc' = "submit"
      /\ split' = IF split.state = "on" THEN split ELSE NoSplit
      /\ UNCHANGED <<chain, indexed, pending, known, spent, outcome, faults>>
  BY DEF Shield, network, store
<1>2. x \in Made /\ x.inputs = {} /\ x.inputs \subseteq Unspent
  BY WalletAssumptions DEF Made
<1> HIDE DEF x
<1> QED
  BY <1>1, <1>2, AsideKeeps

(* What the notes to pick from are, and what they come to. *)
LEMMA LargestAre ==
    ASSUME NEW k, NEW U, NEW P \in Largest(k, U)
    PROVE  P \subseteq U /\ Cardinality(P) = k /\ \A n \in P, m \in U \ P : plans[n].own >= plans[m].own
  BY DEF Largest, kSubset

LEMMA PickedAre ==
    /\ \A P \in LargestTwo(Unspent) : P \subseteq Unspent
    /\ \A need : \A P \in SelectNotes(need) : P \subseteq Unspent
<1>1. \A P \in LargestTwo(Unspent) : P \subseteq Unspent
  BY LargestAre DEF LargestTwo
<1>2. \A need : \A P \in SelectNotes(need) : P \subseteq Unspent
  BY LargestAre DEF SelectNotes
<1> QED
  BY <1>1, <1>2

(* A plan built pays what was asked for and keeps the rest. *)
LEMMA BuildMakes ==
    ASSUME WalletTyped, NEW op \in Ops, NEW P \in SUBSET Unspent, NEW amount \in Nat, NEW fee \in Nat,
           Build(op, P, amount, fee)
    PROVE  LET x == [op |-> op, inputs |-> P, pay |-> amount, own |-> Total(P) - amount - fee] IN
           x \in Made /\ NewPlan(x) /\ cur' = Len(plans') /\ pc' = "submit"
<1>1. P \subseteq Plans /\ P \subseteq Nat
  BY PlanTypes DEF Unspent, WalletTyped, Own
<1>2. Total(P) \in Nat
  BY <1>1, PlanTypes, SumTypes, TotalsAreSums
<1>3. Total(P) - amount - fee \in Nat
  BY <1>2 DEF Build
<1> QED
  BY <1>1, <1>3, WalletAssumptions DEF Build, Made

LEMMA SpendKeeps ==
    ASSUME WalletKept, NEW op \in Ops, NEW a \in Amounts, Spend(op, a)
    PROVE  WalletKept'
<1>1. PICK quoted \in Fees, fee \in Fees : \E P \in SelectNotes(a + quoted) : Build(op, P, a, fee)
  BY DEF Spend
<1>2. PICK P \in SelectNotes(a + quoted) : Build(op, P, a, fee)
  BY <1>1
<1>3. P \subseteq Unspent
  BY PickedAre
<1> DEFINE x == [op |-> op, inputs |-> P, pay |-> a, own |-> Total(P) - a - fee]
<1>4. x \in Made /\ NewPlan(x) /\ cur' = Len(plans') /\ pc' = "submit"
  BY <1>2, <1>3, BuildMakes, WalletAssumptions DEF WalletKept
<1>5. x.inputs \subseteq Unspent
  BY <1>3
<1>6. pc = "idle" /\ split' = Crossing /\ UNCHANGED <<chain, indexed, pending, known, spent, outcome, faults>>
  BY DEF Spend, network, store
<1> HIDE DEF x
<1> QED
  BY <1>4, <1>5, <1>6, AsideKeeps

-----------------------------------------------------------------------------
(* The operation gives up. *)
LEMMA GivesUp ==
    ASSUME WalletKept, pc # "idle", Report("error"),
           UNCHANGED <<plans, chain, indexed, known, spent, cur, outcome>>,
           pending' \subseteq Plans \ Landed, faults' \in 0..MaxFaults,
           faults' = 0 => faults = 0 /\ pending' = {} /\ cur \notin Landed
    PROVE  WalletKept'
<1> USE DEF WalletKept
<1>1. result' = [result EXCEPT ![cur] = "error"] /\ pc' = "idle"
      /\ split' = IF cur \in split.chunks THEN NoSplit ELSE split
  BY DEF Report
<1>2. /\ Plans' = Plans /\ Landed' = Landed /\ Nullified' = Nullified
      /\ Own(Plans)' = Own(Plans) /\ Own({cur})' = Own({cur})
  BY Quiet
<1>3. /\ result' \in Seq(Results) /\ Len(result') = Len(result)
      /\ \A p \in Plans : result'[p] \in {result[p], "error"}
  BY <1>1 DEF WalletTyped, Results, Plans
<1>4. WalletTyped'
  <2>1. SplitTyped'
    BY <1>1, <1>2, NoSplitKept DEF WalletTyped, SplitTyped
  <2> QED
    BY <1>1, <1>2, <1>3, <2>1 DEF WalletTyped
<1>5. Stages'
  BY <1>1 DEF Stages
<1>6. HashMeansLanded' /\ ChangeKept' /\ Taken'
  <2>1. \A p \in Plans : result[p] = "already-submitted" => result'[p] = result[p]
    BY <1>1 DEF Stages, WalletTyped, Plans
  <2>2. ChangeKept'
    BY <1>2, <2>1 DEF ChangeKept, Own
  <2> QED
    BY <1>1, <1>2, <1>3, <2>2 DEF HashMeansLanded, Taken
<1>7. ASSUME faults' = 0 PROVE Honest' /\ Splitting'
  <2>1. faults = 0 /\ pending' = {} /\ Unspent' = Unspent /\ Unrecorded = {}
    BY <1>7 DEF Unspent, Unrecorded
  <2>2. Honest'
    BY <1>1, <1>2, <1>3, <2>1 DEF Honest, StoredNotesExist, MarkedIsSpent
  <2>3. CASE cur \in split.chunks
    BY <1>1, <2>2, <2>3, NoSplitKept
  <2>4. CASE cur \notin split.chunks
    <3>1. UNCHANGED split /\ Chunks' = Chunks /\ Moving' = Moving /\ Free \subseteq Free'
      BY <1>1, <1>2, <2>1, <2>4 DEF Chunks, Moving, Free
    <3>2. Splitting'
      BY <1>1, <2>1, <3>1 DEF Splitting
    <3> QED
      BY <2>2, <3>2
  <2> QED
    BY <2>3, <2>4
<1> QED
  BY <1>4, <1>5, <1>6, <1>7

LEMMA ErrKeeps ==
    ASSUME WalletKept, pc \in {"submit", "await"}, OnError,
           UNCHANGED <<plans, chain, indexed, known, spent, cur, outcome>>,
           pending' \subseteq Plans \ Landed, faults' \in 0..MaxFaults,
           faults' = 0 => faults = 0 /\ pending' = {} /\ cur \notin Landed
    PROVE  WalletKept'
<1>1. CASE ~Relayed
  BY <1>1, GivesUp DEF OnError
<1>2. CASE Relayed
  <2> USE DEF WalletKept
  <2>1. pc' = "check" /\ UNCHANGED <<result, split>>
    BY <1>2 DEF OnError
  <2>2. /\ Plans' = Plans /\ Landed' = Landed /\ Nullified' = Nullified
        /\ Own(Plans)' = Own(Plans) /\ Own({cur})' = Own({cur}) /\ Chunks' = Chunks
    BY <2>1, Quiet
  <2>3. WalletTyped'
    BY <2>1, <2>2 DEF WalletTyped, SplitTyped, Busy
  <2>4. Stages'
    BY <2>1 DEF Stages
  <2>5. HashMeansLanded' /\ ChangeKept' /\ Taken'
    BY <2>1, <2>2 DEF HashMeansLanded, ChangeKept, Own, Taken
  <2>6. ASSUME faults' = 0 PROVE Honest' /\ Splitting'
    <3>1. faults = 0 /\ pending' = {} /\ cur \notin Landed /\ Unspent' = Unspent /\ Unrecorded = {} /\ Unrecorded' = {}
      BY <2>2, <2>6 DEF Unspent, Unrecorded
    <3>2. Honest'
      BY <2>1, <2>2, <3>1 DEF Honest, StoredNotesExist, MarkedIsSpent
    <3>3. Splitting'
      <4>1. Free' = Free /\ Moving' = Moving
        BY <2>1, <2>2, <3>1 DEF Free, Moving
      <4> QED
        BY <2>1, <2>2, <3>1, <4>1 DEF Splitting
    <3> QED
      BY <3>2, <3>3
  <2> QED
    BY <2>3, <2>4, <2>5, <2>6
<1> QED
  BY <1>1, <1>2

LEMMA SubmitKeeps ==
    ASSUME WalletKept, Submit
    PROVE  WalletKept'
<1> USE DEF WalletKept
<1>1. /\ pc = "submit" /\ pc' = "await" /\ pending' = pending \cup {cur}
      /\ UNCHANGED <<plans, chain, indexed, known, spent, cur, outcome, result, split, faults>>
  BY DEF Submit, store
<1>2. /\ Plans' = Plans /\ Landed' = Landed /\ Nullified' = Nullified
      /\ Own(Plans)' = Own(Plans) /\ Own({cur})' = Own({cur}) /\ Chunks' = Chunks
  BY <1>1, Quiet
<1>3. cur \in Plans \ Landed
  BY <1>1 DEF WalletTyped, Stages
<1>4. WalletTyped'
  BY <1>1, <1>2, <1>3 DEF WalletTyped, SplitTyped, Busy
<1>5. Stages'
  BY <1>1 DEF Stages
<1>6. HashMeansLanded' /\ ChangeKept' /\ Taken'
  BY <1>1, <1>2 DEF HashMeansLanded, ChangeKept, Own, Taken
<1>7. ASSUME faults = 0 PROVE Honest' /\ Splitting'
  <2>1. Unspent' = Unspent /\ Unrecorded' = Unrecorded /\ Free' = Free /\ Moving' = Moving
    BY <1>1, <1>2 DEF Unspent, Unrecorded, Free, Moving
  <2>2. Honest'
    BY <1>1, <1>2, <1>3, <1>7, <2>1 DEF Honest, StoredNotesExist, MarkedIsSpent
  <2>3. Splitting'
    BY <1>1, <1>2, <1>7, <2>1 DEF Splitting
  <2> QED
    BY <2>2, <2>3
<1> QED
  BY <1>1, <1>4, <1>5, <1>6, <1>7

(* Without faults, what is about to be submitted is unspent. *)
LEMMA NothingRefused ==
    ASSUME WalletKept, faults = 0, pc = "submit"
    PROVE  plans[cur].inputs \cap Nullified = {} /\ cur \notin Landed /\ pending = {}
  BY DEF WalletKept, Honest, Unrecorded

LEMMA RefusedKeeps ==
    ASSUME WalletKept, SubmitRefused
    PROVE  WalletKept'
<1>1. /\ pc = "submit" /\ plans[cur].inputs \cap Nullified # {} /\ OnError
      /\ UNCHANGED <<plans, chain, indexed, pending, known, spent, cur, outcome, faults>>
  BY DEF SubmitRefused, network, store
<1>2. faults # 0
  BY <1>1, NothingRefused
<1> QED
  BY <1>1, <1>2, ErrKeeps DEF WalletKept, WalletTyped

LEMMA FailsKeeps ==
    ASSUME WalletKept, SubmitFails
    PROVE  WalletKept'
<1>1. /\ pc = "submit" /\ faults < MaxFaults /\ faults' = faults + 1 /\ OnError
      /\ pending' \in {pending, pending \cup {cur}}
      /\ UNCHANGED <<plans, chain, indexed, known, spent, cur, outcome>>
  BY DEF SubmitFails, store
<1>2. pending' \subseteq Plans \ Landed
  BY <1>1 DEF WalletKept, WalletTyped, Stages
<1>3. faults' \in 0..MaxFaults /\ faults' # 0
  BY <1>1, WalletAssumptions DEF WalletKept, WalletTyped
<1> QED
  BY <1>1, <1>2, <1>3, ErrKeeps

LEMMA TimeoutKeeps ==
    ASSUME WalletKept, AwaitTimeout
    PROVE  WalletKept'
<1>1. /\ pc = "await" /\ faults < MaxFaults /\ faults' = faults + 1 /\ OnError
      /\ UNCHANGED <<plans, chain, indexed, pending, known, spent, cur, outcome>>
  BY DEF AwaitTimeout, network, store
<1>2. pending' \subseteq Plans \ Landed
  BY <1>1 DEF WalletKept, WalletTyped
<1>3. faults' \in 0..MaxFaults /\ faults' # 0
  BY <1>1, WalletAssumptions DEF WalletKept, WalletTyped
<1> QED
  BY <1>1, <1>2, <1>3, ErrKeeps

LEMMA CrashKeeps ==
    ASSUME WalletKept, Crash
    PROVE  WalletKept'
<1>1. /\ pc # "idle" /\ faults < MaxFaults /\ faults' = faults + 1 /\ Report("error")
      /\ UNCHANGED <<plans, chain, indexed, pending, known, spent, cur, outcome>>
  BY DEF Crash, network, store
<1>2. pending' \subseteq Plans \ Landed
  BY <1>1 DEF WalletKept, WalletTyped
<1>3. faults' \in 0..MaxFaults /\ faults' # 0
  BY <1>1, WalletAssumptions DEF WalletKept, WalletTyped
<1> QED
  BY <1>1, <1>2, <1>3, GivesUp

(* The operation takes its plan for landed, and goes on to record it. *)
LEMMA ToRecord ==
    ASSUME WalletKept, pc \in {"await", "check"}, pc' = "add", outcome' \in {"hash", "already-submitted"},
           outcome' = "hash" => cur \in Landed,
           outcome' = "already-submitted" => plans[cur].inputs \cap Nullified # {},
           faults = 0 => cur \in Landed /\ outcome' = "hash" /\ pending = {},
           UNCHANGED <<plans, chain, indexed, pending, known, spent, cur, result, split, faults>>
    PROVE  WalletKept'
<1> USE DEF WalletKept
<1>1. /\ Plans' = Plans /\ Landed' = Landed /\ Nullified' = Nullified
      /\ Own(Plans)' = Own(Plans) /\ Own({cur})' = Own({cur}) /\ Chunks' = Chunks
  BY Quiet
<1>2. WalletTyped'
  BY <1>1 DEF WalletTyped, SplitTyped, Busy
<1>3. Stages'
  BY <1>1 DEF Stages
<1>4. HashMeansLanded' /\ ChangeKept' /\ Taken'
  BY <1>1 DEF HashMeansLanded, ChangeKept, Own, Taken
<1>5. ASSUME faults = 0 PROVE Honest' /\ Splitting'
  <2>1. Unspent' = Unspent /\ Unrecorded' = Unrecorded /\ Free' = Free /\ Moving' = Moving
    BY <1>1 DEF Unspent, Unrecorded, Free, Moving
  <2>2. Honest'
    BY <1>1, <1>5, <2>1 DEF Honest, StoredNotesExist, MarkedIsSpent
  <2>3. Splitting'
    BY <1>1, <1>5, <2>1 DEF Splitting
  <2> QED
    BY <2>2, <2>3
<1> QED
  BY <1>2, <1>3, <1>4, <1>5

LEMMA AwaitKeeps ==
    ASSUME WalletKept, AwaitTx
    PROVE  WalletKept'
<1>1. /\ pc = "await" /\ cur \notin pending
      /\ UNCHANGED <<plans, chain, indexed, pending, known, spent, cur, faults>>
  BY DEF AwaitTx, network, store
<1>2. faults = 0 => pending = {}
  BY <1>1 DEF WalletKept, Honest
<1>3. CASE cur \in Landed
  <2>1. pc' = "add" /\ outcome' = "hash" /\ UNCHANGED <<result, split>>
    BY <1>3 DEF AwaitTx
  <2> QED
    BY <1>1, <1>2, <1>3, <2>1, ToRecord
<1>4. CASE cur \notin Landed
  <2>1. OnError /\ UNCHANGED outcome
    BY <1>4 DEF AwaitTx
  <2>2. pending' \subseteq Plans \ Landed /\ faults' \in 0..MaxFaults
    BY <1>1 DEF WalletKept, WalletTyped
  <2> QED
    BY <1>1, <1>2, <1>4, <2>1, <2>2, ErrKeeps
<1> QED
  BY <1>3, <1>4

LEMMA CheckKeeps ==
    ASSUME WalletKept, Check
    PROVE  WalletKept'
<1>1. /\ pc = "check"
      /\ UNCHANGED <<plans, chain, indexed, pending, known, spent, cur, faults>>
  BY DEF Check, network, store
<1>2. faults = 0 => pending = {} /\ cur \notin Landed /\ plans[cur].inputs \cap Nullified = {}
  BY <1>1 DEF WalletKept, Honest, Unrecorded
<1>3. CASE plans[cur].inputs \cap InputsOf(Seen(indexed)) # {}
  <2>1. pc' = "add" /\ outcome' = "already-submitted" /\ UNCHANGED <<result, split>>
    BY <1>3 DEF Check
  <2>2. plans[cur].inputs \cap Nullified # {} /\ faults # 0
    BY <1>2, <1>3, SeenLanded, NullifiedIs DEF WalletKept
  <2> QED
    BY <1>1, <2>1, <2>2, ToRecord
<1>4. CASE plans[cur].inputs \cap InputsOf(Seen(indexed)) = {}
  <2>1. Report("error") /\ UNCHANGED outcome
    BY <1>4 DEF Check
  <2>2. pending' \subseteq Plans \ Landed /\ faults' \in 0..MaxFaults
    BY <1>1 DEF WalletKept, WalletTyped
  <2> QED
    BY <1>1, <1>2, <2>1, <2>2, GivesUp
<1> QED
  BY <1>3, <1>4

-----------------------------------------------------------------------------
LEMMA AddKeeps ==
    ASSUME WalletKept, AddNotes
    PROVE  WalletKept'
<1> USE DEF WalletKept
<1>1. /\ pc = "add" /\ pc' = "mark" /\ known' = known \cup Own({cur})
      /\ UNCHANGED <<plans, chain, indexed, pending, spent, cur, outcome, result, split, faults>>
  BY DEF AddNotes, network
<1>2. /\ Plans' = Plans /\ Landed' = Landed /\ Nullified' = Nullified
      /\ Own(Plans)' = Own(Plans) /\ Own({cur})' = Own({cur}) /\ Chunks' = Chunks
  BY <1>1, Quiet
<1>3. Own({cur}) \subseteq Own(Plans) /\ Own({cur}) \subseteq {cur}
  BY <1>1 DEF WalletTyped, Own
<1>4. WalletTyped'
  BY <1>1, <1>2, <1>3 DEF WalletTyped, SplitTyped, Busy
<1>5. Stages'
  BY <1>1, <1>2 DEF Stages
<1>6. HashMeansLanded' /\ ChangeKept' /\ Taken'
  BY <1>1, <1>2 DEF HashMeansLanded, ChangeKept, Own, Taken
<1>7. ASSUME faults = 0 PROVE Honest' /\ Splitting'
  <2>1. cur \in Landed /\ cur \notin known
    BY <1>1, <1>7 DEF Honest
  <2>2. Nullified \subseteq known
    BY <1>7 DEF Honest, Nullified, InputsOf, WalletTyped
  <2>3. Unspent \subseteq Unspent' /\ Unspent' \cap Nullified \subseteq Unspent
    BY <1>1, <1>3, <2>1, <2>2 DEF Unspent
  <2>4. Unrecorded' = Unrecorded /\ Moving' = Moving /\ Free \subseteq Free'
    BY <1>1, <1>2, <2>3 DEF Unrecorded, Moving, Free
  <2>5. Honest'
    BY <1>1, <1>2, <1>3, <1>7, <2>1, <2>3, <2>4 DEF Honest, StoredNotesExist, MarkedIsSpent
  <2>6. Splitting'
    BY <1>1, <1>2, <1>7, <2>4 DEF Splitting
  <2> QED
    BY <2>5, <2>6
<1> QED
  BY <1>1, <1>4, <1>5, <1>6, <1>7

LEMMA MarkKeeps ==
    ASSUME WalletKept, MarkSpent
    PROVE  WalletKept'
<1> USE DEF WalletKept
<1>1. /\ pc = "mark" /\ pc' = "idle" /\ spent' = spent \cup (plans[cur].inputs \cap known)
      /\ result' = [result EXCEPT ![cur] = outcome]
      /\ UNCHANGED <<plans, chain, indexed, pending, known, cur, outcome, faults>>
  BY DEF MarkSpent, network, Report
<1>2. UNCHANGED split
  BY DEF MarkSpent, Report, WalletTyped
<1>3. /\ Plans' = Plans /\ Landed' = Landed /\ Nullified' = Nullified
      /\ Own(Plans)' = Own(Plans) /\ Own({cur})' = Own({cur}) /\ Chunks' = Chunks
  BY <1>1, <1>2, Quiet
<1>4. /\ result' \in Seq(Results) /\ Len(result') = Len(result) /\ cur \in Plans /\ result'[cur] = outcome
      /\ \A p \in Plans \ {cur} : result'[p] = result[p]
  BY <1>1 DEF WalletTyped, Results, Plans
<1>5. WalletTyped'
  BY <1>1, <1>2, <1>3, <1>4 DEF WalletTyped, SplitTyped
<1>6. Stages'
  BY <1>1 DEF Stages
<1>7. HashMeansLanded'
  BY <1>1, <1>3, <1>4 DEF HashMeansLanded, Stages
<1>8. ChangeKept' /\ Taken'
  <2>1. Taken'
    BY <1>1, <1>3, <1>4 DEF Taken
  <2>2. ASSUME NEW n \in spent'
        PROVE  \E p \in Plans : /\ n \in plans[p].inputs
                               /\ IF p \in Landed THEN Own({p}) \subseteq known ELSE result'[p] = "already-submitted"
    <3>1. CASE n \in spent
      BY <1>1, <1>4, <3>1 DEF ChangeKept, Stages
    <3>2. CASE n \in plans[cur].inputs
      BY <1>1, <1>4, <3>2 DEF Stages, WalletTyped
    <3> QED
      BY <1>1, <2>2, <3>1, <3>2
  <2> QED
    BY <1>1, <1>3, <2>1, <2>2 DEF ChangeKept, Own
<1>9. ASSUME faults = 0 PROVE Honest' /\ Splitting'
  <2>1. cur \in Landed /\ plans[cur].inputs \subseteq Nullified /\ plans[cur].inputs \subseteq Unspent
    BY <1>1, <1>9 DEF Honest, Nullified, InputsOf
  <2>2. Unspent' = Unspent \ plans[cur].inputs
    BY <1>1, <2>1 DEF Unspent
  <2>3. Unrecorded = plans[cur].inputs /\ Moving' = Moving /\ Free' = Free
    BY <1>1, <2>1, <2>2 DEF Unrecorded, Moving, Free
  <2>4. Unspent' \cap Nullified = {}
    BY <1>9, <2>2, <2>3 DEF Honest
  <2>5. Honest'
    BY <1>1, <1>3, <1>4, <1>9, <2>1, <2>2, <2>4 DEF Honest, StoredNotesExist, MarkedIsSpent
  <2>6. Splitting'
    BY <1>1, <1>2, <1>3, <1>9, <2>3 DEF Splitting
  <2> QED
    BY <2>5, <2>6
<1> QED
  BY <1>1, <1>5, <1>6, <1>7, <1>8, <1>9

LEMMA ScanKeeps ==
    ASSUME WalletKept, Scan
    PROVE  WalletKept'
<1> USE DEF WalletKept
<1>1. /\ pc = "idle" /\ known' = known \cup Found /\ spent' = spent \cup FoundSpent
      /\ UNCHANGED <<plans, chain, indexed, pending, pc, cur, outcome, result, split, faults>>
  BY DEF Scan, network
<1>2. /\ Plans' = Plans /\ Landed' = Landed /\ Nullified' = Nullified
      /\ Own(Plans)' = Own(Plans) /\ Own({cur})' = Own({cur}) /\ Chunks' = Chunks
  BY <1>1, Quiet
<1>3. /\ Seen(indexed) \subseteq Landed /\ Found \subseteq Own(Plans) /\ Found \subseteq Landed
      /\ FoundSpent \subseteq Found /\ FoundSpent \subseteq Nullified /\ Found \cap known = {}
  BY SeenLanded, NullifiedIs DEF Found, FoundSpent, Own, WalletTyped
<1>4. WalletTyped'
  BY <1>1, <1>2, <1>3 DEF WalletTyped, SplitTyped
<1>5. Stages'
  BY <1>1 DEF Stages
<1>6. HashMeansLanded' /\ Taken'
  BY <1>1, <1>2 DEF HashMeansLanded, Taken
<1>7. ChangeKept'
  <2> SUFFICES ASSUME NEW n \in spent'
               PROVE  \E p \in Plans : /\ n \in plans[p].inputs
                                      /\ IF p \in Landed THEN Own({p}) \subseteq known' ELSE result[p] = "already-submitted"
    BY <1>1, <1>2 DEF ChangeKept, Own
  <2>1. CASE n \in spent
    BY <1>1, <2>1 DEF ChangeKept
  <2>2. CASE n \in FoundSpent
    <3>1. PICK p \in Seen(indexed) : n \in plans[p].inputs
      BY <2>2 DEF FoundSpent, InputsOf
    <3>2. Own({p}) \subseteq known \cup Found
      BY <3>1 DEF Found, Own
    <3> QED
      BY <1>1, <1>3, <3>1, <3>2 DEF WalletTyped
  <2> QED
    BY <1>1, <2>1, <2>2
<1>8. ASSUME faults = 0 PROVE Honest' /\ Splitting'
  <2>1. Nullified \subseteq known
    BY <1>8 DEF Honest, Nullified, InputsOf, WalletTyped
  <2>2. Unspent \subseteq Unspent' /\ Unspent' \cap Nullified \subseteq Unspent
    BY <1>1, <1>3, <2>1 DEF Unspent, WalletTyped
  <2>3. Unrecorded' = Unrecorded /\ Moving' = Moving /\ Free \subseteq Free'
    BY <1>1, <1>2, <2>2 DEF Unrecorded, Moving, Free
  <2>4. Honest'
    BY <1>1, <1>2, <1>3, <1>8, <2>2, <2>3 DEF Honest, StoredNotesExist, MarkedIsSpent
  <2>5. Splitting'
    BY <1>1, <1>2, <1>8, <2>3 DEF Splitting
  <2> QED
    BY <2>4, <2>5
<1> QED
  BY <1>1, <1>4, <1>5, <1>6, <1>7, <1>8

LEMMA ReinstallKeeps ==
    ASSUME WalletKept, Reinstall
    PROVE  WalletKept'
<1> USE DEF WalletKept
<1>1. /\ pc = "idle" /\ known' = {} /\ spent' = {} /\ split' = NoSplit
      /\ faults < MaxFaults /\ faults' = faults + 1
      /\ UNCHANGED <<plans, chain, indexed, pending, pc, cur, outcome, result>>
  BY DEF Reinstall, network
<1>2. /\ Plans' = Plans /\ Landed' = Landed /\ Nullified' = Nullified
      /\ Own(Plans)' = Own(Plans)
  BY <1>1, Quiet
<1>3. WalletTyped'
  <2>1. SplitTyped'
    BY <1>1, NoSplitKept
  <2> QED
    BY <1>1, <1>2, <2>1, WalletAssumptions DEF WalletTyped
<1>4. Stages'
  BY <1>1 DEF Stages
<1>5. HashMeansLanded' /\ ChangeKept' /\ Taken'
  BY <1>1, <1>2 DEF HashMeansLanded, ChangeKept, Taken
<1>6. faults' # 0
  BY <1>1 DEF WalletTyped
<1> QED
  BY <1>3, <1>4, <1>5, <1>6

(* A step of the split loop alone *)
LEMMA OnlySplit ==
    ASSUME WalletKept, UNCHANGED <<plans, chain, indexed, pending, known, spent, pc, cur, outcome, result, faults>>,
           SplitTyped', faults = 0 => Splitting'
    PROVE  WalletKept'
<1> USE DEF WalletKept
<1>1. /\ Plans' = Plans /\ Landed' = Landed /\ Nullified' = Nullified
      /\ Own(Plans)' = Own(Plans) /\ Own({cur})' = Own({cur})
  BY Quiet
<1>2. WalletTyped'
  BY <1>1 DEF WalletTyped
<1>3. Stages' /\ HashMeansLanded' /\ ChangeKept' /\ Taken'
  BY <1>1 DEF Stages, HashMeansLanded, ChangeKept, Own, Taken
<1>4. faults = 0 => Honest'
  BY <1>1 DEF Honest, StoredNotesExist, MarkedIsSpent, Unspent, Unrecorded
<1> QED
  BY <1>2, <1>3, <1>4

LEMMA CloseKeeps == ASSUME WalletKept, CloseScreen \/ ChunkThrows PROVE WalletKept'
  BY OnlySplit, NoSplitKept DEF CloseScreen, ChunkThrows, network, store

LEMMA FinishKeeps ==
    ASSUME WalletKept, FinishSplit
    PROVE  WalletKept'
<1>1. /\ pc = "idle" /\ split.state = "on" /\ ChunkDone /\ split' = [split EXCEPT !.state = "done"]
      /\ UNCHANGED <<plans, chain, indexed, pending, known, spent, pc, cur, outcome, result, faults>>
  BY DEF FinishSplit, network, store
<1>2. WalletTyped
  BY DEF WalletKept
<1>3. /\ split' \in Splits /\ split'.state = "done" /\ split'.left = split.left /\ split'.goal = split.goal
      /\ split'.chunks = split.chunks /\ split'.dearer = split.dearer /\ split'.crossed = split.crossed /\ SplitTyped'
  BY <1>1, <1>2 DEF WalletTyped, SplitTyped, Splits, Plans
<1>4. ASSUME faults = 0 PROVE Splitting'
  <2>1. Splitting
    BY <1>4 DEF WalletKept
  <2>2. Chunks' = Chunks /\ Moving' = Moving
    BY <1>1, <1>3 DEF Chunks, Landed, Moving
  <2>3. ASSUME ~split.dearer, ~split.crossed PROVE split.left = 0
    <3>1. CASE split.left = 0
      BY <3>1
    <3>2. CASE Unspent = {}
      <4>1. PICK V \in SUBSET Free : Pays(plans, V, split.quoted, split.left)
        BY <1>1, <2>1, <2>3 DEF Splitting
      <4>2. V = {}
        BY <1>1, <3>2 DEF Free
      <4>3. OwnIn(plans, {}) = 0 /\ Cardinality({}) = 0
        BY <1>2, PlanTypes, SumTypes, FS_EmptySet
      <4>4. split.left <= 0 - split.quoted * ((0 + 1) \div 2)
        BY <4>1, <4>2, <4>3 DEF Pays
      <4>5. (0 + 1) \div 2 = 0
        OBVIOUS
      <4> QED
        BY <1>2, <4>4, <4>5, SplitTypes
    <3> QED
      BY <1>1, <3>1, <3>2 DEF ChunkDone
  <2> QED
    BY <1>1, <1>3, <2>1, <2>2, <2>3 DEF Splitting, Plans
<1> QED
  BY <1>1, <1>3, <1>4, OnlySplit

LEMMA StartKeeps ==
    ASSUME WalletKept, NEW a \in Amounts, StartSplit(a)
    PROVE  WalletKept'
<1>1. PICK shown \in SUBSET known, fee \in Fees \cup {0} :
         /\ a <= Total(shown) - fee * ((Cardinality(shown) + 1) \div 2)
         /\ split' = [state |-> "on", goal |-> a, left |-> a, chunks |-> {}, quoted |-> fee,
                      dearer |-> FALSE, crossed |-> ~(shown \subseteq Free)]
  BY DEF StartSplit
<1>2. UNCHANGED <<plans, chain, indexed, pending, known, spent, pc, cur, outcome, result, faults>>
  BY DEF StartSplit, network, store
<1>3. WalletTyped /\ a \in Nat /\ fee \in Nat
  BY WalletAssumptions DEF WalletKept
<1>4. SplitTyped'
  BY <1>1, <1>3 DEF Splits, SplitTyped
<1>5. Splitting'
  <2>1. Chunks' = {} /\ Moving' = 0
    BY <1>1 DEF Chunks, Moving
  <2>2. PayIn(plans', Chunks') = 0
    BY <1>2, <1>3, <2>1, PlanTypes, SumTypes
  <2>3. Free' = Free
    BY <1>2 DEF Free, Unspent
  <2>4. Pays(plans', shown, fee, a)
    BY <1>1, <1>2, TotalsAreSums DEF Pays
  <2>5. /\ split'.state = "on" /\ split'.left = a /\ split'.goal = a /\ split'.quoted = fee
        /\ (~split'.crossed => shown \subseteq Free)
    BY <1>1
  <2> QED
    BY <1>3, <2>1, <2>2, <2>3, <2>4, <2>5 DEF Splitting
<1> QED
  BY <1>2, <1>4, <1>5, OnlySplit

LEMMA MinOf ==
    ASSUME NEW a \in Int, NEW b \in Int
    PROVE  Min({a, b}) \in {a, b} /\ Min({a, b}) <= a /\ Min({a, b}) <= b
<1>1. \E x \in {a, b} : \A y \in {a, b} : x <= y
  OBVIOUS
<1> QED
  BY <1>1 DEF Min

LEMMA TwoOf ==
    ASSUME WalletTyped, NEW S \in SUBSET Plans, NEW x \in S, NEW y \in S, x # y
    PROVE  /\ OwnIn(plans, S) = plans[x].own + plans[y].own + OwnIn(plans, S \ {x, y})
           /\ OwnIn(plans, S \ {x, y}) \in Nat
<1> DEFINE R == S \ {x, y}
<1>1. plans \in Books /\ DOMAIN plans = Plans /\ R \in SUBSET Plans /\ R \cup {x} \in SUBSET Plans
      /\ x \in Plans \ R /\ y \in Plans \ (R \cup {x}) /\ (R \cup {x}) \cup {y} = S
  BY PlanTypes
<1> HIDE DEF R
<1>2. OwnIn(plans, R \cup {x}) = plans[x].own + OwnIn(plans, R)
  BY <1>1, OneMore
<1>3. OwnIn(plans, (R \cup {x}) \cup {y}) = plans[y].own + OwnIn(plans, R \cup {x})
  BY <1>1, OneMore
<1>4. OwnIn(plans, R) \in Nat /\ plans[x].own \in Nat /\ plans[y].own \in Nat
  BY <1>1, SumTypes, PlanTypes
<1>5. OwnIn(plans, S) = plans[y].own + (plans[x].own + OwnIn(plans, R))
  BY <1>1, <1>2, <1>3
<1> DEFINE s == OwnIn(plans, S)
           r == OwnIn(plans, R)
<1> HIDE DEF s, r
<1>6. s = plans[y].own + (plans[x].own + r) /\ r \in Nat
  BY <1>4, <1>5 DEF s, r
<1>7. s = plans[x].own + plans[y].own + r
  BY <1>4, <1>6
<1> QED
  BY <1>6, <1>7 DEF s, r, R

(* What one note covers *)
LEMMA OneOf ==
    ASSUME WalletTyped, NEW S \in SUBSET Plans, NEW x \in S
    PROVE  plans[x].own <= OwnIn(plans, S)
<1>1. /\ plans \in Books /\ DOMAIN plans = Plans /\ S \ {x} \in SUBSET Plans /\ x \in Plans /\ x \notin S \ {x}
      /\ (S \ {x}) \cup {x} = S
  BY PlanTypes
<1>2. OwnIn(plans, (S \ {x}) \cup {x}) = plans[x].own + OwnIn(plans, S \ {x})
  BY <1>1, OneMore
<1>3. OwnIn(plans, S \ {x}) \in Nat /\ plans[x].own \in Nat
  BY <1>1, SumTypes, PlanTypes
<1>4. OwnIn(plans, S) = plans[x].own + OwnIn(plans, S \ {x})
  BY <1>1, <1>2
<1> QED
  BY <1>3, <1>4

(* A set with two elements or more has two. *)
LEMMA TwoIn ==
    ASSUME NEW S, IsFiniteSet(S), NEW x \in S, Cardinality(S) >= 2
    PROVE  \E y \in S : x # y
<1>1. SUFFICES ASSUME S = {x} PROVE FALSE
  OBVIOUS
<1> QED
  BY <1>1, FS_Singleton

LEMMA LessTwo ==
    ASSUME NEW S, IsFiniteSet(S), NEW x \in S, NEW y \in S, x # y
    PROVE  Cardinality(S \ {x, y}) = Cardinality(S) - 2 /\ Cardinality(S) \in Nat
<1>1. IsFiniteSet(S \ {x}) /\ Cardinality(S \ {x}) = Cardinality(S) - 1 /\ Cardinality(S) \in Nat
  BY Smaller
<1>2. Cardinality((S \ {x}) \ {y}) = Cardinality(S \ {x}) - 1
  BY <1>1, Smaller
<1>3. (S \ {x}) \ {y} = S \ {x, y}
  OBVIOUS
<1> QED
  BY <1>1, <1>2, <1>3

LEMMA Halves ==
    ASSUME NEW n \in Nat, n >= 2, NEW q \in Nat
    PROVE  /\ q * ((n - 2 + 1) \div 2) = q * ((n + 1) \div 2) - q
           /\ q * ((n + 1) \div 2) \in Nat
<1> DEFINE m == (n + 1) \div 2
<1>1. m \in Nat /\ (n - 2 + 1) \div 2 = m - 1
  OBVIOUS
<1> HIDE DEF m
<1>2. q * (m - 1) = q * m - q /\ q * m \in Nat
  BY <1>1
<1> QED
  BY <1>1, <1>2 DEF m

(* The two largest notes are worth any two that might have been kept for another pair, and those of *)
(* them that were kept are among the two. *)
LEMMA Exchange ==
    ASSUME WalletTyped, NEW P \in LargestTwo(Unspent), NEW V \in SUBSET Unspent, Cardinality(V) >= 2
    PROVE  \E x, y \in V : /\ x # y /\ V \cap P \subseteq {x, y}
                          /\ plans[x].own + plans[y].own <= OwnIn(plans, P)
<1>1. /\ plans \in Books /\ DOMAIN plans = Plans /\ Unspent \in SUBSET Plans /\ V \in SUBSET Plans
      /\ IsFiniteSet(Unspent) /\ IsFiniteSet(V)
  <2>1. plans \in Books /\ DOMAIN plans = Plans /\ Unspent \in SUBSET Plans
    BY PlanTypes DEF Unspent, WalletTyped, Own
  <2> QED
    BY <2>1, PlansFinite, FS_Subset
<1>2. Cardinality(Unspent) \in Nat /\ Cardinality(V) \in Nat /\ Cardinality(V) <= Cardinality(Unspent)
  BY <1>1, FS_CardinalityType, FS_Subset
<1>3. P \in Largest(2, Unspent)
  <2> DEFINE c == Cardinality(Unspent)
  <2>2. c \in Int /\ c >= 2
    BY <1>2
  <2> HIDE DEF c
  <2>3. Min({2, c}) \in {2, c} /\ Min({2, c}) <= 2 /\ Min({2, c}) <= c
    BY <2>2, MinOf
  <2>1. Min({2, Cardinality(Unspent)}) = 2
    BY <2>2, <2>3 DEF c
  <2> QED
    BY <2>1 DEF LargestTwo
<1>4. /\ P \subseteq Unspent /\ Cardinality(P) = 2
      /\ \A n \in P, m \in Unspent \ P : plans[n].own >= plans[m].own
  BY <1>3, LargestAre
<1>5. IsFiniteSet(P) /\ P \in SUBSET Plans
  BY <1>1, <1>4, FS_Subset
<1>6. PICK a \in P : TRUE
  BY <1>4, <1>5, FS_EmptySet
<1>7. PICK b \in P : a # b
  BY <1>4, <1>5, TwoIn
<1>8. P \ {a, b} = {}
  <2>1. Cardinality(P \ {a, b}) = 0 /\ IsFiniteSet(P \ {a, b})
    BY <1>4, <1>5, <1>7, LessTwo, FS_Subset
  <2> QED
    BY <2>1, FS_EmptySet
<1>9. /\ P = {a, b} /\ OwnIn(plans, P) = plans[a].own + plans[b].own
      /\ \A n \in Plans : plans[n].own \in Nat
  <2>1. OwnIn(plans, P) = plans[a].own + plans[b].own + OwnIn(plans, P \ {a, b})
    BY <1>5, <1>7, TwoOf
  <2>2. OwnIn(plans, P \ {a, b}) = 0
    BY <1>1, <1>8, SumTypes
  <2>3. \A n \in Plans : plans[n].own \in Nat
    BY PlanTypes
  <2>4. plans[a].own \in Nat /\ plans[b].own \in Nat
    BY <1>5, <2>3
  <2> QED
    BY <1>7, <1>8, <2>1, <2>2, <2>3, <2>4
<1>10. CASE a \in V /\ b \in V
  BY <1>1, <1>7, <1>9, <1>10
<1>11. CASE a \in V /\ b \notin V
  <2>1. PICK v \in V : a # v
    BY <1>1, <1>11, TwoIn
  <2>2. v \in Unspent \ P /\ plans[v].own <= plans[b].own /\ v \in Plans
    BY <1>1, <1>4, <1>9, <1>11, <2>1
  <2> QED
    BY <1>1, <1>5, <1>9, <1>11, <2>1, <2>2
<1>12. CASE a \notin V /\ b \in V
  <2>1. PICK v \in V : b # v
    BY <1>1, <1>12, TwoIn
  <2>2. v \in Unspent \ P /\ plans[v].own <= plans[a].own /\ v \in Plans
    BY <1>1, <1>4, <1>9, <1>12, <2>1
  <2> QED
    BY <1>1, <1>5, <1>9, <1>12, <2>1, <2>2
<1>13. CASE a \notin V /\ b \notin V
  <2>1. PICK u \in V : TRUE
    BY <1>1, FS_EmptySet
  <2>2. PICK v \in V : u # v
    BY <1>1, <2>1, TwoIn
  <2>3. /\ u \in Unspent \ P /\ plans[u].own <= plans[a].own /\ u \in Plans
        /\ v \in Unspent \ P /\ plans[v].own <= plans[b].own /\ v \in Plans
    BY <1>1, <1>4, <1>9, <1>13, <2>1, <2>2
  <2> QED
    BY <1>1, <1>5, <1>9, <1>13, <2>1, <2>2, <2>3
<1> QED
  BY <1>10, <1>11, <1>12, <1>13

(* A chunk that does not finish the split leaves enough for the rest. *)
LEMMA StillPays ==
    ASSUME WalletTyped, NEW P \in LargestTwo(Unspent), NEW V \in SUBSET Unspent, NEW q \in Nat, NEW d \in Nat, d <= q,
           NEW left \in Nat, OwnIn(plans, P) - d > 0, left > OwnIn(plans, P) - d, Pays(plans, V, q, left)
    PROVE  \E W \in SUBSET (Unspent \ P) : Pays(plans, W, q, left - (OwnIn(plans, P) - d))
<1>1. /\ plans \in Books /\ DOMAIN plans = Plans /\ Unspent \in SUBSET Plans /\ V \in SUBSET Plans /\ P \in SUBSET Plans
      /\ IsFiniteSet(Unspent) /\ IsFiniteSet(V) /\ Cardinality(V) \in Nat
  <2>1. plans \in Books /\ DOMAIN plans = Plans /\ Unspent \in SUBSET Plans /\ P \subseteq Unspent
    BY PlanTypes, PickedAre DEF Unspent, WalletTyped, Own
  <2> QED
    BY <2>1, PlansFinite, FS_Subset, FS_CardinalityType
<1> DEFINE t == OwnIn(plans, P)
           v == OwnIn(plans, V)
           c == Cardinality(V)
<1>2. t \in Nat /\ v \in Nat /\ c \in Nat
  BY <1>1, SumTypes
<1>3. left <= v - q * ((c + 1) \div 2) /\ t - d > 0 /\ left > t - d
  BY DEF Pays
<1>4. CASE c >= 2
  <2>1. PICK x \in V, y \in V : x # y /\ V \cap P \subseteq {x, y} /\ plans[x].own + plans[y].own <= t
    BY <1>4, Exchange
  <2> DEFINE W == V \ {x, y}
             w == OwnIn(plans, W)
  <2>2. v = plans[x].own + plans[y].own + w /\ w \in Nat
    BY <1>1, <2>1, TwoOf
  <2>3. Cardinality(W) = c - 2
    BY <1>1, <2>1, LessTwo
  <2>4. plans[x].own \in Nat /\ plans[y].own \in Nat
    BY <1>1, PlanTypes
  <2>5. W \in SUBSET (Unspent \ P)
    BY <2>1
  <2>6. q * ((c - 2 + 1) \div 2) = q * ((c + 1) \div 2) - q /\ q * ((c + 1) \div 2) \in Nat
    BY <1>2, <1>4, Halves
  <2> DEFINE k == q * ((c + 1) \div 2)
             j == q * ((c - 2 + 1) \div 2)
  <2>7. left <= v - k /\ j = k - q /\ k \in Nat
    BY <1>3, <2>6
  <2>8. left - (t - d) <= w - j
    <3> HIDE DEF t, v, w, k, j, W
    <3> QED
      BY <1>2, <2>1, <2>2, <2>4, <2>7
  <2>9. Pays(plans, W, q, left - (t - d))
    BY <2>3, <2>8 DEF Pays
  <2> QED
    BY <2>5, <2>9
<1>5. CASE c = 1
  <2>1. PICK x : V = {x}
    BY <1>1, <1>5, FS_Singleton
  <2>2. v <= t
    <3>1. V \ {x} = {} /\ V = {} \cup {x} /\ x \in Plans
      BY <1>1, <2>1
    <3>2. v = plans[x].own
      <4>1. OwnIn(plans, {} \cup {x}) = plans[x].own + OwnIn(plans, {})
        BY <1>1, <3>1, OneMore
      <4>2. OwnIn(plans, {}) = 0 /\ plans[x].own \in Nat
        BY <1>1, <3>1, SumTypes, PlanTypes
      <4> QED
        BY <3>1, <4>1, <4>2
    <3>3. CASE x \in P
      BY <1>1, <3>2, <3>3, OneOf
    <3>4. CASE x \notin P
      <4>1. P # {}
        <5>1. Cardinality(Unspent) \in Nat /\ Cardinality(Unspent) # 0
          BY <1>1, <2>1, FS_CardinalityType, FS_EmptySet
        <5> DEFINE u == Cardinality(Unspent)
        <5>3. u \in Int /\ u # 0
          BY <5>1
        <5> HIDE DEF u
        <5> DEFINE k == Min({2, u})
        <5>4. k \in {2, u} /\ k <= 2 /\ k <= u
          BY <5>3, MinOf
        <5>2. k # 0 /\ P \in Largest(k, Unspent)
          BY <5>3, <5>4 DEF LargestTwo, u
        <5> HIDE DEF k
        <5>5. Cardinality(P) = k
          BY <5>2, LargestAre
        <5> QED
          BY <5>2, <5>5, FS_EmptySet
      <4>2. PICK p \in P : TRUE
        BY <4>1
      <4>3. plans[x].own <= plans[p].own
        <5>1. \E k : P \in Largest(k, Unspent)
          BY DEF LargestTwo
        <5>2. \A n \in P, m \in Unspent \ P : plans[n].own >= plans[m].own
          BY <5>1, LargestAre
        <5>3. plans[p].own >= plans[x].own /\ plans[p].own \in Nat /\ plans[x].own \in Nat
          BY <1>1, <2>1, <3>1, <3>4, <4>2, <5>2, PlanTypes
        <5> QED
          BY <5>3
      <4>4. plans[p].own <= t
        BY <1>1, <4>2, OneOf
      <4>5. plans[p].own \in Nat /\ plans[x].own \in Nat
        BY <1>1, <3>1, <4>2, PlanTypes
      <4> QED
        BY <1>2, <3>2, <4>3, <4>4, <4>5
    <3> QED
      BY <3>3, <3>4
  <2>3. (c + 1) \div 2 = 1
    BY <1>5
  <2>4. left <= v - q
    BY <1>3, <2>3
  <2> HIDE DEF t, v, c
  <2> QED
    BY <1>2, <1>3, <2>2, <2>4
<1>6. CASE c = 0
  <2>1. V = {}
    BY <1>1, <1>6, FS_EmptySet
  <2>2. v = 0
    BY <1>1, <2>1, SumTypes
  <2>3. (c + 1) \div 2 = 0
    BY <1>6
  <2>4. left <= 0
    BY <1>3, <2>2, <2>3
  <2> HIDE DEF t, v, c
  <2> QED
    BY <1>2, <1>3, <2>4
<1>7. c >= 2 \/ c = 1 \/ c = 0
  BY <1>2
<1> QED
  BY <1>4, <1>5, <1>6, <1>7

(* What a chunk spends and moves. *)
LEMMA ChunkIs ==
    ASSUME WalletTyped, NEW op \in Ops, NEW left \in Nat, NEW quoted \in Nat, SpendChunk(op, left, quoted)
    PROVE  \E P \in LargestTwo(Unspent), fee \in Nat, amount \in Nat :
             /\ P \subseteq Unspent /\ P \subseteq Plans /\ OwnIn(plans, P) \in Nat
             /\ amount \in {OwnIn(plans, P) - quoted, left} /\ amount <= OwnIn(plans, P) - quoted
             /\ amount <= left /\ amount > 0 /\ Build(op, P, amount, fee)
<1>1. PICK fee \in Fees, P \in LargestTwo(Unspent) :
         ChunkAmount(P, quoted, left) > 0 /\ Build(op, P, ChunkAmount(P, quoted, left), fee)
  BY DEF SpendChunk
<1>2. fee \in Nat /\ P \subseteq Unspent /\ P \subseteq Plans
  BY PickedAre, WalletAssumptions DEF Unspent, WalletTyped, Own
<1> DEFINE t == OwnIn(plans, P)
           amount == ChunkAmount(P, quoted, left)
<1>3. t \in Nat
  BY <1>2, SumTypes, PlanTypes
<1>4. amount \in {t - quoted, left} /\ amount <= t - quoted /\ amount <= left /\ amount \in Nat
  <2>1. amount = Min({t - quoted, left})
    BY TotalsAreSums DEF ChunkAmount
  <2> HIDE DEF t, amount
  <2> QED
    BY <1>1, <1>3, <2>1, MinOf DEF amount
<1> QED
  BY <1>1, <1>2, <1>3, <1>4

(* Another window's chunk takes the lock. *)
LEMMA OtherKeeps ==
    ASSUME WalletKept, NEW op \in Ops, NEW a \in Amounts, OtherChunk(op, a)
    PROVE  WalletKept'
<1>1. PICK quoted \in Fees : SpendChunk(op, a, quoted)
  BY DEF OtherChunk
<1>2. WalletTyped /\ a \in Nat /\ quoted \in Nat
  BY WalletAssumptions DEF WalletKept
<1>3. PICK P \in LargestTwo(Unspent), fee \in Nat, amount \in Nat : P \subseteq Unspent /\ Build(op, P, amount, fee)
  BY <1>1, <1>2, ChunkIs
<1> DEFINE x == [op |-> op, inputs |-> P, pay |-> amount, own |-> Total(P) - amount - fee]
<1>4. x \in Made /\ NewPlan(x) /\ cur' = Len(plans') /\ pc' = "submit"
  BY <1>2, <1>3, BuildMakes
<1>5. x.inputs \subseteq Unspent
  BY <1>3
<1>6. pc = "idle" /\ split' = Crossing /\ UNCHANGED <<chain, indexed, pending, known, spent, outcome, faults>>
  BY <1>1 DEF OtherChunk, SpendChunk, network, store
<1> HIDE DEF x
<1> QED
  BY <1>4, <1>5, <1>6, AsideKeeps

LEMMA ChunkKeeps ==
    ASSUME WalletKept, NEW op \in Ops, Chunk(op)
    PROVE  WalletKept'
<1>0. WalletTyped
  BY DEF WalletKept
<1>1. PICK quoted \in Fees :
         /\ SpendChunk(op, split.left, quoted)
         /\ split' = [split EXCEPT !.left = split.left - plans'[cur'].pay, !.chunks = split.chunks \cup {cur'},
                                  !.dearer = split.dearer \/ quoted > split.quoted]
  BY DEF Chunk
<1>2. /\ pc = "idle" /\ split.state = "on"
      /\ UNCHANGED <<chain, indexed, pending, known, spent, outcome, faults>>
  BY <1>1 DEF Chunk, SpendChunk, network, store
<1>3. quoted \in Nat /\ split.left \in Nat /\ Unspent \subseteq Plans
  BY <1>0, WalletAssumptions, SplitTypes DEF Unspent, WalletTyped, Own
<1>4. PICK P \in LargestTwo(Unspent), fee \in Nat, amount \in Nat :
         /\ P \subseteq Unspent /\ P \subseteq Plans /\ OwnIn(plans, P) \in Nat
         /\ amount \in {OwnIn(plans, P) - quoted, split.left} /\ amount <= OwnIn(plans, P) - quoted
         /\ amount <= split.left /\ amount > 0 /\ Build(op, P, amount, fee)
  BY <1>0, <1>1, <1>3, ChunkIs
<1> DEFINE t == OwnIn(plans, P)
<1>5. /\ t \in Nat /\ amount \in {t - quoted, split.left} /\ amount <= t - quoted /\ amount <= split.left
  BY <1>4
<1> HIDE DEF t
<1> DEFINE x == [op |-> op, inputs |-> P, pay |-> amount, own |-> Total(P) - amount - fee]
           n == Len(plans) + 1
<1>7. x \in Made /\ NewPlan(x) /\ cur' = Len(plans') /\ pc' = "submit"
  BY <1>0, <1>4, BuildMakes
<1>8. x.inputs = P /\ x.op = op /\ x.pay = amount /\ x.inputs \subseteq Plans /\ x.inputs \subseteq Unspent
  BY <1>4
<1> HIDE DEF x
<1>9. /\ Len(plans') = n /\ Plans' = Plans \cup {n} /\ n \in Nat \ Plans
      /\ plans'[n] = x /\ \A p \in Plans : plans'[p] = plans[p]
  BY <1>0, <1>7, <1>8, PlanAdded
<1>10. \A N \in SUBSET Plans : OwnIn(plans', N) = OwnIn(plans, N) /\ PayIn(plans', N) = PayIn(plans, N)
  BY <1>0, <1>7, <1>8, AddedKeeps
<1>11. /\ split'.state = "on" /\ split'.goal = split.goal /\ split'.left = split.left - amount
       /\ split'.chunks = split.chunks \cup {n} /\ split'.quoted = split.quoted /\ split'.crossed = split.crossed
       /\ split'.dearer = (split.dearer \/ quoted > split.quoted)
       /\ SplitTyped' /\ split'.left \in Nat
  <2>1. split \in Splits /\ split.left <= split.goal /\ split.chunks \subseteq Plans
    BY <1>0 DEF WalletTyped, SplitTyped
  <2>2. split.left - amount \in Nat /\ split.left - amount <= split.goal
    BY <1>3, <1>5, <2>1 DEF Splits
  <2>3. (split.dearer \/ quoted > split.quoted) \in BOOLEAN
    OBVIOUS
  <2>4. cur' = n /\ plans'[cur'].pay = amount
    BY <1>7, <1>8, <1>9
  <2>5. split.chunks \cup {n} \in SUBSET Nat /\ split.chunks \cup {n} \subseteq Plans'
    BY <1>9, <2>1 DEF Splits
  <2> QED
    BY <1>1, <1>2, <2>1, <2>2, <2>3, <2>4, <2>5 DEF Splits, SplitTyped
<1>12. ASSUME faults = 0 PROVE Splitting'
  <2>1. Splitting
    BY <1>12 DEF WalletKept
  <2>2. Landed' = Landed /\ Landed \subseteq Plans
    BY <1>0, <1>2 DEF Landed, WalletTyped
  <2>3. Chunks' = Chunks /\ Chunks \in SUBSET Plans
    BY <1>9, <1>11, <2>2 DEF Chunks
  <2>4. Moving' = amount /\ Moving = 0
    BY <1>2, <1>7, <1>8, <1>9, <1>11, <2>2 DEF Moving
  <2>5. PayIn(plans', Chunks') = PayIn(plans, Chunks) /\ PayIn(plans, Chunks) \in Nat
    BY <1>0, <1>10, <2>3, SumTypes, PlanTypes
  <2>6. PayIn(plans, Chunks) + split.left = split.goal
    <3>1. PayIn(plans, Chunks) + split.left + Moving = split.goal
      BY <1>2, <2>1 DEF Splitting
    <3> QED
      BY <1>3, <2>4, <2>5, <3>1
  <2>7. PayIn(plans', Chunks') + split'.left + Moving' = split'.goal
    <3>1. PayIn(plans', Chunks') + split'.left + Moving' = PayIn(plans, Chunks) + (split.left - amount) + amount
      BY <1>11, <2>4, <2>5
    <3> QED
      BY <1>3, <1>4, <1>5, <1>11, <2>5, <2>6, <3>1
  <2>8. Free' = Unspent \ P
    BY <1>2, <1>7, <1>8, <1>9 DEF Free, Unspent
  <2>9. ASSUME ~split'.dearer, ~split'.crossed PROVE \E W \in SUBSET (Unspent \ P) : Pays(plans', W, split.quoted, split'.left)
    <3>1. ~split.dearer /\ ~(quoted > split.quoted) /\ split.quoted \in Nat
      BY <1>0, <1>11, <2>9, SplitTypes
    <3>2. PICK V \in SUBSET Unspent : Pays(plans, V, split.quoted, split.left)
      BY <1>2, <1>11, <2>1, <2>9, <3>1 DEF Splitting, Free
    <3>3. CASE amount = split.left
      <4>1. {} \in SUBSET (Unspent \ P) /\ split'.left = 0
        BY <1>3, <1>11, <3>3
      <4>2. OwnIn(plans', {}) = 0 /\ Cardinality({}) = 0
        BY <1>0, <1>10, PlanTypes, SumTypes, FS_EmptySet
      <4>3. (0 + 1) \div 2 = 0 /\ split.quoted * 0 = 0
        BY <3>1
      <4>4. Pays(plans', {}, split.quoted, split'.left)
        BY <4>1, <4>2, <4>3 DEF Pays
      <4> QED
        BY <4>1, <4>4
    <3>4. CASE amount # split.left
      <4>1. amount = t - quoted /\ t - quoted > 0 /\ split.left > t - quoted /\ quoted <= split.quoted
        BY <1>3, <1>4, <1>5, <3>1, <3>4
      <4>2. \E W \in SUBSET (Unspent \ P) : Pays(plans, W, split.quoted, split.left - (t - quoted))
        BY <1>0, <1>3, <1>4, <3>1, <3>2, <4>1, StillPays DEF t
      <4>3. PICK W \in SUBSET (Unspent \ P) : Pays(plans, W, split.quoted, split'.left)
        BY <1>11, <4>1, <4>2
      <4>4. W \in SUBSET Plans
        BY <1>3
      <4>5. Pays(plans', W, split.quoted, split'.left)
        BY <1>10, <4>3, <4>4 DEF Pays
      <4> QED
        BY <4>5
    <3> QED
      BY <3>3, <3>4
  <2> QED
    BY <1>11, <2>7, <2>8, <2>9 DEF Splitting
<1> QED
  BY <1>0, <1>2, <1>7, <1>8, <1>11, <1>12, BeginKeeps

LEMMA WalletStart == Init => WalletKept
<1> SUFFICES ASSUME Init PROVE WalletKept
  OBVIOUS
<1>1. Holdings \in Seq(Nat \ {0}) /\ Len(Holdings) \in Nat /\ DOMAIN Holdings = 1..Len(Holdings)
      /\ \A n \in 1..Len(Holdings) : Holdings[n] \in Nat \ {0}
  BY WalletAssumptions
<1> DEFINE h == Len(Holdings)
<1>2. /\ plans = [n \in 1..h |-> Incoming(Holdings[n])] /\ result = [n \in 1..h |-> "none"]
      /\ chain = [n \in 1..h |-> n] /\ indexed = h /\ pending = {} /\ known = 1..h /\ spent = {}
      /\ pc = "idle" /\ cur = 0 /\ outcome = "hash" /\ split = NoSplit /\ faults = 0
  BY <1>1 DEF Init
<1>3. \A n \in 1..h : Incoming(Holdings[n]) \in Made
  BY <1>1 DEF Incoming, Made
<1> HIDE DEF h
<1>4. h \in Nat
  BY <1>1 DEF h
<1>5. /\ plans \in Seq(Made) /\ Len(plans) = h /\ Plans = 1..h
      /\ \A p \in Plans : plans[p].inputs = {} /\ plans[p].own > 0
  <2>1. plans \in [1..h -> Made]
    BY <1>2, <1>3
  <2>2. plans \in Seq(Made) /\ Len(plans) = h
    BY <1>4, <2>1
  <2>3. \A p \in 1..h : plans[p].inputs = {} /\ plans[p].own > 0
    BY <1>1, <1>2 DEF Incoming, h
  <2> QED
    BY <2>2, <2>3 DEF Plans
<1>6. result \in Seq(Results) /\ Len(result) = h /\ \A p \in Plans : result[p] = "none"
  <2>1. result \in [1..h -> Results]
    BY <1>2 DEF Results
  <2> QED
    BY <1>2, <1>4, <1>5, <2>1
<1>7. chain \in Seq(Nat) /\ Len(chain) = h /\ Landed = 1..h
  <2>1. chain \in [1..h -> Nat]
    BY <1>2, <1>4
  <2>2. chain \in Seq(Nat) /\ Len(chain) = h
    BY <1>4, <2>1
  <2> QED
    BY <1>2, <2>2 DEF Landed
<1>8. WalletTyped
  <2>1. known \subseteq Own(Plans)
    BY <1>2, <1>5 DEF Own
  <2>2. SplitTyped
    BY <1>2 DEF NoSplit, Splits, SplitTyped
  <2>3. faults \in 0..MaxFaults
    BY <1>2, WalletAssumptions
  <2>4. /\ \A p \in Plans : plans[p].inputs \subseteq Plans
        /\ Landed \subseteq Plans /\ indexed \in 0..Len(chain) /\ cur \in 0..Len(plans)
    <3>1. \A p \in Plans : plans[p].inputs \subseteq Plans
      BY <1>5
    <3>2. Landed \subseteq Plans
      BY <1>5, <1>7, Zenon
    <3>3. h \in 0..h /\ 0 \in 0..h
      BY <1>4
    <3>4. indexed \in 0..Len(chain) /\ cur \in 0..Len(plans)
      BY <1>2, <1>5, <1>7, <3>3, Zenon
    <3> QED
      BY <3>1, <3>2, <3>4, Zenon
  <2>5. pc \in Busy \cup {"idle"} /\ (pc # "idle" => cur \in Plans) /\ pending = {} /\ spent = {}
        /\ outcome \in {"hash", "already-submitted"}
    BY <1>2
  <2> QED
    BY <1>5, <1>6, <1>7, <2>1, <2>2, <2>3, <2>4, <2>5 DEF WalletTyped
<1>9. Stages /\ HashMeansLanded /\ ChangeKept /\ Taken
  BY <1>2, <1>6 DEF Stages, Taken, HashMeansLanded, ChangeKept
<1>10. Honest
  <2>1. Nullified = {}
    BY <1>5, <1>7 DEF Nullified, InputsOf
  <2> QED
    BY <1>2, <1>5, <1>6, <1>7, <2>1 DEF Honest, StoredNotesExist, MarkedIsSpent
<1>11. Splitting
  BY <1>2 DEF Splitting, NoSplit
<1> QED
  BY <1>8, <1>9, <1>10, <1>11 DEF WalletKept

LEMMA WalletStep == WalletKept /\ [Next]_vars => WalletKept'
<1> SUFFICES ASSUME WalletKept, [Next]_vars PROVE WalletKept'
  OBVIOUS
<1>1. CASE \E p \in pending : Land(p) \/ Drop(p)
  BY <1>1, LandKeeps, DropKeeps
<1>2. CASE Index
  BY <1>2, IndexKeeps
<1>3. CASE \E a \in Deposits : Receive(a) \/ Shield(a)
  BY <1>3, ReceiveKeeps, ShieldKeeps
<1>4. CASE \E a \in Amounts, op \in Ops : Spend(op, a)
  BY <1>4, SpendKeeps
<1>5. CASE \E a \in Amounts : StartSplit(a)
  BY <1>5, StartKeeps
<1>6. CASE \E op \in Ops : Chunk(op)
  BY <1>6, ChunkKeeps
<1>21. CASE \E a \in Amounts, op \in Ops : OtherChunk(op, a)
  BY <1>21, OtherKeeps
<1>7. CASE Scan
  BY <1>7, ScanKeeps
<1>8. CASE FinishSplit
  BY <1>8, FinishKeeps
<1>9. CASE CloseScreen \/ ChunkThrows
  BY <1>9, CloseKeeps
<1>10. CASE Submit
  BY <1>10, SubmitKeeps
<1>11. CASE SubmitRefused
  BY <1>11, RefusedKeeps
<1>12. CASE AwaitTx
  BY <1>12, AwaitKeeps
<1>13. CASE Check
  BY <1>13, CheckKeeps
<1>14. CASE AddNotes
  BY <1>14, AddKeeps
<1>15. CASE MarkSpent
  BY <1>15, MarkKeeps
<1>16. CASE SubmitFails
  BY <1>16, FailsKeeps
<1>17. CASE AwaitTimeout
  BY <1>17, TimeoutKeeps
<1>18. CASE Crash
  BY <1>18, CrashKeeps
<1>19. CASE Reinstall
  BY <1>19, ReinstallKeeps
<1>20. CASE UNCHANGED vars
  BY <1>20, OnlySplit DEF vars, WalletKept, WalletTyped, SplitTyped, Plans, Splitting, Chunks, Moving, Free, Unspent, Landed
<1> QED
  BY <1>1, <1>2, <1>3, <1>4, <1>5, <1>6, <1>7, <1>8, <1>9, <1>10, <1>11, <1>12, <1>13, <1>14, <1>15,
     <1>16, <1>17, <1>18, <1>19, <1>20, <1>21 DEF Next, Work

LEMMA WalletFollows == WalletKept => WalletInv /\ SplitPaysAll /\ ChangeKept
<1> SUFFICES ASSUME WalletKept PROVE WalletInv /\ SplitPaysAll /\ ChangeKept
  OBVIOUS
<1> USE DEF WalletKept
<1>1. TypeOK
  <2>1. plans \in Seq([op : {"receive", "shield", "send", "unshield"}, inputs : SUBSET Plans, pay : Nat, own : Nat])
    <3> DEFINE M == [op : {"receive", "shield", "send", "unshield"}, inputs : SUBSET Plans, pay : Nat, own : Nat]
    <3>1. \A p \in Plans : plans[p] \in M
      BY PlanTypes DEF WalletTyped, Made
    <3> HIDE DEF M
    <3>2. DOMAIN plans = 1..Len(plans) /\ Len(plans) \in Nat /\ plans = [p \in 1..Len(plans) |-> plans[p]]
      BY DEF WalletTyped
    <3>3. plans \in [1..Len(plans) -> M]
      BY <3>1, <3>2 DEF Plans
    <3>4. plans \in Seq(M)
      BY <3>2, <3>3
    <3> QED
      BY <3>4 DEF M
  <2>2. split.state \in {"off", "on", "done"} /\ split.left \in 0..split.goal
    BY SplitTypes DEF WalletTyped, SplitTyped
  <2> QED
    BY <2>1, <2>2 DEF WalletTyped, SplitTyped, TypeOK, Busy, Results
<1>2. ASSUME faults = 0 PROVE StoredNotesExist /\ MarkedIsSpent /\ StoreIsTruth /\ SuccessMeansPaid
  <2>1. StoredNotesExist /\ MarkedIsSpent
    BY <1>2 DEF Honest
  <2>2. StoreIsTruth
    BY <1>2 DEF Honest, StoreIsTruth, Unrecorded
  <2>3. SuccessMeansPaid
    BY <1>2 DEF Honest, SuccessMeansPaid
  <2> QED
    BY <2>1, <2>2, <2>3
<1>3. SplitPaysAll
  <2> SUFFICES ASSUME split.state # "off", faults = 0, pc = "idle"
               PROVE  /\ Paid(Chunks) = split.goal - split.left
                      /\ split.state = "done" /\ ~split.dearer /\ ~split.crossed => split.left = 0
    BY DEF SplitPaysAll, Chunks
  <2>1. Moving = 0 /\ PayIn(plans, Chunks) + split.left + Moving = split.goal
    BY DEF Splitting, Moving
  <2>2. PayIn(plans, Chunks) \in Nat /\ split.left \in Nat
    BY SumTypes, PlanTypes, SplitTypes DEF Chunks, WalletTyped
  <2>3. Paid(Chunks) = PayIn(plans, Chunks)
    BY TotalsAreSums
  <2> QED
    BY <2>1, <2>2, <2>3 DEF Splitting
<1> QED
  BY <1>1, <1>2, <1>3 DEF WalletInv, Truthful

LEMMA WalletAlways == Spec => []WalletKept
<1> QED
  BY WalletStart, WalletStep, PTL DEF Spec

(* background/shielded.ts: for any notes, fees and requests and any order  *)
(* of landings and answers, a hash is reported only of what was applied;   *)
(* and until something fails, a note flagged spent is spent, a stored note *)
(* is one the ledger holds, and success means that the payment was made.   *)
THEOREM WalletHolds == Spec => []WalletInv
<1> QED
  BY WalletAlways, WalletFollows, PTL

(* For any notes, fees and requests, and whatever other windows spend or   *)
(* deposit between its chunks: until something fails, a payment split into *)
(* chunks has sent what its progress says, and its whole goal when it says *)
(* done, unless a chunk's fee rose above the one it reckoned with or       *)
(* another operation spent the notes it counted on.                        *)
THEOREM SplitsPay == Spec => []SplitPaysAll
<1> QED
  BY WalletAlways, WalletFollows, PTL

(* shielded.ts:147: for any notes and however often the worker stops, a    *)
(* note flagged spent was spent by a payment that landed and whose change  *)
(* is stored, or was flagged for one reported as already submitted that    *)
(* never landed.                                                           *)
THEOREM ChangeIsKept == Spec => []ChangeKept
<1> QED
  BY WalletAlways, WalletFollows, PTL
=============================================================================
