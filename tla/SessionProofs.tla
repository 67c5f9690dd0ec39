--------------------------- MODULE SessionProofs ----------------------------
(***************************************************************************)
(* Session: TypeOK, StoresAgree, OnlyApproved, SessionInv and              *)
(* SignerIsReported hold of every instance. A handler is a sequence of     *)
(* steps, so the proofs first say how the programs are formed (Formed,     *)
(* Fit), then how any action changes one request's record (Turned, Heeds), *)
(* once and for all; each property is an invariant over those few changes  *)
(* instead of over thirty actions.                                         *)
(***************************************************************************)
EXTENDS Session, TLAPS

(* Programs, as sequences of steps. *)

Steps == {"session", "account", "secret", "network", "allowed", "unlock", "connect", "known", "wait", "answer",
          "list", "grant", "revoke", "revokeAll", "payload", "putPayload", "cleared", "putCleared",
          "controls", "fetch", "sign", "active", "seed", "saveActive", "putAccount", "putSecret", "putSeed",
          "dropAccount", "dropSecret", "dropSeed", "setNetwork"}
(* The steps with which a handler of the session begins and goes on writing it *)
Writes == {"active", "seed", "saveActive", "putAccount", "putSecret", "putSeed", "dropAccount", "dropSecret", "dropSeed"}
(* The steps that read which account the wallet is open for *)
Reads == {"session", "account", "secret", "active", "unlock"}

(* Every step of B in t comes after one of A *)
Precedes(t, A, B) == \A j \in 1..Len(t) : t[j] \in B => \E i \in 1..(j - 1) : t[i] \in A
(* No step of B comes after one of A *)
NoneAfter(t, A, B) == \A i, j \in 1..Len(t) : i < j /\ t[i] \in A => t[j] \notin B
(* Every step of B but a first one comes directly after one of A *)
Joined(t, A, B) == \A j \in 2..Len(t) : t[j] \in B => t[j - 1] \in A
(* t has a step of A *)
Has(t, A) == \E j \in 1..Len(t) : t[j] \in A

(* What every handler's remaining steps keep to: a payload stored is waited for; a list or a      *)
(* payload list is written right after it is read; the session is read first or not at all;       *)
(* nothing is read again once the request was allowed, but the secret, and nothing at all after a *)
(* signature                                                                                      *)
Formed(t) ==
    /\ t \in Seq(Steps)
    /\ \A j \in 1..Len(t) : t[j] = "putPayload" => j < Len(t) /\ t[j + 1] = "wait"
    /\ Joined(t, {"list"}, {"grant", "revoke", "revokeAll"})
    /\ Joined(t, {"payload"}, {"putPayload"}) /\ Joined(t, {"cleared"}, {"putCleared"})
    /\ Joined(t, {}, {"session"})
    /\ NoneAfter(t, {"allowed"}, Reads \ {"secret"})
    /\ NoneAfter(t, {"sign", "controls"}, Reads)

(* The tail of a sequence of steps *)
LEMMA Suffix ==
  ASSUME NEW t \in Seq(Steps), t # <<>>
  PROVE /\ Tail(t) \in Seq(Steps) /\ Len(Tail(t)) = Len(t) - 1 /\ \A i \in 1..(Len(t) - 1) : Tail(t)[i] = t[i + 1]
        /\ t[1] = Head(t) /\ Len(t) \in Nat /\ Len(t) > 0
OBVIOUS

(* A step already passed is not one of A: what precedes goes on to precede in the rest *)
LEMMA PrecedesTail ==
  ASSUME NEW t \in Seq(Steps), t # <<>>, NEW A, NEW B, Precedes(t, A, B), t[1] \notin A
  PROVE  Precedes(Tail(t), A, B)
<1>1. SUFFICES ASSUME NEW j \in 1..Len(Tail(t)), Tail(t)[j] \in B PROVE \E i \in 1..(j - 1) : Tail(t)[i] \in A
  BY DEF Precedes
<1>2. j + 1 \in 1..Len(t) /\ t[j + 1] \in B BY <1>1, Suffix
<1>3. PICK i \in 1..(j + 1 - 1) : t[i] \in A BY <1>2 DEF Precedes
<1>4. i # 1 BY <1>3
<1>5. i - 1 \in 1..(j - 1) /\ Tail(t)[i - 1] = t[i] BY <1>3, <1>4, <1>1, Suffix
<1> QED BY <1>3, <1>5

(* Once a step of A is passed, none of B is left *)
LEMMA NoneAfterTail ==
  ASSUME NEW t \in Seq(Steps), t # <<>>, NEW A, NEW B, NoneAfter(t, A, B)
  PROVE  NoneAfter(Tail(t), A, B) /\ (t[1] \in A => ~Has(Tail(t), B))
<1>1. ASSUME NEW i \in 1..Len(Tail(t)), NEW j \in 1..Len(Tail(t)), i < j, Tail(t)[i] \in A PROVE Tail(t)[j] \notin B
  <2>1. /\ i + 1 \in 1..Len(t) /\ j + 1 \in 1..Len(t) /\ Tail(t)[i] = t[i + 1]
        /\ Tail(t)[j] = t[j + 1] /\ i + 1 < j + 1
    BY <1>1, Suffix
  <2> QED BY <2>1, <1>1 DEF NoneAfter
<1>2. ASSUME t[1] \in A, NEW j \in 1..Len(Tail(t)) PROVE Tail(t)[j] \notin B
  <2>1. 1 \in 1..Len(t) /\ j + 1 \in 1..Len(t) /\ Tail(t)[j] = t[j + 1] /\ 1 < j + 1 BY <1>2, Suffix
  <2> QED BY <2>1, <1>2 DEF NoneAfter
<1> QED BY <1>1, <1>2 DEF NoneAfter, Has

(* What is joined stays joined in the rest *)
LEMMA JoinedTail ==
  ASSUME NEW t \in Seq(Steps), t # <<>>, NEW A, NEW B, Joined(t, A, B)
  PROVE  Joined(Tail(t), A, B) /\ (Tail(t) # <<>> /\ Head(Tail(t)) \in B => t[1] \in A)
<1>1. ASSUME NEW j \in 2..Len(Tail(t)), Tail(t)[j] \in B PROVE Tail(t)[j - 1] \in A
  <2>1. j + 1 \in 2..Len(t) /\ Tail(t)[j] = t[j + 1] /\ Tail(t)[j - 1] = t[j] BY <1>1, Suffix
  <2>2. (j + 1) - 1 = j BY <1>1
  <2> QED BY <2>1, <2>2, <1>1 DEF Joined
<1>2. ASSUME Tail(t) # <<>>, Head(Tail(t)) \in B PROVE t[1] \in A
  <2>1. Len(Tail(t)) > 0 /\ Head(Tail(t)) = Tail(t)[1] BY <1>2, Suffix
  <2>2. 2 \in 2..Len(t) /\ Tail(t)[1] = t[2] BY <2>1, Suffix
  <2>3. 2 - 1 = 1 OBVIOUS
  <2> QED BY <2>1, <2>2, <2>3, <1>2 DEF Joined
<1> QED BY <1>1, <1>2 DEF Joined

(* A handler's rest is formed as its program is *)
LEMMA FormedTail ==
  ASSUME NEW t, Formed(t), t # <<>> PROVE Formed(Tail(t))
<1>1. t \in Seq(Steps) BY DEF Formed
<1>2. \A j \in 1..Len(Tail(t)) : Tail(t)[j] = "putPayload" => j < Len(Tail(t)) /\ Tail(t)[j + 1] = "wait"
  <2> SUFFICES ASSUME NEW j \in 1..Len(Tail(t)), Tail(t)[j] = "putPayload" PROVE j < Len(Tail(t)) /\ Tail(t)[j + 1] = "wait"
    OBVIOUS
  <2>1. j + 1 \in 1..Len(t) /\ Tail(t)[j] = t[j + 1] /\ Len(Tail(t)) = Len(t) - 1 BY <1>1, Suffix
  <2>2. j + 1 < Len(t) /\ t[(j + 1) + 1] = "wait" BY <2>1 DEF Formed
  <2>3. j + 1 \in 1..(Len(t) - 1) BY <2>1, <2>2
  <2>4. Tail(t)[j + 1] = t[(j + 1) + 1] BY <2>3, <1>1, Suffix
  <2> QED BY <2>1, <2>2, <2>4
<1>3. Tail(t) \in Seq(Steps) BY <1>1, Suffix
<1>4. /\ Joined(Tail(t), {"list"}, {"grant", "revoke", "revokeAll"})
      /\ Joined(Tail(t), {"payload"}, {"putPayload"})
      /\ Joined(Tail(t), {"cleared"}, {"putCleared"})
      /\ Joined(Tail(t), {}, {"session"})
  BY <1>1, JoinedTail DEF Formed
<1>5. /\ NoneAfter(Tail(t), {"allowed"}, Reads \ {"secret"})
      /\ NoneAfter(Tail(t), {"sign", "controls"}, Reads)
  BY <1>1, NoneAfterTail DEF Formed
<1> QED BY <1>2, <1>3, <1>4, <1>5 DEF Formed

(* Two sequences of steps put together *)
LEMMA Joins ==
  ASSUME NEW s \in Seq(Steps), NEW t \in Seq(Steps)
  PROVE /\ s \o t \in Seq(Steps) /\ Len(s \o t) = Len(s) + Len(t) /\ Len(s) \in Nat
        /\ Len(t) \in Nat
        /\ \A i \in 1..Len(s) : (s \o t)[i] = s[i]
        /\ \A j \in 1..Len(t) : (s \o t)[Len(s) + j] = t[j]
        /\ \A k \in 1..Len(s \o t) : k \in 1..Len(s) \/ \E j \in 1..Len(t) : k = Len(s) + j
<1>1. s \o t \in Seq(Steps) /\ Len(s \o t) = Len(s) + Len(t) /\ Len(s) \in Nat /\ Len(t) \in Nat
  OBVIOUS
<1>2. \A i \in 1..Len(s) : (s \o t)[i] = s[i] OBVIOUS
<1>3. \A j \in 1..Len(t) : (s \o t)[Len(s) + j] = t[j] OBVIOUS
<1>4. ASSUME NEW k \in 1..Len(s \o t), k \notin 1..Len(s) PROVE \E j \in 1..Len(t) : k = Len(s) + j
  <2>1. k - Len(s) \in 1..Len(t) /\ k = Len(s) + (k - Len(s)) BY <1>1, <1>4
  <2> QED BY <2>1
<1> QED BY <1>1, <1>2, <1>3, <1>4

(* What two sequences put together have *)
LEMMA HasJoined ==
  ASSUME NEW s \in Seq(Steps), NEW t \in Seq(Steps), NEW A
  PROVE  Has(s \o t, A) <=> Has(s, A) \/ Has(t, A)
<1>1. ASSUME NEW k \in 1..Len(s \o t), (s \o t)[k] \in A PROVE Has(s, A) \/ Has(t, A)
  <2>1. CASE k \in 1..Len(s) BY <2>1, <1>1, Joins DEF Has
  <2>2. CASE k \notin 1..Len(s)
    <3>1. PICK j \in 1..Len(t) : k = Len(s) + j BY <2>2, Joins
    <3>2. t[j] \in A BY <3>1, <1>1, Joins
    <3> QED BY <3>2 DEF Has
  <2> QED BY <2>1, <2>2
<1>2. ASSUME NEW k \in 1..Len(s), s[k] \in A PROVE Has(s \o t, A)
  <2>1. k \in 1..Len(s \o t) /\ (s \o t)[k] \in A BY <1>2, Joins
  <2> QED BY <2>1 DEF Has
<1>3. ASSUME NEW k \in 1..Len(t), t[k] \in A PROVE Has(s \o t, A)
  <2>1. Len(s) + k \in 1..Len(s \o t) /\ (s \o t)[Len(s) + k] \in A BY <1>3, Joins
  <2> QED BY <2>1 DEF Has
<1> QED BY <1>1, <1>2, <1>3 DEF Has

(* The steps that must follow another *)
Second == {"grant", "revoke", "revokeAll", "putPayload", "putCleared", "session"}

(* Two formed sequences make a formed one, when the second reads nothing the first forbids *)
LEMMA FormedJoined ==
  ASSUME NEW s, NEW t, Formed(s), Formed(t), t # <<>> => t[1] \notin Second,
         ~Has(s, {"allowed"}) \/ ~Has(t, Reads \ {"secret"}), ~Has(s, {"sign", "controls"}) \/ ~Has(t, Reads)
  PROVE  Formed(s \o t)
<1>1. s \in Seq(Steps) /\ t \in Seq(Steps) BY DEF Formed
<1>2. \A k \in 1..Len(s \o t) : \/ k \in 1..Len(s) /\ (s \o t)[k] = s[k]
                                \/ \E j \in 1..Len(t) : k = Len(s) + j /\ (s \o t)[k] = t[j]
  BY <1>1, Joins
<1>3. Len(s) \in Nat /\ Len(t) \in Nat /\ Len(s \o t) = Len(s) + Len(t) /\ s \o t \in Seq(Steps)
  BY <1>1, Joins
<1>4. ASSUME NEW k \in 1..Len(s \o t), (s \o t)[k] = "putPayload"
      PROVE  k < Len(s \o t) /\ (s \o t)[k + 1] = "wait"
  <2>1. CASE k \in 1..Len(s)
    <3>1. k < Len(s) /\ s[k + 1] = "wait" BY <2>1, <1>1, <1>4, Joins DEF Formed
    <3>2. k + 1 \in 1..Len(s) BY <3>1, <1>3
    <3> QED BY <3>1, <3>2, <1>1, <1>3, Joins
  <2>2. CASE k \notin 1..Len(s)
    <3>1. PICK j \in 1..Len(t) : k = Len(s) + j /\ (s \o t)[k] = t[j] BY <2>2, <1>2
    <3>2. j < Len(t) /\ t[j + 1] = "wait" BY <3>1, <1>4 DEF Formed
    <3>3. j + 1 \in 1..Len(t) /\ k + 1 = Len(s) + (j + 1) BY <3>1, <3>2, <1>3
    <3>4. (s \o t)[Len(s) + (j + 1)] = t[j + 1] BY <3>3, <1>1, Joins
    <3>5. k < Len(s \o t) BY <3>1, <3>2, <1>3
    <3> QED BY <3>2, <3>3, <3>4, <3>5
  <2> QED BY <2>1, <2>2
<1>5. ASSUME NEW A, NEW B, Joined(s, A, B), Joined(t, A, B), t # <<>> => t[1] \notin B PROVE Joined(s \o t, A, B)
  <2> SUFFICES ASSUME NEW k \in 2..Len(s \o t), (s \o t)[k] \in B PROVE (s \o t)[k - 1] \in A
    BY DEF Joined
  <2>1. k \in 1..Len(s \o t) /\ k - 1 \in 1..Len(s \o t) BY <1>3
  <2>2. CASE k \in 1..Len(s)
    <3>1. k \in 2..Len(s) /\ k - 1 \in 1..Len(s) /\ (s \o t)[k] = s[k] BY <2>2, <1>1, Joins
    <3> QED BY <3>1, <1>1, <1>5, Joins DEF Joined
  <2>3. CASE k \notin 1..Len(s)
    <3>1. PICK j \in 1..Len(t) : k = Len(s) + j /\ (s \o t)[k] = t[j] BY <2>3, <2>1, <1>2
    <3>2. j # 1 BY <3>1, <1>5, <1>3
    <3>3. j \in 2..Len(t) /\ j - 1 \in 1..Len(t) /\ k - 1 = Len(s) + (j - 1) BY <3>1, <3>2, <1>3
    <3> QED BY <3>1, <3>3, <1>1, <1>5, Joins DEF Joined
  <2> QED BY <2>2, <2>3
<1>6. ASSUME NEW A, NEW B, NoneAfter(s, A, B), NoneAfter(t, A, B), ~Has(s, A) \/ ~Has(t, B) PROVE NoneAfter(s \o t, A, B)
  <2> SUFFICES ASSUME NEW i \in 1..Len(s \o t), NEW k \in 1..Len(s \o t), i < k, (s \o t)[i] \in A PROVE (s \o t)[k] \notin B
    BY DEF NoneAfter
  <2>1. CASE k \in 1..Len(s)
    <3>1. i \in 1..Len(s) /\ (s \o t)[k] = s[k] /\ (s \o t)[i] = s[i] BY <2>1, <1>1, Joins
    <3> QED BY <3>1, <2>1, <1>6 DEF NoneAfter
  <2>2. CASE k \notin 1..Len(s)
    <3>1. PICK j \in 1..Len(t) : k = Len(s) + j /\ (s \o t)[k] = t[j] BY <2>2, <1>2
    <3>2. CASE i \in 1..Len(s)
      <4>1. Has(s, A) BY <3>2, <1>1, Joins DEF Has
      <4> QED BY <4>1, <3>1, <1>6 DEF Has
    <3>3. CASE i \notin 1..Len(s)
      <4>1. PICK m \in 1..Len(t) : i = Len(s) + m /\ (s \o t)[i] = t[m] BY <3>3, <1>2
      <4>2. m < j BY <3>1, <4>1, <1>3
      <4> QED BY <3>1, <4>1, <4>2, <1>6 DEF NoneAfter
    <3> QED BY <3>2, <3>3
  <2> QED BY <2>1, <2>2
<1>7. t # <<>> => t[1] \notin {"grant", "revoke", "revokeAll"} /\ t[1] \notin {"putPayload"} /\ t[1] \notin {"putCleared"} /\ t[1] \notin {"session"}
  BY DEF Second
<1>8. /\ Joined(s \o t, {"list"}, {"grant", "revoke", "revokeAll"})
      /\ Joined(s \o t, {"payload"}, {"putPayload"}) /\ Joined(s \o t, {"cleared"}, {"putCleared"})
      /\ Joined(s \o t, {}, {"session"})
  BY <1>5, <1>7 DEF Formed
<1>9. /\ NoneAfter(s \o t, {"allowed"}, Reads \ {"secret"})
      /\ NoneAfter(s \o t, {"sign", "controls"}, Reads)
  BY <1>6 DEF Formed
<1> QED BY <1>3, <1>4, <1>8, <1>9 DEF Formed

(* A first part that has a step of A, or a second part that orders it, orders the whole *)
LEMMA PrecedesJoined ==
  ASSUME NEW s \in Seq(Steps), NEW t \in Seq(Steps), NEW A, NEW B, ~Has(s, B), Has(s, A) \/ Precedes(t, A, B)
  PROVE  Precedes(s \o t, A, B)
<1> SUFFICES ASSUME NEW k \in 1..Len(s \o t), (s \o t)[k] \in B PROVE \E i \in 1..(k - 1) : (s \o t)[i] \in A
  BY DEF Precedes
<1>1. k \notin 1..Len(s) BY Joins DEF Has
<1>2. PICK j \in 1..Len(t) : k = Len(s) + j /\ (s \o t)[k] = t[j] BY <1>1, Joins
<1>3. CASE Has(s, A)
  <2>1. PICK i \in 1..Len(s) : s[i] \in A BY <1>3 DEF Has
  <2>2. i \in 1..(k - 1) /\ (s \o t)[i] = s[i] BY <2>1, <1>2, Joins
  <2> QED BY <2>1, <2>2
<1>4. CASE Precedes(t, A, B)
  <2>1. PICK i \in 1..(j - 1) : t[i] \in A BY <1>2, <1>4 DEF Precedes
  <2>2. Len(s) + i \in 1..(k - 1) /\ i \in 1..Len(t) BY <2>1, <1>2, Joins
  <2>3. (s \o t)[Len(s) + i] = t[i] BY <2>2, Joins
  <2> QED BY <2>1, <2>2, <2>3
<1> QED BY <1>3, <1>4

(* A second part without B changes nothing *)
LEMMA PrecedesFirst ==
  ASSUME NEW s \in Seq(Steps), NEW t \in Seq(Steps), NEW A, NEW B, Precedes(s, A, B), ~Has(t, B)
  PROVE  Precedes(s \o t, A, B)
<1> SUFFICES ASSUME NEW k \in 1..Len(s \o t), (s \o t)[k] \in B PROVE \E i \in 1..(k - 1) : (s \o t)[i] \in A
  BY DEF Precedes
<1>1. k \in 1..Len(s) /\ s[k] \in B
  <2>1. ASSUME NEW j \in 1..Len(t), k = Len(s) + j PROVE FALSE
    <3>1. t[j] \in B BY <2>1, Joins
    <3> QED BY <3>1 DEF Has
  <2>2. k \in 1..Len(s) BY <2>1, Joins
  <2> QED BY <2>2, Joins
<1>2. PICK i \in 1..(k - 1) : s[i] \in A BY <1>1 DEF Precedes
<1>3. i \in 1..Len(s) BY <1>1, <1>2, Joins
<1> QED BY <1>2, <1>3, Joins

(* Reads of the secret and of the network, calls and signatures *)
LEMMA QuietForms ==
  ASSUME NEW t \in Seq({"secret", "network", "fetch", "sign"}), ~Has(t, {"sign"}) \/ ~Has(t, {"secret"})
  PROVE  Formed(t) /\ t \in Seq(Steps) /\ (t # <<>> => t[1] \notin Second)
         /\ \A A \in SUBSET Steps : Has(t, A) => \E a \in {"secret", "network", "fetch", "sign"} : a \in A
<1>1. t \in Seq(Steps) /\ Len(t) \in Nat BY DEF Steps
<1>2. \A j \in 1..Len(t) : t[j] \in {"secret", "network", "fetch", "sign"} OBVIOUS
<1>3. NoneAfter(t, {"allowed"}, Reads \ {"secret"}) /\ NoneAfter(t, {"sign", "controls"}, Reads)
  BY <1>2 DEF NoneAfter, Reads, Has
<1>4. /\ Joined(t, {"list"}, {"grant", "revoke", "revokeAll"})
      /\ Joined(t, {"payload"}, {"putPayload"}) /\ Joined(t, {"cleared"}, {"putCleared"})
      /\ Joined(t, {}, {"session"})
  BY <1>1, <1>2 DEF Joined
<1>5. Formed(t) BY <1>1, <1>2, <1>3, <1>4 DEF Formed
<1>6. t # <<>> => t[1] \notin Second
  <2> SUFFICES ASSUME t # <<>> PROVE t[1] \notin Second OBVIOUS
  <2>1. 1 \in 1..Len(t) BY <1>1
  <2> QED BY <2>1, <1>2 DEF Second
<1> QED BY <1>1, <1>2, <1>5, <1>6 DEF Has

(* The steps of a handler that neither asks nor signs *)
PlainSteps == {"session", "account", "network", "allowed", "fetch", "secret", "controls", "list"}
Plain(t) == t \in Seq(PlainSteps) /\ t # <<>> /\ Joined(t, {}, {"session"}) /\ NoneAfter(t, {"allowed", "controls"}, Reads)
(* What holds of a whole program when its request arrives, and Fit keeps of the rest *)
Drawn(t) ==
    /\ t # <<>>
    /\ Has(t, Writes) => t \in {SWITCH_ACCOUNT, UNLOCK_WALLET, LOCK_WALLET}
    /\ ~Has(t, {"known", "grant", "answer"}) /\ (Has(t, {"connect"}) => t = REQUEST_ACCESS)
    /\ Precedes(t, {"account"}, {"revoke", "revokeAll"})
    /\ Precedes(t, {"network"}, {"revoke", "revokeAll"})
    /\ Has(t, {"revoke", "revokeAll"}) => t[1] = "account"
    /\ Precedes(t, {"secret"}, {"sign"}) /\ Precedes(t, {"account", "unlock"}, {"sign"})
    /\ t[1] \in {"session", "account"} => Precedes(t, {"wait"}, {"sign"}) /\ Precedes(t, {"allowed"}, {"sign"})
    /\ Has(t, {"unlock"}) => Precedes(t, {"allowed"}, {"secret"})

(* A plain program is formed and drawn *)
LEMMA PlainDrawn == ASSUME NEW t, Plain(t) PROVE Formed(t) /\ Drawn(t)
<1>1. t \in Seq(Steps) /\ Len(t) \in Nat BY DEF Steps, PlainSteps, Plain
<1>2. \A j \in 1..Len(t) : t[j] \in PlainSteps BY DEF Plain
<1>3. \A A : (A \cap PlainSteps = {}) => ~Has(t, A) /\ (\A B : Joined(t, B, A) /\ Precedes(t, B, A))
  BY <1>1, <1>2 DEF Has, Joined, Precedes
<1>4. NoneAfter(t, {"allowed"}, Reads \ {"secret"}) /\ NoneAfter(t, {"sign", "controls"}, Reads)
  BY <1>2 DEF Plain, NoneAfter, PlainSteps, Reads
<1>5. Formed(t)
  <2>1. "putPayload" \notin PlainSteps BY DEF PlainSteps
  <2>2. /\ Joined(t, {"list"}, {"grant", "revoke", "revokeAll"})
        /\ Joined(t, {"payload"}, {"putPayload"}) /\ Joined(t, {"cleared"}, {"putCleared"})
    BY <1>3 DEF PlainSteps
  <2>3. Joined(t, {}, {"session"}) BY DEF Plain
  <2> QED BY <1>1, <1>2, <1>4, <2>1, <2>2, <2>3 DEF Formed
<1>6. Drawn(t)
  <2>1. ~Has(t, Writes) BY <1>3 DEF PlainSteps, Writes
  <2>2. /\ ~Has(t, {"known", "grant", "answer"}) /\ ~Has(t, {"connect"})
        /\ ~Has(t, {"revoke", "revokeAll"}) /\ ~Has(t, {"unlock"})
    BY <1>3 DEF PlainSteps
  <2>3. \A B : Precedes(t, B, {"revoke", "revokeAll"}) /\ Precedes(t, B, {"sign"})
    BY <1>3 DEF PlainSteps
  <2> QED BY <2>1, <2>2, <2>3 DEF Drawn, Plain
<1> QED BY <1>5, <1>6

(* The handlers that only read *)
LEMMA PlainPrograms ==
  ASSUME NEW t \in {IS_CONNECTED, GET_ADDRESS, GET_PUBLIC_KEY, GET_NETWORK, GET_NETWORK_DETAILS, SUBMIT_TRANSACTION,
     ESTIMATE_FEE, GET_ACCOUNT_INFO, GET_BALANCE, GET_ASSETS, HAS_TRUSTLINE, GET_TRANSACTION, IS_ALLOWED,
     IS_CONNECTED_AND_ALLOWED, SIMULATE_CONTRACT, GET_CONTRACT_SPEC, GET_WALLET_STATUS, BUILD_PAYMENT, GET_SWAP_QUOTE,
     GET_CONNECTED_APPS, FETCH_HORIZON_ACCOUNT, PRIVATE_QUOTE, PRIVATE_REVEAL_NOTE, PRIVATE_RECOVER_FROM_SEED, PRIVATE_LIST_NOTES}
  PROVE Plain(t)
<1> USE DEF Plain, PlainSteps, NoneAfter, Reads, Joined
<1>1. /\ Plain(<<"session">>) /\ Plain(<<"session", "network">>)
      /\ Plain(<<"session", "network", "fetch">>)
  OBVIOUS
<1>2. /\ Plain(<<"session", "network", "allowed">>)
      /\ Plain(<<"session", "network", "fetch", "fetch">>)
  OBVIOUS
<1>3. /\ Plain(<<"account", "network", "allowed">>)
      /\ Plain(<<"account", "network", "allowed", "fetch">>)
  OBVIOUS
<1>4. Plain(<<"account", "network", "allowed", "network", "fetch">>) OBVIOUS
<1>5. /\ Plain(<<"account", "fetch", "fetch">>) /\ Plain(<<"account", "network", "list">>)
      /\ Plain(<<"network", "fetch">>)
  OBVIOUS
<1>6. Plain(<<"network", "secret", "account", "controls", "fetch">>) OBVIOUS
<1> HIDE DEF Plain, PlainSteps, NoneAfter, Reads, Joined
<1> QED
  BY <1>1, <1>2, <1>3, <1>4, <1>5, <1>6, Zenon DEF IS_CONNECTED, GET_ADDRESS, GET_PUBLIC_KEY,
     GET_NETWORK, GET_NETWORK_DETAILS, SUBMIT_TRANSACTION,
     ESTIMATE_FEE, GET_ACCOUNT_INFO, GET_BALANCE, GET_ASSETS, HAS_TRUSTLINE, GET_TRANSACTION, IS_ALLOWED,
     IS_CONNECTED_AND_ALLOWED, SIMULATE_CONTRACT, GET_CONTRACT_SPEC, GET_WALLET_STATUS, BUILD_PAYMENT, GET_SWAP_QUOTE,
     GET_CONNECTED_APPS, FETCH_HORIZON_ACCOUNT, PRIVATE_QUOTE, PRIVATE_REVEAL_NOTE, PRIVATE_RECOVER_FROM_SEED, PRIVATE_LIST_NOTES

(* The wallet's own handlers that sign without asking *)
LEMMA OwnPrograms ==
  ASSUME NEW t \in {SIGN_AND_SUBMIT_PAYMENT, CHANGE_TRUSTLINE, SIGN_AND_SUBMIT_SWAP, PRIVATE_SELF_RECLAIM, PRIVATE_PREPARE_SEND}
  PROVE Formed(t) /\ Drawn(t)
<1> USE DEF Formed, Drawn, Joined, Precedes, Has, Steps, Writes, NoneAfter, Reads
<1>1. Formed(SIGN_AND_SUBMIT_PAYMENT) /\ Drawn(SIGN_AND_SUBMIT_PAYMENT)
  BY DEF SIGN_AND_SUBMIT_PAYMENT
<1>2. Formed(SIGN_AND_SUBMIT_SWAP) /\ Drawn(SIGN_AND_SUBMIT_SWAP) BY DEF SIGN_AND_SUBMIT_SWAP
<1>3. Formed(PRIVATE_SELF_RECLAIM) /\ Drawn(PRIVATE_SELF_RECLAIM) BY DEF PRIVATE_SELF_RECLAIM
<1>4. CHANGE_TRUSTLINE = SIGN_AND_SUBMIT_PAYMENT /\ PRIVATE_PREPARE_SEND = PRIVATE_SELF_RECLAIM
  BY DEF CHANGE_TRUSTLINE, SIGN_AND_SUBMIT_PAYMENT, PRIVATE_PREPARE_SEND, PRIVATE_SELF_RECLAIM
<1> HIDE DEF Formed, Drawn
<1> QED BY <1>1, <1>2, <1>3, <1>4

(* The handlers of the session, of the allowlist and of the network *)
LEMMA SessionPrograms ==
  ASSUME NEW t \in {REQUEST_ACCESS, REVOKE_ACCESS, REVOKE_ALL_ACCESS, SWITCH_ACCOUNT, UNLOCK_WALLET, LOCK_WALLET, SET_ACTIVE_NETWORK}
  PROVE Formed(t) /\ Drawn(t)
<1> USE DEF Formed, Drawn, Joined, Precedes, Has, Steps, Writes, NoneAfter, Reads
<1>1. Formed(REQUEST_ACCESS) /\ Drawn(REQUEST_ACCESS) BY DEF REQUEST_ACCESS
<1>2. Formed(REVOKE_ACCESS) /\ Drawn(REVOKE_ACCESS) BY DEF REVOKE_ACCESS
<1>3. Formed(REVOKE_ALL_ACCESS) /\ Drawn(REVOKE_ALL_ACCESS) BY DEF REVOKE_ALL_ACCESS
<1>4. Formed(SWITCH_ACCOUNT) /\ Drawn(SWITCH_ACCOUNT) BY DEF SWITCH_ACCOUNT
<1>5. Formed(UNLOCK_WALLET) /\ Drawn(UNLOCK_WALLET) BY DEF UNLOCK_WALLET
<1>6. Formed(LOCK_WALLET) /\ Drawn(LOCK_WALLET) BY DEF LOCK_WALLET
<1>7. Formed(SET_ACTIVE_NETWORK) /\ Drawn(SET_ACTIVE_NETWORK) BY DEF SET_ACTIVE_NETWORK
<1> HIDE DEF Formed, Drawn
<1> QED BY <1>1, <1>2, <1>3, <1>4, <1>5, <1>6, <1>7

(* requireUnlockedAndAllowed, and the storing of a payload, the wait and the clearing *)
Gate == <<"session", "unlock", "network", "allowed">>
Approval == <<"payload", "putPayload", "wait", "cleared", "putCleared">>
(* The steps around an approval *)
Quiet(t) == t \in Seq({"secret", "network", "fetch", "sign"})

(* The gate and the approval are formed *)
LEMMA GateForms == /\ Formed(Gate) /\ Has(Gate, {"allowed"}) /\ Has(Gate, {"unlock"})
                   /\ \A A : A \cap {"session", "unlock", "network", "allowed"} = {} => ~Has(Gate, A)
                   /\ Formed(Approval) /\ Has(Approval, {"wait"}) /\ Approval[1] = "payload"
                   /\ Gate[1] = "session"
                   /\ \A A : A \cap {"payload", "putPayload", "wait", "cleared", "putCleared"} = {} => ~Has(Approval, A)
  BY DEF Formed, Joined, Has, Steps, NoneAfter, Reads, Gate, Approval

(* A handler that passes the gate, reads and asks the user: what it signs comes last *)
LEMMA AskedForms ==
  ASSUME NEW reads, NEW works, reads \in Seq({"secret", "network", "fetch"}), works \in Seq({"network", "fetch", "sign"}),
     Has(works, {"sign"}) => Has(reads, {"secret"})
  PROVE /\ Formed((Gate \o reads) \o (Approval \o works))
        /\ Drawn((Gate \o reads) \o (Approval \o works))
<1> DEFINE g == Gate \o reads
           a == Approval \o works
<1>1. Quiet(reads) /\ Quiet(works) /\ ~Has(reads, {"sign"}) /\ ~Has(works, {"secret"})
  BY DEF Quiet, Has
<1>2. Formed(reads) /\ Formed(works) /\ reads \in Seq(Steps) /\ works \in Seq(Steps)
      /\ (reads # <<>> => reads[1] \notin Second) /\ (works # <<>> => works[1] \notin Second)
  BY <1>1, QuietForms DEF Quiet
<1>3. \A A : A \cap {"secret", "network", "fetch"} = {} => ~Has(reads, A) BY DEF Has
<1>4. \A A : A \cap {"sign", "network", "fetch"} = {} => ~Has(works, A) BY DEF Has
<1>5. Gate \in Seq(Steps) /\ Approval \in Seq(Steps) BY GateForms DEF Formed
<1>6. Formed(g)
  <2>1. ~Has(reads, Reads \ {"secret"}) /\ ~Has(Gate, {"sign", "controls"})
    BY <1>3, GateForms DEF Reads
  <2> QED BY <2>1, <1>2, GateForms, FormedJoined
<1>7. Formed(a)
  <2>1. ~Has(works, Reads) BY <1>4 DEF Reads
  <2>2. ~Has(works, Reads \ {"secret"}) BY <2>1 DEF Has
  <2> QED BY <2>1, <2>2, <1>2, GateForms, FormedJoined
<1>8. /\ g \in Seq(Steps) /\ a \in Seq(Steps) /\ g # <<>> /\ a # <<>> /\ a[1] = "payload"
      /\ g[1] = "session"
  BY <1>2, <1>5, Joins, GateForms DEF Gate, Approval
<1>9. \A A : Has(a, A) <=> Has(Approval, A) \/ Has(works, A) BY <1>2, <1>5, HasJoined
<1>10. \A A : Has(g, A) <=> Has(Gate, A) \/ Has(reads, A) BY <1>2, <1>5, HasJoined
<1>11. Formed(g \o a)
  <2>1. a[1] \notin Second BY <1>8 DEF Second
  <2>2. ~Has(a, Reads) BY <1>9, <1>4, GateForms DEF Reads
  <2>3. ~Has(a, Reads \ {"secret"}) BY <2>2 DEF Has
  <2> HIDE DEF g, a
  <2> QED BY <2>1, <2>2, <2>3, <1>6, <1>7, FormedJoined
<1>12. \A A : Has(g \o a, A) <=> Has(g, A) \/ Has(a, A) BY <1>8, HasJoined
<1>13. (g \o a)[1] = "session" /\ g \o a # <<>>
  <2> HIDE DEF g, a
  <2> QED BY <1>8, Joins
<1>14. \A A : A \cap {"session", "unlock", "network", "allowed", "secret", "fetch", "payload", "putPayload", "wait", "cleared", "putCleared", "sign"} = {} => ~Has(g \o a, A)
  <2> SUFFICES ASSUME NEW A, A \cap {"session", "unlock", "network", "allowed", "secret", "fetch", "payload", "putPayload", "wait", "cleared", "putCleared", "sign"} = {}
               PROVE ~Has(g, A) /\ ~Has(a, A) BY <1>12
  <2>1. ~Has(Gate, A) /\ ~Has(Approval, A) BY GateForms
  <2>2. ~Has(reads, A) /\ ~Has(works, A) BY <1>3, <1>4
  <2> QED BY <2>1, <2>2, <1>9, <1>10
<1>15. ~Has(g, {"sign"}) BY <1>10, <1>3, GateForms
<1>16. Precedes(g \o a, {"account", "unlock"}, {"sign"}) /\ Precedes(g \o a, {"allowed"}, {"sign"})
  <2>1. Has(g, {"account", "unlock"}) /\ Has(g, {"allowed"}) BY <1>10, GateForms DEF Has
  <2> HIDE DEF g, a
  <2> QED BY <2>1, <1>8, <1>15, PrecedesJoined
<1>17. Precedes(g \o a, {"wait"}, {"sign"})
  <2>1. Precedes(a, {"wait"}, {"sign"}) BY <1>2, <1>5, GateForms, PrecedesJoined
  <2> HIDE DEF g, a
  <2> QED BY <2>1, <1>8, <1>15, PrecedesJoined
<1>18. Precedes(g \o a, {"secret"}, {"sign"})
  <2>1. CASE Has(works, {"sign"})
    <3>1. Has(g, {"secret"}) BY <2>1, <1>10
    <3> HIDE DEF g, a
    <3> QED BY <3>1, <1>8, <1>15, PrecedesJoined
  <2>2. CASE ~Has(works, {"sign"})
    <3>1. ~Has(a, {"sign"}) BY <2>2, <1>9, GateForms
    <3>2. ~Has(g \o a, {"sign"}) BY <3>1, <1>12, <1>15
    <3> HIDE DEF g, a
    <3> QED BY <3>2 DEF Has, Precedes
  <2> QED BY <2>1, <2>2
<1>19. /\ ~Has(g \o a, Writes) /\ ~Has(g \o a, {"known", "grant", "answer"})
       /\ ~Has(g \o a, {"connect"}) /\ ~Has(g \o a, {"revoke", "revokeAll"})
  BY <1>14 DEF Writes
<1> HIDE DEF g, a
<1>20. /\ Precedes(g \o a, {"account"}, {"revoke", "revokeAll"})
       /\ Precedes(g \o a, {"network"}, {"revoke", "revokeAll"})
  BY <1>19 DEF Has, Precedes
<1>21. Precedes(g \o a, {"allowed"}, {"secret"})
  <2>1. Precedes(g, {"allowed"}, {"secret"}) BY <1>2, <1>5, GateForms, PrecedesJoined DEF g
  <2>2. ~Has(a, {"secret"}) BY <1>4, <1>9, GateForms
  <2> QED BY <2>1, <2>2, <1>8, PrecedesFirst
<1>22. Drawn(g \o a) BY <1>13, <1>16, <1>17, <1>18, <1>19, <1>20, <1>21 DEF Drawn
<1> QED BY <1>11, <1>22 DEF g, a

(* A handler that passes the gate and reads *)
LEMMA GatedForms ==
  ASSUME NEW reads, reads \in Seq({"network", "fetch"})
  PROVE Formed(Gate \o reads) /\ Drawn(Gate \o reads)
<1> DEFINE g == Gate \o reads
<1>1. Quiet(reads) /\ ~Has(reads, {"sign"})
  BY DEF Quiet, Has
<1>2. Formed(reads) /\ reads \in Seq(Steps) /\ (reads # <<>> => reads[1] \notin Second)
  BY <1>1, QuietForms DEF Quiet
<1>3. \A A : A \cap {"network", "fetch"} = {} => ~Has(reads, A) BY DEF Has
<1>4. Gate \in Seq(Steps) BY GateForms DEF Formed
<1>5. Formed(g)
  <2>1. ~Has(reads, Reads \ {"secret"}) /\ ~Has(Gate, {"sign", "controls"})
    BY <1>3, GateForms DEF Reads
  <2> QED BY <2>1, <1>2, GateForms, FormedJoined
<1>6. \A A : Has(g, A) <=> Has(Gate, A) \/ Has(reads, A) BY <1>2, <1>4, HasJoined
<1>7. g \in Seq(Steps) /\ g # <<>> /\ g[1] = "session"
  BY <1>2, <1>4, Joins, GateForms DEF Gate
<1>8. \A A : A \cap {"session", "unlock", "network", "allowed", "fetch"} = {} => ~Has(g, A)
  BY <1>3, <1>6, GateForms
<1> HIDE DEF g
<1>9. /\ ~Has(g, Writes) /\ ~Has(g, {"known", "grant", "answer"}) /\ ~Has(g, {"connect"})
      /\ ~Has(g, {"revoke", "revokeAll"}) /\ ~Has(g, {"sign"}) /\ ~Has(g, {"secret"})
  BY <1>8 DEF Writes
<1>10. \A A : Precedes(g, A, {"revoke", "revokeAll"}) /\ Precedes(g, A, {"sign"}) /\ Precedes(g, A, {"secret"})
  BY <1>9 DEF Has, Precedes
<1>11. Drawn(g) BY <1>7, <1>9, <1>10 DEF Drawn
<1> QED BY <1>5, <1>11 DEF g

(* The page's handlers that read behind the gate *)
LEMMA GatePrograms ==
  ASSUME NEW t \in {BUILD_PAYMENT_XDR, BUILD_PATH_PAYMENT_XDR, BUILD_MANAGE_OFFER_XDR, READ_CONTRACT}
  PROVE Formed(t) /\ Drawn(t)
<1>1. /\ <<"network", "fetch">> \in Seq({"network", "fetch"})
      /\ <<"network", "fetch", "fetch">> \in Seq({"network", "fetch"})
  OBVIOUS
<1>2. t \in {Gate \o <<"network", "fetch">>, Gate \o <<"network", "fetch", "fetch">>}
  BY Zenon DEF BUILD_PAYMENT_XDR, BUILD_PATH_PAYMENT_XDR, BUILD_MANAGE_OFFER_XDR, READ_CONTRACT,
     Gate, requireUnlockedAndAllowed
<1> QED BY <1>1, <1>2, GatedForms

(* The page's handlers that ask the user *)
LEMMA ApprovalPrograms ==
  ASSUME NEW t \in {SIGN_TRANSACTION, SIGN_MESSAGE, SIGN_AUTH_ENTRY, SIGN_AND_SUBMIT, ADD_ASSET, REMOVE_ASSET, ADD_TOKEN, INVOKE_CONTRACT}
  PROVE Formed(t) /\ Drawn(t)
<1> DEFINE R == Seq({"secret", "network", "fetch"})
           W == Seq({"network", "fetch", "sign"})
<1>1. /\ <<"secret", "network">> \in R /\ <<"secret">> \in R /\ <<>> \in R
      /\ <<"secret", "network", "fetch", "fetch">> \in R
      /\ <<>> \in W /\ <<"sign">> \in W /\ <<"sign", "fetch">> \in W
      /\ <<"sign", "fetch", "fetch">> \in W /\ <<"network", "fetch", "sign", "fetch">> \in W
  OBVIOUS
<1>2. /\ Has(<<"secret", "network">>, {"secret"}) /\ Has(<<"secret">>, {"secret"})
      /\ Has(<<"secret", "network", "fetch", "fetch">>, {"secret"})
      /\ ~Has(<<>>, {"sign"})
  BY DEF Has
<1>3. Gate \o <<>> = Gate BY DEF Gate
<1>4. t \in {(Gate \o <<"secret", "network">>) \o (Approval \o <<"sign">>), (Gate \o <<"secret">>) \o (Approval \o <<"sign">>),
             (Gate \o <<"secret", "network">>) \o (Approval \o <<"sign", "fetch">>),
             (Gate \o <<"secret">>) \o (Approval \o <<"network", "fetch", "sign", "fetch">>),
             Gate \o (Approval \o <<>>),
             (Gate \o <<"secret", "network", "fetch", "fetch">>) \o (Approval \o <<"sign", "fetch", "fetch">>)}
  BY Zenon DEF SIGN_TRANSACTION, SIGN_MESSAGE, SIGN_AUTH_ENTRY, SIGN_AND_SUBMIT, ADD_ASSET,
     REMOVE_ASSET, ADD_TOKEN, INVOKE_CONTRACT,
     requireUnlockedAndAllowed, Asked, Gate, Approval
<1> HIDE DEF R, W
<1>5. \A reads \in R, works \in W : (Has(works, {"sign"}) => Has(reads, {"secret"})) =>
        Formed((Gate \o reads) \o (Approval \o works)) /\ Drawn((Gate \o reads) \o (Approval \o works))
  BY AskedForms DEF R, W
<1>6. Formed(Gate \o (Approval \o <<>>)) /\ Drawn(Gate \o (Approval \o <<>>))
  BY <1>1, <1>2, <1>3, <1>5
<1> QED BY <1>1, <1>2, <1>4, <1>5, <1>6

(* Every program is formed and drawn *)
LEMMA ProgramsFormed == ASSUME NEW t \in Programs PROVE Formed(t) /\ Drawn(t)
<1>1. \/ t \in {IS_CONNECTED, GET_ADDRESS, GET_PUBLIC_KEY, GET_NETWORK, GET_NETWORK_DETAILS, SUBMIT_TRANSACTION,
            ESTIMATE_FEE, GET_ACCOUNT_INFO, GET_BALANCE, GET_ASSETS, HAS_TRUSTLINE, GET_TRANSACTION, IS_ALLOWED,
            IS_CONNECTED_AND_ALLOWED, SIMULATE_CONTRACT, GET_CONTRACT_SPEC, GET_WALLET_STATUS, BUILD_PAYMENT, GET_SWAP_QUOTE,
            GET_CONNECTED_APPS, FETCH_HORIZON_ACCOUNT, PRIVATE_QUOTE, PRIVATE_REVEAL_NOTE, PRIVATE_RECOVER_FROM_SEED, PRIVATE_LIST_NOTES}
      \/ t \in {SIGN_AND_SUBMIT_PAYMENT, CHANGE_TRUSTLINE, SIGN_AND_SUBMIT_SWAP, PRIVATE_SELF_RECLAIM, PRIVATE_PREPARE_SEND}
      \/ t \in {REQUEST_ACCESS, REVOKE_ACCESS, REVOKE_ALL_ACCESS, SWITCH_ACCOUNT, UNLOCK_WALLET, LOCK_WALLET, SET_ACTIVE_NETWORK}
      \/ t \in {BUILD_PAYMENT_XDR, BUILD_PATH_PAYMENT_XDR, BUILD_MANAGE_OFFER_XDR, READ_CONTRACT}
      \/ t \in {SIGN_TRANSACTION, SIGN_MESSAGE, SIGN_AUTH_ENTRY, SIGN_AND_SUBMIT, ADD_ASSET, REMOVE_ASSET, ADD_TOKEN, INVOKE_CONTRACT}
  BY Zenon DEF Programs
<1> QED
  BY <1>1, PlainPrograms, PlainDrawn, OwnPrograms, SessionPrograms, GatePrograms, ApprovalPrograms

-----------------------------------------------------------------------------
(* The request's record, and what it always satisfies. *)

Stages == {"new", "open", "done", "refused", "lost"}
(* The request's record *)
Requests == [st : Stages, todo : Seq(Steps), origin : Pages \cup {None}, want : Networks \cup {None},
             pk : Accounts \cup {None}, secret : Accounts \cup {None}, net : Networks \cup {None},
             seen : (SUBSET Seats) \cup (SUBSET Slots), no : BOOLEAN, signed : BOOLEAN, shown : Accounts \cup {None},
             begun : BOOLEAN, moved : BOOLEAN, sure : BOOLEAN, connect : BOOLEAN]

(* What a connect has left from its wait on *)
Granting == {<<"wait", "list", "grant", "answer">>, <<"list", "grant", "answer">>, <<"grant", "answer">>,
             <<"wait", "list", "grant", "setNetwork", "answer">>, <<"list", "grant", "setNetwork", "answer">>,
             <<"grant", "setNetwork", "answer">>, <<"setNetwork", "answer">>}
(* What a connect has left, and what it has read by then *)
Connecting(x) ==
    /\ x.origin # None /\ ~x.begun /\ ~x.signed /\ ~x.sure
    /\ \/ x.todo \in {<<>>, <<"network">>, <<"answer">>, <<"network", "unlock", "known">>}
       \/ x.todo = <<"unlock", "known">> /\ x.net # None
       \/ x.todo = <<"network", "known">> /\ x.pk # None
       \/ x.todo \in {<<"known">>} \cup Granting /\ x.pk # None /\ x.net # None
(* What an unlock, a switch of account and a lock have left once they began to write *)
Puts == {<<"putAccount", "putSecret", "putSeed">>, <<"putSecret", "putSeed">>, <<"putSeed">>,
         <<"saveActive", "putAccount", "putSecret">>, <<"putAccount", "putSecret">>, <<"putSecret">>}
Drops == {<<"dropSecret", "dropSeed">>, <<"dropSeed">>}
(* A handler of the session writes its stages one after the other, and the others write none *)
Writing(x) ==
    /\ x.begun => x.todo \in {<<>>} \cup Puts \cup Drops /\ (x.todo \in Puts => x.pk # None)
    /\ ~x.begun /\ Has(x.todo, Writes) => x.todo \in {SWITCH_ACCOUNT, UNLOCK_WALLET, LOCK_WALLET}
    /\ x.todo = SWITCH_ACCOUNT => x.pk # None
(* Only a connect connects, asks for a grant and answers *)
Connectable(x) ==
    /\ x.connect => Connecting(x)
    /\ ~x.connect => ~Has(x.todo, {"known", "grant", "answer"})
    /\ Has(x.todo, {"connect"}) => x.todo \in {REQUEST_ACCESS, <<"connect">>} /\ x.origin # None /\ x.secret = None
                                 /\ ~x.connect /\ ~x.begun /\ ~x.signed /\ ~x.sure
(* Who revokes has read for whom and where; the session is not read twice *)
Revoking(x) ==
    /\ x.pk # None \/ x.secret # None => ~Has(x.todo, {"session"})
    /\ Has(x.todo, {"revoke", "revokeAll"}) => x.origin # None
    /\ x.pk = None => Precedes(x.todo, {"account"}, {"revoke", "revokeAll"})
    /\ x.net = None => Precedes(x.todo, {"network"}, {"revoke", "revokeAll"})
(* A list about to be written is a list of the right kind *)
Listed(x) ==
    /\ x.todo # <<>> /\ Head(x.todo) \in {"grant", "revoke", "revokeAll"} => x.seen \subseteq Seats
    /\ x.todo # <<>> /\ Head(x.todo) \in {"putPayload", "putCleared"} => x.seen \subseteq Slots
(* A signature waits for the secret and the account; what is signed or compared is not read again *)
Signing(x) ==
    /\ x.secret = None => Precedes(x.todo, {"secret"}, {"sign"})
    /\ x.pk = None => Precedes(x.todo, {"account", "unlock"}, {"sign"})
    /\ x.sure => x.secret = x.pk /\ ~Has(x.todo, Reads)
    /\ x.signed => x.secret # None /\ x.pk # None /\ ~Has(x.todo, Reads)
    /\ Has(x.todo, {"unlock"}) => x.secret = None /\ Precedes(x.todo, {"allowed"}, {"secret"})
(* A request is open as long as it has a step left *)
Staged(x) ==
    /\ x.st = "open" <=> x.todo # <<>>
    /\ x.st = "new" => x = Blank
    /\ Has(x.todo, {"setNetwork"}) => x.want # None
(* What holds of every request's record *)
Fit(x) == /\ x \in Requests /\ Staged(x) /\ Formed(x.todo) /\ Connectable(x) /\ Writing(x)
          /\ Revoking(x) /\ Listed(x) /\ Signing(x)

PkReads == {"session", "account", "unlock", "active"}
(* What a step may write into the record of its request *)
Edits(x, y) ==
    LET h == Head(x.todo) IN
    /\ y.origin = x.origin /\ y.want = x.want /\ y.connect = x.connect
    /\ y.pk # x.pk => h \in PkReads
    /\ h \in {"account", "unlock", "active"} => y.pk # None
    /\ y.net # x.net => h = "network"
    /\ h = "network" => y.net # None
    /\ y.secret # x.secret => h = "secret"
    /\ h = "secret" => y.secret # None
    /\ y.sure # x.sure => h = "controls" /\ y.sure /\ y.secret = y.pk
    /\ y.signed # x.signed => h = "sign" /\ y.signed
    /\ h = "list" => y.seen \subseteq Seats
    /\ h \in {"payload", "cleared"} => y.seen \subseteq Slots
    /\ IF h \in {"active", "seed", "dropAccount"} THEN y.begun ELSE y.begun = x.begun
    /\ h \notin {"connect", "known"}
(* The next step taken *)
Goes(x, y) ==
    /\ x.todo # <<>> /\ y.todo = Tail(x.todo)
    /\ y.st \in {"open", "done", "refused"} /\ (y.st = "open" <=> y.todo # <<>>)
    /\ Edits(x, y)

(* Heads and tails of short sequences *)
LEMMA One == \A a : <<a>> # <<>> /\ Head(<<a>>) = a /\ Tail(<<a>>) = <<>>
OBVIOUS
LEMMA Two == \A a, b : <<a, b>> # <<>> /\ Head(<<a, b>>) = a /\ Tail(<<a, b>>) = <<b>>
OBVIOUS
LEMMA Three == \A a, b, c : <<a, b, c>> # <<>> /\ Head(<<a, b, c>>) = a /\ Tail(<<a, b, c>>) = <<b, c>>
OBVIOUS
LEMMA Four == \A a, b, c, d : <<a, b, c, d>> # <<>> /\ Head(<<a, b, c, d>>) = a /\ Tail(<<a, b, c, d>>) = <<b, c, d>>
OBVIOUS
LEMMA Five == \A a, b, c, d, e : <<a, b, c, d, e>> # <<>> /\ Head(<<a, b, c, d, e>>) = a /\ Tail(<<a, b, c, d, e>>) = <<b, c, d, e>>
OBVIOUS

(* A connect's stages follow each other *)
LEMMA GrantingGoes ==
    ASSUME NEW t \in Granting
    PROVE  /\ Head(t) \in {"wait", "list", "grant", "setNetwork"}
           /\ Tail(t) \in {<<"answer">>} \cup Granting
<1>1. CASE t = <<"wait", "list", "grant", "answer">>
  <2>1. Head(t) = "wait" /\ Tail(t) = <<"list", "grant", "answer">> /\ t # <<>>
    BY <1>1, Four
  <2> QED
    BY <2>1, Zenon DEF Granting
<1>2. CASE t = <<"list", "grant", "answer">>
  <2>1. Head(t) = "list" /\ Tail(t) = <<"grant", "answer">> /\ t # <<>>
    BY <1>2, Three
  <2> QED
    BY <2>1, Zenon DEF Granting
<1>3. CASE t = <<"grant", "answer">> BY <1>3, Two, Zenon DEF Granting
<1>4. CASE t = <<"wait", "list", "grant", "setNetwork", "answer">>
  <2>1. Head(t) = "wait" /\ Tail(t) = <<"list", "grant", "setNetwork", "answer">> /\ t # <<>>
    BY <1>4, Five
  <2> QED
    BY <2>1, Zenon DEF Granting
<1>5. CASE t = <<"list", "grant", "setNetwork", "answer">>
  <2>1. Head(t) = "list" /\ Tail(t) = <<"grant", "setNetwork", "answer">> /\ t # <<>>
    BY <1>5, Four
  <2> QED
    BY <2>1, Zenon DEF Granting
<1>6. CASE t = <<"grant", "setNetwork", "answer">>
  <2>1. Head(t) = "grant" /\ Tail(t) = <<"setNetwork", "answer">> /\ t # <<>>
    BY <1>6, Three
  <2> QED
    BY <2>1, Zenon DEF Granting
<1>7. CASE t = <<"setNetwork", "answer">> BY <1>7, Two, Zenon DEF Granting
<1> QED BY <1>1, <1>2, <1>3, <1>4, <1>5, <1>6, <1>7, Zenon DEF Granting

(* The stages of a write follow each other *)
LEMMA WritingGoes ==
    /\ \A t \in Puts : Head(t) \in {"saveActive", "putAccount", "putSecret", "putSeed"} /\ Tail(t) \in {<<>>} \cup Puts /\ t # <<>>
    /\ \A t \in Drops : Head(t) \in {"dropSecret", "dropSeed"} /\ Tail(t) \in {<<>>} \cup Drops /\ t # <<>>
    /\ \A t \in Puts : t \notin Drops
    /\ Head(SWITCH_ACCOUNT) = "seed" /\ Tail(SWITCH_ACCOUNT) \in Puts
    /\ Head(UNLOCK_WALLET) = "active" /\ Tail(UNLOCK_WALLET) \in Puts
    /\ Head(LOCK_WALLET) = "dropAccount" /\ Tail(LOCK_WALLET) \in Drops
    /\ SWITCH_ACCOUNT \notin {<<>>} \cup Puts \cup Drops
<1>1. ASSUME NEW t \in Puts PROVE Head(t) \in {"saveActive", "putAccount", "putSecret", "putSeed"} /\ Tail(t) \in {<<>>} \cup Puts /\ t # <<>>
  <2>1. CASE t = <<"putAccount", "putSecret", "putSeed">>
    <3>1. Head(t) = "putAccount" /\ Tail(t) = <<"putSecret", "putSeed">> /\ t # <<>>
      BY <2>1, Three
    <3> QED
      BY <3>1, Zenon DEF Puts
  <2>2. CASE t = <<"putSecret", "putSeed">> BY <2>2, Two, Zenon DEF Puts
  <2>3. CASE t = <<"putSeed">> BY <2>3, One, Zenon DEF Puts
  <2>4. CASE t = <<"saveActive", "putAccount", "putSecret">>
    <3>1. Head(t) = "saveActive" /\ Tail(t) = <<"putAccount", "putSecret">> /\ t # <<>>
      BY <2>4, Three
    <3> QED
      BY <3>1, Zenon DEF Puts
  <2>5. CASE t = <<"putAccount", "putSecret">> BY <2>5, Two, Zenon DEF Puts
  <2>6. CASE t = <<"putSecret">> BY <2>6, One, Zenon DEF Puts
  <2> QED BY <2>1, <2>2, <2>3, <2>4, <2>5, <2>6, Zenon DEF Puts
<1>2. ASSUME NEW t \in Drops PROVE Head(t) \in {"dropSecret", "dropSeed"} /\ Tail(t) \in {<<>>} \cup Drops /\ t # <<>>
  <2>1. CASE t = <<"dropSecret", "dropSeed">> BY <2>1, Two, Zenon DEF Drops
  <2>2. CASE t = <<"dropSeed">> BY <2>2, One, Zenon DEF Drops
  <2> QED BY <2>1, <2>2, Zenon DEF Drops
<1>3. \A t \in Puts : t \notin Drops BY <1>1, <1>2
<1>4. Head(SWITCH_ACCOUNT) = "seed" /\ Tail(SWITCH_ACCOUNT) \in Puts /\ SWITCH_ACCOUNT # <<>>
  <2>1. /\ Head(SWITCH_ACCOUNT) = "seed"
        /\ Tail(SWITCH_ACCOUNT) = <<"saveActive", "putAccount", "putSecret">>
        /\ SWITCH_ACCOUNT # <<>>
    BY Four DEF SWITCH_ACCOUNT
  <2> QED
    BY <2>1, Zenon DEF Puts
<1>5. Head(UNLOCK_WALLET) = "active" /\ Tail(UNLOCK_WALLET) \in Puts
  <2>1. /\ Head(UNLOCK_WALLET) = "active"
        /\ Tail(UNLOCK_WALLET) = <<"putAccount", "putSecret", "putSeed">>
    BY Four DEF UNLOCK_WALLET
  <2> QED
    BY <2>1, Zenon DEF Puts
<1>6. Head(LOCK_WALLET) = "dropAccount" /\ Tail(LOCK_WALLET) \in Drops
  BY Three, Zenon DEF LOCK_WALLET, Drops
<1>7. SWITCH_ACCOUNT \notin Puts \cup Drops BY <1>1, <1>2, <1>4
<1> QED BY <1>1, <1>2, <1>3, <1>4, <1>5, <1>6, <1>7

(* What may stand only first is not in the rest *)
LEMMA OnceTail ==
    ASSUME NEW t \in Seq(Steps), t # <<>>, NEW B, Joined(t, {}, B)
    PROVE  ~Has(Tail(t), B)
<1> SUFFICES ASSUME NEW j \in 1..Len(Tail(t)), Tail(t)[j] \in B PROVE FALSE BY DEF Has
<1>1. j + 1 \in 2..Len(t) /\ t[j + 1] \in B BY Suffix
<1> QED BY <1>1 DEF Joined

(* What the rest has, the whole has *)
LEMMA HasTail ==
    ASSUME NEW t \in Seq(Steps), t # <<>>, NEW A
    PROVE  /\ Has(Tail(t), A) => Has(t, A)
           /\ Head(t) \in A => Has(t, A)
<1>1. ASSUME NEW j \in 1..Len(Tail(t)), Tail(t)[j] \in A PROVE Has(t, A)
  <2>1. j + 1 \in 1..Len(t) /\ t[j + 1] \in A BY <1>1, Suffix
  <2> QED BY <2>1 DEF Has
<1>2. ASSUME Head(t) \in A PROVE Has(t, A)
  <2>1. 1 \in 1..Len(t) /\ t[1] \in A BY <1>2, Suffix
  <2> QED BY <2>1 DEF Has
<1> QED BY <1>1, <1>2 DEF Has

(* A step keeps its request's record fit *)
LEMMA GoesFit ==
    ASSUME NEW x, NEW y, Fit(x), y \in Requests, Goes(x, y)
    PROVE  Fit(y)
<1> DEFINE t == x.todo
           h == Head(t)
<1>1. t \in Seq(Steps) /\ t # <<>> /\ y.todo = Tail(t) /\ Formed(t) /\ t[1] = h /\ Formed(y.todo)
  <2>1. t \in Seq(Steps) /\ t # <<>> /\ y.todo = Tail(t) /\ Formed(t)
    BY DEF Fit, Goes, Formed
  <2> HIDE DEF t
  <2> QED BY <2>1, FormedTail, Suffix
<1>2. /\ y.st \in {"open", "done", "refused"} /\ (y.st = "open" <=> y.todo # <<>>)
      /\ y.origin = x.origin /\ y.want = x.want /\ y.connect = x.connect
      /\ h \notin {"connect", "known"}
  BY DEF Goes, Edits
<1>3. /\ y.pk # x.pk => h \in PkReads
      /\ h \in {"account", "unlock", "active"} => y.pk # None
      /\ y.net # x.net => h = "network"
      /\ h = "network" => y.net # None
      /\ y.secret # x.secret => h = "secret"
      /\ h = "secret" => y.secret # None
  BY DEF Goes, Edits
<1>4. /\ y.sure # x.sure => h = "controls" /\ y.sure /\ y.secret = y.pk
      /\ y.signed # x.signed => h = "sign" /\ y.signed
      /\ h = "list" => y.seen \subseteq Seats
      /\ h \in {"payload", "cleared"} => y.seen \subseteq Slots
  BY DEF Goes, Edits
<1>5. IF h \in {"active", "seed", "dropAccount"} THEN y.begun ELSE y.begun = x.begun
  BY DEF Goes, Edits
<1>6. \A A : (Has(y.todo, A) => Has(t, A)) /\ (h \in A => Has(t, A)) BY <1>1, HasTail
<1>7. \A A, B : NoneAfter(t, A, B) => (h \in A => ~Has(y.todo, B)) BY <1>1, NoneAfterTail
<1>8. \A A, B : Precedes(t, A, B) /\ h \notin A => Precedes(y.todo, A, B) BY <1>1, PrecedesTail
<1>9. \A A, B : Joined(t, A, B) => (y.todo # <<>> /\ Head(y.todo) \in B => h \in A)
  BY <1>1, JoinedTail
<1>10. Staged(y)
  BY <1>2, <1>6 DEF Fit, Staged
<1>11. Writing(y)
  <2>1. CASE x.begun
    <3>1. t \in Puts \cup Drops /\ (t \in Puts => x.pk # None) BY <2>1, <1>1 DEF Fit, Writing
    <3>2. /\ h \notin {"active", "seed", "dropAccount"} /\ h \notin PkReads
          /\ y.todo \in {<<>>} \cup Puts \cup Drops /\ (y.todo \in Puts => t \in Puts)
          /\ y.todo # SWITCH_ACCOUNT
      BY <3>1, <1>1, WritingGoes DEF PkReads
    <3> QED BY <2>1, <3>1, <3>2, <1>3, <1>5 DEF Writing
  <2>2. CASE ~x.begun /\ Has(t, Writes)
    <3>1. t \in {SWITCH_ACCOUNT, UNLOCK_WALLET, LOCK_WALLET} /\ (t = SWITCH_ACCOUNT => x.pk # None)
      BY <2>2 DEF Fit, Writing
    <3>2. CASE t = SWITCH_ACCOUNT
      <4>1. h = "seed" /\ y.todo \in Puts BY <3>2, <1>1, WritingGoes
      <4>2. y.todo \in Puts /\ y.todo # SWITCH_ACCOUNT BY <4>1, WritingGoes
      <4> QED BY <3>1, <3>2, <4>1, <4>2, <1>3, <1>5 DEF Writing, PkReads
    <3>3. CASE t = UNLOCK_WALLET
      <4>1. h = "active" /\ y.todo \in Puts BY <3>3, <1>1, WritingGoes
      <4>2. y.todo \in Puts /\ y.todo # SWITCH_ACCOUNT BY <4>1, WritingGoes
      <4> QED BY <4>1, <4>2, <1>3, <1>5 DEF Writing
    <3>4. CASE t = LOCK_WALLET
      <4>1. h = "dropAccount" /\ y.todo \in Drops BY <3>4, <1>1, WritingGoes
      <4>2. y.todo \in Drops /\ y.todo # SWITCH_ACCOUNT /\ y.todo \notin Puts BY <4>1, WritingGoes
      <4> QED BY <4>1, <4>2, <1>5 DEF Writing
    <3> QED BY <3>1, <3>2, <3>3, <3>4
  <2>3. CASE ~x.begun /\ ~Has(t, Writes)
    <3>1. ~Has(y.todo, Writes) /\ h \notin {"active", "seed", "dropAccount"}
      BY <2>3, <1>6 DEF Writes
    <3>2. Has(SWITCH_ACCOUNT, Writes) BY DEF Has, SWITCH_ACCOUNT, Writes
    <3> QED BY <2>3, <3>1, <3>2, <1>5 DEF Writing
  <2> QED BY <2>1, <2>2, <2>3
<1>12. Connectable(y)
  <2>1. CASE ~x.connect
    <3>1. ~Has(y.todo, {"known", "grant", "answer"}) BY <2>1, <1>6 DEF Fit, Connectable
    <3>2. ASSUME Has(y.todo, {"connect"}) PROVE y.todo = <<"connect">> /\ x.origin # None /\ x.secret = None /\ ~x.begun /\ ~x.signed /\ ~x.sure /\ h = "session"
      <4>1. /\ t \in {REQUEST_ACCESS, <<"connect">>} /\ x.origin # None /\ x.secret = None
            /\ ~x.begun /\ ~x.signed /\ ~x.sure
        BY <3>2, <1>6 DEF Fit, Connectable
      <4>2. t = <<"session", "connect">> BY <4>1, <1>1, <1>2, One, Two DEF REQUEST_ACCESS
      <4> QED BY <4>1, <4>2, <1>1, One, Two, Three
    <3>3. ASSUME Has(y.todo, {"connect"}) PROVE ~y.begun /\ ~y.signed /\ ~y.sure /\ y.secret = None
      BY <3>2, <3>3, <1>3, <1>4, <1>5
    <3> QED BY <2>1, <3>1, <3>2, <3>3, <1>2 DEF Connectable
  <2>2. CASE x.connect
    <3>1. Connecting(x) BY <2>2 DEF Fit, Connectable
    <3>2. ~Has(y.todo, {"connect"}) BY <2>2, <1>6 DEF Fit, Connectable
    <3>3. Connecting(y)
      <4>1. x.origin # None /\ ~x.begun /\ ~x.signed /\ ~x.sure BY <3>1 DEF Connecting
      <4>0. h \notin {"sign", "controls", "active", "seed", "dropAccount"} => y.origin # None /\ ~y.begun /\ ~y.signed /\ ~y.sure
        BY <4>1, <1>2, <1>4, <1>5
      <4>2. CASE t \in {<<>>, <<"network">>, <<"answer">>}
        <5>1. h \in {"network", "answer"} /\ y.todo = <<>> BY <4>2, <1>1, One, Zenon
        <5> QED BY <4>0, <5>1 DEF Connecting
      <4>3. CASE t = <<"network", "unlock", "known">>
        <5>1. h = "network" /\ y.todo = <<"unlock", "known">> BY <4>3, <1>1, One, Two, Three
        <5> QED BY <4>0, <5>1, <1>3 DEF Connecting
      <4>4. CASE t = <<"unlock", "known">> /\ x.net # None
        <5>1. h = "unlock" /\ y.todo = <<"known">> BY <4>4, <1>1, One, Two, Three
        <5> QED BY <4>0, <4>4, <5>1, <1>3 DEF Connecting
      <4>5. CASE t = <<"network", "known">> /\ x.pk # None
        <5>1. h = "network" /\ y.todo = <<"known">> BY <4>5, <1>1, One, Two, Three
        <5> QED BY <4>0, <4>5, <5>1, <1>3 DEF Connecting, PkReads
      <4>6. CASE t \in {<<"known">>} \cup Granting /\ x.pk # None /\ x.net # None
        <5>1. t \in Granting BY <4>6, <1>2, One, Two, Three
        <5>2. /\ h \in {"wait", "list", "grant", "setNetwork"}
              /\ y.todo \in {<<"answer">>} \cup Granting
          BY <5>1, <1>1, GrantingGoes
        <5> QED BY <4>0, <4>6, <5>2, <1>3 DEF Connecting, PkReads
      <4> QED BY <3>1, <4>2, <4>3, <4>4, <4>5, <4>6 DEF Connecting
    <3> QED BY <2>2, <3>2, <3>3, <1>2 DEF Connectable
  <2> QED BY <2>1, <2>2
<1>13. Revoking(y)
  <2>1. y.pk = None => x.pk = None \/ h \in PkReads BY <1>3
  <2>2. ASSUME y.pk = None PROVE Precedes(y.todo, {"account"}, {"revoke", "revokeAll"})
    <3>1. h # "account" BY <2>2, <1>3
    <3>2. CASE x.pk = None BY <3>1, <3>2, <1>8 DEF Fit, Revoking
    <3>3. CASE x.pk # None
      <4>1. h \in PkReads BY <3>3, <2>2, <1>3
      <4>2. h # "session" BY <3>3, <1>6 DEF Fit, Revoking
      <4> QED BY <4>1, <4>2, <2>2, <1>3 DEF PkReads
    <3> QED BY <3>2, <3>3
  <2>3. ~Has(y.todo, {"session"})
    BY <1>1, OnceTail DEF Formed
  <2>4. y.net = None => Precedes(y.todo, {"network"}, {"revoke", "revokeAll"})
    BY <1>3, <1>8 DEF Fit, Revoking
  <2>5. Has(y.todo, {"revoke", "revokeAll"}) => y.origin # None
    BY <1>2, <1>6 DEF Fit, Revoking
  <2> QED BY <2>2, <2>3, <2>4, <2>5 DEF Revoking
<1>14. Listed(y)
  <2>1. \/ y.seen \subseteq Seats \/ ~(y.todo # <<>> /\ Head(y.todo) \in {"grant", "revoke", "revokeAll"})
    BY <1>1, <1>4, <1>9 DEF Formed
  <2>2. \/ y.seen \subseteq Slots \/ ~(y.todo # <<>> /\ Head(y.todo) \in {"putPayload", "putCleared"})
    BY <1>1, <1>4, <1>9 DEF Formed
  <2> QED BY <2>1, <2>2 DEF Listed
<1>15. Signing(y)
  <2>1. ASSUME y.secret = None PROVE Precedes(y.todo, {"secret"}, {"sign"})
    BY <2>1, <1>3, <1>8 DEF Fit, Signing
  <2>2. ASSUME y.pk = None PROVE Precedes(y.todo, {"account", "unlock"}, {"sign"})
    <3>1. h \notin {"account", "unlock"} BY <2>2, <1>3
    <3>2. x.pk = None
      <4> SUFFICES ASSUME x.pk # None PROVE FALSE OBVIOUS
      <4>1. h \in PkReads BY <2>2, <1>3
      <4>2. h # "session" BY <1>6 DEF Fit, Revoking
      <4> QED BY <4>1, <4>2, <2>2, <1>3 DEF PkReads
    <3> QED BY <3>1, <3>2, <1>8 DEF Fit, Signing
  <2>3. NoneAfter(t, {"sign", "controls"}, Reads) BY <1>1 DEF Formed
  <2>4. h \in {"sign", "controls"} => ~Has(y.todo, Reads) BY <2>3, <1>7
  <2>5. ASSUME y.sure PROVE y.secret = y.pk /\ ~Has(y.todo, Reads)
    <3>1. CASE x.sure
      <4>1. ~Has(t, Reads) /\ x.secret = x.pk BY <3>1 DEF Fit, Signing
      <4>2. h \notin Reads /\ ~Has(y.todo, Reads) BY <4>1, <1>6
      <4> QED BY <4>1, <4>2, <1>3 DEF PkReads, Reads
    <3>2. CASE ~x.sure
      BY <3>2, <2>5, <2>4, <1>4
    <3> QED BY <3>1, <3>2
  <2>6. ASSUME y.signed PROVE y.secret # None /\ y.pk # None /\ ~Has(y.todo, Reads)
    <3>1. CASE x.signed
      <4>1. ~Has(t, Reads) /\ x.secret # None /\ x.pk # None BY <3>1 DEF Fit, Signing
      <4>2. h \notin Reads /\ ~Has(y.todo, Reads) BY <4>1, <1>6
      <4> QED BY <4>1, <4>2, <1>3 DEF PkReads, Reads
    <3>2. CASE ~x.signed
      <4>1. h = "sign" BY <3>2, <2>6, <1>4
      <4>2. \A A : Precedes(t, A, {"sign"}) => FALSE
        <5>1. 1 \in 1..Len(t) /\ t[1] = "sign" BY <1>1, <4>1, Suffix
        <5>2. ~\E i \in 1..(1 - 1) : TRUE OBVIOUS
        <5> QED BY <5>1, <5>2 DEF Precedes
      <4>3. x.secret # None /\ x.pk # None BY <4>2 DEF Fit, Signing
      <4> QED BY <4>1, <4>3, <2>4, <1>3 DEF PkReads
    <3> QED BY <3>1, <3>2
  <2>7. ASSUME Has(y.todo, {"unlock"}) PROVE y.secret = None /\ Precedes(y.todo, {"allowed"}, {"secret"})
    <3>1. x.secret = None /\ Precedes(t, {"allowed"}, {"secret"}) BY <2>7, <1>6 DEF Fit, Signing
    <3>2. h # "secret"
      <4> SUFFICES ASSUME h = "secret" PROVE FALSE OBVIOUS
      <4>1. 1 \in 1..Len(t) /\ t[1] = "secret" BY <1>1, Suffix
      <4>2. ~\E i \in 1..(1 - 1) : TRUE OBVIOUS
      <4> QED BY <3>1, <4>1, <4>2 DEF Precedes
    <3>3. h # "allowed"
      <4> SUFFICES ASSUME h = "allowed" PROVE FALSE OBVIOUS
      <4>1. ~Has(y.todo, Reads \ {"secret"}) BY <1>1, <1>7 DEF Formed
      <4> QED BY <2>7, <4>1 DEF Has, Reads
    <3> QED BY <3>1, <3>2, <3>3, <1>3, <1>8
  <2> QED BY <2>1, <2>2, <2>5, <2>6, <2>7 DEF Signing
<1> QED BY <1>1, <1>10, <1>11, <1>12, <1>13, <1>14, <1>15 DEF Fit

-----------------------------------------------------------------------------
(* How a step may change a request. *)

(* What an answer, a refusal or a branch leaves of the record *)
Kept(x, y) ==
    /\ y.origin = x.origin /\ y.want = x.want /\ y.pk = x.pk /\ y.secret = x.secret /\ y.net = x.net
    /\ y.signed = x.signed /\ y.begun = x.begun /\ y.sure = x.sure
(* Only the mark that the session was written may change *)
Stays(x, y) == y = x \/ (x.st # "new" /\ \E m \in BOOLEAN : y = [x EXCEPT !.moved = m])
(* The handler answers *)
Stops(x, y) ==
    /\ x.st = "open" /\ y.todo = <<>> /\ y.st \in {"done", "refused", "lost"}
    /\ Kept(x, y) /\ y.connect = x.connect
(* A refusal: only the stored payload is left to clear *)
Cuts(x, y) ==
    /\ x.todo # <<>> /\ Head(x.todo) = "wait" /\ ~x.connect
    /\ y.todo = <<"cleared", "putCleared">> /\ y.st = "open" /\ Kept(x, y) /\ ~y.connect
(* A session that is open: no wait for an unlock *)
Skips(x, y) ==
    /\ x.todo # <<>> /\ Head(x.todo) = "session" /\ Tail(x.todo) # <<>>
    /\ Head(Tail(x.todo)) = "unlock"
    /\ y.todo = Tail(Tail(x.todo)) /\ y.st \in {"open", "done", "refused"}
    /\ (y.st = "open" <=> y.todo # <<>>)
    /\ y.pk # None /\ y.origin = x.origin /\ y.want = x.want /\ y.secret = x.secret /\ y.net = x.net
    /\ y.signed = x.signed /\ y.begun = x.begun /\ y.sure = x.sure /\ y.connect = x.connect
(* A connect takes its origin *)
Connects(x, y) ==
    /\ x.todo # <<>> /\ Head(x.todo) = "connect" /\ Kept(x, y) /\ y.connect /\ y.st = "open"
    /\ y.todo = IF x.pk = None THEN <<"network", "unlock", "known">> ELSE <<"network", "known">>
(* A connect is answered or waits for the user *)
Knows(x, y) ==
    /\ x.todo # <<>> /\ Head(x.todo) = "known" /\ Kept(x, y) /\ y.connect = x.connect
    /\ y.st = "open"
    /\ \/ y.todo \in {<<"network">>, <<"wait", "list", "grant", "answer">>}
       \/ y.todo = <<"wait", "list", "grant", "setNetwork", "answer">> /\ x.want # None
(* A request arrives *)
Starts(x, y) ==
    /\ x = Blank /\ y.todo \in Programs /\ y.st = "open"
    /\ y.origin = None <=> Head(y.todo) \notin {"session", "account"}
    /\ Has(y.todo, {"setNetwork"}) => y.want # None
    /\ y.todo = SWITCH_ACCOUNT => y.pk # None
    /\ y.pk # None => y.todo = SWITCH_ACCOUNT
    /\ y.secret = None /\ y.net = None /\ y.seen = {} /\ ~y.signed /\ ~y.begun /\ ~y.sure
    /\ ~y.connect
(* All the ways in which a step changes a request's record *)
Turned(x, y) ==
    \/ Stays(x, y) \/ Goes(x, y) \/ Stops(x, y) \/ Cuts(x, y) \/ Skips(x, y)
    \/ Connects(x, y) \/ Knows(x, y) \/ Starts(x, y)

(* The sequences a handler branches to *)
LEMMA NewTodos ==
    ASSUME NEW t \in {<<>>, <<"cleared", "putCleared">>, <<"network", "unlock", "known">>, <<"network", "known">>,
                      <<"network">>, <<"wait", "list", "grant", "answer">>, <<"wait", "list", "grant", "setNetwork", "answer">>}
    PROVE  /\ Formed(t) /\ ~Has(t, Writes) /\ ~Has(t, {"connect"}) /\ ~Has(t, {"session"})
           /\ ~Has(t, {"revoke", "revokeAll"})
           /\ ~Has(t, {"sign"}) /\ ~Has(t, {"secret"})
           /\ t = <<"wait", "list", "grant", "setNetwork", "answer">> \/ ~Has(t, {"setNetwork"})
           /\ t # SWITCH_ACCOUNT
           /\ t # <<>> => Head(t) \in {"cleared", "network", "wait"}
           /\ t \in {<<>>, <<"cleared", "putCleared">>} => ~Has(t, {"unlock", "known", "grant", "answer"}) /\ ~Has(t, Reads)
<1> USE DEF Formed, Joined, Has, Steps, Writes, NoneAfter, Reads, SWITCH_ACCOUNT
<1> DEFINE P(u) == /\ Formed(u) /\ ~Has(u, Writes) /\ ~Has(u, {"connect"}) /\ ~Has(u, {"session"}) /\ ~Has(u, {"revoke", "revokeAll"})
                   /\ ~Has(u, {"sign"}) /\ ~Has(u, {"secret"})
                   /\ u = <<"wait", "list", "grant", "setNetwork", "answer">> \/ ~Has(u, {"setNetwork"})
                   /\ u # SWITCH_ACCOUNT
                   /\ u # <<>> => Head(u) \in {"cleared", "network", "wait"}
           Q(u) == ~Has(u, {"unlock", "known", "grant", "answer"}) /\ ~Has(u, Reads)
<1>1. P(<<>>) /\ Q(<<>>) OBVIOUS
<1>2. P(<<"cleared", "putCleared">>) /\ Q(<<"cleared", "putCleared">>) OBVIOUS
<1>3. P(<<"network", "unlock", "known">>) OBVIOUS
<1>4. P(<<"network", "known">>) OBVIOUS
<1>5. P(<<"network">>) OBVIOUS
<1>6. P(<<"wait", "list", "grant", "answer">>) OBVIOUS
<1>7. P(<<"wait", "list", "grant", "setNetwork", "answer">>) OBVIOUS
<1> HIDE DEF Formed, Joined, Has, Steps, Writes, NoneAfter, Reads, SWITCH_ACCOUNT, P, Q
<1>8. P(t) BY <1>1, <1>2, <1>3, <1>4, <1>5, <1>6, <1>7, Zenon
<1>9. t \in {<<>>, <<"cleared", "putCleared">>} => Q(t) BY <1>1, <1>2, Zenon
<1> QED BY <1>8, <1>9 DEF P, Q

(* Each way of changing keeps the record fit *)
LEMMA StaysFit == ASSUME NEW x, NEW y, Fit(x), Stays(x, y) PROVE Fit(y)
<1>1. CASE y = x BY <1>1
<1>2. CASE x.st # "new" /\ \E m \in BOOLEAN : y = [x EXCEPT !.moved = m]
  <2>1. PICK m \in BOOLEAN : y = [x EXCEPT !.moved = m] BY <1>2
  <2>2. x \in Requests BY DEF Fit
  <2>3. y \in Requests BY <2>1, <2>2, Zenon DEF Requests
  <2>4. /\ y.st = x.st /\ y.todo = x.todo /\ y.origin = x.origin /\ y.want = x.want /\ y.pk = x.pk
        /\ y.secret = x.secret
        /\ y.net = x.net /\ y.seen = x.seen /\ y.signed = x.signed /\ y.begun = x.begun
        /\ y.sure = x.sure /\ y.connect = x.connect
    BY <2>1, <2>2 DEF Requests
  <2> QED
    BY <2>3, <2>4, <1>2 DEF Fit, Staged, Connectable, Connecting, Writing, Revoking, Listed,
       Signing
<1> QED BY <1>1, <1>2 DEF Stays

(* Where there is no B, anything precedes it *)
LEMMA NotHas == \A t, A, B : ~Has(t, B) => Precedes(t, A, B)
BY DEF Has, Precedes

LEMMA StopsFit ==
    ASSUME NEW x, NEW y, Fit(x), y \in Requests, Stops(x, y) \/ Cuts(x, y)
    PROVE  Fit(y)
<1>1. /\ Kept(x, y) /\ y.connect = x.connect /\ y.todo \in {<<>>, <<"cleared", "putCleared">>}
      /\ y.st \in {"open", "done", "refused", "lost"} /\ (y.st = "open" <=> y.todo # <<>>)
      /\ y.connect => y.todo = <<>>
  <2>1. x.connect \in BOOLEAN /\ y.connect \in BOOLEAN BY DEF Fit, Requests
  <2>2. CASE Stops(x, y) BY <2>2 DEF Stops
  <2>3. CASE Cuts(x, y) BY <2>1, <2>3 DEF Cuts
  <2> QED BY <2>2, <2>3
<1> DEFINE t == y.todo
<1>2. /\ Formed(t) /\ ~Has(t, Writes) /\ ~Has(t, {"connect"}) /\ ~Has(t, {"session"})
      /\ ~Has(t, {"revoke", "revokeAll"})
      /\ ~Has(t, {"sign"}) /\ ~Has(t, {"secret"}) /\ ~Has(t, {"setNetwork"}) /\ t # SWITCH_ACCOUNT
      /\ t # <<>> => Head(t) \in {"cleared", "network", "wait"}
      /\ ~Has(t, {"unlock", "known", "grant", "answer"}) /\ ~Has(t, Reads)
  BY <1>1, NewTodos
<1> HIDE DEF t
<1>3. ~Has(t, {"known", "grant", "answer"}) /\ ~Has(t, {"unlock"})
  BY <1>2 DEF Has
<1>4. Staged(y) BY <1>1, <1>2 DEF Staged, t
<1>5. Connectable(y)
  <2>1. x.connect => Connecting(x) BY DEF Fit, Connectable
  <2>2. y.connect => Connecting(y) BY <1>1, <2>1 DEF Connecting, Kept
  <2> QED BY <2>2, <1>1, <1>2, <1>3 DEF Connectable, t
<1>6. Writing(y)
  <2>1. CASE Cuts(x, y)
    <3>1. Head(x.todo) = "wait" /\ x.todo # <<>> BY <2>1 DEF Cuts
    <3>2. ~x.begun BY <3>1, WritingGoes DEF Fit, Writing
    <3> QED BY <3>2, <1>1, <1>2 DEF Writing, Kept, t
  <2>2. CASE Stops(x, y)
    <3>1. t = <<>> BY <2>2 DEF Stops, t
    <3>2. <<>> \notin Puts BY WritingGoes
    <3> QED BY <3>1, <3>2, <1>1, <1>2 DEF Writing, Kept, t
  <2> QED BY <2>1, <2>2
<1>7. Revoking(y) BY <1>2, NotHas DEF Revoking, t
<1>8. Listed(y) BY <1>2 DEF Listed, t
<1>9. Signing(y) BY <1>1, <1>2, <1>3, NotHas DEF Signing, Kept, Fit, t
<1> QED BY <1>2, <1>4, <1>5, <1>6, <1>7, <1>8, <1>9 DEF Fit, t

(* What a connect has read when it looks at the allowlist *)
LEMMA KnownFrom ==
    ASSUME NEW x, Fit(x), x.todo # <<>>, Head(x.todo) = "known"
    PROVE  x.pk # None /\ x.net # None /\ x.connect /\ ~Has(x.todo, {"setNetwork"})
<1>1. Has(x.todo, {"known", "grant", "answer"}) BY HasTail DEF Fit, Formed
<1>2. x.connect /\ Connecting(x) BY <1>1 DEF Fit, Connectable
<1>3. /\ x.todo # <<"network">> /\ x.todo # <<"answer">>
      /\ x.todo # <<"network", "unlock", "known">> /\ x.todo # <<"unlock", "known">>
      /\ x.todo # <<"network", "known">>
  BY One, Two, Three
<1>4. x.todo \notin Granting BY GrantingGoes
<1>5. x.todo = <<"known">> /\ x.pk # None /\ x.net # None BY <1>2, <1>3, <1>4 DEF Connecting
<1> QED BY <1>2, <1>5 DEF Has

LEMMA ConnectsFit ==
    ASSUME NEW x, NEW y, Fit(x), y \in Requests, Connects(x, y) \/ Knows(x, y)
    PROVE  Fit(y)
<1> DEFINE t == y.todo
<1>1. /\ Kept(x, y) /\ y.st = "open" /\ y.connect /\ x.todo # <<>>
      /\ Head(x.todo) \in {"connect", "known"}
      /\ x.origin # None /\ ~x.begun /\ ~x.signed /\ ~x.sure
  <2>1. CASE Connects(x, y)
    <3>1. Has(x.todo, {"connect"}) BY <2>1, HasTail DEF Fit, Formed, Connects
    <3> QED BY <2>1, <3>1 DEF Connects, Fit, Connectable
  <2>2. CASE Knows(x, y)
    <3>1. Head(x.todo) = "known" /\ x.todo # <<>> BY <2>2 DEF Knows
    <3>2. x.connect BY <3>1, KnownFrom
    <3> QED BY <3>1, <3>2, <2>2 DEF Knows, Fit, Connectable, Connecting
  <2> QED BY <2>1, <2>2
<1>2. Connecting(y)
  <2>1. CASE Connects(x, y)
    <3>1. x.pk = None => y.todo = <<"network", "unlock", "known">> BY <2>1 DEF Connects
    <3>2. x.pk # None => y.todo = <<"network", "known">> BY <2>1 DEF Connects
    <3> QED BY <1>1, <3>1, <3>2 DEF Connecting, Kept
  <2>2. CASE Knows(x, y)
    <3>1. y.pk # None /\ y.net # None BY <2>2, KnownFrom DEF Knows, Kept
    <3>2. y.todo \in {<<"network">>} \cup Granting BY <2>2 DEF Knows, Granting
    <3> QED BY <1>1, <3>1, <3>2 DEF Connecting, Kept
  <2> QED BY <2>1, <2>2
<1>3. /\ t \in {<<"network", "unlock", "known">>, <<"network", "known">>,
                <<"network">>, <<"wait", "list", "grant", "answer">>, <<"wait", "list", "grant", "setNetwork", "answer">>}
      /\ t = <<"network", "unlock", "known">> => x.secret = None
      /\ t = <<"wait", "list", "grant", "setNetwork", "answer">> => x.want # None
  <2>1. CASE Connects(x, y)
    <3>1. Has(x.todo, {"connect"}) BY <2>1, HasTail DEF Fit, Formed, Connects
    <3>2. x.secret = None BY <3>1 DEF Fit, Connectable
    <3>3. t = <<"network", "unlock", "known">> \/ t = <<"network", "known">> BY <2>1 DEF Connects
    <3>4. /\ <<"network", "unlock", "known">> # <<"wait", "list", "grant", "setNetwork", "answer">>
          /\ <<"network", "known">> # <<"wait", "list", "grant", "setNetwork", "answer">>
      OBVIOUS
    <3> QED BY <3>2, <3>3, <3>4, Zenon
  <2>2. CASE Knows(x, y)
    <3>1. \/ t \in {<<"network">>, <<"wait", "list", "grant", "answer">>}
          \/ t = <<"wait", "list", "grant", "setNetwork", "answer">> /\ x.want # None
      BY <2>2 DEF Knows
    <3>2. /\ <<"network">> # <<"network", "unlock", "known">>
          /\ <<"wait", "list", "grant", "answer">> # <<"network", "unlock", "known">>
          /\ <<"wait", "list", "grant", "setNetwork", "answer">> # <<"network", "unlock", "known">>
          /\ <<"network">> # <<"wait", "list", "grant", "setNetwork", "answer">>
          /\ <<"wait", "list", "grant", "answer">> # <<"wait", "list", "grant", "setNetwork", "answer">>
      OBVIOUS
    <3> QED BY <3>1, <3>2, Zenon
  <2> QED BY <2>1, <2>2
<1>4. /\ Formed(t) /\ ~Has(t, Writes) /\ ~Has(t, {"connect"}) /\ ~Has(t, {"session"})
      /\ ~Has(t, {"revoke", "revokeAll"})
      /\ ~Has(t, {"sign"}) /\ ~Has(t, {"secret"}) /\ t # SWITCH_ACCOUNT /\ t # <<>>
      /\ t = <<"wait", "list", "grant", "setNetwork", "answer">> \/ ~Has(t, {"setNetwork"})
      /\ Head(t) \in {"cleared", "network", "wait"}
  <2>1. t # <<>> BY <1>3
  <2>2. t \in {<<>>, <<"cleared", "putCleared">>, <<"network", "unlock", "known">>, <<"network", "known">>,
                <<"network">>, <<"wait", "list", "grant", "answer">>, <<"wait", "list", "grant", "setNetwork", "answer">>}
    BY <1>3
  <2> HIDE DEF t
  <2> QED BY <2>1, <2>2, NewTodos
<1>5. Has(t, {"unlock"}) => t = <<"network", "unlock", "known">>
  <2>1. /\ ~Has(<<"network", "known">>, {"unlock"}) /\ ~Has(<<"network">>, {"unlock"})
        /\ ~Has(<<"wait", "list", "grant", "answer">>, {"unlock"})
        /\ ~Has(<<"wait", "list", "grant", "setNetwork", "answer">>, {"unlock"})
    BY DEF Has
  <2> HIDE DEF t
  <2> QED BY <2>1, <1>3, Zenon
<1> HIDE DEF t
<1>6. Staged(y) BY <1>1, <1>3, <1>4 DEF Staged, Kept, t
<1>7. Connectable(y) BY <1>1, <1>2, <1>4 DEF Connectable, t
<1>8. Writing(y) BY <1>1, <1>4 DEF Writing, Kept, t
<1>9. Revoking(y) BY <1>4, NotHas DEF Revoking, t
<1>10. Listed(y) BY <1>4 DEF Listed, t
<1>11. Signing(y) BY <1>1, <1>3, <1>4, <1>5, NotHas DEF Signing, Kept, t
<1> QED BY <1>4, <1>6, <1>7, <1>8, <1>9, <1>10, <1>11 DEF Fit, t

LEMMA SkipsFit == ASSUME NEW x, NEW y, Fit(x), y \in Requests, Skips(x, y) PROVE Fit(y)
<1> DEFINE t == x.todo
           u == Tail(t)
<1>1. /\ t \in Seq(Steps) /\ t # <<>> /\ Head(t) = "session" /\ u # <<>> /\ Head(u) = "unlock"
      /\ y.todo = Tail(u)
  BY DEF Skips, Fit, Formed
<1>2. /\ y.st \in {"open", "done", "refused"} /\ (y.st = "open" <=> y.todo # <<>>)
      /\ y.pk # None /\ y.origin = x.origin /\ y.want = x.want /\ y.secret = x.secret
      /\ y.net = x.net
      /\ y.signed = x.signed /\ y.begun = x.begun /\ y.sure = x.sure /\ y.connect = x.connect
  BY DEF Skips
<1>3. Formed(t) /\ Formed(u) /\ Formed(y.todo) /\ u \in Seq(Steps)
  <2>1. Formed(t) BY DEF Fit
  <2> HIDE DEF t
  <2>2. Formed(u) BY <1>1, <2>1, FormedTail
  <2> HIDE DEF u
  <2> QED BY <1>1, <2>1, <2>2, FormedTail DEF Formed
<1>4. \A A : Has(y.todo, A) => Has(t, A)
  <2> HIDE DEF t
  <2>1. \A A : Has(u, A) => Has(t, A) BY <1>1, HasTail
  <2> HIDE DEF u
  <2> QED BY <1>1, <1>3, <2>1, HasTail
<1>5. t[1] = "session" /\ u[1] = "unlock"
  BY <1>1, <1>3, Suffix
<1>6. \A A, B : Precedes(t, A, B) /\ "session" \notin A /\ "unlock" \notin A => Precedes(y.todo, A, B)
  <2> HIDE DEF t
  <2>1. \A A, B : Precedes(t, A, B) /\ "session" \notin A => Precedes(u, A, B)
    BY <1>1, <1>5, PrecedesTail
  <2> HIDE DEF u
  <2> QED BY <1>1, <1>3, <1>5, <2>1, PrecedesTail
<1>7. \A A, B : Joined(t, A, B) => (y.todo # <<>> /\ Head(y.todo) \in B => "unlock" \in A)
  <2> HIDE DEF t
  <2>1. \A A, B : Joined(t, A, B) => Joined(u, A, B) BY <1>1, JoinedTail
  <2> HIDE DEF u
  <2> QED BY <1>1, <1>3, <1>5, <2>1, JoinedTail
<1>8. Has(t, {"session"}) /\ Has(t, {"unlock"})
  <2>1. Has(t, {"session"}) BY <1>1, HasTail
  <2> HIDE DEF t
  <2>2. \A A : Has(u, A) => Has(t, A) BY <1>1, HasTail
  <2> HIDE DEF u
  <2>3. Has(u, {"unlock"}) BY <1>1, <1>3, HasTail
  <2> QED BY <2>1, <2>2, <2>3
<1>9. ~Has(y.todo, {"session"})
  <2> HIDE DEF t
  <2>1. ~Has(u, {"session"}) BY <1>1, <1>3, OnceTail DEF Formed
  <2> HIDE DEF u
  <2> QED BY <1>1, <1>3, <2>1, HasTail
<1>10. x.pk = None /\ x.secret = None BY <1>8 DEF Fit, Revoking
<1>11. ~x.sure /\ ~x.signed
  <2>1. Has(t, Reads) BY <1>1, HasTail DEF Reads
  <2> QED BY <2>1 DEF Fit, Signing
<1>12. t # SWITCH_ACCOUNT /\ t # UNLOCK_WALLET /\ t # LOCK_WALLET /\ t \notin Puts \cup Drops
  BY <1>1, WritingGoes
<1>13. ~x.begun /\ ~Has(t, Writes) BY <1>1, <1>12 DEF Fit, Writing
<1>14. ~x.connect
  <2>1. t \notin {<<>>, <<"network">>, <<"answer">>, <<"network", "unlock", "known">>, <<"unlock", "known">>, <<"network", "known">>, <<"known">>}
    <3>1. /\ Head(<<"network">>) = "network" /\ Head(<<"answer">>) = "answer"
          /\ Head(<<"network", "unlock", "known">>) = "network"
          /\ Head(<<"unlock", "known">>) = "unlock" /\ Head(<<"network", "known">>) = "network"
          /\ Head(<<"known">>) = "known"
      BY One, Two, Three
    <3> HIDE DEF t
    <3> QED BY <1>1, <3>1
  <2>2. t \notin Granting BY <1>1, GrantingGoes
  <2> QED BY <2>1, <2>2 DEF Fit, Connectable, Connecting
<1>15. ~Has(t, {"connect"})
  <2> SUFFICES ASSUME Has(t, {"connect"}) PROVE FALSE OBVIOUS
  <2>1. t = REQUEST_ACCESS \/ t = <<"connect">> BY DEF Fit, Connectable
  <2>2. t # <<"connect">> BY <1>1, One
  <2>3. t = <<"session", "connect">> BY <2>1, <2>2 DEF REQUEST_ACCESS
  <2> QED BY <2>3, <1>1, One, Two
<1> HIDE DEF t, u
<1>16. Staged(y) BY <1>2, <1>4 DEF Fit, Staged, t
<1>17. Connectable(y) BY <1>2, <1>4, <1>14, <1>15 DEF Fit, Connectable, t
<1>18. Writing(y)
  <2>1. ~Has(y.todo, Writes) BY <1>4, <1>13
  <2>2. Has(SWITCH_ACCOUNT, Writes) BY DEF Has, SWITCH_ACCOUNT, Writes
  <2> QED BY <2>1, <2>2, <1>2, <1>13 DEF Writing
<1>19. Revoking(y) BY <1>2, <1>4, <1>6, <1>9 DEF Fit, Revoking, t
<1>20. Listed(y)
  <2>1. ~(y.todo # <<>> /\ Head(y.todo) \in {"grant", "revoke", "revokeAll"})
    BY <1>3, <1>7 DEF Formed
  <2>2. ~(y.todo # <<>> /\ Head(y.todo) \in {"putPayload", "putCleared"}) BY <1>3, <1>7 DEF Formed
  <2> QED BY <2>1, <2>2 DEF Listed
<1>21. Signing(y)
  <2>1. Precedes(y.todo, {"secret"}, {"sign"}) BY <1>6, <1>10 DEF Fit, Signing, t
  <2>2. Has(y.todo, {"unlock"}) => Precedes(y.todo, {"allowed"}, {"secret"})
    BY <1>4, <1>6 DEF Fit, Signing, t
  <2> QED BY <2>1, <2>2, <1>2, <1>10, <1>11 DEF Signing
<1> QED BY <1>3, <1>16, <1>17, <1>18, <1>19, <1>20, <1>21 DEF Fit

LEMMA StartsFit == ASSUME NEW x, NEW y, Fit(x), y \in Requests, Starts(x, y) PROVE Fit(y)
<1> DEFINE t == y.todo
<1>1. /\ t \in Programs /\ y.st = "open"
      /\ y.origin = None <=> Head(t) \notin {"session", "account"}
      /\ Has(t, {"setNetwork"}) => y.want # None
      /\ t = SWITCH_ACCOUNT => y.pk # None
      /\ y.pk # None => t = SWITCH_ACCOUNT
      /\ y.secret = None /\ y.net = None /\ y.seen = {} /\ ~y.signed /\ ~y.begun /\ ~y.sure
      /\ ~y.connect
  BY DEF Starts
<1> HIDE DEF t
<1>2. Formed(t) /\ Drawn(t) /\ t # <<>> /\ t \in Seq(Steps) /\ t[1] = Head(t)
  <2>1. Formed(t) /\ Drawn(t) BY <1>1, ProgramsFormed
  <2> QED BY <2>1, Suffix DEF Drawn, Formed
<1>3. Staged(y) BY <1>1, <1>2 DEF Staged, t
<1>4. Connectable(y)
  <2>1. ~Has(t, {"known", "grant", "answer"}) /\ (Has(t, {"connect"}) => t = REQUEST_ACCESS)
    BY <1>2 DEF Drawn
  <2>2. Head(REQUEST_ACCESS) = "session" BY Two DEF REQUEST_ACCESS
  <2> QED BY <1>1, <2>1, <2>2 DEF Connectable, t
<1>5. Writing(y) BY <1>1, <1>2 DEF Writing, Drawn, t
<1>6. Revoking(y)
  <2>1. y.pk # None \/ y.secret # None => ~Has(t, {"session"})
    <3>1. ~Has(SWITCH_ACCOUNT, {"session"}) BY DEF Has, SWITCH_ACCOUNT
    <3> QED BY <1>1, <3>1
  <2>2. Has(t, {"revoke", "revokeAll"}) => y.origin # None BY <1>1, <1>2 DEF Drawn
  <2>3. /\ Precedes(t, {"account"}, {"revoke", "revokeAll"})
        /\ Precedes(t, {"network"}, {"revoke", "revokeAll"})
    BY <1>2 DEF Drawn
  <2> QED BY <2>1, <2>2, <2>3 DEF Revoking, t
<1>7. Listed(y) BY <1>1 DEF Listed
<1>8. Signing(y) BY <1>1, <1>2 DEF Signing, Drawn, t
<1> QED BY <1>2, <1>3, <1>4, <1>5, <1>6, <1>7, <1>8 DEF Fit, t

(* No step breaks Fit *)
LEMMA TurnedFit == ASSUME NEW x, NEW y, Fit(x), y \in Requests, Turned(x, y) PROVE Fit(y)
BY StaysFit, GoesFit, StopsFit, SkipsFit, ConnectsFit, StartsFit DEF Turned

-----------------------------------------------------------------------------
(* What each group of actions does to the request it serves. *)

(* Two records that differ in their stage only *)
Alike(x, y) ==
    /\ y.origin = x.origin /\ y.want = x.want /\ y.pk = x.pk /\ y.secret = x.secret /\ y.net = x.net
    /\ y.seen = x.seen
    /\ y.no = x.no /\ y.signed = x.signed /\ y.shown = x.shown /\ y.begun = x.begun
    /\ y.moved = x.moved
    /\ y.sure = x.sure /\ y.connect = x.connect

(* The record a handler goes on with *)
LEMMA ResumedIs ==
    ASSUME NEW z \in Requests, NEW rest \in Seq(Steps)
    PROVE  LET y == Resumed(z, rest) IN
           /\ y \in Requests /\ Alike(z, y) /\ y.todo = rest
           /\ y.st \in {"open", "done", "refused"} /\ (y.st = "open" <=> rest # <<>>)
<1> DEFINE s == IF rest # <<>> THEN "open" ELSE IF z.no THEN "refused" ELSE "done"
           y == [z EXCEPT !.todo = rest, !.st = s]
<1>1. s \in Stages /\ s \in {"open", "done", "refused"} /\ (s = "open" <=> rest # <<>>)
  BY DEF Stages
<1> HIDE DEF s
<1>2. y \in Requests
  BY <1>1, Zenon DEF Requests
<1>3. y.todo = rest /\ y.st = s /\ Alike(z, y)
  BY DEF Requests, Alike
<1>4. Resumed(z, rest) = y
  BY DEF Resumed, s
<1> HIDE DEF y
<1> QED BY <1>1, <1>2, <1>3, <1>4

(* The record of a refusal *)
LEMMA RefusedIs ==
    ASSUME NEW x \in Requests
    PROVE  /\ Refused(x) \in Requests /\ Alike(x, Refused(x)) /\ Refused(x).todo = <<>>
           /\ Refused(x).st = "refused"
           /\ x.st = "open" => Stops(x, Refused(x))
<1>1. <<>> \in Seq(Steps) /\ "refused" \in Stages BY DEF Stages
<1>2. Refused(x) \in Requests BY <1>1, Zenon DEF Requests, Refused
<1>3. Alike(x, Refused(x)) /\ Refused(x).todo = <<>> /\ Refused(x).st = "refused"
  BY DEF Requests, Refused, Alike
<1> QED BY <1>2, <1>3 DEF Stops, Kept, Alike

(* Records that differ in a field or two are records *)
LEMMA Edited ==
    ASSUME NEW x \in Requests, NEW a \in Accounts \cup {None}, NEW b \in BOOLEAN, NEW n \in Networks \cup {None},
           NEW l \in (SUBSET Seats) \cup (SUBSET Slots)
    PROVE  /\ [x EXCEPT !.pk = a, !.moved = b] \in Requests
           /\ [x EXCEPT !.secret = a, !.moved = b] \in Requests
           /\ [x EXCEPT !.pk = a, !.begun = b] \in Requests
           /\ [x EXCEPT !.pk = a] \in Requests
           /\ [x EXCEPT !.net = n] \in Requests
           /\ [x EXCEPT !.seen = l] \in Requests
           /\ [x EXCEPT !.sure = b] \in Requests /\ [x EXCEPT !.signed = b] \in Requests
           /\ [x EXCEPT !.begun = b] \in Requests /\ [x EXCEPT !.connect = b] \in Requests
           /\ [x EXCEPT !.no = b] \in Requests /\ [x EXCEPT !.shown = a] \in Requests
<1>1. [x EXCEPT !.pk = a, !.moved = b] \in Requests BY Zenon DEF Requests
<1>2. [x EXCEPT !.secret = a, !.moved = b] \in Requests BY Zenon DEF Requests
<1>3. [x EXCEPT !.pk = a, !.begun = b] \in Requests BY Zenon DEF Requests
<1>4. [x EXCEPT !.pk = a] \in Requests BY Zenon DEF Requests
<1>5. [x EXCEPT !.net = n] \in Requests BY Zenon DEF Requests
<1>6. [x EXCEPT !.seen = l] \in Requests BY Zenon DEF Requests
<1>7. [x EXCEPT !.sure = b] \in Requests BY Zenon DEF Requests
<1>8. [x EXCEPT !.signed = b] \in Requests BY Zenon DEF Requests
<1>9. [x EXCEPT !.begun = b] \in Requests BY Zenon DEF Requests
<1>10. [x EXCEPT !.connect = b] \in Requests BY Zenon DEF Requests
<1>11. [x EXCEPT !.no = b] \in Requests BY Zenon DEF Requests
<1>12. [x EXCEPT !.shown = a] \in Requests BY Zenon DEF Requests
<1> QED BY <1>1, <1>2, <1>3, <1>4, <1>5, <1>6, <1>7, <1>8, <1>9, <1>10, <1>11, <1>12

(* A step that writes into a record what its head allows goes on to the next *)
LEMMA SetGoes ==
    ASSUME NEW x, Fit(x), x.st = "open", NEW z \in Requests, z.todo = x.todo, Edits(x, z)
    PROVE  LET y == Advanced(z) IN y \in Requests /\ Alike(z, y) /\ Goes(x, y) /\ y.st # "lost"
<1> DEFINE y == Advanced(z)
<1>1. x.todo \in Seq(Steps) /\ x.todo # <<>> BY DEF Fit, Formed, Staged
<1>2. Tail(x.todo) \in Seq(Steps)
  <2> DEFINE t == x.todo
  <2>1. t \in Seq(Steps) /\ t # <<>> BY <1>1
  <2> HIDE DEF t
  <2>2. Tail(t) \in Seq(Steps) BY <2>1, Suffix
  <2> QED BY <2>2 DEF t
<1>3. /\ y \in Requests /\ Alike(z, y) /\ y.todo = Tail(x.todo)
      /\ y.st \in {"open", "done", "refused"} /\ (y.st = "open" <=> y.todo # <<>>)
  <2>1. y = Resumed(z, Tail(x.todo)) BY DEF Advanced
  <2> HIDE DEF y
  <2> DEFINE u == Tail(x.todo)
  <2>2. u \in Seq(Steps) BY <1>2
  <2> HIDE DEF u
  <2>3. y = Resumed(z, u) BY <2>1 DEF u
  <2>4. /\ y \in Requests /\ Alike(z, y) /\ y.todo = u /\ y.st \in {"open", "done", "refused"}
        /\ (y.st = "open" <=> u # <<>>)
    BY <2>2, <2>3, ResumedIs
  <2> QED BY <2>4 DEF u
<1> HIDE DEF y
<1>4. Edits(x, y) BY <1>3 DEF Edits, Alike
<1>5. Goes(x, y) BY <1>1, <1>3, <1>4 DEF Goes
<1>6. y.st # "lost" BY <1>3
<1> QED BY <1>3, <1>5, <1>6 DEF y

(* A request is pending only while its handler waits for the user *)
Waiting == \A r \in pending : At(r, "wait")
(* The base of every invariant below: the types, and every request fit *)
Base == TypeOK /\ req \in [Slots -> Requests] /\ (\A r \in Slots : Fit(req[r])) /\ Waiting

(* What the mover of a step has read, and from where *)
Heeds(x, y) ==
    \/ y.todo = <<>> /\ y.pk = x.pk /\ y.secret = x.secret /\ y.moved = x.moved
    \/ LET h == Head(x.todo) IN
       /\ y.pk # x.pk /\ h # "active" => y.pk = session.pk /\ (HalfWritten => y.moved)
       /\ h = "active" => y.pk = active
       /\ y.secret # x.secret => y.secret = session.secret /\ (HalfWritten => y.moved)
       /\ x.moved /\ ~y.moved => h = "session"
       /\ h = "list" => y.seen = allow
       /\ h \in {"payload", "cleared"} => y.seen = payloads
       /\ h = "allowed" => Seat(x) \in allow
(* The whole of what a step does to the request it serves *)
Moves(r, y) ==
    /\ y \in Requests /\ y.st # "lost" /\ Turned(req[r], y) /\ Heeds(req[r], y)
    /\ Head(req[r].todo) = "wait" => Stops(req[r], y) \/ Cuts(req[r], y) \/ r \in said'

(* A comparison is a Boolean *)
LEMMA HalfBoolean == HalfWritten \in BOOLEAN
BY Zenon DEF HalfWritten

(* The handlers' reads and calls *)
ReadSteps(r) ==
    \/ ReadSession(r) \/ ReadAccount(r) \/ ReadSecret(r) \/ ReadNetwork(r) \/ UnknownNetwork(r)
    \/ Controls(r) \/ Allowed(r) \/ Fetch(r) \/ Sign(r) \/ ReadList(r) \/ ReadPayloads(r) \/ Answer(r)
    \/ GiveUpUnlock(r) \/ ReadActive(r) \/ ReadSeed(r)

(* The types the steps below need *)
LEMMA Typed ==
    ASSUME Base, NEW r \in Slots
    PROVE  /\ req[r] \in Requests /\ Fit(req[r]) /\ session.pk \in Accounts \cup {None}
           /\ session.secret \in Accounts \cup {None}
           /\ active \in Accounts /\ network \in Networks /\ active # None /\ network # None
           /\ allow \in SUBSET Seats /\ payloads \in SUBSET Slots /\ req[r].moved \in BOOLEAN
           /\ session.seed \in BOOLEAN
  BY SessionAssumption DEF Base, TypeOK, Requests

(* A refusal is a move *)
LEMMA Refuses ==
    ASSUME Base, NEW r \in Slots, req[r].st = "open"
    PROVE  Moves(r, Refused(req[r]))
<1> DEFINE x == req[r]
           y == Refused(x)
<1>1. y \in Requests /\ Alike(x, y) /\ y.st = "refused" /\ Stops(x, y) BY Typed, RefusedIs
<1>2. Heeds(x, y) BY <1>1 DEF Heeds, Stops, Alike
<1> HIDE DEF y
<1>3. Turned(x, y) /\ y.st # "lost" BY <1>1 DEF Turned
<1>4. Moves(r, y) BY <1>1, <1>2, <1>3 DEF Moves
<1> QED BY <1>4 DEF y

(* A handler goes on with the record z *)
LEMMA GoesOn ==
    ASSUME Base, NEW r \in Slots, NEW z \in Requests, req[r].st = "open", Head(req[r].todo) # "wait",
           z.todo = req[r].todo, Edits(req[r], z), Heeds(req[r], z)
    PROVE  Moves(r, Advanced(z)) /\ Goes(req[r], Advanced(z)) /\ Alike(z, Advanced(z))
<1> DEFINE x == req[r]
           y == Advanced(z)
<1>1. Fit(x) BY DEF Base
<1>2. y \in Requests /\ Alike(z, y) /\ Goes(x, y) /\ y.st # "lost"
  <2> HIDE DEF x
  <2>1. Edits(x, z) /\ z.todo = x.todo /\ x.st = "open" BY DEF x
  <2> QED BY <1>1, <2>1, SetGoes
<1> HIDE DEF y
<1>4. z.todo # <<>>
  BY <1>1 DEF Fit, Staged
<1>5. Heeds(x, y)
  BY <1>2, <1>4 DEF Heeds, Alike
<1>6. Turned(x, y) BY <1>2 DEF Turned
<1>7. Moves(r, y) BY <1>2, <1>5, <1>6 DEF Moves
<1> QED BY <1>2, <1>7 DEF y

(* Some move of r's *)
Turns(r) == \E y : Becomes(r, y) /\ Moves(r, y)

(* Every read or call moves its request *)
LEMMA ReadsMove ==
    ASSUME Base, NEW r \in Slots, ReadSteps(r)
    PROVE  Turns(r) /\ UNCHANGED Passive
<1> DEFINE x == req[r]
<1>1. x \in Requests /\ Fit(x) /\ x.moved \in BOOLEAN /\ HalfWritten \in BOOLEAN
  BY Typed, HalfBoolean
<1> USE DEF At, Turns
<1>2. CASE ReadSecret(r)
  <2>1. UNCHANGED Passive /\ x.st = "open" /\ Head(x.todo) = "secret" BY <1>2 DEF ReadSecret
  <2>2. CASE session.secret = None
    <3>1. Becomes(r, Refused(req[r])) BY <1>2, <2>2 DEF ReadSecret
    <3> QED BY <2>1, <3>1, Refuses
  <2>3. CASE session.secret # None
    <3> DEFINE b == x.moved \/ HalfWritten
               z == [x EXCEPT !.secret = session.secret, !.moved = b]
    <3>1. Becomes(r, Advanced(z)) BY <1>2, <2>3 DEF ReadSecret
    <3>2. b \in BOOLEAN BY Zenon
    <3>3. b <=> x.moved \/ HalfWritten OBVIOUS
    <3> HIDE DEF b
    <3>4. z \in Requests BY <1>1, <3>2, Typed, Edited
    <3>5. /\ z.todo = x.todo /\ z.secret = session.secret /\ z.moved = b /\ z.pk = x.pk
          /\ z.seen = x.seen
      BY <1>1 DEF Requests
    <3>6. Edits(x, z) BY <1>1, <2>1, <2>3 DEF Requests, Edits, PkReads
    <3> HIDE DEF z
    <3>7. Heeds(x, z) BY <2>1, <3>3, <3>5 DEF Heeds
    <3> QED BY <2>1, <3>1, <3>4, <3>5, <3>6, <3>7, GoesOn
  <2> QED BY <2>2, <2>3
<1>3. CASE ReadAccount(r)
  <2>1. UNCHANGED Passive /\ x.st = "open" /\ Head(x.todo) = "account" BY <1>3 DEF ReadAccount
  <2>2. CASE session.pk = None
    <3>1. Becomes(r, Refused(req[r])) BY <1>3, <2>2 DEF ReadAccount
    <3> QED BY <2>1, <3>1, Refuses
  <2>3. CASE session.pk # None
    <3> DEFINE b == x.moved \/ HalfWritten
               z == [x EXCEPT !.pk = session.pk, !.moved = b]
    <3>1. Becomes(r, Advanced(z)) BY <1>3, <2>3 DEF ReadAccount
    <3>2. b \in BOOLEAN BY Zenon
    <3>3. b <=> x.moved \/ HalfWritten OBVIOUS
    <3> HIDE DEF b
    <3>4. z \in Requests BY <1>1, <3>2, Typed, Edited
    <3>5. /\ z.todo = x.todo /\ z.secret = x.secret /\ z.moved = b /\ z.pk = session.pk
          /\ z.seen = x.seen
      BY <1>1 DEF Requests
    <3>6. Edits(x, z) BY <1>1, <2>1, <2>3 DEF Requests, Edits, PkReads
    <3> HIDE DEF z
    <3>7. Heeds(x, z) BY <2>1, <3>3, <3>5 DEF Heeds
    <3> QED BY <2>1, <3>1, <3>4, <3>5, <3>6, <3>7, GoesOn
  <2> QED BY <2>2, <2>3
<1>4. CASE ReadSession(r)
  <2> DEFINE b == HalfWritten
             z == [x EXCEPT !.pk = session.pk, !.moved = b]
             rest == Tail(x.todo)
             skip == session.pk # None /\ rest # <<>> /\ Head(rest) = "unlock"
  <2>1. UNCHANGED Passive /\ x.st = "open" /\ Head(x.todo) = "session" /\ x.todo # <<>>
    BY <1>4 DEF ReadSession
  <2>2. /\ z.todo = x.todo /\ z.secret = x.secret /\ z.moved = b /\ z.pk = session.pk
        /\ z.seen = x.seen
    BY <1>1 DEF Requests
  <2>3. Becomes(r, Resumed(z, IF skip THEN Tail(rest) ELSE rest))
    BY <1>4, <2>2 DEF ReadSession
  <2>4. z \in Requests BY <1>1, Typed, Edited
  <2>5. Edits(x, z) BY <1>1, <2>1 DEF Requests, Edits, PkReads
  <2>6. /\ z.origin = x.origin /\ z.want = x.want /\ z.net = x.net /\ z.signed = x.signed
        /\ z.begun = x.begun /\ z.sure = x.sure /\ z.connect = x.connect
    BY <1>1 DEF Requests
  <2> HIDE DEF z
  <2>7. Heeds(x, z) BY <2>1, <2>2 DEF Heeds
  <2>8. CASE ~skip
    <3>1. Becomes(r, Advanced(z)) BY <2>2, <2>3, <2>8 DEF Advanced
    <3> QED BY <2>1, <2>2, <2>4, <2>5, <2>7, <3>1, GoesOn
  <2>9. CASE skip
    <3> DEFINE y == Resumed(z, Tail(rest))
    <3>1. Becomes(r, y) BY <2>3, <2>9
    <3>2. Tail(rest) \in Seq(Steps) /\ rest # <<>>
      <4>1. x.todo \in Seq(Steps) BY <1>1 DEF Fit, Formed
      <4> DEFINE t == x.todo
      <4>2. t \in Seq(Steps) /\ t # <<>> BY <4>1, <2>1
      <4> HIDE DEF t
      <4>3. Tail(t) \in Seq(Steps) BY <4>2, Suffix
      <4> DEFINE u == Tail(t)
      <4>4. u \in Seq(Steps) BY <4>3
      <4>5. u # <<>> BY <2>9 DEF t
      <4> HIDE DEF u
      <4>6. Tail(u) \in Seq(Steps) BY <4>4, <4>5, Suffix
      <4> QED BY <2>9, <4>6 DEF u, t
    <3>3. /\ y \in Requests /\ Alike(z, y) /\ y.todo = Tail(rest)
          /\ y.st \in {"open", "done", "refused"} /\ (y.st = "open" <=> Tail(rest) # <<>>)
      <4> DEFINE w == Tail(rest)
      <4>1. w \in Seq(Steps) BY <3>2
      <4> HIDE DEF w
      <4>2. y = Resumed(z, w) BY DEF w
      <4> HIDE DEF y
      <4> QED BY <2>4, <4>1, <4>2, ResumedIs DEF w
    <3> HIDE DEF y
    <3>4. Skips(x, y) BY <2>1, <2>2, <2>6, <2>9, <3>3 DEF Skips, Alike
    <3>5. Heeds(x, y) BY <2>1, <2>2, <3>3 DEF Heeds, Alike
    <3>6. y.st # "lost" BY <3>3
    <3>7. Moves(r, y) BY <2>1, <3>3, <3>4, <3>5, <3>6 DEF Moves, Turned
    <3> QED BY <2>1, <3>1, <3>7
  <2> QED BY <2>8, <2>9
<1>5. CASE ReadNetwork(r)
  <2> DEFINE z == [x EXCEPT !.net = network]
  <2>1. UNCHANGED Passive /\ x.st = "open" /\ Head(x.todo) = "network" /\ Becomes(r, Advanced(z))
    BY <1>5 DEF ReadNetwork
  <2>2. z \in Requests BY <1>1, Typed, Edited
  <2>3. Edits(x, z) /\ z.todo = x.todo BY <1>1, <2>1, Typed DEF Requests, Edits, PkReads
  <2>4. Heeds(x, z) BY <1>1, <2>1 DEF Heeds, Requests
  <2> HIDE DEF z
  <2> QED BY <2>1, <2>2, <2>3, <2>4, GoesOn
<1>6. CASE UnknownNetwork(r) \/ GiveUpUnlock(r)
  <2>1. UNCHANGED Passive /\ x.st = "open" /\ Becomes(r, Refused(req[r]))
    BY <1>6 DEF UnknownNetwork, GiveUpUnlock
  <2> QED BY <2>1, Refuses
<1>7. CASE Controls(r)
  <2> DEFINE z == [x EXCEPT !.sure = TRUE]
  <2>1. UNCHANGED Passive /\ x.st = "open" /\ Head(x.todo) = "controls" BY <1>7 DEF Controls
  <2>2. CASE x.secret # x.pk
    <3>1. Becomes(r, Refused(req[r])) BY <1>7, <2>2 DEF Controls
    <3> QED BY <2>1, <3>1, Refuses
  <2>3. CASE x.secret = x.pk
    <3>1. Becomes(r, Advanced(z)) BY <1>7, <2>3 DEF Controls
    <3>2. z \in Requests BY <1>1, Edited
    <3>3. Edits(x, z) /\ z.todo = x.todo BY <1>1, <2>1, <2>3 DEF Requests, Edits, PkReads
    <3>4. Heeds(x, z) BY <1>1, <2>1 DEF Heeds, Requests
    <3> HIDE DEF z
    <3> QED BY <2>1, <3>1, <3>2, <3>3, <3>4, GoesOn
  <2> QED BY <2>2, <2>3
<1>8. CASE Sign(r)
  <2> DEFINE z == [x EXCEPT !.signed = TRUE]
  <2>1. UNCHANGED Passive /\ x.st = "open" /\ Head(x.todo) = "sign" /\ Becomes(r, Advanced(z))
    BY <1>8 DEF Sign
  <2>2. z \in Requests BY <1>1, Edited
  <2>3. Edits(x, z) /\ z.todo = x.todo BY <1>1, <2>1 DEF Requests, Edits, PkReads
  <2>4. Heeds(x, z) BY <1>1, <2>1 DEF Heeds, Requests
  <2> HIDE DEF z
  <2> QED BY <2>1, <2>2, <2>3, <2>4, GoesOn
<1>9. CASE ReadList(r)
  <2> DEFINE z == [x EXCEPT !.seen = allow]
  <2>1. UNCHANGED Passive /\ x.st = "open" /\ Head(x.todo) = "list" /\ Becomes(r, Advanced(z))
    BY <1>9 DEF ReadList
  <2>2. z \in Requests BY <1>1, Typed, Edited
  <2>3. Edits(x, z) /\ z.todo = x.todo BY <1>1, <2>1, Typed DEF Requests, Edits, PkReads
  <2>4. Heeds(x, z) BY <1>1, <2>1 DEF Heeds, Requests
  <2> HIDE DEF z
  <2> QED BY <2>1, <2>2, <2>3, <2>4, GoesOn
<1>10. CASE ReadPayloads(r)
  <2> DEFINE z == [x EXCEPT !.seen = payloads]
  <2>1. /\ UNCHANGED Passive /\ x.st = "open" /\ Head(x.todo) \in {"payload", "cleared"}
        /\ Becomes(r, Advanced(z))
    BY <1>10 DEF ReadPayloads
  <2>2. z \in Requests
    <3>1. payloads \in SUBSET Slots BY Typed
    <3>2. payloads \in (SUBSET Seats) \cup (SUBSET Slots) BY <3>1
    <3> QED BY <1>1, <3>2, Edited
  <2>3. Edits(x, z) /\ z.todo = x.todo BY <1>1, <2>1, Typed DEF Requests, Edits, PkReads
  <2>4. Heeds(x, z) BY <1>1, <2>1 DEF Heeds, Requests
  <2> HIDE DEF z
  <2> QED BY <2>1, <2>2, <2>3, <2>4, GoesOn
<1>11. CASE ReadActive(r)
  <2> DEFINE z == [x EXCEPT !.pk = active, !.begun = TRUE]
  <2>1. UNCHANGED Passive /\ x.st = "open" /\ Head(x.todo) = "active" /\ Becomes(r, Advanced(z))
    BY <1>11 DEF ReadActive
  <2>2. z \in Requests
    <3>1. active \in Accounts \cup {None} BY Typed
    <3> QED BY <1>1, <3>1, Edited
  <2>3. Edits(x, z) /\ z.todo = x.todo BY <1>1, <2>1, Typed DEF Requests, Edits, PkReads
  <2>4. Heeds(x, z) BY <1>1, <2>1 DEF Heeds, Requests
  <2> HIDE DEF z
  <2> QED BY <2>1, <2>2, <2>3, <2>4, GoesOn
<1>12. CASE ReadSeed(r)
  <2> DEFINE z == [x EXCEPT !.begun = TRUE]
  <2>1. UNCHANGED Passive /\ x.st = "open" /\ Head(x.todo) = "seed" BY <1>12 DEF ReadSeed
  <2>2. CASE ~session.seed
    <3>1. Becomes(r, Refused(req[r])) BY <1>12, <2>2 DEF ReadSeed
    <3> QED BY <2>1, <3>1, Refuses
  <2>3. CASE session.seed
    <3>1. Becomes(r, Advanced(z)) BY <1>12, <2>3 DEF ReadSeed
    <3>2. z \in Requests BY <1>1, Edited
    <3>3. Edits(x, z) /\ z.todo = x.todo BY <1>1, <2>1 DEF Requests, Edits, PkReads
    <3>4. Heeds(x, z) BY <1>1, <2>1 DEF Heeds, Requests
    <3> HIDE DEF z
    <3> QED BY <2>1, <3>1, <3>2, <3>3, <3>4, GoesOn
  <2> QED BY <2>2, <2>3
<1>13. CASE Allowed(r) \/ Fetch(r) \/ Answer(r)
  <2>1. UNCHANGED Passive /\ x.st = "open" /\ Head(x.todo) \in {"allowed", "fetch", "answer"}
    BY <1>13 DEF Allowed, Fetch, Answer
  <2>2. \/ Becomes(r, Refused(x))
        \/ Becomes(r, Advanced(x)) /\ (Head(x.todo) = "allowed" => Seat(x) \in allow)
    <3>1. CASE Allowed(r) BY <3>1 DEF Allowed
    <3>2. CASE Fetch(r) BY <3>2 DEF Fetch
    <3>3. CASE Answer(r) BY <3>3 DEF Answer
    <3> QED BY <1>13, <3>1, <3>2, <3>3
  <2>3. CASE Becomes(r, Refused(x)) BY <2>1, <2>3, Refuses
  <2>4. CASE Becomes(r, Advanced(x)) /\ (Head(x.todo) = "allowed" => Seat(x) \in allow)
    <3>1. Edits(x, x) BY <2>1 DEF Edits, PkReads
    <3>2. Heeds(x, x) BY <2>1, <2>4 DEF Heeds
    <3> HIDE DEF x
    <3>3. Moves(r, Advanced(x)) BY <1>1, <2>1, <3>1, <3>2, GoesOn DEF x
    <3> QED BY <2>1, <2>4, <3>3
  <2> QED BY <2>2, <2>3, <2>4
<1> QED BY <1>2, <1>3, <1>4, <1>5, <1>6, <1>7, <1>8, <1>9, <1>10, <1>11, <1>12, <1>13 DEF ReadSteps

(* The steps that write a list or a setting, and go on *)
WriteSteps(r) ==
    Grant(r) \/ Revoke(r) \/ PutPayload(r) \/ PutCleared(r) \/ SetNetwork(r) \/ SaveActive(r)

(* Every write of a list or a setting moves its request *)
LEMMA WritesMove ==
    ASSUME Base, NEW r \in Slots, WriteSteps(r)
    PROVE  Turns(r)
<1> DEFINE x == req[r]
           z == [x EXCEPT !.seen = {}]
<1>1. x \in Requests /\ Fit(x) BY Typed
<1> USE DEF At, Turns
<1>2. CASE Grant(r) \/ Revoke(r) \/ PutPayload(r) \/ PutCleared(r)
  <2>1. /\ x.st = "open"
        /\ Head(x.todo) \in {"grant", "revoke", "revokeAll", "putPayload", "putCleared"}
    BY <1>2 DEF Grant, Revoke, PutPayload, PutCleared
  <2>2. Becomes(r, Advanced(z))
    BY <1>2 DEF Grant, Revoke, PutPayload, PutCleared
  <2>3. z \in Requests
    <3>1. {} \in (SUBSET Seats) \cup (SUBSET Slots) OBVIOUS
    <3> QED BY <1>1, <3>1, Edited
  <2>4. Edits(x, z) /\ z.todo = x.todo BY <1>1, <2>1 DEF Requests, Edits, PkReads
  <2>5. Heeds(x, z) BY <1>1, <2>1 DEF Heeds, Requests
  <2> HIDE DEF z
  <2> QED BY <2>1, <2>2, <2>3, <2>4, <2>5, GoesOn
<1>3. CASE SetNetwork(r) \/ SaveActive(r)
  <2>1. x.st = "open" /\ Head(x.todo) \in {"setNetwork", "saveActive"} /\ Becomes(r, Advanced(x))
    BY <1>3 DEF SetNetwork, SaveActive
  <2>2. Edits(x, x) BY <2>1 DEF Edits, PkReads
  <2>3. Heeds(x, x) BY <2>1 DEF Heeds
  <2> HIDE DEF x
  <2>4. Moves(r, Advanced(x)) BY <1>1, <2>1, <2>2, <2>3, GoesOn DEF x
  <2> QED BY <2>1, <2>4
<1> QED BY <1>2, <1>3 DEF WriteSteps

(* A connect that looks at the allowlist *)
LEMMA KnownMoves ==
    ASSUME Base, NEW r \in Slots, Known(r)
    PROVE  \E y : Becomes(r, y) /\ Moves(r, y) /\ (pending' = pending \/ (pending' = pending \cup {r} /\ y.connect /\ y.st = "open" /\ Head(y.todo) = "wait"))
<1> DEFINE x == req[r]
           rest == IF mismatch(x) THEN <<"wait", "list", "grant", "setNetwork", "answer">> ELSE <<"wait", "list", "grant", "answer">>
<1>1. x \in Requests /\ Fit(x) BY Typed
<1>2. x.st = "open" /\ x.todo # <<>> /\ Head(x.todo) = "known" BY DEF Known, At
<1>3. x.connect BY <1>1, <1>2, KnownFrom
<1>4. CASE Seat(x) \in allow /\ ~mismatch(x)
  <2> DEFINE u == <<"network">>
             y == Resumed(x, u)
  <2>1. Becomes(r, y) /\ pending' = pending BY <1>4 DEF Known
  <2>2. u \in Seq(Steps) /\ u # <<>> BY DEF Steps
  <2> HIDE DEF u
  <2>3. y \in Requests /\ Alike(x, y) /\ y.todo = u /\ y.st = "open" BY <1>1, <2>2, ResumedIs
  <2> HIDE DEF y
  <2>4. Knows(x, y) BY <1>2, <2>3 DEF Knows, Kept, Alike, u
  <2>5. Heeds(x, y) BY <1>2, <2>3 DEF Heeds, Alike
  <2>6. Moves(r, y) BY <1>2, <2>3, <2>4, <2>5 DEF Moves, Turned
  <2> QED BY <2>1, <2>6
<1>5. CASE ~(Seat(x) \in allow /\ ~mismatch(x))
  <2> DEFINE y == Resumed(x, rest)
  <2>1. Becomes(r, y) /\ pending' = pending \cup {r} BY <1>5 DEF Known, Asks
  <2>2. /\ rest \in Seq(Steps) /\ rest # <<>> /\ Head(rest) = "wait"
        /\ (rest = <<"wait", "list", "grant", "answer">> \/ (rest = <<"wait", "list", "grant", "setNetwork", "answer">> /\ x.want # None))
    <3>1. /\ <<"wait", "list", "grant", "answer">> \in Seq(Steps)
          /\ <<"wait", "list", "grant", "setNetwork", "answer">> \in Seq(Steps)
      BY DEF Steps
    <3>2. /\ Head(<<"wait", "list", "grant", "answer">>) = "wait"
          /\ Head(<<"wait", "list", "grant", "setNetwork", "answer">>) = "wait"
          /\ <<"wait", "list", "grant", "answer">> # <<>>
          /\ <<"wait", "list", "grant", "setNetwork", "answer">> # <<>>
      BY Four, Five
    <3>3. CASE mismatch(x)
      <4>1. rest = <<"wait", "list", "grant", "setNetwork", "answer">> /\ x.want # None
        BY <3>3 DEF mismatch
      <4> QED BY <3>1, <3>2, <4>1
    <3>4. CASE ~mismatch(x)
      <4>1. rest = <<"wait", "list", "grant", "answer">> BY <3>4
      <4> QED BY <3>1, <3>2, <4>1
    <3> QED BY <3>3, <3>4
  <2> HIDE DEF rest
  <2>3. y \in Requests /\ Alike(x, y) /\ y.todo = rest /\ y.st = "open" BY <1>1, <2>2, ResumedIs
  <2> HIDE DEF y
  <2>4. Knows(x, y) BY <1>2, <2>2, <2>3 DEF Knows, Kept, Alike
  <2>5. Heeds(x, y) BY <1>2, <2>3 DEF Heeds, Alike
  <2>6. Moves(r, y) BY <1>2, <2>3, <2>4, <2>5 DEF Moves, Turned
  <2>7. y.connect /\ y.st = "open" /\ Head(y.todo) = "wait" BY <1>3, <2>2, <2>3 DEF Alike
  <2> QED BY <2>1, <2>6, <2>7
<1> QED BY <1>4, <1>5

(* A connect that takes its origin *)
LEMMA ConnectMoves ==
    ASSUME Base, NEW r \in Slots, Connect(r)
    PROVE  \E y : /\ req' = [req EXCEPT ![r] = y] /\ Moves(r, y)
                  /\ \/ connecting' = connecting /\ ~y.connect
                     \/ connecting' = connecting \cup {y.origin} /\ y.connect /\ y.st = "open" /\ y.origin \in Pages
<1> DEFINE x == req[r]
           z == [x EXCEPT !.connect = TRUE]
           rest == IF x.pk = None THEN <<"network", "unlock", "known">> ELSE <<"network", "known">>
<1>1. x \in Requests /\ Fit(x) BY Typed
<1>2. x.st = "open" /\ x.todo # <<>> /\ Head(x.todo) = "connect" BY DEF Connect, At
<1>3. ~x.connect /\ x.origin # None
  <2>1. Has(x.todo, {"connect"}) BY <1>1, <1>2, HasTail DEF Fit, Formed
  <2> QED BY <1>1, <2>1 DEF Fit, Connectable
<1>4. CASE x.origin \in connecting
  <2>1. req' = [req EXCEPT ![r] = Refused(x)] /\ connecting' = connecting BY <1>4 DEF Connect
  <2>2. Moves(r, Refused(x)) BY <1>2, Refuses
  <2>3. ~Refused(x).connect
    <3>1. Alike(x, Refused(x)) BY <1>1, RefusedIs
    <3> QED BY <1>3, <3>1 DEF Alike
  <2> QED BY <2>1, <2>2, <2>3
<1>5. CASE x.origin \notin connecting
  <2> DEFINE y == Resumed(z, rest)
  <2>1. req' = [req EXCEPT ![r] = y] /\ connecting' = connecting \cup {x.origin} BY <1>5 DEF Connect
  <2>2. rest \in Seq(Steps) /\ rest # <<>>
    <3>1. <<"network", "unlock", "known">> \in Seq(Steps) /\ <<"network", "known">> \in Seq(Steps)
      BY DEF Steps
    <3>2. <<"network", "unlock", "known">> # <<>> /\ <<"network", "known">> # <<>> OBVIOUS
    <3> QED BY <3>1, <3>2
  <2>3. z \in Requests BY <1>1, Edited
  <2>4. /\ z.connect /\ z.pk = x.pk /\ z.secret = x.secret /\ z.origin = x.origin /\ z.want = x.want
        /\ z.net = x.net /\ z.signed = x.signed /\ z.begun = x.begun
        /\ z.sure = x.sure /\ z.moved = x.moved
    BY <1>1 DEF Requests
  <2>9. rest = IF x.pk = None THEN <<"network", "unlock", "known">> ELSE <<"network", "known">>
    OBVIOUS
  <2> HIDE DEF z, rest
  <2>5. y \in Requests /\ Alike(z, y) /\ y.todo = rest /\ y.st = "open" BY <2>2, <2>3, ResumedIs
  <2> HIDE DEF y
  <2>6. Connects(x, y) BY <1>2, <2>4, <2>5, <2>9 DEF Connects, Kept, Alike
  <2>7. Heeds(x, y) BY <1>2, <2>4, <2>5 DEF Heeds, Alike
  <2>8. Moves(r, y) BY <1>2, <2>5, <2>6, <2>7 DEF Moves, Turned
  <2>10. y.connect /\ y.st = "open" /\ y.origin = x.origin /\ x.origin \in Pages
    BY <1>1, <1>3, <2>4, <2>5 DEF Alike, Requests
  <2> QED BY <2>1, <2>8, <2>10
<1> QED BY <1>4, <1>5

(* The record of a request whose wait has ended *)
LEMMA ResolvedIs ==
    ASSUME Base, NEW r \in Slots, r \in pending, NEW yes \in BOOLEAN
    PROVE  LET y == Resolved(req[r], yes) IN
           /\ y \in Requests /\ y.st # "lost" /\ Heeds(req[r], y) /\ y.origin = req[r].origin
           /\ y.connect = req[r].connect
           /\ IF yes THEN Goes(req[r], y) /\ Alike(req[r], y) ELSE Stops(req[r], y) \/ Cuts(req[r], y)
<1> DEFINE x == req[r]
           y == Resolved(x, yes)
<1>1. x \in Requests /\ Fit(x) BY Typed
<1>2. x.st = "open" /\ x.todo # <<>> /\ Head(x.todo) = "wait" BY DEF Base, Waiting, At
<1>3. CASE yes
  <2> DEFINE w == Advanced(x)
  <2>1. y = w BY <1>3 DEF Resolved
  <2>2. Edits(x, x) BY <1>2 DEF Edits, PkReads
  <2>3. w \in Requests /\ Alike(x, w) /\ Goes(x, w) /\ w.st # "lost"
    <3> HIDE DEF x
    <3> QED BY <1>1, <1>2, <2>2, SetGoes
  <2> HIDE DEF w
  <2>4. Heeds(x, w) BY <1>2, <2>3 DEF Heeds, Alike
  <2> QED BY <1>3, <2>1, <2>3, <2>4 DEF Alike
<1>4. CASE ~yes
  <2> DEFINE z == [x EXCEPT !.no = TRUE]
             rest == IF x.connect THEN <<>> ELSE <<"cleared", "putCleared">>
             w == Resumed(z, rest)
  <2>1. y = w BY <1>4 DEF Resolved
  <2>2. rest \in Seq(Steps)
    <3>1. <<>> \in Seq(Steps) /\ <<"cleared", "putCleared">> \in Seq(Steps) BY DEF Steps
    <3> QED BY <3>1
  <2>3. z \in Requests BY <1>1, Edited
  <2>4. /\ z.connect = x.connect /\ z.pk = x.pk /\ z.secret = x.secret /\ z.origin = x.origin
        /\ z.want = x.want /\ z.net = x.net /\ z.signed = x.signed /\ z.begun = x.begun
        /\ z.sure = x.sure /\ z.moved = x.moved /\ z.seen = x.seen
    BY <1>1 DEF Requests
  <2>5. /\ (x.connect => rest = <<>>)
        /\ (~x.connect => rest = <<"cleared", "putCleared">> /\ rest # <<>>)
    OBVIOUS
  <2> HIDE DEF z, rest
  <2>6. /\ w \in Requests /\ Alike(z, w) /\ w.todo = rest /\ w.st \in {"open", "done", "refused"}
        /\ (w.st = "open" <=> rest # <<>>)
    BY <2>2, <2>3, ResumedIs
  <2> HIDE DEF w
  <2>7. Stops(x, w) \/ Cuts(x, w) BY <1>2, <2>4, <2>5, <2>6 DEF Stops, Cuts, Kept, Alike
  <2>8. Heeds(x, w) BY <1>2, <2>4, <2>6 DEF Heeds, Alike
  <2>9. w.st # "lost" BY <2>6
  <2>10. w.origin = x.origin /\ w.connect = x.connect BY <2>4, <2>6 DEF Alike
  <2> QED BY <1>4, <2>1, <2>6, <2>7, <2>8, <2>9, <2>10
<1> QED BY <1>3, <1>4

(* A refusal moves its request and ends its wait *)
LEMMA ResolvesMove ==
    ASSUME Base, NEW r \in Slots, r \in pending, Resolve(r, FALSE)
    PROVE  Turns(r) /\ pending' = pending \ {r}
<1> DEFINE y == Resolved(req[r], FALSE)
<1>1. Becomes(r, y) /\ pending' = pending \ {r} BY DEF Resolve
<1>2. y \in Requests /\ y.st # "lost" /\ Heeds(req[r], y) /\ (Stops(req[r], y) \/ Cuts(req[r], y))
  BY ResolvedIs
<1> HIDE DEF y
<1>3. Moves(r, y) BY <1>2 DEF Moves, Turned
<1> QED BY <1>1, <1>3 DEF Turns

(* The user's answer moves the request that was pending *)
LEMMA ClickMoves ==
    ASSUME Base, NEW r \in Slots, NEW yes \in BOOLEAN, Click(r, yes), r \in pending
    PROVE  \E y : /\ Becomes(r, y) /\ Moves(r, y) /\ pending' = pending \ {r}
                  /\ y.origin = req[r].origin /\ y.connect = req[r].connect
                  /\ (~yes => Stops(req[r], y) \/ Cuts(req[r], y))
                  /\ yes => Goes(req[r], y)
<1> DEFINE x == req[r]
           w == Resolved(x, yes)
           y == [w EXCEPT !.shown = session.pk]
<1>1. Becomes(r, y) /\ pending' = pending \ {r} BY DEF Click
<1>2. /\ w \in Requests /\ w.st # "lost" /\ Heeds(x, w) /\ w.origin = x.origin
      /\ w.connect = x.connect
      /\ IF yes THEN Goes(x, w) /\ Alike(x, w) ELSE Stops(x, w) \/ Cuts(x, w)
  BY ResolvedIs
<1>3. yes => r \in said'
  BY DEF Click
<1> HIDE DEF w
<1>4. y \in Requests BY <1>2, Typed, Edited
<1>5. /\ y.st = w.st /\ y.todo = w.todo /\ y.origin = w.origin /\ y.want = w.want /\ y.pk = w.pk
      /\ y.secret = w.secret /\ y.net = w.net
      /\ y.seen = w.seen /\ y.signed = w.signed /\ y.begun = w.begun /\ y.moved = w.moved
      /\ y.sure = w.sure /\ y.connect = w.connect
  BY <1>2 DEF Requests
<1> HIDE DEF y
<1>6. Heeds(x, y) BY <1>2, <1>5 DEF Heeds, Stops
<1>7. IF yes THEN Goes(x, y) ELSE Stops(x, y) \/ Cuts(x, y)
  BY <1>2, <1>5 DEF Goes, Edits, Stops, Cuts, Kept
<1>8. Moves(r, y) BY <1>2, <1>3, <1>4, <1>5, <1>6, <1>7 DEF Moves, Turned
<1> QED BY <1>1, <1>2, <1>5, <1>7, <1>8

-----------------------------------------------------------------------------
(* The session's writers. *)

(* A write of s by r reaches what q has read *)
Reached(q, r, s) ==
    q # r /\ Runs(q, {"sign"}) /\ {req[q].pk, req[q].secret} \ {None} # {}
    /\ ~({s.pk, s.secret} \subseteq {req[q].pk, req[q].secret} \ {None})

(* What a write of the session does to those that have read it *)
LEMMA DisturbedIs ==
    ASSUME Base, NEW r, NEW s, NEW q \in Slots
    PROVE  LET x == req[q]
               y == Disturbed(r, s)[q]
           IN /\ y \in Requests /\ Stays(x, y) /\ y.todo = x.todo /\ y.st = x.st /\ Alike([x EXCEPT !.moved = y.moved], y)
              /\ y.moved <=> x.moved \/ Reached(q, r, s)
              /\ Alike([y EXCEPT !.moved = x.moved], x)
<1> DEFINE x == req[q]
           b == x.moved \/ Reached(q, r, s)
           y == [x EXCEPT !.moved = b]
<1>1. x \in Requests /\ Fit(x) /\ x.moved \in BOOLEAN BY Typed
<1>2. Disturbed(r, s)[q] = y BY DEF Disturbed, Reached
<1>3. b \in BOOLEAN BY Zenon
<1>4. x.st = "new" => (b <=> x.moved) BY DEF Reached, Runs
<1>5. x.st = "new" => b = x.moved BY <1>1, <1>3, <1>4
<1>6. b <=> x.moved \/ Reached(q, r, s) OBVIOUS
<1> HIDE DEF b
<1>7. y \in Requests BY <1>1, <1>3, Zenon DEF Requests
<1>8. y.moved = b /\ y.todo = x.todo /\ y.st = x.st BY <1>1 DEF Requests
<1>9. Alike([x EXCEPT !.moved = y.moved], y) /\ Alike([y EXCEPT !.moved = x.moved], x)
  BY <1>1, <1>7, <1>8 DEF Requests, Alike
<1>10. Stays(x, y)
  <2>1. CASE x.st = "new"
    <3>1. y = x BY <1>1, <1>5, <2>1 DEF Requests
    <3> QED BY <3>1 DEF Stays
  <2>2. CASE x.st # "new" BY <2>2, <1>3 DEF Stays
  <2> QED BY <2>1, <2>2
<1> HIDE DEF y
<1> QED BY <1>2, <1>6, <1>7, <1>8, <1>9, <1>10

(* The steps that write the session *)
SessionSteps(r) == PutAccount(r) \/ PutSecret(r) \/ PutSeed(r) \/ DropAccount(r) \/ DropSecret(r) \/ DropSeed(r)

(* A request that waited for the unlock *)
Woken(q, y) == At(q, "unlock") /\ Goes(req[q], y) /\ y.pk = session'.pk /\ y.secret = req[q].secret /\ y.moved = req[q].moved
               /\ y.origin = req[q].origin /\ y.connect = req[q].connect /\ y.signed = req[q].signed
               /\ y.begun = req[q].begun

(* The request that writes *)
Writer(x, y) == Goes(x, y) /\ y.pk = x.pk /\ y.secret = x.secret /\ y.moved = x.moved /\ y.signed = x.signed
                /\ y.connect = x.connect /\ y.origin = x.origin
(* The others *)
Bystander(q, r) ==
    \/ req'[q] = Disturbed(r, session')[q]
    \/ PutAccount(r) /\ Woken(q, req'[q])

(* What a write of the session does to the writer and to the others *)
LEMMA WriterGoes ==
    ASSUME Base, NEW r \in Slots, SessionSteps(r)
    PROVE  /\ req' \in [Slots -> Requests] /\ Writer(req[r], req'[r])
           /\ \A q \in Slots \ {r} : Bystander(q, r)
<1> DEFINE x == req[r]
<1>1. x \in Requests /\ Fit(x) BY Typed
<1> USE DEF At
<1>2. req \in [Slots -> Requests] BY DEF Base
<1>3. CASE PutSecret(r) \/ PutSeed(r) \/ DropSecret(r) \/ DropSeed(r)
  <2> DEFINE y == Advanced(x)
  <2>1. x.st = "open" /\ Head(x.todo) \in {"putSecret", "putSeed", "dropSecret", "dropSeed"}
    BY <1>3 DEF PutSecret, PutSeed, DropSecret, DropSeed
  <2>2. req' = [Disturbed(r, session') EXCEPT ![r] = y]
    BY <1>3 DEF PutSecret, PutSeed, DropSecret, DropSeed, Written
  <2>3. Edits(x, x) BY <2>1 DEF Edits, PkReads
  <2>4. y \in Requests /\ Alike(x, y) /\ Goes(x, y)
    <3> HIDE DEF x
    <3> QED BY <1>1, <2>1, <2>3, SetGoes
  <2> HIDE DEF y
  <2>5. \A q \in Slots : Disturbed(r, session')[q] \in Requests BY DisturbedIs
  <2>6. DOMAIN Disturbed(r, session') = Slots BY DEF Disturbed
  <2>7. \A q \in Slots : req'[q] = IF q = r THEN y ELSE Disturbed(r, session')[q] BY <2>2, <2>6
  <2>8. req' \in [Slots -> Requests]
    <3> DEFINE d == Disturbed(r, session')
    <3>1. req' = [q \in Slots |-> IF q = r THEN y ELSE d[q]] BY <2>2, <2>6
    <3> HIDE DEF d
    <3>2. \A q \in Slots : d[q] \in Requests BY <2>5 DEF d
    <3> QED BY <2>4, <3>1, <3>2
  <2> QED BY <2>4, <2>7, <2>8 DEF Bystander, Writer, Alike
<1>4. CASE DropAccount(r)
  <2> DEFINE z == [x EXCEPT !.begun = TRUE]
             y == Advanced(z)
  <2>1. /\ x.st = "open" /\ Head(x.todo) = "dropAccount"
        /\ req' = [Disturbed(r, session') EXCEPT ![r] = y]
    BY <1>4 DEF DropAccount
  <2>2. z \in Requests BY <1>1, Edited
  <2>3. Edits(x, z) /\ z.todo = x.todo BY <1>1, <2>1 DEF Edits, PkReads, Requests
  <2>4. /\ z.pk = x.pk /\ z.secret = x.secret /\ z.moved = x.moved /\ z.signed = x.signed
        /\ z.connect = x.connect /\ z.origin = x.origin
    BY <1>1 DEF Requests
  <2>5. y \in Requests /\ Alike(z, y) /\ Goes(x, y)
    <3> HIDE DEF x, z
    <3> QED BY <1>1, <2>1, <2>2, <2>3, SetGoes DEF x
  <2> HIDE DEF y, z
  <2>6. \A q \in Slots : Disturbed(r, session')[q] \in Requests BY DisturbedIs
  <2>7. DOMAIN Disturbed(r, session') = Slots BY DEF Disturbed
  <2>8. \A q \in Slots : req'[q] = IF q = r THEN y ELSE Disturbed(r, session')[q] BY <2>1, <2>7
  <2>9. req' \in [Slots -> Requests]
    <3> DEFINE d == Disturbed(r, session')
    <3>1. req' = [q \in Slots |-> IF q = r THEN y ELSE d[q]] BY <2>1, <2>7
    <3> HIDE DEF d
    <3>2. \A q \in Slots : d[q] \in Requests BY <2>6 DEF d
    <3> QED BY <2>5, <3>1, <3>2
  <2> QED BY <2>4, <2>5, <2>8, <2>9 DEF Bystander, Writer, Alike
<1>5. CASE PutAccount(r)
  <2> DEFINE y == Advanced(x)
             s == [session EXCEPT !.pk = x.pk]
             w(q) == [req[q] EXCEPT !.pk = s.pk]
             f(q) == IF q = r THEN y ELSE IF At(q, "unlock") THEN Advanced(w(q)) ELSE Disturbed(r, s)[q]
  <2>1. x.st = "open" /\ Head(x.todo) = "putAccount" /\ session' = s
    BY <1>5 DEF PutAccount
  <2>2. req' = [q \in Slots |-> f(q)]
    <3> DEFINE W == {q \in Slots : At(q, "unlock")}
               g(q) == IF q = r THEN y ELSE IF q \in W THEN Advanced(w(q)) ELSE Disturbed(r, s)[q]
    <3>1. req' = [q \in Slots |-> g(q)]
      BY <1>5, Zenon DEF PutAccount
    <3>2. \A q \in Slots : q \in W <=> At(q, "unlock") OBVIOUS
    <3> HIDE DEF W, At, y, w, s
    <3>3. \A q \in Slots : g(q) = f(q) BY <3>2
    <3> HIDE DEF f, g
    <3> QED BY <3>1, <3>3
  <2>3. Edits(x, x) BY <2>1 DEF Edits, PkReads
  <2>4. y \in Requests /\ Alike(x, y) /\ Goes(x, y)
    <3> HIDE DEF x
    <3> QED BY <1>1, <2>1, <2>3, SetGoes
  <2>5. s.pk = x.pk /\ s.pk \in Accounts \cup {None} /\ x.pk # None
    <3>1. session \in [pk : Accounts \cup {None}, secret : Accounts \cup {None}, seed : BOOLEAN]
      BY DEF Base, TypeOK
    <3>2. x.pk # None
      <4>1. Has(x.todo, Writes) BY <1>1, <2>1, HasTail DEF Fit, Formed, Staged, Writes
      <4>2. x.todo \notin {SWITCH_ACCOUNT, UNLOCK_WALLET, LOCK_WALLET} /\ x.todo \notin Drops
        BY <2>1, WritingGoes
      <4> QED BY <1>1, <2>1, <4>1, <4>2 DEF Fit, Writing, Staged
    <3> QED BY <1>1, <3>1, <3>2 DEF Requests
  <2> HIDE DEF y, s
  <2>6. ASSUME NEW q \in Slots, At(q, "unlock") PROVE Advanced(w(q)) \in Requests /\ Woken(q, Advanced(w(q)))
    <3> DEFINE v == req[q]
               z == w(q)
               u == Advanced(z)
    <3>1. v \in Requests /\ Fit(v) /\ v.st = "open" /\ Head(v.todo) = "unlock" BY <2>6, Typed
    <3>2. z \in Requests BY <2>5, <3>1, Edited
    <3>3. Edits(v, z) /\ z.todo = v.todo BY <2>5, <3>1 DEF Edits, PkReads, Requests
    <3>4. /\ z.pk = s.pk /\ z.secret = v.secret /\ z.moved = v.moved /\ z.signed = v.signed
          /\ z.connect = v.connect /\ z.origin = v.origin /\ z.begun = v.begun
      BY <3>1 DEF Requests
    <3> HIDE DEF z
    <3>5. u \in Requests /\ Alike(z, u) /\ Goes(v, u)
      <4> HIDE DEF v
      <4> QED BY <3>1, <3>2, <3>3, SetGoes
    <3> HIDE DEF u
    <3>6. Woken(q, u) BY <2>1, <2>6, <3>4, <3>5 DEF Woken, Alike
    <3> QED BY <3>5, <3>6 DEF u, z
  <2>7. \A q \in Slots : Disturbed(r, s)[q] \in Requests BY DisturbedIs
  <2>8. \A q \in Slots : f(q) \in Requests BY <2>4, <2>6, <2>7
  <2>9. req' \in [Slots -> Requests] BY <2>2, <2>8
  <2>10. ASSUME NEW q \in Slots \ {r} PROVE Bystander(q, r)
    <3>1. CASE At(q, "unlock")
      <4>1. req'[q] = Advanced(w(q)) BY <2>2, <2>10, <3>1
      <4> QED BY <1>5, <2>6, <3>1, <4>1 DEF Bystander
    <3>2. CASE ~At(q, "unlock")
      <4>1. req'[q] = Disturbed(r, s)[q] BY <2>2, <2>10, <3>2
      <4> QED BY <2>1, <4>1 DEF Bystander
    <3> QED BY <3>1, <3>2
  <2>11. req'[r] = y BY <2>2
  <2> QED BY <2>4, <2>9, <2>10, <2>11 DEF Writer, Alike
<1> QED BY <1>3, <1>4, <1>5 DEF SessionSteps

-----------------------------------------------------------------------------
(* What a step does to all the requests. *)

(* What a step does to all the requests *)
Turning == req' \in [Slots -> Requests] /\ \A q \in Slots : Turned(req[q], req'[q])
Resting == \A q \in pending : q \in pending' => Stays(req[q], req'[q])
Joining == \A q \in pending' \ pending : req'[q].st = "open" /\ req'[q].todo # <<>> /\ Head(req'[q].todo) = "wait"
Shift == Turning /\ Resting /\ Joining
(* A step of r's alone *)
Mover(r) == Moves(r, req'[r]) /\ \A q \in Slots \ {r} : req'[q] = req[q]

(* A connect under way keeps its origin taken until it is answered *)
Serving(q, p) == req[q].st = "open" /\ req[q].connect /\ req[q].origin = p
(* An origin that stays taken is served, now or after the step *)
Served == \A p \in connecting' :
    /\ p \notin connecting => \E q \in Slots : Serving(q, p)'
    /\ \A q \in Slots : Serving(q, p) => Serving(q, p)'

(* What a request that stays keeps *)
LEMMA StaysIs ==
    ASSUME NEW x \in Requests, NEW y, Stays(x, y)
    PROVE  /\ y.st = x.st /\ y.todo = x.todo /\ y.shown = x.shown /\ y.no = x.no
           /\ Alike([y EXCEPT !.moved = x.moved], x)
           /\ y.origin = x.origin /\ y.connect = x.connect /\ y.seen = x.seen /\ y.pk = x.pk
           /\ y.secret = x.secret /\ y.net = x.net
           /\ y.want = x.want /\ y.signed = x.signed /\ y.begun = x.begun /\ y.sure = x.sure
<1>1. CASE y = x BY <1>1 DEF Alike, Requests
<1>2. CASE \E m \in BOOLEAN : y = [x EXCEPT !.moved = m] BY <1>2 DEF Alike, Requests
<1> QED BY <1>1, <1>2 DEF Stays

(* Nothing is a turn too *)
LEMMA Unturned == \A x : Turned(x, x)
BY DEF Turned, Stays

(* A connect stays a connect *)
LEMMA ConnectStays ==
    ASSUME NEW x, NEW y, Fit(x), x.st = "open", x.connect, Turned(x, y)
    PROVE  y.connect /\ y.origin = x.origin /\ y.st # "new"
<1>1. x \in Requests /\ Connecting(x) BY DEF Fit, Connectable
<1>2. CASE Stays(x, y) BY <1>1, <1>2, StaysIs
<1>3. CASE Goes(x, y) BY <1>3 DEF Goes, Edits
<1>4. CASE Stops(x, y) BY <1>4 DEF Stops, Kept
<1>5. CASE Skips(x, y) BY <1>5 DEF Skips
<1>6. CASE Knows(x, y) \/ Connects(x, y) BY <1>6 DEF Knows, Connects, Kept
<1>7. CASE Cuts(x, y) BY <1>7 DEF Cuts
<1>8. CASE Starts(x, y) BY <1>8 DEF Starts, Blank
<1> QED BY <1>2, <1>3, <1>4, <1>5, <1>6, <1>7, <1>8 DEF Turned

(* A move of one request shifts the whole *)
LEMMA BecomesShifts ==
    ASSUME Base, NEW r \in Slots, NEW y, Becomes(r, y), Moves(r, y)
    PROVE  /\ req' \in [Slots -> Requests] /\ req'[r] = y /\ \A q \in Slots \ {r} : req'[q] = req[q]
           /\ Turning /\ connecting' \subseteq connecting /\ Mover(r) /\ Served
<1>1. req \in [Slots -> Requests] BY DEF Base
<1>2. req' = [req EXCEPT ![r] = y] /\ connecting' \subseteq connecting BY DEF Becomes
<1>3. y \in Requests /\ Turned(req[r], y) BY DEF Moves
<1>4. req' \in [Slots -> Requests] /\ req'[r] = y /\ \A q \in Slots \ {r} : req'[q] = req[q]
  BY <1>1, <1>2, <1>3
<1>5. Mover(r) BY <1>4 DEF Mover
<1>6. Served
  <2>1. ASSUME NEW p \in connecting', NEW q \in Slots, Serving(q, p) PROVE Serving(q, p)'
    <3>1. CASE q # r BY <1>4, <2>1, <3>1 DEF Serving
    <3>2. CASE q = r
      <4>1. y.connect /\ y.origin = req[r].origin /\ y.st # "new"
        BY <1>3, <2>1, <3>2, ConnectStays DEF Serving, Base
      <4>2. y.st \in {"open", "done", "refused"} BY <1>3, <4>1 DEF Moves, Requests, Stages
      <4>3. p \notin Released(y) BY <2>1 DEF Becomes
      <4>4. y.st = "open" BY <2>1, <3>2, <4>1, <4>2, <4>3 DEF Released, Serving
      <4> QED BY <1>4, <2>1, <3>2, <4>1, <4>4 DEF Serving
    <3> QED BY <3>1, <3>2
  <2> QED BY <1>2, <2>1 DEF Served
<1> QED BY <1>2, <1>3, <1>4, <1>5, <1>6, Unturned DEF Turning

(* No read is made while the user is asked *)
LEMMA ReadHeads ==
    ASSUME NEW r \in Slots, ReadSteps(r)
    PROVE  req[r].st = "open" /\ req[r].todo # <<>> /\ Head(req[r].todo) # "wait"
<1>1. CASE ReadSession(r) \/ ReadAccount(r) \/ ReadSecret(r) \/ ReadNetwork(r) \/ UnknownNetwork(r)
  BY <1>1 DEF At, ReadSession, ReadAccount, ReadSecret, ReadNetwork, UnknownNetwork
<1>2. CASE Controls(r) \/ Allowed(r) \/ Fetch(r) \/ Sign(r) \/ ReadList(r)
  BY <1>2 DEF At, Controls, Allowed, Fetch, Sign, ReadList
<1>3. CASE ReadPayloads(r) \/ Answer(r) \/ GiveUpUnlock(r) \/ ReadActive(r) \/ ReadSeed(r)
  BY <1>3 DEF At, ReadPayloads, Answer, GiveUpUnlock, ReadActive, ReadSeed
<1> QED BY <1>1, <1>2, <1>3 DEF ReadSteps

(* Each group of actions is a shift *)
LEMMA ReadsShift ==
    ASSUME Base, NEW r \in Slots, ReadSteps(r)
    PROVE  Shift /\ connecting' \subseteq connecting /\ UNCHANGED Passive /\ Mover(r) /\ Served
<1>1. UNCHANGED Passive /\ Turns(r) BY ReadsMove
<1>2. PICK y : Becomes(r, y) /\ Moves(r, y) BY <1>1 DEF Turns
<1>3. req[r].st = "open" /\ req[r].todo # <<>> /\ Head(req[r].todo) # "wait" BY ReadHeads
<1>4. r \notin pending BY <1>3 DEF Base, Waiting, At
<1>5. pending' = pending BY <1>1 DEF Passive
<1> QED BY <1>1, <1>2, <1>4, <1>5, BecomesShifts DEF Shift, Resting, Joining, Stays, Base, TypeOK

LEMMA WritesShift ==
    ASSUME Base, NEW r \in Slots, WriteSteps(r)
    PROVE  Shift /\ connecting' \subseteq connecting /\ Mover(r) /\ Served
<1>1. PICK y : Becomes(r, y) /\ Moves(r, y) BY WritesMove DEF Turns
<1>2. req[r].st = "open" /\ req[r].todo # <<>> /\ Head(req[r].todo) # "wait"
  BY DEF WriteSteps, At, Grant, Revoke, PutPayload, PutCleared, SetNetwork, SaveActive
<1>3. r \notin pending BY <1>2 DEF Base, Waiting, At
<1>4. Turning /\ connecting' \subseteq connecting /\ Mover(r) /\ Served /\ req'[r] = y /\ \A q \in Slots \ {r} : req'[q] = req[q]
  BY <1>1, BecomesShifts
<1>5. Resting BY <1>3, <1>4 DEF Resting, Stays, Base, TypeOK
<1>6. CASE ~PutPayload(r)
  <2>1. pending' = pending BY <1>6 DEF WriteSteps, Grant, Revoke, PutCleared, SetNetwork, SaveActive
  <2> QED BY <1>4, <1>5, <2>1 DEF Shift, Joining
<1>7. CASE PutPayload(r)
  <2> DEFINE t == req[r].todo
  <2>1. /\ pending' = pending \cup {r} /\ Head(t) = "putPayload"
        /\ req'[r] = Advanced([req[r] EXCEPT !.seen = {}])
    <3>1. req \in [Slots -> Requests] BY DEF Base
    <3> QED BY <1>7, <3>1 DEF PutPayload, At, Asks, Becomes
  <2>2. Formed(t) /\ t # <<>> /\ t \in Seq(Steps) BY <1>2 DEF Base, Fit, Formed
  <2> HIDE DEF t
  <2>3. Tail(t) # <<>> /\ Head(Tail(t)) = "wait" /\ Tail(t) \in Seq(Steps)
    <3>1. t[1] = "putPayload" /\ 1 \in 1..Len(t) BY <2>1, <2>2, Suffix
    <3>2. 1 < Len(t) /\ t[2] = "wait" BY <2>2, <3>1 DEF Formed
    <3>3. Tail(t) \in Seq(Steps) /\ Len(Tail(t)) > 0 /\ Tail(t)[1] = t[2] BY <2>2, <3>2, Suffix
    <3> DEFINE u == Tail(t)
    <3>4. u \in Seq(Steps) /\ Len(u) > 0 /\ u[1] = "wait" BY <3>2, <3>3
    <3> HIDE DEF u
    <3>5. u # <<>> /\ Head(u) = "wait" BY <3>4
    <3> QED BY <3>4, <3>5 DEF u
  <2> DEFINE z == [req[r] EXCEPT !.seen = {}]
             u == Tail(t)
  <2>4. z \in Requests /\ z.todo = t BY Typed DEF Requests, t
  <2>5. req'[r] = Resumed(z, u) BY <2>1, <2>4 DEF Advanced
  <2>6. u \in Seq(Steps) /\ u # <<>> /\ Head(u) = "wait" BY <2>3
  <2> HIDE DEF z, u
  <2>7. req'[r].st = "open" /\ req'[r].todo = u BY <2>4, <2>5, <2>6, ResumedIs
  <2> QED BY <1>4, <1>5, <2>1, <2>6, <2>7 DEF Shift, Joining
<1> QED BY <1>4, <1>5, <1>6, <1>7

LEMMA ConnectShifts ==
    ASSUME Base, NEW r \in Slots, Connect(r)
    PROVE  Shift /\ connecting' \subseteq Pages /\ UNCHANGED Passive /\ Mover(r) /\ Served
<1>1. PICK y : /\ req' = [req EXCEPT ![r] = y] /\ Moves(r, y)
               /\ \/ connecting' = connecting /\ ~y.connect
                  \/ connecting' = connecting \cup {y.origin} /\ y.connect /\ y.st = "open" /\ y.origin \in Pages
  BY ConnectMoves
<1>2. UNCHANGED Passive /\ Head(req[r].todo) # "wait" BY DEF Connect, At
<1>3. r \notin pending BY <1>2 DEF Base, Waiting, At
<1>4. req \in [Slots -> Requests] BY DEF Base
<1>5. y \in Requests /\ Turned(req[r], y) BY <1>1 DEF Moves
<1>6. req' \in [Slots -> Requests] /\ req'[r] = y /\ \A q \in Slots \ {r} : req'[q] = req[q]
  BY <1>1, <1>4, <1>5
<1>7. connecting' \subseteq Pages BY <1>1 DEF Base, TypeOK
<1>8. Mover(r) BY <1>1, <1>6 DEF Mover
<1>9. Served
  <2>1. ASSUME NEW p \in connecting', NEW q \in Slots, Serving(q, p) PROVE Serving(q, p)'
    <3>1. CASE q # r BY <1>6, <2>1, <3>1 DEF Serving
    <3>2. CASE q = r
      <4>1. Fit(req[r]) /\ req[r].connect BY <2>1, <3>2 DEF Base, Serving
      <4>2. req[r].todo # <<>> /\ Head(req[r].todo) = "connect" BY DEF Connect, At
      <4>3. Has(req[r].todo, {"connect"}) BY <4>1, <4>2, HasTail DEF Fit, Formed
      <4> QED BY <4>1, <4>3 DEF Fit, Connectable
    <3> QED BY <3>1, <3>2
  <2>2. ASSUME NEW p \in connecting', p \notin connecting PROVE \E q \in Slots : Serving(q, p)'
    <3>1. Serving(r, p)' BY <1>1, <1>6, <2>2 DEF Serving
    <3> QED BY <3>1
  <2> QED BY <2>1, <2>2 DEF Served
<1> QED
  BY <1>2, <1>3, <1>5, <1>6, <1>7, <1>8, <1>9, Unturned DEF Shift, Turning, Resting, Joining,
     Stays, Passive, Base, TypeOK

LEMMA KnownShifts ==
    ASSUME Base, NEW r \in Slots, Known(r)
    PROVE  Shift /\ connecting' \subseteq connecting /\ Mover(r) /\ Served
<1>1. PICK y : Becomes(r, y) /\ Moves(r, y) /\ (pending' = pending \/ (pending' = pending \cup {r} /\ y.connect /\ y.st = "open" /\ Head(y.todo) = "wait"))
  BY KnownMoves
<1>2. Head(req[r].todo) # "wait" BY DEF Known, At
<1>3. r \notin pending BY <1>2 DEF Base, Waiting, At
<1>4. Turning /\ connecting' \subseteq connecting /\ Mover(r) /\ Served /\ req'[r] = y /\ \A q \in Slots \ {r} : req'[q] = req[q]
  BY <1>1, BecomesShifts
<1>5. y.st = "open" => y.todo # <<>>
  <2>1. Fit(y) BY <1>1, TurnedFit DEF Moves, Base
  <2> QED BY <2>1 DEF Fit, Staged
<1> QED BY <1>1, <1>3, <1>4, <1>5 DEF Shift, Resting, Joining, Stays, Base, TypeOK

(* The steps a connect meets *)
LEMMA ConnectHeads ==
    ASSUME NEW x, Fit(x), x.connect, x.todo # <<>>
    PROVE  /\ Head(x.todo) \in {"network", "unlock", "known", "answer", "wait", "list", "grant", "setNetwork"}
           /\ Head(x.todo) = "unlock" => Tail(x.todo) # <<>>
           /\ Tail(x.todo) # <<>> /\ Head(Tail(x.todo)) \in {"list", "grant"} => Head(x.todo) \in {"wait", "list"}
<1> DEFINE t == x.todo
           P(u) == /\ Head(u) \in {"network", "unlock", "known", "answer", "wait", "list", "grant", "setNetwork"}
                   /\ Head(u) = "unlock" => Tail(u) # <<>>
                   /\ Tail(u) # <<>> /\ Head(Tail(u)) \in {"list", "grant"} => Head(u) \in {"wait", "list"}
<1>1. Connecting(x) BY DEF Fit, Connectable
<1>2. t \in {<<"network">>, <<"answer">>, <<"network", "unlock", "known">>, <<"unlock", "known">>, <<"network", "known">>, <<"known">>} \cup Granting
  BY <1>1 DEF Connecting
<1>3. /\ P(<<"network">>) /\ P(<<"answer">>) /\ P(<<"network", "unlock", "known">>)
      /\ P(<<"unlock", "known">>) /\ P(<<"network", "known">>) /\ P(<<"known">>)
  BY One, Two, Three
<1>4. /\ P(<<"wait", "list", "grant", "answer">>) /\ P(<<"list", "grant", "answer">>)
      /\ P(<<"grant", "answer">>)
  BY Two, Three, Four
<1>5. /\ P(<<"wait", "list", "grant", "setNetwork", "answer">>)
      /\ P(<<"list", "grant", "setNetwork", "answer">>)
      /\ P(<<"grant", "setNetwork", "answer">>) /\ P(<<"setNetwork", "answer">>)
  BY Two, Three, Four, Five
<1> HIDE DEF t, P
<1>6. P(t) BY <1>2, <1>3, <1>4, <1>5, Zenon DEF Granting
<1> QED BY <1>6 DEF P, t

LEMMA SessionShifts ==
    ASSUME Base, NEW r \in Slots, SessionSteps(r)
    PROVE  /\ Shift /\ Served
           /\ UNCHANGED <<active, network, allow, payloads, pending, connecting, windows, bounds, said, agreed, revoked, rewound>>
<1>1. /\ req' \in [Slots -> Requests] /\ Writer(req[r], req'[r])
      /\ \A q \in Slots \ {r} : Bystander(q, r)
  BY WriterGoes
<1>2. UNCHANGED <<active, network, allow, payloads, pending, connecting, windows, bounds, said, agreed, revoked, rewound>>
  BY DEF SessionSteps, PutAccount, PutSecret, PutSeed, DropAccount, DropSecret, DropSeed, Written
<1>3. /\ req[r].todo # <<>>
      /\ Head(req[r].todo) \in {"putAccount", "putSecret", "putSeed", "dropAccount", "dropSecret", "dropSeed"}
  BY DEF SessionSteps, PutAccount, PutSecret, PutSeed, DropAccount, DropSecret, DropSeed, At
<1>4. r \notin pending BY <1>3 DEF Base, Waiting, At
<1>5. ASSUME NEW q \in Slots PROVE Turned(req[q], req'[q])
  <2>1. CASE q = r BY <1>1, <2>1 DEF Writer, Turned
  <2>2. CASE q # r
    <3>1. CASE req'[q] = Disturbed(r, session')[q]
      <4>1. Stays(req[q], Disturbed(r, session')[q]) BY DisturbedIs
      <4> QED BY <3>1, <4>1 DEF Turned
    <3>2. CASE Woken(q, req'[q]) BY <3>2 DEF Woken, Turned
    <3> QED BY <1>1, <2>2, <3>1, <3>2 DEF Bystander
  <2> QED BY <2>1, <2>2
<1>6. ASSUME NEW q \in pending PROVE Stays(req[q], req'[q])
  <2>1. q \in Slots /\ q # r /\ Head(req[q].todo) = "wait" BY <1>4 DEF Base, TypeOK, Waiting, At
  <2>2. ~Woken(q, req'[q]) BY <2>1 DEF Woken, At
  <2>3. req'[q] = Disturbed(r, session')[q] BY <1>1, <2>1, <2>2 DEF Bystander
  <2> QED BY <2>1, <2>3, DisturbedIs
<1>7. Served
  <2>1. ASSUME NEW p \in connecting', NEW q \in Slots, Serving(q, p) PROVE Serving(q, p)'
    <3> DEFINE x == req[q]
               y == req'[q]
    <3>1. Fit(x) /\ x.connect /\ x.st = "open" /\ x.todo # <<>> /\ x \in Requests
      BY <2>1, Typed DEF Base, Serving, Fit, Staged
    <3>2. y.connect /\ y.origin = x.origin BY <1>5, <3>1, ConnectStays
    <3>3. q # r BY <1>3, <3>1, ConnectHeads
    <3>4. CASE y = Disturbed(r, session')[q]
      <4>1. Stays(x, y) BY <3>4, DisturbedIs
      <4>2. y.st = x.st
        <5> HIDE DEF x, y
        <5> QED BY <3>1, <4>1, StaysIs
      <4> QED BY <2>1, <3>1, <3>2, <4>2 DEF Serving
    <3>5. CASE Woken(q, y)
      <4>1. Goes(x, y) /\ Head(x.todo) = "unlock" BY <3>5 DEF Woken, At
      <4>2. Tail(x.todo) # <<>> BY <3>1, <4>1, ConnectHeads
      <4>3. y.st = "open" BY <4>1, <4>2 DEF Goes
      <4> QED BY <2>1, <3>2, <4>3 DEF Serving
    <3> QED BY <1>1, <3>3, <3>4, <3>5 DEF Bystander
  <2> QED BY <1>2, <2>1 DEF Served
<1> QED BY <1>1, <1>2, <1>5, <1>6, <1>7 DEF Shift, Turning, Resting, Joining

Windows(r) == Mapped(r) \/ Close(r) \/ Timeout(r) \/ \E yes \in BOOLEAN : Click(r, yes)

LEMMA StillShifts ==
    ASSUME Base, req' = req, pending' = pending, connecting' \subseteq connecting
    PROVE  Shift /\ Served
BY Unturned DEF Shift, Turning, Resting, Joining, Stays, Base, Served, Serving

LEMMA WindowsShift ==
    ASSUME Base, NEW r \in Slots, Windows(r)
    PROVE  /\ Shift /\ Served /\ connecting' \subseteq connecting
           /\ (r \in pending /\ Mover(r)) \/ req' = req
           /\ UNCHANGED <<stored, bounds, rewound, overlapped, kept, sealed>>
<1>1. UNCHANGED <<stored, bounds, rewound, overlapped, kept, sealed>>
  BY DEF Windows, Mapped, Close, Timeout, Click, history
<1>2. ASSUME NEW y, Becomes(r, y), Moves(r, y), pending' = pending \ {r}
      PROVE  Shift /\ Served /\ Mover(r) /\ connecting' \subseteq connecting
  BY <1>2, BecomesShifts DEF Shift, Resting, Joining, Stays, Base, TypeOK
<1>3. ASSUME r \in pending, Resolve(r, FALSE) PROVE Shift /\ Served /\ Mover(r) /\ connecting' \subseteq connecting
  BY <1>2, <1>3, ResolvesMove DEF Turns
<1>4. CASE Mapped(r) BY <1>1, <1>4, StillShifts DEF Mapped
<1>5. CASE Timeout(r) BY <1>1, <1>3, <1>5 DEF Timeout
<1>6. CASE Close(r)
  <2>1. CASE r \in pending /\ windows[r] = "mapped" BY <1>1, <1>3, <1>6, <2>1 DEF Close
  <2>2. CASE ~(r \in pending /\ windows[r] = "mapped") BY <1>1, <1>6, <2>2, StillShifts DEF Close
  <2> QED BY <2>1, <2>2
<1>7. ASSUME NEW yes \in BOOLEAN, Click(r, yes)
      PROVE  /\ Shift /\ Served /\ ((r \in pending /\ Mover(r)) \/ req' = req)
             /\ connecting' \subseteq connecting
  <2>1. CASE r \in pending
    <3>1. PICK y : Becomes(r, y) /\ Moves(r, y) /\ pending' = pending \ {r}
      BY <1>7, <2>1, ClickMoves
    <3> QED BY <1>2, <2>1, <3>1
  <2>2. CASE r \notin pending BY <1>7, <2>2, StillShifts DEF Click
  <2> QED BY <2>1, <2>2
<1> QED BY <1>1, <1>4, <1>5, <1>6, <1>7 DEF Windows

(* The range of a sequence, which the actions use, and Has *)
LEMMA RangeHas ==
    ASSUME NEW t \in Seq(Steps)
    PROVE  /\ \A s : s \in Range(t) <=> Has(t, {s})
           /\ \A A : Range(t) \cap A # {} <=> Has(t, A)
BY DEF Range, Has

(* A request that has not arrived *)
LEMMA BlankIs == /\ Blank \in Requests /\ Fit(Blank)
                 /\ Blank.st = "new" /\ Blank.todo = <<>> /\ ~Blank.connect /\ ~Blank.begun
                 /\ ~Blank.signed
<1>1. <<>> \in Seq(Steps) /\ "new" \in Stages BY DEF Stages
<1>2. Blank \in Requests
  <2>1. {} \in (SUBSET Seats) \cup (SUBSET Slots) OBVIOUS
  <2> QED BY <1>1, <2>1, Zenon DEF Requests, Blank
<1>3. /\ Blank.st = "new" /\ Blank.todo = <<>> /\ ~Blank.connect /\ ~Blank.begun /\ ~Blank.signed
      /\ ~Blank.sure
      /\ Blank.seen = {} /\ Blank.pk = None /\ Blank.secret = None
  BY DEF Blank
<1>4. /\ Formed(<<>>) /\ (\A A : ~Has(<<>>, A)) /\ <<>> \notin Puts /\ <<>> # SWITCH_ACCOUNT
  <2>1. Formed(<<>>) BY NewTodos
  <2>2. \A A : ~Has(<<>>, A) BY DEF Has
  <2>3. <<>> # SWITCH_ACCOUNT BY DEF SWITCH_ACCOUNT
  <2> QED BY <2>1, <2>2, <2>3, WritingGoes
<1>5. Fit(Blank)
  BY <1>2, <1>3, <1>4, NotHas DEF Fit, Staged, Connectable, Writing, Revoking, Listed, Signing
<1> QED BY <1>2, <1>3, <1>5

LEMMA ArriveShifts ==
    ASSUME Base, NEW r \in Slots, Arrive(r)
    PROVE  /\ Shift /\ Starts(req[r], req'[r]) /\ (\A q \in Slots \ {r} : req'[q] = req[q])
           /\ Served /\ sealed' = (sealed /\ ~Has(req'[r].todo, {"active"}))
           /\ UNCHANGED <<stored, pending, connecting, windows, bounds, said, agreed, revoked, rewound, overlapped, kept>>
<1>1. PICK program \in mix.calls[r], p \in mix.pages \cup {None}, w \in Networks \cup {None}, a \in Accounts :
          /\ p = None <=> Head(program) \notin {"session", "account"}
          /\ w # None => Range(program) \cap {"connect", "setNetwork"} # {}
          /\ "setNetwork" \in Range(program) => w # None
          /\ req' = [req EXCEPT ![r] =
                [Blank EXCEPT !.st = "open", !.todo = program, !.origin = p, !.want = w,
                              !.pk = IF "saveActive" \in Range(program) THEN a ELSE None]]
          /\ sealed' = (sealed /\ "active" \notin Range(program))
  BY DEF Arrive
<1>2. /\ req[r].st = "new"
      /\ UNCHANGED <<stored, pending, connecting, windows, bounds, said, agreed, revoked, rewound, overlapped, kept>>
  BY DEF Arrive
<1> DEFINE k == IF "saveActive" \in Range(program) THEN a ELSE None
           y == [Blank EXCEPT !.st = "open", !.todo = program, !.origin = p, !.want = w, !.pk = k]
<1>3. program \in Programs /\ p \in Pages \cup {None} /\ a # None
  BY SessionAssumption DEF Base, TypeOK
<1>4. Formed(program) /\ Drawn(program) /\ program \in Seq(Steps) /\ program # <<>>
  BY <1>3, ProgramsFormed DEF Formed, Drawn
<1>5. /\ "saveActive" \in Range(program) <=> program = SWITCH_ACCOUNT
      /\ "setNetwork" \in Range(program) <=> Has(program, {"setNetwork"})
      /\ "active" \in Range(program) <=> Has(program, {"active"})
  <2>1. "saveActive" \in Range(program) <=> Has(program, {"saveActive"}) BY <1>4, RangeHas
  <2>2. /\ Has(SWITCH_ACCOUNT, {"saveActive"}) /\ ~Has(UNLOCK_WALLET, {"saveActive"})
        /\ ~Has(LOCK_WALLET, {"saveActive"})
    BY DEF Has, SWITCH_ACCOUNT, UNLOCK_WALLET, LOCK_WALLET
  <2>3. Has(program, {"saveActive"}) => Has(program, Writes) BY DEF Has, Writes
  <2>4. Has(program, Writes) => program \in {SWITCH_ACCOUNT, UNLOCK_WALLET, LOCK_WALLET}
    BY <1>4 DEF Drawn
  <2>5. Has(program, {"saveActive"}) <=> program = SWITCH_ACCOUNT
    <3> HIDE DEF SWITCH_ACCOUNT, UNLOCK_WALLET, LOCK_WALLET, Has
    <3> QED BY <2>2, <2>3, <2>4
  <2> QED BY <1>4, <2>1, <2>5, RangeHas
<1>6. k \in Accounts \cup {None} /\ (k # None <=> program = SWITCH_ACCOUNT) BY <1>3, <1>5
<1>7. req' = [req EXCEPT ![r] = y] BY <1>1
<1> HIDE DEF k
<1>8. y \in Requests
  <2>1. "open" \in Stages BY DEF Stages
  <2> QED BY <1>3, <1>4, <1>6, <2>1, BlankIs, Zenon DEF Requests
<1>9. /\ y.st = "open" /\ y.todo = program /\ y.origin = p /\ y.want = w /\ y.pk = k
      /\ y.secret = None /\ y.net = None /\ y.seen = {} /\ ~y.signed /\ ~y.begun /\ ~y.sure
      /\ ~y.connect
  BY DEF Blank
<1> HIDE DEF y
<1>10. req \in [Slots -> Requests] /\ req[r] = Blank BY <1>2 DEF Base, Fit, Staged
<1>11. Starts(req[r], y) BY <1>1, <1>3, <1>5, <1>6, <1>9, <1>10 DEF Starts
<1>12. req' \in [Slots -> Requests] /\ req'[r] = y /\ \A q \in Slots \ {r} : req'[q] = req[q]
  BY <1>7, <1>8, <1>10
<1>13. Turning BY <1>11, <1>12, Unturned DEF Turning, Turned
<1>14. r \notin pending BY <1>2 DEF Base, Waiting, At
<1>15. Shift /\ Served
  <2>1. Shift BY <1>2, <1>12, <1>13, <1>14 DEF Shift, Resting, Joining, Stays, Base, TypeOK
  <2>2. Served BY <1>2, <1>12 DEF Served, Serving
  <2> QED BY <2>1, <2>2
<1>16. sealed' = (sealed /\ ~Has(req'[r].todo, {"active"}))
  <2>1. "active" \in Range(program) <=> Has(program, {"active"}) BY <1>5
  <2>2. ("active" \notin Range(program)) = (~Has(program, {"active"})) BY <2>1, Zenon
  <2> QED BY <1>1, <1>9, <1>12, <2>2
<1> QED BY <1>2, <1>11, <1>12, <1>15, <1>16

LEMMA LockShifts ==
    ASSUME Base, lockSession
    PROVE  Shift /\ Served /\ \A q \in Slots : req'[q] = Disturbed(None, session')[q]
<1>1. req' = Disturbed(None, session') /\ pending' = pending /\ connecting' = connecting
  BY DEF lockSession
<1>2. \A q \in Slots : LET y == Disturbed(None, session')[q]
                       IN y \in Requests /\ Stays(req[q], y) /\ y.todo = req[q].todo /\ y.st = req[q].st
  BY DisturbedIs
<1>3. DOMAIN Disturbed(None, session') = Slots BY DEF Disturbed
<1>4. req' \in [Slots -> Requests]
  <2> DEFINE d == Disturbed(None, session')
  <2>1. d = [q \in Slots |-> d[q]] BY DEF Disturbed
  <2>2. \A q \in Slots : d[q] \in Requests BY <1>2
  <2> HIDE DEF d
  <2>3. d \in [Slots -> Requests] BY <2>1, <2>2
  <2> QED BY <1>1, <2>3 DEF d
<1>5. Served
  <2>1. \A q \in Slots : req[q] \in Requests /\ Stays(req[q], req'[q]) BY <1>1, <1>2, Typed
  <2>2. \A q \in Slots : req'[q].st = req[q].st /\ req'[q].connect = req[q].connect /\ req'[q].origin = req[q].origin
    BY <2>1, StaysIs
  <2> QED BY <1>1, <2>2 DEF Served, Serving
<1> QED BY <1>1, <1>2, <1>4, <1>5 DEF Shift, Turning, Turned, Resting, Joining, Base, TypeOK

LEMMA RestartShifts ==
    ASSUME Base, Restart
    PROVE  /\ Shift /\ Served
           /\ \A q \in Slots : IF req[q].st = "open" THEN Stops(req[q], req'[q]) /\ req'[q].st = "lost" /\ req'[q].moved = req[q].moved
                               ELSE req'[q] = req[q]
<1> DEFINE f(q) == IF req[q].st = "open" THEN [req[q] EXCEPT !.st = "lost", !.todo = <<>>] ELSE req[q]
<1>1. req' = [q \in Slots |-> f(q)] /\ pending' = {} /\ connecting' = {} BY DEF Restart
<1>2. ASSUME NEW q \in Slots
      PROVE  /\ f(q) \in Requests
             /\ IF req[q].st = "open" THEN Stops(req[q], f(q)) /\ f(q).st = "lost" /\ f(q).moved = req[q].moved ELSE f(q) = req[q]
  <2> DEFINE x == req[q]
             y == [x EXCEPT !.st = "lost", !.todo = <<>>]
  <2>1. x \in Requests BY Typed
  <2>2. <<>> \in Seq(Steps) /\ "lost" \in Stages BY DEF Stages
  <2>3. y \in Requests BY <2>1, <2>2, Zenon DEF Requests
  <2>4. /\ y.st = "lost" /\ y.todo = <<>> /\ y.moved = x.moved /\ y.connect = x.connect
        /\ Kept(x, y)
    BY <2>1 DEF Requests, Kept
  <2>5. f(q) = IF x.st = "open" THEN y ELSE x OBVIOUS
  <2> HIDE DEF f, y
  <2> QED BY <2>1, <2>3, <2>4, <2>5 DEF Stops
<1> HIDE DEF f
<1>3. req' \in [Slots -> Requests] BY <1>1, <1>2
<1> QED BY <1>1, <1>2, <1>3, Unturned DEF Shift, Turning, Turned, Resting, Joining, Served

-----------------------------------------------------------------------------
(* Types, and the base invariant. *)

(* The types of all but the requests *)
Sessions == [pk : Accounts \cup {None}, secret : Accounts \cup {None}, seed : BOOLEAN]
Flags == rewound \in BOOLEAN /\ overlapped \in BOOLEAN /\ kept \in BOOLEAN /\ sealed \in BOOLEAN
(* The types of all but the requests *)
Holdings ==
    /\ session \in Sessions
    /\ active \in Accounts /\ network \in Networks
    /\ allow \subseteq Seats /\ agreed \subseteq Seats /\ revoked \subseteq Seats
    /\ payloads \subseteq Slots /\ pending \subseteq Slots /\ said \subseteq Slots
    /\ connecting \subseteq Pages
    /\ windows \in [Slots -> {"none", "up", "mapped"}]
    /\ mix \in Mixes /\ locks \in 0..mix.locks /\ restarts \in 0..mix.restarts
    /\ Flags

(* The type invariant's flags, one by one *)
LEMMA FlagsAre == Flags <=> {rewound, overlapped, kept, sealed} \subseteq BOOLEAN
BY Zenon DEF Flags

(* The type invariant is the types of all but the requests, and the requests' *)
LEMMA TypeIs ==
    /\ Base => Holdings
    /\ Holdings /\ req \in [Slots -> Requests] /\ (\A q \in Slots : Fit(req[q])) => TypeOK
<1>1. Base => Holdings BY FlagsAre DEF Base, TypeOK, Holdings, Sessions
<1>2. ASSUME Holdings, req \in [Slots -> Requests], \A q \in Slots : Fit(req[q]) PROVE TypeOK
  <2>1. ASSUME NEW r \in Slots
        PROVE  /\ req[r].st \in {"new", "open", "done", "refused", "lost"}
               /\ req[r].st = "open" <=> req[r].todo # <<>>
               /\ req[r].pk \in Accounts \cup {None} /\ req[r].net \in Networks \cup {None}
    <3>1. req[r] \in Requests /\ Staged(req[r]) BY <1>2 DEF Fit
    <3> QED BY <3>1 DEF Requests, Stages, Staged
  <2> QED BY <1>2, <2>1, FlagsAre DEF Holdings, TypeOK, Sessions
<1> QED BY <1>1, <1>2

(* A seat is a page, an account and a network that were read *)
Seated(x) == x.origin \in Pages /\ x.pk \in Accounts /\ x.net \in Networks

(* The seats asked about and granted are seats *)
LEMMA SeatIs ==
    ASSUME NEW x \in Requests, Seated(x)
    PROVE  Seat(x) \in Seats /\ GrantSeat(x) \in Seats
BY DEF Seated, Seat, GrantSeat, mismatch, Seats, Requests

(* A connect that waits for the user has read its seat *)
LEMMA GrantSeated ==
    ASSUME NEW x, Fit(x), x.todo # <<>>, Head(x.todo) \in {"wait", "list", "grant"}, x.connect
    PROVE  Seated(x) /\ x.todo \in Granting
<1> DEFINE t == x.todo
<1>1. /\ Head(<<"network">>) = "network" /\ Head(<<"answer">>) = "answer"
      /\ Head(<<"network", "unlock", "known">>) = "network"
      /\ Head(<<"unlock", "known">>) = "unlock" /\ Head(<<"network", "known">>) = "network"
      /\ Head(<<"known">>) = "known"
  BY One, Two, Three
<1>2. t \notin {<<>>, <<"network">>, <<"answer">>, <<"network", "unlock", "known">>, <<"unlock", "known">>, <<"network", "known">>, <<"known">>}
  <2>1. t # <<>> /\ Head(t) \in {"wait", "list", "grant"} OBVIOUS
  <2> HIDE DEF t
  <2> QED BY <1>1, <2>1
<1>3. Connecting(x) BY DEF Fit, Connectable
<1>4. x.pk # None /\ x.net # None /\ x.origin # None /\ t \in Granting BY <1>2, <1>3 DEF Connecting
<1> QED BY <1>4 DEF Fit, Requests, Seated

(* A revocation has read its seat *)
LEMMA RevokeSeated ==
    ASSUME NEW x, Fit(x), x.todo # <<>>, Head(x.todo) \in {"revoke", "revokeAll"}
    PROVE  Seated(x)
<1> DEFINE t == x.todo
<1>1. t \in Seq(Steps) /\ t # <<>> BY DEF Fit, Formed
<1>2. Has(t, {"revoke", "revokeAll"}) /\ t[1] \in {"revoke", "revokeAll"} /\ 1 \in 1..Len(t)
  <2>1. Head(t) \in {"revoke", "revokeAll"} OBVIOUS
  <2> HIDE DEF t
  <2>2. Has(t, {"revoke", "revokeAll"}) BY <1>1, <2>1, HasTail
  <2>3. t[1] = Head(t) /\ Len(t) \in Nat /\ Len(t) > 0 BY <1>1, Suffix
  <2> QED BY <2>1, <2>2, <2>3
<1>3. \A A : ~Precedes(t, A, {"revoke", "revokeAll"})
  BY <1>2 DEF Precedes
<1>4. x.pk # None /\ x.net # None /\ x.origin # None BY <1>2, <1>3 DEF Fit, Revoking
<1> QED BY <1>4 DEF Fit, Requests, Seated

(* Who writes the session knows for which account *)
LEMMA PutKnown ==
    ASSUME NEW x, Fit(x), x.todo # <<>>, Head(x.todo) \in {"saveActive", "putAccount", "putSecret", "putSeed"}
    PROVE  x.begun /\ x.todo \in Puts /\ x.pk # None
<1>1. Has(x.todo, Writes) BY HasTail DEF Fit, Formed, Writes
<1>2. x.todo \notin {SWITCH_ACCOUNT, UNLOCK_WALLET, LOCK_WALLET} /\ x.todo \notin Drops
  BY WritingGoes
<1>3. x.begun /\ x.todo \in Puts BY <1>1, <1>2 DEF Fit, Writing
<1> QED BY <1>3 DEF Fit, Writing

(* Each group of actions keeps the types *)
LEMMA ReadsHold ==
    ASSUME Base, NEW r \in Slots, ReadSteps(r) PROVE Holdings'
<1>1. connecting' \subseteq connecting /\ UNCHANGED Passive BY ReadsShift
<1> QED BY <1>1, TypeIs DEF Passive, stored, bounds, history, Holdings, Flags

LEMMA ConnectHolds ==
    ASSUME Base, NEW r \in Slots, Connect(r) PROVE Holdings'
<1>1. connecting' \subseteq Pages /\ UNCHANGED Passive BY ConnectShifts
<1> QED BY <1>1, TypeIs DEF Passive, stored, bounds, history, Holdings, Flags

LEMMA KnownHolds ==
    ASSUME Base, NEW r \in Slots, Known(r) PROVE Holdings'
<1>1. connecting' \subseteq connecting BY KnownShifts
<1>2. /\ pending' \in {pending, pending \cup {r}}
      /\ windows' \in {windows, [windows EXCEPT ![r] = "up"]}
      /\ UNCHANGED <<stored, bounds, history>>
  BY DEF Known, Asks
<1> QED BY <1>1, <1>2, TypeIs DEF stored, bounds, history, Holdings, Flags

LEMMA ArriveHolds ==
    ASSUME Base, NEW r \in Slots, Arrive(r) PROVE Holdings'
<1>1. /\ sealed' = (sealed /\ ~Has(req'[r].todo, {"active"}))
      /\ UNCHANGED <<stored, pending, connecting, windows, bounds, said, agreed, revoked, rewound, overlapped, kept>>
  BY ArriveShifts
<1>2. sealed' \in BOOLEAN BY <1>1, Zenon
<1> HIDE DEF Has
<1> QED BY <1>1, <1>2, TypeIs DEF stored, bounds, Holdings, Flags

LEMMA WindowsHold ==
    ASSUME Base, NEW r \in Slots, Windows(r) PROVE Holdings'
<1>1. /\ connecting' \subseteq connecting
      /\ UNCHANGED <<stored, bounds, rewound, overlapped, kept, sealed>>
  BY WindowsShift
<1> DEFINE Yes == \/ agreed' = agreed /\ revoked' = revoked
                  \/ req[r].connect /\ r \in pending /\ agreed' = agreed \cup {GrantSeat(req[r])} /\ revoked' = revoked \ {GrantSeat(req[r])}
           Wide == /\ pending' \in {pending, pending \ {r}} /\ windows' \in {windows, [windows EXCEPT ![r] = "none"], [windows EXCEPT ![r] = "mapped"]}
                   /\ said' \in {said, said \cup {r}}
<1>2. Wide /\ Yes
  <2>1. CASE Mapped(r) \/ Close(r) \/ Timeout(r)
    BY <2>1 DEF Mapped, Close, Timeout, Resolve, history
  <2>2. ASSUME NEW yes \in BOOLEAN, Click(r, yes) PROVE Wide /\ Yes
    <3>1. Wide BY <2>2 DEF Click
    <3>2. CASE r \in pending /\ yes /\ req[r].connect BY <2>2, <3>2 DEF Click
    <3>3. CASE ~(r \in pending /\ yes /\ req[r].connect) BY <2>2, <3>3 DEF Click
    <3> QED BY <3>1, <3>2, <3>3
  <2> QED BY <2>1, <2>2 DEF Windows
<1>3. req[r].connect /\ r \in pending => GrantSeat(req[r]) \in Seats
  BY GrantSeated, SeatIs DEF Base, Waiting, At, Fit
<1> QED BY <1>1, <1>2, <1>3, TypeIs DEF stored, bounds, Holdings, Flags

LEMMA WritesHold ==
    ASSUME Base, NEW r \in Slots, WriteSteps(r) PROVE Holdings'
<1> DEFINE x == req[r]
<1>1. connecting' \subseteq connecting BY WritesShift
<1>2. x \in Requests /\ Fit(x) BY Typed
<1> USE DEF Holdings, Flags, bounds
<1>3. CASE Grant(r)
  <2>1. /\ x.todo # <<>> /\ Head(x.todo) = "grant"
        /\ UNCHANGED <<session, active, network, payloads, pending, windows, bounds, said, agreed, revoked, overlapped, kept, sealed>>
        /\ allow' \in {allow, x.seen \cup {GrantSeat(x)}}
    BY <1>3 DEF Grant, At, SaveList
  <2>2. rewound' \in BOOLEAN
    BY <1>3, Zenon DEF Grant, SaveList, StaleList
  <2>3. x.connect
    <3>1. Has(x.todo, {"known", "grant", "answer"}) BY <1>2, <2>1, HasTail DEF Fit, Formed
    <3> QED BY <1>2, <3>1 DEF Fit, Connectable
  <2>4. GrantSeat(x) \in Seats /\ x.seen \subseteq Seats
    BY <1>2, <2>1, <2>3, GrantSeated, SeatIs DEF Fit, Listed
  <2> HIDE DEF x
  <2> QED BY <1>1, <2>1, <2>2, <2>4, TypeIs
<1>4. CASE Revoke(r)
  <2>1. /\ x.todo # <<>> /\ Head(x.todo) \in {"revoke", "revokeAll"}
        /\ UNCHANGED <<session, active, network, payloads, pending, windows, bounds, said, agreed, overlapped, kept, sealed>>
    BY <1>4 DEF Revoke, At
  <2>2. allow' = allow \/ allow' \subseteq x.seen
    BY <1>4 DEF Revoke, SaveList
  <2>3. rewound' \in BOOLEAN
    BY <1>4, Zenon DEF Revoke, SaveList, StaleList
  <2>4. Seat(x) \in Seats /\ x.seen \subseteq Seats
    BY <1>2, <2>1, RevokeSeated, SeatIs DEF Fit, Listed
  <2>5. revoked' \subseteq revoked \cup Seats
    BY <1>4, <2>4 DEF Revoke
  <2> HIDE DEF x
  <2> QED BY <1>1, <2>1, <2>2, <2>3, <2>4, <2>5, TypeIs
<1>5. CASE PutPayload(r)
  <2>1. /\ x.todo # <<>> /\ Head(x.todo) = "putPayload"
        /\ UNCHANGED <<session, active, network, allow, bounds, said, agreed, revoked, overlapped, kept, sealed>>
        /\ payloads' = x.seen \cup {r} /\ pending' = pending \cup {r}
        /\ windows' = [windows EXCEPT ![r] = "up"]
    BY <1>5 DEF PutPayload, At, Asks
  <2>2. rewound' \in BOOLEAN
    BY <1>5, Zenon DEF PutPayload, StaleList
  <2>3. x.seen \subseteq Slots BY <1>2, <2>1 DEF Fit, Listed
  <2> HIDE DEF x
  <2> QED BY <1>1, <2>1, <2>2, <2>3, TypeIs
<1>6. CASE PutCleared(r)
  <2>1. /\ x.todo # <<>> /\ Head(x.todo) = "putCleared"
        /\ UNCHANGED <<session, active, network, allow, pending, windows, bounds, said, agreed, revoked, overlapped, kept, sealed>>
        /\ payloads' = x.seen \ {r}
    BY <1>6 DEF PutCleared, At, Dropped
  <2>2. rewound' \in BOOLEAN
    BY <1>6, Zenon DEF PutCleared, StaleList
  <2>3. x.seen \subseteq Slots BY <1>2, <2>1 DEF Fit, Listed
  <2> HIDE DEF x
  <2> QED BY <1>1, <2>1, <2>2, <2>3, TypeIs
<1>7. CASE SetNetwork(r)
  <2>1. /\ x.todo # <<>> /\ Head(x.todo) = "setNetwork"
        /\ UNCHANGED <<session, active, allow, payloads, pending, windows, bounds, history>>
        /\ network' = x.want
    BY <1>7 DEF SetNetwork, At
  <2>2. x.want \in Networks
    <3>1. Has(x.todo, {"setNetwork"}) BY <1>2, <2>1, HasTail DEF Fit, Formed
    <3> QED BY <1>2, <3>1 DEF Fit, Staged, Requests
  <2> HIDE DEF x
  <2> QED BY <1>1, <2>1, <2>2, TypeIs DEF history
<1>8. CASE SaveActive(r)
  <2>1. /\ x.todo # <<>> /\ Head(x.todo) = "saveActive"
        /\ UNCHANGED <<session, network, allow, payloads, pending, windows, bounds, history>>
        /\ active' = x.pk
    BY <1>8 DEF SaveActive, At
  <2>2. x.pk \in Accounts BY <1>2, <2>1, PutKnown DEF Requests
  <2> HIDE DEF x
  <2> QED BY <1>1, <2>1, <2>2, TypeIs DEF history
<1> QED BY <1>3, <1>4, <1>5, <1>6, <1>7, <1>8 DEF WriteSteps

LEMMA SessionHolds ==
    ASSUME Base, NEW r \in Slots, SessionSteps(r) PROVE Holdings'
<1> DEFINE x == req[r]
<1>1. UNCHANGED <<active, network, allow, payloads, pending, connecting, windows, bounds, said, agreed, revoked, rewound>>
  BY SessionShifts
<1>2. x.pk \in Accounts \cup {None} /\ session \in Sessions BY Typed, TypeIs DEF Requests, Holdings
<1>3. session' \in Sessions
  <2>1. session' \in {[session EXCEPT !.pk = x.pk], [session EXCEPT !.secret = x.pk], [session EXCEPT !.seed = TRUE],
                      [session EXCEPT !.pk = None], [session EXCEPT !.secret = None], [session EXCEPT !.seed = FALSE]}
    BY DEF SessionSteps, PutAccount, PutSecret, PutSeed, DropAccount, DropSecret, DropSeed, Written
  <2> HIDE DEF x
  <2>2. /\ [session EXCEPT !.pk = x.pk] \in Sessions
        /\ [session EXCEPT !.secret = x.pk] \in Sessions
        /\ [session EXCEPT !.pk = None] \in Sessions
        /\ [session EXCEPT !.secret = None] \in Sessions
    BY <1>2, Zenon DEF Sessions
  <2>3. [session EXCEPT !.seed = TRUE] \in Sessions /\ [session EXCEPT !.seed = FALSE] \in Sessions
    <3>1. TRUE \in BOOLEAN /\ FALSE \in BOOLEAN BY Zenon
    <3> QED BY <1>2, <3>1, Zenon DEF Sessions
  <2> QED BY <2>1, <2>2, <2>3
<1>4. kept' \in BOOLEAN /\ sealed' \in BOOLEAN /\ overlapped' \in BOOLEAN
  <2>1. kept \in BOOLEAN /\ sealed \in BOOLEAN BY TypeIs DEF Holdings, Flags
  <2>2. kept' = kept \/ kept' = FALSE
    BY DEF SessionSteps, PutAccount, PutSecret, PutSeed, DropAccount, DropSecret, DropSeed, Written
  <2>3. sealed' = sealed \/ sealed' = (sealed \/ (session.pk = None /\ session.secret = None /\ Final(r)))
    BY DEF SessionSteps, PutAccount, PutSecret, PutSeed, DropAccount, DropSecret, DropSeed, Written
  <2>4. (sealed \/ (session.pk = None /\ session.secret = None /\ Final(r))) \in BOOLEAN BY Zenon
  <2>5. overlapped' = (overlapped \/ Overlap(r))
    BY DEF SessionSteps, PutAccount, PutSecret, PutSeed, DropAccount, DropSecret, DropSeed, Written
  <2>6. overlapped' \in BOOLEAN BY <2>5, Zenon
  <2>7. kept' \in BOOLEAN BY <2>1, <2>2, Zenon
  <2>8. sealed' \in BOOLEAN BY <2>1, <2>3, <2>4, Zenon
  <2> QED BY <2>6, <2>7, <2>8
<1> QED BY <1>1, <1>3, <1>4, TypeIs DEF Holdings, Flags, bounds

LEMMA LockHoldings ==
    ASSUME Base, lockSession PROVE Holdings'
<1>1. UNCHANGED <<active, network, allow, payloads, pending, connecting, windows, mix, restarts, said, agreed, revoked, rewound>>
      /\ locks' = locks + 1 /\ locks < mix.locks
  BY DEF lockSession
<1>2. session' \in Sessions
  <2>1. session' \in {Locked, [session EXCEPT !.pk = None]} BY DEF lockSession
  <2>2. Locked \in Sessions
    <3>1. FALSE \in BOOLEAN BY Zenon
    <3> QED BY <3>1, Zenon DEF Locked, Sessions
  <2>3. [session EXCEPT !.pk = None] \in Sessions
    <3>1. session \in Sessions BY TypeIs DEF Holdings
    <3> QED BY <3>1, Zenon DEF Sessions
  <2> QED BY <2>1, <2>2, <2>3
<1>3. kept' \in BOOLEAN /\ sealed' \in BOOLEAN /\ overlapped' \in BOOLEAN BY Zenon DEF lockSession
<1>4. mix \in Mixes /\ locks \in Nat /\ locks \in 0..mix.locks /\ mix.locks \in Nat
  BY SessionAssumption, TypeIs DEF Holdings
<1>5. locks' \in 0..mix'.locks BY <1>1, <1>4
<1> QED BY <1>1, <1>2, <1>3, <1>5, TypeIs DEF Holdings, Flags

LEMMA RestartHolds ==
    ASSUME Base, Restart PROVE Holdings'
<1>1. /\ UNCHANGED <<stored, mix, locks, said, agreed, revoked, rewound, kept, sealed>>
      /\ pending' = {} /\ connecting' = {}
      /\ restarts' = restarts + 1 /\ restarts < mix.restarts
      /\ windows' = [r \in Slots |-> IF windows[r] = "mapped" THEN "up" ELSE windows[r]]
  BY DEF Restart
<1>2. overlapped' \in BOOLEAN BY Zenon DEF Restart
<1>3. mix \in Mixes /\ restarts \in 0..mix.restarts /\ mix.restarts \in Nat
  BY SessionAssumption, TypeIs DEF Holdings
<1>4. restarts' \in 0..mix'.restarts BY <1>1, <1>3
<1> QED BY <1>1, <1>2, <1>4, TypeIs DEF Holdings, Flags, stored

(* The groups of steps make up the next-state relation *)
LEMMA NextIs ==
    ASSUME Next
    PROVE  \/ \E r \in Slots : \/ Arrive(r) \/ ReadSteps(r) \/ WriteSteps(r) \/ SessionSteps(r) \/ Connect(r) \/ Known(r)
                               \/ Windows(r)
           \/ lockSession \/ Restart
<1>1. ASSUME NEW r, Step(r) PROVE ReadSteps(r) \/ WriteSteps(r) \/ SessionSteps(r) \/ Connect(r) \/ Known(r)
  BY <1>1, Zenon DEF Step, ReadSteps, WriteSteps, SessionSteps
<1>2. ASSUME NEW r, GiveUpUnlock(r) PROVE ReadSteps(r) BY <1>2, Zenon DEF ReadSteps
<1>3. ASSUME NEW r, Mapped(r) \/ Close(r) \/ Timeout(r) \/ \E yes \in BOOLEAN : Click(r, yes) PROVE Windows(r)
  BY <1>3, Zenon DEF Windows
<1> QED BY <1>1, <1>2, <1>3, Zenon DEF Next

(* Every step keeps the base invariant, and is a shift *)
LEMMA BaseStep ==
    ASSUME Base, [Next]_vars PROVE Base' /\ Shift /\ Served
<1>1. Shift /\ Served /\ Holdings'
  <2>1. CASE UNCHANGED vars
    <3>1. req' = req /\ pending' = pending /\ connecting' \subseteq connecting
      BY <2>1 DEF vars, worker
    <3>2. Holdings' BY <2>1, TypeIs DEF vars, stored, worker, bounds, history, Holdings, Flags
    <3> QED BY <3>1, <3>2, StillShifts
  <2>2. CASE Next
    <3>1. ASSUME NEW r \in Slots,
                 Arrive(r) \/ ReadSteps(r) \/ WriteSteps(r) \/ SessionSteps(r) \/ Connect(r) \/ Known(r) \/ Windows(r)
          PROVE  Shift /\ Served /\ Holdings'
      BY <3>1, ArriveShifts, ArriveHolds, ReadsShift, ReadsHold, WritesShift, WritesHold,
         SessionShifts, SessionHolds,
         ConnectShifts, ConnectHolds, KnownShifts, KnownHolds, WindowsShift, WindowsHold
    <3>2. CASE lockSession BY <3>2, LockShifts, LockHoldings
    <3>3. CASE Restart BY <3>3, RestartShifts, RestartHolds
    <3> QED BY <2>2, <3>1, <3>2, <3>3, NextIs
  <2> QED BY <2>1, <2>2
<1>2. req' \in [Slots -> Requests] BY <1>1 DEF Shift, Turning
<1>3. ASSUME NEW q \in Slots PROVE Fit(req'[q])
  <2>1. req'[q] \in Requests BY <1>2
  <2> QED BY <1>1, <2>1, TurnedFit DEF Shift, Turning, Base
<1>4. Waiting'
  <2> SUFFICES ASSUME NEW q \in pending' PROVE At(q, "wait")' BY DEF Waiting
  <2>1. CASE q \in pending
    <3>1. q \in Slots /\ At(q, "wait") BY <2>1 DEF Base, Waiting, TypeOK
    <3>2. req[q] \in Requests /\ Stays(req[q], req'[q])
      BY <1>1, <2>1, <3>1, Typed DEF Shift, Resting
    <3>3. req'[q].st = req[q].st /\ req'[q].todo = req[q].todo BY <3>2, StaysIs
    <3> QED BY <3>1, <3>3 DEF At
  <2>2. CASE q \notin pending BY <1>1, <2>2 DEF Shift, Joining, At
  <2> QED BY <2>1, <2>2
<1>5. TypeOK'
  <2>1. (Holdings /\ req \in [Slots -> Requests] /\ (\A q \in Slots : Fit(req[q])) => TypeOK)'
    BY TypeIs, PTL
  <2> QED BY <1>1, <1>2, <1>3, <2>1
<1> QED BY <1>1, <1>2, <1>3, <1>4, <1>5 DEF Base

(* The base invariant holds at first *)
LEMMA BaseInit ==
    ASSUME Init PROVE Base
<1>1. req = [r \in Slots |-> Blank] /\ pending = {} BY DEF Init
<1>2. req \in [Slots -> Requests] /\ \A q \in Slots : Fit(req[q]) BY <1>1, BlankIs
<1>3. Waiting BY <1>1 DEF Waiting
<1>4. active \in Accounts /\ network \in Networks
  <2>1. (CHOOSE a \in Accounts : TRUE) \in Accounts /\ (CHOOSE n \in Networks : TRUE) \in Networks
    BY SessionAssumption
  <2> QED BY <2>1 DEF Init
<1>5. session \in Sessions
  <2>1. FALSE \in BOOLEAN /\ TRUE \in BOOLEAN BY Zenon
  <2>2. [pk |-> None, secret |-> None, seed |-> FALSE] \in Sessions BY <2>1, Zenon DEF Sessions
  <2>3. [pk |-> active, secret |-> active, seed |-> TRUE] \in Sessions
    BY <1>4, <2>1, Zenon DEF Sessions
  <2> QED BY <2>2, <2>3 DEF Init
<1>6. Flags
  <2>1. sealed \in BOOLEAN BY Zenon DEF Init
  <2>2. rewound = FALSE /\ overlapped = FALSE /\ kept = FALSE BY DEF Init
  <2> QED BY <2>1, <2>2, Zenon DEF Flags
<1>7. allow \subseteq Seats
  <2>1. {<<p, active, network>> : p \in Pages} \subseteq Seats BY <1>4 DEF Seats
  <2> QED BY <2>1 DEF Init
<1>8. mix \in Mixes /\ locks \in 0..mix.locks /\ restarts \in 0..mix.restarts
  BY SessionAssumption DEF Init
<1>9. Holdings
  <2>1. /\ agreed = allow /\ payloads = {} /\ pending = {} /\ connecting = {} /\ said = {}
        /\ revoked = {} /\ windows = [r \in Slots |-> "none"]
    BY DEF Init
  <2> QED BY <1>4, <1>5, <1>6, <1>7, <1>8, <2>1 DEF Holdings
<1> QED BY <1>2, <1>3, <1>9, TypeIs DEF Base

(* The type invariant holds, every handler is on its program's way, and a request is pending only *)
(* while its handler waits for the user                                                           *)
THEOREM SessionBase == Spec => []Base
<1>1. Init => Base BY BaseInit
<1>2. Base /\ [Next]_vars => Base' BY BaseStep
<1> QED BY <1>1, <1>2, PTL DEF Spec

-----------------------------------------------------------------------------
(* The lists in storage. *)

(* A step of the session or its wait that reads nothing *)
Passing(x, y) == x.todo # <<>> /\ Goes(x, y)
    /\ Head(x.todo) \in {"unlock", "putAccount", "putSecret", "putSeed", "dropAccount", "dropSecret", "dropSeed"}
(* What a step does to one request *)
Kind(q) ==
    LET x == req[q]
        y == req'[q]
    IN Stays(x, y) \/ Moves(q, y) \/ Passing(x, y) \/ Starts(x, y) \/ Stops(x, y)

(* Every step does one of these to every request *)
LEMMA Kinds ==
    ASSUME Base, [Next]_vars, NEW q \in Slots PROVE Kind(q)
<1> USE DEF Kind
<1>1. CASE UNCHANGED vars BY <1>1 DEF vars, worker, Stays
<1>2. ASSUME NEW r \in Slots, Mover(r) \/ req' = req PROVE Kind(q)
  BY <1>2 DEF Mover, Stays
<1>3. ASSUME NEW r \in Slots, ReadSteps(r) \/ WriteSteps(r) \/ Connect(r) \/ Known(r) \/ Windows(r) PROVE Kind(q)
  <2>1. Mover(r) \/ req' = req
    BY <1>3, ReadsShift, WritesShift, ConnectShifts, KnownShifts, WindowsShift
  <2> QED BY <1>2, <2>1
<1>4. ASSUME NEW r \in Slots, Arrive(r) PROVE Kind(q) BY <1>4, ArriveShifts DEF Stays
<1>5. ASSUME NEW r \in Slots, SessionSteps(r) PROVE Kind(q)
  <2>1. Writer(req[r], req'[r]) /\ \A p \in Slots \ {r} : Bystander(p, r) BY <1>5, WriterGoes
  <2>2. /\ req[r].todo # <<>>
        /\ Head(req[r].todo) \in {"putAccount", "putSecret", "putSeed", "dropAccount", "dropSecret", "dropSeed"}
    BY <1>5 DEF SessionSteps, PutAccount, PutSecret, PutSeed, DropAccount, DropSecret, DropSeed, At
  <2>3. CASE q = r BY <2>1, <2>2, <2>3 DEF Passing, Writer
  <2>4. CASE q # r
    <3>1. CASE req'[q] = Disturbed(r, session')[q] BY <3>1, DisturbedIs
    <3>2. CASE Woken(q, req'[q]) BY <3>2 DEF Woken, Passing, At
    <3> QED BY <2>1, <2>4, <3>1, <3>2 DEF Bystander
  <2> QED BY <2>3, <2>4
<1>6. CASE lockSession
  <2>1. req'[q] = Disturbed(None, session')[q] BY <1>6, LockShifts
  <2> QED BY <2>1, DisturbedIs
<1>7. CASE Restart BY <1>7, RestartShifts DEF Stays
<1> QED BY <1>1, <1>3, <1>4, <1>5, <1>6, <1>7, NextIs

(* Who is about to write a list has just read it *)
LEMMA ListHeads ==
    ASSUME NEW x, NEW y, Fit(x), Turned(x, y), y.todo # <<>>, Head(y.todo) \in {"grant", "revoke", "revokeAll"}
    PROVE  Stays(x, y) \/ (Goes(x, y) /\ x.todo # <<>> /\ Head(x.todo) = "list")
<1>1. CASE Goes(x, y)
  <2> DEFINE t == x.todo
  <2>1. /\ t \in Seq(Steps) /\ t # <<>> /\ Joined(t, {"list"}, {"grant", "revoke", "revokeAll"})
        /\ y.todo = Tail(t)
    BY <1>1 DEF Goes, Fit, Formed
  <2> HIDE DEF t
  <2>2. t[1] \in {"list"} /\ t[1] = Head(t)
    <3>1. Tail(t) # <<>> /\ Head(Tail(t)) \in {"grant", "revoke", "revokeAll"} BY <2>1
    <3> QED BY <2>1, <3>1, JoinedTail, Suffix
  <2> QED BY <1>1, <2>1, <2>2 DEF t
<1>2. CASE Stops(x, y) BY <1>2 DEF Stops
<1>3. CASE Cuts(x, y)
  <2>1. Head(y.todo) = "cleared" BY <1>3, Two DEF Cuts
  <2> QED BY <2>1
<1>4. CASE Skips(x, y)
  <2> DEFINE t == x.todo
             u == Tail(t)
  <2>1. /\ t \in Seq(Steps) /\ t # <<>> /\ Joined(t, {"list"}, {"grant", "revoke", "revokeAll"})
        /\ u # <<>> /\ Head(u) = "unlock" /\ y.todo = Tail(u)
    BY <1>4 DEF Skips, Fit, Formed
  <2> HIDE DEF t
  <2>2. u \in Seq(Steps) /\ Joined(u, {"list"}, {"grant", "revoke", "revokeAll"})
    BY <2>1, JoinedTail, Suffix
  <2> HIDE DEF u
  <2>3. u[1] \in {"list"} /\ u[1] = Head(u)
    <3>1. Tail(u) # <<>> /\ Head(Tail(u)) \in {"grant", "revoke", "revokeAll"} BY <2>1
    <3> QED BY <2>1, <2>2, <3>1, JoinedTail, Suffix
  <2> QED BY <2>1, <2>3
<1>5. CASE Connects(x, y)
  <2>1. Head(y.todo) = "network"
    <3>1. /\ Head(<<"network", "unlock", "known">>) = "network"
          /\ Head(<<"network", "known">>) = "network"
      BY Two, Three
    <3> QED BY <1>5, <3>1 DEF Connects
  <2> QED BY <2>1
<1>6. CASE Knows(x, y)
  <2>1. Head(y.todo) \in {"network", "wait"}
    <3>1. Head(<<"network">>) = "network" /\ Head(<<"wait", "list", "grant", "answer">>) = "wait"
          /\ Head(<<"wait", "list", "grant", "setNetwork", "answer">>) = "wait"
      BY One, Four, Five
    <3> QED BY <1>6, <3>1 DEF Knows
  <2> QED BY <2>1
<1>7. CASE Starts(x, y)
  <2> DEFINE t == y.todo
  <2>1. t \in Programs /\ t # <<>> /\ Head(t) \in {"grant", "revoke", "revokeAll"}
    BY <1>7 DEF Starts
  <2> HIDE DEF t
  <2>2. Formed(t) /\ Drawn(t) BY <2>1, ProgramsFormed
  <2>3. t \in Seq(Steps) BY <2>2 DEF Formed
  <2>4. Has(t, {"grant"}) => Has(t, {"known", "grant", "answer"}) BY DEF Has
  <2>5. Head(t) # "grant" BY <2>1, <2>2, <2>3, <2>4, HasTail DEF Drawn
  <2>6. Has(t, {"revoke", "revokeAll"}) BY <2>1, <2>3, <2>5, HasTail
  <2>7. t[1] = "account" BY <2>2, <2>6 DEF Drawn
  <2> QED BY <2>1, <2>3, <2>7, Suffix
<1> QED BY <1>1, <1>2, <1>3, <1>4, <1>5, <1>6, <1>7 DEF Turned

(* What the lists in storage and those in a handler's hands agree with: agreed seats, seats not   *)
(* taken back, payloads of requests that wait                                                     *)
Lists ==
    /\ allow \subseteq agreed
    /\ \A q \in Slots :
         LET x == req[q]
         IN /\ x.todo # <<>> /\ Head(x.todo) \in {"grant", "revoke", "revokeAll"} => x.seen \subseteq agreed
            /\ x.todo # <<>> /\ Head(x.todo) \in {"list", "grant"} /\ x.connect => q \in said /\ GrantSeat(x) \in agreed \ revoked
    /\ ~rewound => allow \cap revoked = {}
    /\ ~rewound => \A q \in pending : req[q].connect \/ q \in payloads

(* A grant is a connect's *)
LEMMA GrantNow ==
    ASSUME Base, NEW r \in Slots, At(r, "grant")
    PROVE  req[r].connect /\ req[r] \in Requests /\ Seated(req[r])
<1>1. Fit(req[r]) /\ req[r].todo # <<>> /\ Head(req[r].todo) = "grant" BY DEF Base, At
<1>2. Has(req[r].todo, {"known", "grant", "answer"}) BY <1>1, HasTail DEF Fit, Formed
<1>3. req[r].connect BY <1>1, <1>2 DEF Fit, Connectable
<1> QED BY <1>1, <1>3, GrantSeated DEF Fit

(* The user's agreements only grow, but for a revocation *)
LEMMA Agreeing ==
    ASSUME Base, [Next]_vars
    PROVE  /\ said \subseteq said' /\ agreed \subseteq agreed'
           /\ allow' = allow \/ \E r \in Slots : Grant(r) \/ Revoke(r)
           /\ revoked' \subseteq revoked \/ \E r \in Slots : Revoke(r)
           /\ rewound => rewound'
<1> DEFINE P == /\ said \subseteq said' /\ agreed \subseteq agreed'
                /\ allow' = allow \/ \E r \in Slots : Grant(r) \/ Revoke(r)
                /\ revoked' \subseteq revoked \/ \E r \in Slots : Revoke(r)
                /\ rewound => rewound'
<1>1. CASE UNCHANGED vars BY <1>1 DEF vars, stored, history
<1>2. ASSUME NEW r \in Slots, ReadSteps(r) \/ Connect(r) PROVE P
  BY <1>2, ReadsShift, ConnectShifts DEF Passive, stored, history
<1>3. ASSUME NEW r \in Slots, Known(r) PROVE P BY <1>3 DEF Known, stored, history
<1>4. ASSUME NEW r \in Slots, Windows(r) PROVE P
  <2>1. UNCHANGED <<stored, bounds, rewound, overlapped, kept, sealed>> BY <1>4, WindowsShift
  <2>2. CASE Mapped(r) \/ Close(r) \/ Timeout(r)
    BY <2>1, <2>2 DEF Mapped, Close, Timeout, history, stored
  <2>3. ASSUME NEW yes \in BOOLEAN, Click(r, yes) PROVE P
    <3>1. /\ said' \in {said, said \cup {r}}
          /\ agreed' \in {agreed, agreed \cup {GrantSeat(req[r])}}
          /\ revoked' \in {revoked, revoked \ {GrantSeat(req[r])}}
      BY <2>3 DEF Click
    <3> QED BY <2>1, <3>1 DEF stored
  <2> QED BY <1>4, <2>2, <2>3 DEF Windows
<1>5. ASSUME NEW r \in Slots, WriteSteps(r) PROVE P
  <2>1. CASE Grant(r) BY <2>1 DEF Grant, SaveList, StaleList
  <2>2. CASE Revoke(r) BY <2>2 DEF Revoke, SaveList, StaleList
  <2>3. CASE PutPayload(r) \/ PutCleared(r) BY <2>3 DEF PutPayload, PutCleared, StaleList
  <2>4. CASE SetNetwork(r) \/ SaveActive(r) BY <2>4 DEF SetNetwork, SaveActive, history
  <2> QED BY <1>5, <2>1, <2>2, <2>3, <2>4 DEF WriteSteps
<1>6. ASSUME NEW r \in Slots, Arrive(r) PROVE P BY <1>6, ArriveShifts DEF stored
<1>7. ASSUME NEW r \in Slots, SessionSteps(r) PROVE P BY <1>7, SessionShifts
<1>8. CASE lockSession BY <1>8 DEF lockSession
<1>9. CASE Restart BY <1>9 DEF Restart, stored
<1> QED BY <1>1, <1>2, <1>3, <1>4, <1>5, <1>6, <1>7, <1>8, <1>9, NextIs

(* What a revocation writes *)
LEMMA RevokeIs ==
    ASSUME Base, NEW r \in Slots, Revoke(r)
    PROVE  LET x == req[r]
               here == {s \in Seats : s[2] = x.pk /\ s[3] = x.net}
           IN \E gone \in SUBSET here :
               /\ revoked' = revoked \cup (gone \ {GrantSeat(req[q]) : q \in {q \in said : Runs(q, {"grant"})}})
               /\ \/ allow' = x.seen \ gone
                  \/ x.seen \cap here = {} /\ allow' = allow
               /\ rewound' = (rewound \/ x.seen # allow)
               /\ UNCHANGED <<agreed, said, payloads, pending>>
<1> DEFINE x == req[r]
           here == {s \in Seats : s[2] = x.pk /\ s[3] = x.net}
           gone == IF At(r, "revoke") THEN {Seat(x)} ELSE here
<1>1. Fit(x) /\ x.todo # <<>> /\ Head(x.todo) \in {"revoke", "revokeAll"} BY DEF Base, Revoke, At
<1>2. Seat(x) \in here BY <1>1, RevokeSeated DEF Seated, Seat, Seats
<1>3. gone \subseteq here BY <1>2
<1>4. /\ revoked' = revoked \cup (gone \ {GrantSeat(req[q]) : q \in {q \in said : Runs(q, {"grant"})}})
      /\ \/ allow' = x.seen \ gone
         \/ x.seen \cap here = {} /\ allow' = allow
      /\ rewound' = (rewound \/ x.seen # allow)
      /\ UNCHANGED <<agreed, said, payloads, pending>>
  BY DEF Revoke, SaveList, StaleList
<1>5. gone \in SUBSET here BY <1>3
<1> HIDE DEF gone
<1> QED BY <1>4, <1>5, ZenonT(40)

(* What a grant writes *)
LEMMA GrantIs ==
    ASSUME Base, NEW r \in Slots, Grant(r)
    PROVE  LET x == req[r] IN
           /\ x.todo # <<>> /\ Head(x.todo) = "grant" /\ x.connect
           /\ IF GrantSeat(x) \in x.seen THEN allow' = allow ELSE allow' = x.seen \cup {GrantSeat(x)}
           /\ rewound' = (rewound \/ x.seen # allow)
           /\ UNCHANGED <<agreed, said, payloads, pending, revoked>>
BY GrantNow DEF Grant, At, SaveList, StaleList

(* A seat the user has just agreed to, or whose grant is under way, is not taken back *)
LEMMA NotTaken ==
    ASSUME Base, [Next]_vars, NEW q \in Slots, q \in said, req[q].connect, req[q].st = "open",
           req[q].todo # <<>>, Head(req[q].todo) \in {"list", "grant"}, GrantSeat(req[q]) \notin revoked
    PROVE  GrantSeat(req[q]) \notin revoked'
<1>1. Runs(q, {"grant"})
  <2> DEFINE t == req[q].todo
  <2>1. Fit(req[q]) /\ t \in Seq(Steps) /\ t \in Granting BY GrantSeated DEF Base, Fit, Formed
  <2> HIDE DEF t
  <2>2. Has(t, {"grant"})
    <3>1. /\ Head(t) \in {"list", "grant"} BY DEF t
    <3>2. \/ t = <<"list", "grant", "answer">> \/ t = <<"grant", "answer">>
          \/ t = <<"list", "grant", "setNetwork", "answer">> \/ t = <<"grant", "setNetwork", "answer">>
      <4>1. /\ Head(<<"wait", "list", "grant", "answer">>) = "wait"
            /\ Head(<<"wait", "list", "grant", "setNetwork", "answer">>) = "wait"
            /\ Head(<<"setNetwork", "answer">>) = "setNetwork"
        BY Two, Four, Five
      <4> QED BY <2>1, <3>1, <4>1, Zenon DEF Granting
    <3>3. /\ Has(<<"list", "grant", "answer">>, {"grant"}) /\ Has(<<"grant", "answer">>, {"grant"})
          /\ Has(<<"list", "grant", "setNetwork", "answer">>, {"grant"})
          /\ Has(<<"grant", "setNetwork", "answer">>, {"grant"})
      BY DEF Has
    <3> HIDE DEF Has
    <3> QED BY <3>2, <3>3, Zenon
  <2>3. Range(t) \cap {"grant"} # {} BY <2>1, <2>2, RangeHas
  <2> QED BY <2>3 DEF Runs, t
<1>2. CASE revoked' \subseteq revoked BY <1>2
<1>3. ASSUME NEW r \in Slots, Revoke(r) PROVE GrantSeat(req[q]) \notin revoked'
  <2>1. PICK gone : revoked' = revoked \cup (gone \ {GrantSeat(req[p]) : p \in {p \in said : Runs(p, {"grant"})}})
    BY <1>3, RevokeIs
  <2>2. GrantSeat(req[q]) \in {GrantSeat(req[p]) : p \in {p \in said : Runs(p, {"grant"})}} BY <1>1
  <2> QED BY <2>1, <2>2
<1> QED BY <1>2, <1>3, Agreeing

(* Only a yes lets a connect that waits go on *)
LEMMA WaitGoes ==
    ASSUME Base, [Next]_vars, NEW q \in Slots, req[q].st = "open", req[q].todo # <<>>, Head(req[q].todo) = "wait",
           Goes(req[q], req'[q]), ~Stops(req[q], req'[q]), ~Cuts(req[q], req'[q])
    PROVE  q \in said' /\ (req[q].connect => GrantSeat(req[q]) \in agreed' \ revoked')
<1> DEFINE x == req[q]
           y == req'[q]
<1>1. Fit(x) /\ x \in Requests BY Typed
<1>2. y.todo # x.todo
  <2> DEFINE t == x.todo
  <2>1. t \in Seq(Steps) /\ t # <<>> /\ y.todo = Tail(t) BY <1>1 DEF Goes, Fit, Formed
  <2> HIDE DEF t
  <2>2. Tail(t) # t BY <2>1, Suffix
  <2> QED BY <2>1, <2>2 DEF t
<1>3. ~Stays(x, y)
  <2> HIDE DEF x, y
  <2> QED BY <1>1, <1>2, StaysIs
<1>4. ~Stops(x, y) /\ ~Cuts(x, y) OBVIOUS
<1>5. ~Passing(x, y) /\ ~Starts(x, y) BY BlankIs DEF Passing, Starts
<1>6. Moves(q, y) BY <1>3, <1>4, <1>5, Kinds DEF Kind
<1>7. q \in said' BY <1>4, <1>6 DEF Moves
<1>8. ASSUME NEW r \in Slots, Mover(r) PROVE q = r
  BY <1>2, <1>8 DEF Mover
<1>9. PICK r \in Slots : Windows(r)
  <2>1. CASE UNCHANGED vars BY <1>2, <2>1 DEF vars, worker
  <2>2. ASSUME NEW r \in Slots, ReadSteps(r) PROVE FALSE
    BY <1>8, <2>2, ReadsShift, ReadHeads
  <2>3. ASSUME NEW r \in Slots, WriteSteps(r) PROVE FALSE
    <3>1. Head(req[r].todo) # "wait"
      BY <2>3 DEF WriteSteps, At, Grant, Revoke, PutPayload, PutCleared, SetNetwork, SaveActive
    <3> QED BY <1>8, <2>3, <3>1, WritesShift
  <2>4. ASSUME NEW r \in Slots, Connect(r) \/ Known(r) PROVE FALSE
    <3>1. Head(req[r].todo) # "wait" BY <2>4 DEF Connect, Known, At
    <3> QED BY <1>8, <2>4, <3>1, ConnectShifts, KnownShifts
  <2>5. ASSUME NEW r \in Slots, Arrive(r) PROVE FALSE
    <3>1. Starts(req[r], req'[r]) /\ \A p \in Slots \ {r} : req'[p] = req[p] BY <2>5, ArriveShifts
    <3>2. q = r BY <1>2, <3>1
    <3> QED BY <3>1, <3>2, BlankIs DEF Starts
  <2>6. ASSUME NEW r \in Slots, SessionSteps(r) PROVE FALSE
    <3>1. Writer(req[r], req'[r]) /\ \A p \in Slots \ {r} : Bystander(p, r) BY <2>6, WriterGoes
    <3>2. Head(req[r].todo) # "wait"
      BY <2>6 DEF SessionSteps, PutAccount, PutSecret, PutSeed, DropAccount, DropSecret,
         DropSeed, At
    <3>3. q # r BY <3>2
    <3>4. CASE req'[q] = Disturbed(r, session')[q] BY <1>3, <3>4, DisturbedIs
    <3>5. CASE Woken(q, req'[q]) BY <3>5 DEF Woken, At
    <3> QED BY <3>1, <3>3, <3>4, <3>5 DEF Bystander
  <2>7. CASE lockSession
    <3>1. req'[q] = Disturbed(None, session')[q] BY <2>7, LockShifts
    <3> QED BY <1>3, <3>1, DisturbedIs
  <2>8. CASE Restart BY <1>4, <2>8, RestartShifts
  <2> QED BY <2>1, <2>2, <2>3, <2>4, <2>5, <2>6, <2>7, <2>8, NextIs
<1>10. q = r BY <1>2, <1>8, <1>9, WindowsShift
<1>11. x.connect => GrantSeat(x) \in agreed' \ revoked'
  <2>1. CASE Mapped(r) BY <1>2, <2>1 DEF Mapped
  <2>2. ASSUME r \in pending, Resolve(r, FALSE) PROVE FALSE
    <3> DEFINE w == Resolved(req[r], FALSE)
    <3>1. req' = [req EXCEPT ![r] = w] BY <2>2 DEF Resolve, Becomes
    <3>2. Stops(req[r], w) \/ Cuts(req[r], w) BY <2>2, ResolvedIs
    <3>3. req'[r] = w BY <3>1 DEF Base
    <3> QED BY <1>4, <1>10, <3>2, <3>3
  <2>3. CASE Timeout(r) BY <2>2, <2>3 DEF Timeout
  <2>4. CASE Close(r) BY <1>2, <2>2, <2>4 DEF Close
  <2>5. ASSUME NEW yes \in BOOLEAN, Click(r, yes) PROVE x.connect => GrantSeat(x) \in agreed' \ revoked'
    <3>1. r \in pending BY <1>2, <2>5 DEF Click
    <3>2. yes
      <4>1. PICK w : /\ Becomes(r, w) /\ (~yes => Stops(req[r], w) \/ Cuts(req[r], w))
        BY <2>5, <3>1, ClickMoves
      <4>2. req'[r] = w BY <4>1 DEF Becomes, Base
      <4> QED BY <1>4, <1>10, <4>1, <4>2
    <3> QED BY <1>10, <2>5, <3>1, <3>2 DEF Click
  <2> QED BY <1>9, <2>1, <2>3, <2>4, <2>5 DEF Windows
<1> QED BY <1>7, <1>11

(* The seat asked for is made of four fields *)
LEMMA SameSeat ==
    ASSUME NEW x, NEW y, y.origin = x.origin, y.pk = x.pk, y.net = x.net, y.want = x.want
    PROVE  GrantSeat(y) = GrantSeat(x)
BY DEF GrantSeat, mismatch

(* Only agreed seats are written *)
LEMMA AllowAgreed ==
    ASSUME Base, Lists, [Next]_vars PROVE allow' \subseteq agreed'
<1>1. agreed \subseteq agreed' /\ allow \subseteq agreed BY Agreeing DEF Lists
<1>2. CASE allow' = allow BY <1>1, <1>2
<1>3. ASSUME NEW r \in Slots, Grant(r) PROVE allow' \subseteq agreed'
  <2> DEFINE x == req[r]
  <2>1. /\ x.todo # <<>> /\ Head(x.todo) = "grant" /\ x.connect
        /\ IF GrantSeat(x) \in x.seen THEN allow' = allow ELSE allow' = x.seen \cup {GrantSeat(x)}
    BY <1>3, GrantIs
  <2>2. x.seen \subseteq agreed /\ GrantSeat(x) \in agreed BY <2>1 DEF Lists
  <2> HIDE DEF x
  <2> QED BY <1>1, <2>1, <2>2
<1>4. ASSUME NEW r \in Slots, Revoke(r) PROVE allow' \subseteq agreed'
  <2> DEFINE x == req[r]
  <2>1. x.todo # <<>> /\ Head(x.todo) \in {"revoke", "revokeAll"} BY <1>4 DEF Revoke, At
  <2>2. allow' = allow \/ allow' \subseteq x.seen BY <1>4, RevokeIs
  <2>3. x.seen \subseteq agreed BY <2>1 DEF Lists
  <2> HIDE DEF x
  <2> QED BY <1>1, <2>2, <2>3
<1> QED BY <1>2, <1>3, <1>4, Agreeing

(* Only agreed seats are read for writing *)
LEMMA ReadAgreed ==
    ASSUME Base, Lists, [Next]_vars, NEW q \in Slots, req'[q].todo # <<>>, Head(req'[q].todo) \in {"grant", "revoke", "revokeAll"}
    PROVE  req'[q].seen \subseteq agreed'
<1> DEFINE x == req[q]
           y == req'[q]
<1>1. agreed \subseteq agreed' /\ allow \subseteq agreed BY Agreeing DEF Lists
<1>2. Fit(x) /\ x \in Requests /\ Turned(x, y) BY Typed, BaseStep DEF Shift, Turning
<1>3. CASE Stays(x, y)
  <2>1. y.seen = x.seen /\ y.todo = x.todo
    <3> HIDE DEF x, y
    <3> QED BY <1>2, <1>3, StaysIs
  <2>2. x.seen \subseteq agreed BY <2>1 DEF Lists
  <2> QED BY <1>1, <2>1, <2>2
<1>4. CASE ~Stays(x, y)
  <2>1. Goes(x, y) /\ x.todo # <<>> /\ Head(x.todo) = "list"
    <3> HIDE DEF x
    <3> QED BY <1>2, <1>4, ListHeads
  <2>2. ~Passing(x, y) /\ ~Starts(x, y) /\ ~Stops(x, y) BY <2>1, BlankIs DEF Passing, Starts, Stops
  <2>3. Heeds(x, y) BY <1>4, <2>2, Kinds DEF Kind, Moves
  <2>4. y.seen = allow BY <2>1, <2>3 DEF Heeds
  <2> QED BY <1>1, <2>4
<1> QED BY <1>3, <1>4

(* Who grants was told yes, and the seat was not taken back since *)
LEMMA GrantAgreed ==
    ASSUME Base, Lists, [Next]_vars, NEW q \in Slots, req'[q].todo # <<>>, Head(req'[q].todo) \in {"list", "grant"}, req'[q].connect
    PROVE  q \in said' /\ GrantSeat(req'[q]) \in agreed' \ revoked'
<1> DEFINE x == req[q]
           y == req'[q]
<1>1. agreed \subseteq agreed' /\ said \subseteq said' BY Agreeing
<1>2. Fit(x) /\ x \in Requests /\ Turned(x, y) BY Typed, BaseStep DEF Shift, Turning
<1>3. Head(y.todo) \notin {"network", "wait", "cleared"} /\ y.todo # <<>> /\ y.connect OBVIOUS
<1>4. ASSUME x.todo # <<>>, Head(x.todo) \in {"list", "grant"}, x.connect, GrantSeat(y) = GrantSeat(x)
      PROVE  q \in said' /\ GrantSeat(y) \in agreed' \ revoked'
  <2>1. q \in said /\ GrantSeat(x) \in agreed \ revoked BY <1>4 DEF Lists
  <2>2. x.st = "open" BY <1>2, <1>4 DEF Fit, Staged
  <2> QED BY <1>1, <1>4, <2>1, <2>2, NotTaken
<1>5. CASE Stays(x, y)
  <2>1. /\ y.todo = x.todo /\ y.connect = x.connect /\ y.origin = x.origin /\ y.pk = x.pk
        /\ y.net = x.net /\ y.want = x.want
    <3> HIDE DEF x, y
    <3> QED BY <1>2, <1>5, StaysIs
  <2>2. GrantSeat(y) = GrantSeat(x) BY <2>1, SameSeat
  <2> QED BY <1>4, <2>1, <2>2
<1>7. ~Stops(x, y) BY <1>3 DEF Stops
<1>8. ~Cuts(x, y) BY <1>3 DEF Cuts
<1>6. CASE Goes(x, y)
  <2>1. x.connect /\ x.todo # <<>> /\ y.todo = Tail(x.todo) BY <1>6 DEF Goes, Edits
  <2>2. Head(x.todo) \in {"wait", "list"} BY <1>2, <2>1, ConnectHeads
  <2>3. GrantSeat(y) = GrantSeat(x)
    <3>1. y.origin = x.origin /\ y.pk = x.pk /\ y.net = x.net /\ y.want = x.want
      BY <1>6, <2>2 DEF Goes, Edits, PkReads
    <3> QED BY <3>1, SameSeat
  <2>4. CASE Head(x.todo) = "list" BY <1>4, <2>1, <2>3, <2>4
  <2>5. CASE Head(x.todo) = "wait"
    <3>1. x.st = "open" BY <1>2, <2>1 DEF Fit, Staged
    <3>2. q \in said' /\ (x.connect => GrantSeat(x) \in agreed' \ revoked')
      BY <1>6, <1>7, <1>8, <2>1, <2>5, <3>1, WaitGoes
    <3> QED BY <2>1, <2>3, <3>2
  <2> QED BY <2>2, <2>4, <2>5
<1>9. ~Skips(x, y)
  <2> SUFFICES ASSUME Skips(x, y) PROVE FALSE OBVIOUS
  <2>1. x.connect /\ x.todo # <<>> /\ Head(x.todo) = "session" BY <1>3 DEF Skips
  <2> HIDE DEF x
  <2> QED BY <1>2, <2>1, ConnectHeads
<1>10. ~Connects(x, y)
  <2>1. /\ Head(<<"network", "unlock", "known">>) = "network"
        /\ Head(<<"network", "known">>) = "network"
    BY Two, Three
  <2> QED BY <1>3, <2>1 DEF Connects
<1>11. ~Knows(x, y)
  <2>1. Head(<<"network">>) = "network" /\ Head(<<"wait", "list", "grant", "answer">>) = "wait"
          /\ Head(<<"wait", "list", "grant", "setNetwork", "answer">>) = "wait"
    BY One, Four, Five
  <2> QED BY <1>3, <2>1 DEF Knows
<1>12. ~Starts(x, y) BY <1>3 DEF Starts
<1> QED BY <1>2, <1>5, <1>6, <1>7, <1>8, <1>9, <1>10, <1>11, <1>12 DEF Turned

(* Unless a stale list was written, a seat taken back stays empty *)
LEMMA EmptySeat ==
    ASSUME Base, Lists, [Next]_vars, ~rewound' PROVE allow' \cap revoked' = {}
<1>1. ~rewound /\ allow \cap revoked = {} BY Agreeing DEF Lists
<1>2. CASE allow' = allow /\ revoked' \subseteq revoked BY <1>1, <1>2
<1>3. ASSUME NEW r \in Slots, Grant(r) PROVE allow' \cap revoked' = {}
  <2> DEFINE x == req[r]
  <2>1. /\ x.todo # <<>> /\ Head(x.todo) = "grant" /\ x.connect
        /\ IF GrantSeat(x) \in x.seen THEN allow' = allow ELSE allow' = x.seen \cup {GrantSeat(x)}
        /\ rewound' = (rewound \/ x.seen # allow) /\ revoked' = revoked
    BY <1>3, GrantIs
  <2>2. GrantSeat(x) \notin revoked BY <2>1 DEF Lists
  <2>3. x.seen = allow BY <2>1
  <2> HIDE DEF x
  <2> QED BY <1>1, <2>1, <2>2, <2>3
<1>4. ASSUME NEW r \in Slots, Revoke(r) PROVE allow' \cap revoked' = {}
  <2> DEFINE x == req[r]
             here == {s \in Seats : s[2] = x.pk /\ s[3] = x.net}
  <2>1. PICK gone \in SUBSET here :
               /\ revoked' \subseteq revoked \cup gone
               /\ \/ allow' = x.seen \ gone
                  \/ x.seen \cap here = {} /\ allow' = allow
               /\ rewound' = (rewound \/ x.seen # allow)
    <3>1. \A A, B, C : C = A \cup (B \ {GrantSeat(req[q]) : q \in {q \in said : Runs(q, {"grant"})}}) => C \subseteq A \cup B
      OBVIOUS
    <3> QED BY <1>4, <3>1, RevokeIs
  <2>2. x.seen = allow BY <2>1
  <2> HIDE DEF x, here
  <2> QED BY <1>1, <2>1, <2>2
<1>5. allow' = allow \/ \E r \in Slots : Grant(r) \/ Revoke(r) BY Agreeing
<1>6. revoked' \subseteq revoked \/ \E r \in Slots : Revoke(r) BY Agreeing
<1> QED BY <1>2, <1>3, <1>4, <1>5, <1>6

(* Unless a stale list was written, what a page asks about is stored *)
LEMMA PayloadStored ==
    ASSUME Base, Lists, [Next]_vars, ~rewound', NEW q \in pending' PROVE req'[q].connect \/ q \in payloads'
<1>1. ~rewound /\ \A p \in pending : req[p].connect \/ p \in payloads BY Agreeing DEF Lists
<1>2. q \in Slots BY BaseStep DEF Base, TypeOK
<1>3. q \in pending => Stays(req[q], req'[q]) BY BaseStep DEF Shift, Resting
<1>4. q \in pending => req'[q].connect = req[q].connect BY <1>2, <1>3, Typed, StaysIs
<1>5. CASE payloads' = payloads /\ pending' \subseteq pending BY <1>1, <1>4, <1>5
<1>6. ASSUME NEW r \in Slots, PutPayload(r) PROVE req'[q].connect \/ q \in payloads'
  <2>1. /\ pending' = pending \cup {r} /\ payloads' = req[r].seen \cup {r}
        /\ rewound' = (rewound \/ req[r].seen # payloads)
    BY <1>6 DEF PutPayload, Asks, StaleList
  <2> QED BY <1>1, <1>4, <2>1
<1>7. ASSUME NEW r \in Slots, PutCleared(r) PROVE req'[q].connect \/ q \in payloads'
  <2>1. /\ pending' = pending /\ payloads' = req[r].seen \ {r}
        /\ rewound' = (rewound \/ req[r].seen # payloads) /\ Head(req[r].todo) = "putCleared"
    BY <1>7 DEF PutCleared, Dropped, StaleList, At
  <2>2. r \notin pending BY <2>1 DEF Base, Waiting, At
  <2> QED BY <1>1, <1>4, <2>1, <2>2
<1>8. ASSUME NEW r \in Slots, Known(r) PROVE req'[q].connect \/ q \in payloads'
  <2>1. PICK y : Becomes(r, y) /\ (pending' = pending \/ (pending' = pending \cup {r} /\ y.connect))
    BY <1>8, KnownMoves
  <2>2. req'[r] = y BY <2>1 DEF Becomes, Base
  <2>3. payloads' = payloads BY <1>8 DEF Known, stored
  <2> QED BY <1>1, <1>4, <2>1, <2>2, <2>3
<1>9. (payloads' = payloads /\ pending' \subseteq pending) \/ \E r \in Slots : PutPayload(r) \/ PutCleared(r) \/ Known(r)
  <2> DEFINE P == payloads' = payloads /\ pending' \subseteq pending
  <2>1. CASE UNCHANGED vars BY <2>1 DEF vars, stored, worker
  <2>2. ASSUME NEW r \in Slots, ReadSteps(r) \/ Connect(r) PROVE P
    BY <2>2, ReadsShift, ConnectShifts DEF Passive, stored
  <2>3. ASSUME NEW r \in Slots, Windows(r) PROVE P
    <3>1. UNCHANGED stored BY <2>3, WindowsShift
    <3>2. pending' \in {pending, pending \ {r}}
      BY <2>3 DEF Windows, Mapped, Close, Timeout, Click, Resolve
    <3> QED BY <3>1, <3>2 DEF stored
  <2>4. ASSUME NEW r \in Slots, Grant(r) \/ Revoke(r) \/ SetNetwork(r) \/ SaveActive(r) PROVE P
    BY <2>4 DEF Grant, Revoke, SetNetwork, SaveActive
  <2>5. ASSUME NEW r \in Slots, Arrive(r) \/ SessionSteps(r) PROVE P
    BY <2>5, ArriveShifts, SessionShifts DEF stored
  <2>6. CASE lockSession \/ Restart BY <2>6 DEF lockSession, Restart, stored
  <2> QED BY <2>1, <2>2, <2>3, <2>4, <2>5, <2>6, NextIs DEF WriteSteps
<1> QED BY <1>5, <1>6, <1>7, <1>8, <1>9

(* Every step keeps the lists' agreement *)
LEMMA ListsStep ==
    ASSUME Base, Lists, [Next]_vars PROVE Lists'
<1>1. \A q \in Slots : /\ req'[q].todo # <<>> /\ Head(req'[q].todo) \in {"grant", "revoke", "revokeAll"} => req'[q].seen \subseteq agreed'
                       /\ req'[q].todo # <<>> /\ Head(req'[q].todo) \in {"list", "grant"} /\ req'[q].connect
                             => q \in said' /\ GrantSeat(req'[q]) \in agreed' \ revoked'
  BY ReadAgreed, GrantAgreed
<1>2. (~rewound => \A q \in pending : req[q].connect \/ q \in payloads)' BY PayloadStored
<1>3. \A q \in Slots : GrantSeat(req[q])' = GrantSeat(req'[q])
  BY DEF GrantSeat, mismatch
<1> QED BY <1>1, <1>2, <1>3, AllowAgreed, EmptySeat DEF Lists

(* Every origin taken is served *)
Taken == \A p \in connecting : \E r \in Slots : Serving(r, p)

(* Every step keeps the origins served *)
LEMMA TakenStep ==
    ASSUME Base, Taken, [Next]_vars PROVE Taken'
<1>1. Served BY BaseStep
<1>2. ASSUME NEW p \in connecting' PROVE \E r \in Slots : Serving(r, p)'
  BY <1>1 DEF Served, Taken
<1> QED BY <1>2 DEF Taken

(* OnlyAgreed, PayloadIsThere and ConnectNotWedged hold in every reachable state: interleaved     *)
(* grants, revocations, payloads and connects leave the shared storage entries in agreement with  *)
(* the requests                                                                                   *)
THEOREM StoresHold == Spec => []StoresAgree
<1>1. Init => Lists /\ Taken
  <2> SUFFICES ASSUME Init PROVE Lists /\ Taken OBVIOUS
  <2>1. /\ req = [r \in Slots |-> Blank] /\ agreed = allow /\ revoked = {} /\ pending = {}
        /\ connecting = {}
    BY DEF Init
  <2> QED BY <2>1, BlankIs DEF Lists, Taken
<1>2. Base /\ (Lists /\ Taken) /\ [Next]_vars => (Lists /\ Taken)' BY ListsStep, TakenStep
<1>3. Lists /\ Taken => StoresAgree
  BY DEF Lists, Taken, Serving, StoresAgree, OnlyAgreed, PayloadIsThere, ConnectNotWedged
<1> QED BY <1>1, <1>2, <1>3, SessionBase, PTL DEF Spec

-----------------------------------------------------------------------------
(* Only what the user approved is signed. *)

(* What a handler branches to signs nothing *)
LEMMA NoSigns ==
    /\ ~Has(<<>>, {"sign"}) /\ ~Has(<<"cleared", "putCleared">>, {"sign"})
    /\ ~Has(<<>>, PkReads) /\ ~Has(<<"cleared", "putCleared">>, PkReads)
    /\ ~Has(<<"network", "unlock", "known">>, {"sign"}) /\ ~Has(<<"network", "known">>, {"sign"})
    /\ ~Has(<<"network">>, {"sign"}) /\ ~Has(<<"wait", "list", "grant", "answer">>, {"sign"})
    /\ ~Has(<<"wait", "list", "grant", "setNetwork", "answer">>, {"sign"})
BY DEF Has, PkReads

(* What must come after A is not first *)
LEMMA PrecedesHead ==
    ASSUME NEW t \in Seq(Steps), t # <<>>, NEW A, NEW B, Precedes(t, A, B)
    PROVE  Head(t) \notin B
<1>1. t[1] = Head(t) /\ 1 \in 1..Len(t) BY Suffix
<1> QED BY <1>1 DEF Precedes

(* A connect signs nothing *)
LEMMA ConnectSigns ==
    ASSUME NEW x, NEW y, Fit(x), Connects(x, y) \/ Knows(x, y)
    PROVE  ~Has(y.todo, {"sign"}) /\ ~y.signed /\ ~x.signed /\ y.origin = x.origin
<1>1. CASE Connects(x, y)
  <2>1. Has(x.todo, {"connect"}) BY <1>1, HasTail DEF Connects, Fit, Formed
  <2>2. ~x.signed BY <2>1 DEF Fit, Connectable
  <2>3. y.todo \in {<<"network", "unlock", "known">>, <<"network", "known">>} /\ Kept(x, y)
    BY <1>1 DEF Connects
  <2> QED BY <2>2, <2>3, NoSigns DEF Kept
<1>2. CASE Knows(x, y)
  <2>1. x.connect BY <1>2, KnownFrom DEF Knows
  <2>2. ~x.signed BY <2>1 DEF Fit, Connectable, Connecting
  <2>3. /\ y.todo \in {<<"network">>, <<"wait", "list", "grant", "answer">>, <<"wait", "list", "grant", "setNetwork", "answer">>}
        /\ Kept(x, y)
    BY <1>2 DEF Knows
  <2> QED BY <2>2, <2>3, NoSigns DEF Kept
<1> QED BY <1>1, <1>2

(* An unlock skipped changes no order *)
LEMMA SkipPrecedes ==
    ASSUME NEW x, NEW y, Fit(x), Skips(x, y), NEW A, NEW B, Precedes(x.todo, A, B), "session" \notin A, "unlock" \notin A
    PROVE  Precedes(y.todo, A, B)
<1> DEFINE t == x.todo
           u == Tail(t)
<1>1. /\ t \in Seq(Steps) /\ t # <<>> /\ Head(t) = "session" /\ u # <<>> /\ Head(u) = "unlock"
      /\ y.todo = Tail(u) /\ Precedes(t, A, B)
  BY DEF Skips, Fit, Formed
<1> HIDE DEF t
<1>2. t[1] = "session" /\ u \in Seq(Steps) BY <1>1, Suffix
<1>3. Precedes(u, A, B) BY <1>1, <1>2, PrecedesTail
<1> HIDE DEF u
<1>4. u[1] = "unlock" BY <1>1, <1>2, Suffix
<1> QED BY <1>1, <1>2, <1>3, <1>4, PrecedesTail

(* A signature that still waits for the user's yes *)
Asking(x) == Precedes(x.todo, {"wait"}, {"sign"}) /\ ~x.signed
(* A signature that still waits for the allowlist *)
Checking(x) == Precedes(x.todo, {"allowed"}, {"sign"}) /\ ~x.signed
(* The user agreed to the page, for the account this request has read for good *)
Agreed(x) == (\E n \in Networks : <<x.origin, x.pk, n>> \in agreed) /\ ~Has(x.todo, PkReads)
(* What every signature of a page's request still waits for, or has had *)
Approved == \A q \in Slots : req[q].origin # None => (q \in said \/ Asking(req[q])) /\ (Agreed(req[q]) \/ Checking(req[q]))

(* A signature that still waits for A is not made by another step *)
LEMMA GoesSigned ==
    ASSUME NEW x, NEW y, Fit(x), Goes(x, y), NEW A, Precedes(x.todo, A, {"sign"}), ~x.signed
    PROVE  ~y.signed /\ (Head(x.todo) \notin A => Precedes(y.todo, A, {"sign"}))
<1> DEFINE t == x.todo
<1>1. t \in Seq(Steps) /\ t # <<>> /\ y.todo = Tail(t) /\ Precedes(t, A, {"sign"})
  BY DEF Fit, Formed, Goes
<1>2. Head(t) # "sign"
  <2> HIDE DEF t
  <2> QED BY <1>1, PrecedesHead
<1>3. ~y.signed BY <1>2 DEF Goes, Edits
<1>4. Head(t) \notin A => Precedes(Tail(t), A, {"sign"})
  <2> HIDE DEF t
  <2> QED BY <1>1, Suffix, PrecedesTail
<1> QED BY <1>1, <1>3, <1>4

(* A signature waits for the yes *)
LEMMA AskingStep ==
    ASSUME Base, [Next]_vars, NEW q \in Slots, req[q].origin # None => q \in said \/ Asking(req[q])
    PROVE  req'[q].origin # None => q \in said' \/ Asking(req'[q])
<1> DEFINE x == req[q]
           y == req'[q]
<1>1. said \subseteq said' BY Agreeing
<1>2. Fit(x) /\ x \in Requests /\ Turned(x, y) BY Typed, BaseStep DEF Shift, Turning
<1> SUFFICES ASSUME y.origin # None, q \notin said' PROVE Asking(y) OBVIOUS
<1>3. CASE Stays(x, y)
  <2>1. y.todo = x.todo /\ y.signed = x.signed /\ y.origin = x.origin
    <3> HIDE DEF x, y
    <3> QED BY <1>2, <1>3, StaysIs
  <2> QED BY <1>1, <2>1 DEF Asking
<1>4. CASE Stops(x, y) \/ Cuts(x, y)
  <2>1. y.signed = x.signed /\ y.origin = x.origin /\ y.todo \in {<<>>, <<"cleared", "putCleared">>}
    BY <1>4 DEF Stops, Cuts, Kept
  <2> HIDE DEF x, y
  <2> QED BY <1>1, <2>1, NoSigns, NotHas DEF Asking, x, y
<1>5. CASE Goes(x, y) /\ ~Stops(x, y) /\ ~Cuts(x, y)
  <2>1. x.origin = y.origin BY <1>5 DEF Goes, Edits
  <2>2. Asking(x) BY <1>1, <2>1
  <2>3. x.st = "open" /\ x.todo # <<>> BY <1>2, <1>5 DEF Goes, Fit, Staged
  <2>4. Head(x.todo) # "wait" BY <1>5, <2>3, WaitGoes
  <2> HIDE DEF x, y
  <2> QED BY <1>2, <1>5, <2>2, <2>4, GoesSigned DEF Asking
<1>6. CASE Skips(x, y)
  <2>1. x.origin = y.origin /\ y.signed = x.signed BY <1>6 DEF Skips
  <2>2. Asking(x) BY <1>1, <2>1
  <2> HIDE DEF x, y
  <2> QED BY <1>2, <1>6, <2>1, <2>2, SkipPrecedes DEF Asking
<1>7. CASE Connects(x, y) \/ Knows(x, y)
  <2> HIDE DEF x, y
  <2> QED BY <1>2, <1>7, ConnectSigns, NotHas DEF Asking
<1>8. CASE Starts(x, y)
  <2> DEFINE t == y.todo
  <2>1. t \in Programs /\ Head(t) \in {"session", "account"} /\ ~y.signed BY <1>8 DEF Starts
  <2> HIDE DEF t
  <2>2. Formed(t) /\ Drawn(t) BY <2>1, ProgramsFormed
  <2>3. t[1] = Head(t) BY <2>2, Suffix DEF Drawn, Formed
  <2>4. Precedes(t, {"wait"}, {"sign"}) BY <2>1, <2>2, <2>3 DEF Drawn
  <2> QED BY <2>1, <2>4 DEF Asking, t
<1> QED BY <1>2, <1>3, <1>4, <1>5, <1>6, <1>7, <1>8 DEF Turned

(* A signature waits for the allowlist *)
LEMMA CheckingStep ==
    ASSUME Base, Lists, [Next]_vars, NEW q \in Slots, req[q].origin # None => Agreed(req[q]) \/ Checking(req[q])
    PROVE  req'[q].origin # None => Agreed(req[q])' \/ Checking(req'[q])
<1> DEFINE x == req[q]
           y == req'[q]
           Seen(z) == \E n \in Networks : <<z.origin, z.pk, n>> \in agreed
           SeenNow == \E n \in Networks : <<y.origin, y.pk, n>> \in agreed'
<1>1. agreed \subseteq agreed' /\ allow \subseteq agreed BY Agreeing DEF Lists
<1>2. Fit(x) /\ x \in Requests /\ Turned(x, y) BY Typed, BaseStep DEF Shift, Turning
<1>0. Agreed(req[q])' <=> SeenNow /\ ~Has(y.todo, PkReads)
  BY DEF Agreed, Has, PkReads
<1>20. Agreed(x) <=> Seen(x) /\ ~Has(x.todo, PkReads)
  BY DEF Agreed
<1>21. ASSUME y.origin = x.origin, y.pk = x.pk, Seen(x) PROVE SeenNow
  BY <1>1, <1>21
<1> SUFFICES ASSUME y.origin # None PROVE (SeenNow /\ ~Has(y.todo, PkReads)) \/ Checking(y) BY <1>0
<1>3. CASE Stays(x, y)
  <2>1. y.todo = x.todo /\ y.signed = x.signed /\ y.origin = x.origin /\ y.pk = x.pk
    <3> HIDE DEF x, y
    <3> QED BY <1>2, <1>3, StaysIs
  <2> HIDE DEF Seen, SeenNow
  <2> QED BY <1>20, <1>21, <2>1 DEF Checking
<1>4. CASE Stops(x, y) \/ Cuts(x, y)
  <2>1. /\ y.signed = x.signed /\ y.origin = x.origin /\ y.pk = x.pk
        /\ y.todo \in {<<>>, <<"cleared", "putCleared">>}
    BY <1>4 DEF Stops, Cuts, Kept
  <2> HIDE DEF Seen, SeenNow
  <2>2. ~Has(y.todo, {"sign"}) /\ ~Has(y.todo, PkReads)
    <3> HIDE DEF y
    <3> QED BY <2>1, NoSigns
  <2> QED BY <1>20, <1>21, <2>1, <2>2, NotHas DEF Checking
<1>5. CASE Goes(x, y)
  <2>1. x.origin = y.origin /\ x.todo # <<>> /\ y.todo = Tail(x.todo) /\ x.todo \in Seq(Steps)
    BY <1>2, <1>5 DEF Goes, Edits, Fit, Formed
  <2>2. CASE Agreed(x)
    <3> DEFINE t == x.todo
    <3>1. ~Has(t, PkReads) BY <2>2 DEF Agreed
    <3>2. ~Has(Tail(t), PkReads) /\ Head(t) \notin PkReads
      <4>1. t \in Seq(Steps) /\ t # <<>> BY <2>1
      <4> HIDE DEF t
      <4> QED BY <3>1, <4>1, HasTail
    <3>3. y.pk = x.pk BY <1>5, <3>2 DEF Goes, Edits
    <3> HIDE DEF Seen, SeenNow
    <3> QED BY <1>20, <1>21, <2>1, <2>2, <3>2, <3>3
  <2>3. CASE Checking(x) /\ Head(x.todo) # "allowed"
    <3> HIDE DEF x, y
    <3> QED BY <1>2, <1>5, <2>3, GoesSigned DEF Checking
  <2>4. CASE Checking(x) /\ Head(x.todo) = "allowed"
    <3>1. ~y.signed
      <4> HIDE DEF x, y
      <4> QED BY <1>2, <1>5, <2>4, GoesSigned DEF Checking
    <3>2. CASE y.todo = <<>>
      <4>1. ~Has(y.todo, {"sign"}) BY <3>2, NoSigns
      <4> QED BY <3>1, <4>1, NotHas DEF Checking
    <3>3. CASE y.todo # <<>>
      <4>1. ~Stops(x, y) /\ ~Passing(x, y) /\ ~Starts(x, y)
        BY <2>1, <2>4, <3>3, BlankIs DEF Stops, Passing, Starts
      <4>2. ~Stays(x, y)
        <5> DEFINE t == x.todo
        <5>1. t \in Seq(Steps) /\ t # <<>> /\ y.todo = Tail(t) BY <2>1
        <5> HIDE DEF t
        <5>2. Tail(t) # t BY <5>1, Suffix
        <5>3. y.todo # x.todo BY <5>1, <5>2 DEF t
        <5> HIDE DEF x, y
        <5> QED BY <1>2, <5>3, StaysIs
      <4>3. Heeds(x, y) BY <4>1, <4>2, Kinds DEF Kind, Moves
      <4>4. Seat(x) \in allow /\ y.pk = x.pk
        <5>1. y.pk = x.pk BY <1>5, <2>4 DEF Goes, Edits, PkReads
        <5>2. Seat(x) \in allow BY <2>4, <3>3, <4>3 DEF Heeds
        <5> QED BY <5>1, <5>2
      <4>5. Seen(x)
        <5>1. Seat(x) \in Seats /\ Seat(x) \in agreed BY <1>1, <4>4 DEF Base, TypeOK
        <5>2. x.net \in Networks BY <5>1 DEF Seat, Seats
        <5>3. <<x.origin, x.pk, x.net>> \in agreed BY <5>1 DEF Seat
        <5> QED BY <5>2, <5>3
      <4>6. ~Has(Tail(x.todo), PkReads)
        <5> DEFINE t == x.todo
        <5>1. t \in Seq(Steps) /\ t # <<>> /\ Head(t) = "allowed" /\ Formed(t)
          BY <1>2, <2>1, <2>4 DEF Fit
        <5> HIDE DEF t
        <5>2. t[1] \in {"allowed"} BY <5>1, Suffix
        <5>3. NoneAfter(t, {"allowed"}, Reads \ {"secret"}) BY <5>1 DEF Formed
        <5>4. ~Has(Tail(t), Reads \ {"secret"}) BY <5>1, <5>2, <5>3, NoneAfterTail
        <5>5. ~Has(Tail(t), PkReads) BY <5>4 DEF Has, PkReads, Reads
        <5> QED BY <5>5 DEF t
      <4> HIDE DEF Seen, SeenNow
      <4> QED BY <1>21, <2>1, <4>4, <4>5, <4>6
    <3> QED BY <3>2, <3>3
  <2>5. Agreed(x) \/ Checking(x) BY <2>1
  <2> QED BY <2>2, <2>3, <2>4, <2>5
<1>6. CASE Skips(x, y)
  <2>1. x.origin = y.origin /\ y.signed = x.signed BY <1>6 DEF Skips
  <2>2. ~Agreed(x)
    <3>1. x.todo \in Seq(Steps) /\ x.todo # <<>> /\ Head(x.todo) \in PkReads
      BY <1>2, <1>6 DEF Skips, Fit, Formed, PkReads
    <3>2. Has(x.todo, PkReads) BY <3>1, HasTail
    <3> QED BY <3>2 DEF Agreed
  <2>3. Checking(x) BY <2>1, <2>2
  <2> HIDE DEF x, y
  <2> QED BY <1>2, <1>6, <2>1, <2>3, SkipPrecedes DEF Checking
<1>7. CASE Connects(x, y) \/ Knows(x, y)
  <2> HIDE DEF x, y
  <2> QED BY <1>2, <1>7, ConnectSigns, NotHas DEF Checking
<1>8. CASE Starts(x, y)
  <2> DEFINE t == y.todo
  <2>1. t \in Programs /\ Head(t) \in {"session", "account"} /\ ~y.signed BY <1>8 DEF Starts
  <2> HIDE DEF t
  <2>2. Formed(t) /\ Drawn(t) BY <2>1, ProgramsFormed
  <2>3. t[1] = Head(t) BY <2>2, Suffix DEF Drawn, Formed
  <2>4. Precedes(t, {"allowed"}, {"sign"}) BY <2>1, <2>2, <2>3 DEF Drawn
  <2> QED BY <2>1, <2>4 DEF Checking, t
<1> QED BY <1>2, <1>3, <1>4, <1>5, <1>6, <1>7, <1>8 DEF Turned

(* Every step keeps it *)
LEMMA ApprovedStep ==
    ASSUME Base, Lists, Approved, [Next]_vars PROVE Approved'
<1>1. ASSUME NEW q \in Slots, req'[q].origin # None PROVE (q \in said' \/ Asking(req'[q])) /\ (Agreed(req[q])' \/ Checking(req'[q]))
  BY <1>1, AskingStep, CheckingStep DEF Approved
<1>2. \A q \in Slots : Asking(req[q])' = Asking(req'[q]) /\ Checking(req[q])' = Checking(req'[q])
  BY DEF Asking, Checking, Precedes
<1> QED BY <1>1, <1>2 DEF Approved

(* OnlyApproved holds: nothing a page asks for is signed without the user's yes to that request,  *)
(* and never for a page, or as an account, the user has not agreed to                             *)
THEOREM ApprovalsHold == Spec => []OnlyApproved
<1>1. Init => Lists /\ Approved
  <2> SUFFICES ASSUME Init PROVE Lists /\ Approved OBVIOUS
  <2>1. req = [r \in Slots |-> Blank] /\ agreed = allow /\ revoked = {} /\ pending = {} BY DEF Init
  <2>2. Blank.origin = None BY DEF Blank
  <2> QED BY <2>1, <2>2, BlankIs DEF Lists, Approved
<1>2. Base /\ (Lists /\ Approved) /\ [Next]_vars => (Lists /\ Approved)' BY ListsStep, ApprovedStep
<1>3. Base /\ Approved => OnlyApproved
  BY DEF Approved, Asking, Agreed, Checking, OnlyApproved
<1> QED BY <1>1, <1>2, <1>3, SessionBase, PTL DEF Spec

-----------------------------------------------------------------------------
(* The session as a whole. *)

(* What a handler that has begun to write the session has left to write *)
UnlockAccount == <<"putAccount", "putSecret", "putSeed">>
UnlockSecret == <<"putSecret", "putSeed">>
UnlockSeed == <<"putSeed">>
SwitchActive == <<"saveActive", "putAccount", "putSecret">>
SwitchAccount == <<"putAccount", "putSecret">>
SwitchSecret == <<"putSecret">>
LockSecret == <<"dropSecret", "dropSeed">>
LockSeed == <<"dropSeed">>
Unlocking == {UnlockAccount, UnlockSecret, UnlockSeed}
Switching == {SwitchActive, SwitchAccount, SwitchSecret}
Locking == {LockSecret, LockSeed}
Hand(x) == IF x.begun THEN x.todo ELSE <<>>

(* The stages and how they follow each other *)
LEMMA StagesAre ==
    /\ Puts = Unlocking \cup Switching /\ Drops = Locking
    /\ Head(UnlockAccount) = "putAccount" /\ Tail(UnlockAccount) = UnlockSecret
    /\ Head(UnlockSecret) = "putSecret" /\ Tail(UnlockSecret) = UnlockSeed
    /\ Head(UnlockSeed) = "putSeed" /\ Tail(UnlockSeed) = <<>>
    /\ Head(SwitchActive) = "saveActive" /\ Tail(SwitchActive) = SwitchAccount
    /\ Head(SwitchAccount) = "putAccount" /\ Tail(SwitchAccount) = SwitchSecret
    /\ Head(SwitchSecret) = "putSecret" /\ Tail(SwitchSecret) = <<>>
    /\ Head(LockSecret) = "dropSecret" /\ Tail(LockSecret) = LockSeed
    /\ Head(LockSeed) = "dropSeed" /\ Tail(LockSeed) = <<>>
    /\ Tail(UNLOCK_WALLET) = UnlockAccount /\ Tail(SWITCH_ACCOUNT) = SwitchActive
    /\ Tail(LOCK_WALLET) = LockSecret
    /\ Head(UNLOCK_WALLET) = "active" /\ Head(SWITCH_ACCOUNT) = "seed"
    /\ Head(LOCK_WALLET) = "dropAccount"
<1>1. Puts = Unlocking \cup Switching /\ Drops = Locking
  BY Zenon DEF Puts, Drops, Unlocking, Switching, Locking, UnlockAccount, UnlockSecret,
     UnlockSeed, SwitchActive, SwitchAccount,
     SwitchSecret, LockSecret, LockSeed
<1>2. /\ Head(UnlockAccount) = "putAccount" /\ Tail(UnlockAccount) = UnlockSecret
      /\ Head(SwitchActive) = "saveActive" /\ Tail(SwitchActive) = SwitchAccount
  BY Three DEF UnlockAccount, UnlockSecret, SwitchActive, SwitchAccount
<1>3. /\ Head(UnlockSecret) = "putSecret" /\ Tail(UnlockSecret) = UnlockSeed
      /\ Head(SwitchAccount) = "putAccount" /\ Tail(SwitchAccount) = SwitchSecret
      /\ Head(LockSecret) = "dropSecret" /\ Tail(LockSecret) = LockSeed
  BY Two DEF UnlockSecret, UnlockSeed, SwitchAccount, SwitchSecret, LockSecret, LockSeed
<1>4. /\ Head(UnlockSeed) = "putSeed" /\ Tail(UnlockSeed) = <<>>
      /\ Head(SwitchSecret) = "putSecret" /\ Tail(SwitchSecret) = <<>>
      /\ Head(LockSeed) = "dropSeed" /\ Tail(LockSeed) = <<>>
  BY One DEF UnlockSeed, SwitchSecret, LockSeed
<1>5. Tail(UNLOCK_WALLET) = UnlockAccount /\ Tail(SWITCH_ACCOUNT) = SwitchActive
  BY Four DEF UnlockAccount, SwitchActive, UNLOCK_WALLET, SWITCH_ACCOUNT
<1>6. Tail(LOCK_WALLET) = LockSecret
  BY Three DEF LOCK_WALLET, LockSecret
<1> QED BY <1>1, <1>2, <1>3, <1>4, <1>5, <1>6, WritingGoes

(* No stage is another *)
LEMMA StagesDiffer ==
    /\ <<>> \notin Unlocking \cup Switching \cup Locking
    /\ \A t \in Unlocking : t \notin Switching \cup Locking
    /\ \A t \in Switching : t \notin Locking
    /\ UnlockAccount # UnlockSecret /\ UnlockAccount # UnlockSeed /\ UnlockSecret # UnlockSeed
    /\ SwitchActive # SwitchAccount /\ SwitchActive # SwitchSecret /\ SwitchAccount # SwitchSecret
    /\ LockSecret # LockSeed
    /\ UNLOCK_WALLET \notin {<<>>} \cup Unlocking \cup Switching \cup Locking
    /\ LOCK_WALLET \notin {<<>>} \cup Unlocking \cup Switching \cup Locking
    /\ UNLOCK_WALLET # LOCK_WALLET /\ UNLOCK_WALLET # SWITCH_ACCOUNT
<1>1. \A t \in Unlocking \cup Switching \cup Locking : t # <<>> BY WritingGoes, StagesAre
<1>2. <<>> \notin Unlocking \cup Switching \cup Locking BY <1>1
<1>3. UNLOCK_WALLET # <<>> /\ LOCK_WALLET # <<>> BY Three, Four DEF UNLOCK_WALLET, LOCK_WALLET
<1> USE DEF Unlocking, Switching, Locking
<1>4. UnlockAccount # UnlockSecret /\ UnlockAccount # UnlockSeed /\ UnlockSecret # UnlockSeed
  BY StagesAre
<1>5. /\ SwitchActive # SwitchAccount /\ SwitchActive # SwitchSecret /\ SwitchAccount # SwitchSecret
      /\ LockSecret # LockSeed
  BY StagesAre
<1>6. UnlockSeed # SwitchSecret /\ UnlockSecret # SwitchAccount BY StagesAre
<1>7. UnlockSecret # SwitchSecret
  <2>1. Tail(UnlockSecret) # Tail(SwitchSecret) BY <1>2, StagesAre
  <2> QED BY <2>1
<1>8. UnlockAccount # SwitchAccount
  <2>1. Tail(UnlockAccount) # Tail(SwitchAccount) BY <1>7, StagesAre
  <2> QED BY <2>1
<1>9. \A t \in Unlocking : t \notin Switching \cup Locking
  <2>1. UnlockAccount \notin Switching \cup Locking BY <1>8, StagesAre
  <2>2. UnlockSecret \notin Switching \cup Locking BY <1>6, <1>7, StagesAre
  <2>3. UnlockSeed \notin Switching \cup Locking BY <1>6, StagesAre
  <2> QED BY <2>1, <2>2, <2>3, Zenon
<1>10. \A t \in Switching : t \notin Locking BY StagesAre
<1>11. UNLOCK_WALLET \notin Unlocking \cup Switching \cup Locking /\ LOCK_WALLET \notin Unlocking \cup Switching \cup Locking
  BY StagesAre
<1>12. UNLOCK_WALLET # LOCK_WALLET /\ UNLOCK_WALLET # SWITCH_ACCOUNT BY StagesAre
<1> QED BY <1>2, <1>3, <1>4, <1>5, <1>9, <1>10, <1>11, <1>12

(* What a handler has in hand, from its record *)
LEMMA HandIs ==
    ASSUME NEW x, Fit(x)
    PROVE  /\ Hand(x) \in {<<>>} \cup Unlocking \cup Switching \cup Locking
           /\ Hand(x) # <<>> <=> x.st = "open" /\ x.begun
           /\ Hand(x) # <<>> => Hand(x) = x.todo /\ Head(x.todo) \in Writes
           /\ x.todo # <<>> /\ Head(x.todo) \in Writes \ {"active", "seed", "dropAccount"} => Hand(x) = x.todo /\ Hand(x) # <<>>
           /\ x.todo # <<>> /\ Head(x.todo) \in {"active", "seed", "dropAccount"} =>
                 Hand(x) = <<>> /\ ~x.begun /\ x.todo \in {UNLOCK_WALLET, SWITCH_ACCOUNT, LOCK_WALLET}
           /\ Hand(x) \in Unlocking \cup Switching => x.pk \in Accounts
           /\ x.todo = SWITCH_ACCOUNT => x.pk \in Accounts
<1>1. x \in Requests /\ Writing(x) /\ Staged(x) /\ Formed(x.todo) BY DEF Fit
<1>2. x.begun => x.todo \in {<<>>} \cup Unlocking \cup Switching \cup Locking
  BY <1>1, StagesAre DEF Writing
<1>3. x.begun \in BOOLEAN BY <1>1 DEF Requests
<1>4. Hand(x) # <<>> <=> x.st = "open" /\ x.begun BY <1>1, <1>3 DEF Hand, Staged
<1>5. Hand(x) # <<>> => Hand(x) = x.todo BY <1>4 DEF Hand
<1>6. \A t \in Unlocking \cup Switching \cup Locking : Head(t) \in Writes \ {"active", "seed", "dropAccount"}
  BY WritingGoes, StagesAre DEF Writes
<1>7. x.todo # <<>> /\ Head(x.todo) \in Writes => Has(x.todo, Writes) BY <1>1, HasTail DEF Formed
<1>8. x.todo # <<>> /\ Head(x.todo) \in Writes /\ ~x.begun => x.todo \in {SWITCH_ACCOUNT, UNLOCK_WALLET, LOCK_WALLET}
  BY <1>1, <1>7 DEF Writing
<1>9. x.todo # <<>> /\ Head(x.todo) \in Writes \ {"active", "seed", "dropAccount"} => x.begun
  BY <1>8, WritingGoes
<1>10. x.todo # <<>> /\ x.begun => Head(x.todo) \notin {"active", "seed", "dropAccount"}
  BY <1>2, <1>6
<1>11. Hand(x) \in Unlocking \cup Switching => x.pk # None
  <2>1. Hand(x) \in Puts => Hand(x) # <<>> BY WritingGoes
  <2> QED BY <1>1, <1>4, <1>5, <2>1, StagesAre DEF Writing
<1>12. x.todo = SWITCH_ACCOUNT => x.pk # None BY <1>1 DEF Writing
<1> HIDE DEF Hand
<1>13. x.pk \in Accounts \cup {None} BY <1>1 DEF Requests
<1>14. Hand(x) \in {<<>>} \cup Unlocking \cup Switching \cup Locking BY <1>2, <1>4, <1>5
<1>15. Hand(x) # <<>> => Head(x.todo) \in Writes BY <1>4, <1>5, <1>6, <1>14
<1>16. x.todo # <<>> /\ Head(x.todo) \in Writes \ {"active", "seed", "dropAccount"} => Hand(x) = x.todo /\ Hand(x) # <<>>
  BY <1>9 DEF Hand
<1>17. x.todo # <<>> /\ Head(x.todo) \in {"active", "seed", "dropAccount"} => Hand(x) = <<>> /\ ~x.begun
  BY <1>10 DEF Hand
<1>18. x.todo # <<>> /\ Head(x.todo) \in {"active", "seed", "dropAccount"} => x.todo \in {UNLOCK_WALLET, SWITCH_ACCOUNT, LOCK_WALLET}
  BY <1>8, <1>17 DEF Writes
<1> QED BY <1>4, <1>5, <1>11, <1>12, <1>13, <1>14, <1>15, <1>16, <1>17, <1>18

(* The model's test for an unlock, from the stage *)
LEMMA UnlocksIs ==
    ASSUME NEW x, Fit(x)
    PROVE  /\ Hand(x) # <<>> => (Unlocks(x) <=> Hand(x) \in Unlocking)
           /\ x.todo = UNLOCK_WALLET => Unlocks(x)
           /\ x.todo = LOCK_WALLET => ~Unlocks(x)
<1> DEFINE A == {"active", "putSeed"}
<1>1. x.todo \in Seq(Steps) BY DEF Fit, Formed
<1>2. Unlocks(x) <=> Has(x.todo, A) BY <1>1, RangeHas DEF Unlocks
<1>3. /\ Has(UnlockAccount, A) /\ Has(UnlockSecret, A) /\ Has(UnlockSeed, A)
      /\ Has(UNLOCK_WALLET, A) /\ ~Has(LOCK_WALLET, A)
  BY DEF Has, UnlockAccount, UnlockSecret, UnlockSeed, UNLOCK_WALLET, LOCK_WALLET
<1>4. /\ ~Has(SwitchActive, A) /\ ~Has(SwitchAccount, A) /\ ~Has(SwitchSecret, A)
      /\ ~Has(LockSecret, A) /\ ~Has(LockSeed, A)
  BY DEF Has, SwitchActive, SwitchAccount, SwitchSecret, LockSecret, LockSeed
<1> HIDE DEF A
<1>5. /\ Hand(x) \in {<<>>} \cup Unlocking \cup Switching \cup Locking
      /\ (Hand(x) # <<>> => Hand(x) = x.todo)
  BY HandIs
<1>6. ASSUME Hand(x) # <<>> PROVE Unlocks(x) <=> Hand(x) \in Unlocking
  <2>1. CASE Hand(x) \in Unlocking BY <1>2, <1>3, <1>5, <1>6, <2>1 DEF Unlocking
  <2>2. CASE Hand(x) \in Switching \cup Locking
    <3>1. ~Has(x.todo, A) BY <1>4, <1>5, <1>6, <2>2 DEF Switching, Locking
    <3>2. Hand(x) \notin Unlocking BY <2>2, StagesDiffer
    <3> QED BY <1>2, <3>1, <3>2
  <2> QED BY <1>5, <1>6, <2>1, <2>2
<1> QED BY <1>2, <1>3, <1>6

(* A step leaves q's writing of the session alone *)
Idle(q) ==
    /\ Hand(req'[q]) = Hand(req[q])
    /\ Hand(req[q]) # <<>> => req'[q].pk = req[q].pk
    /\ sealed' /\ req'[q].todo = UNLOCK_WALLET => req[q].todo = UNLOCK_WALLET

(* A handler that writes no session has none of it in hand *)
LEMMA CalmTurns ==
    ASSUME NEW x, NEW y, Fit(x), Fit(y), Turned(x, y), ~Starts(x, y), x.todo # <<>> => Head(x.todo) \notin Writes
    PROVE  Hand(y) = <<>> /\ Hand(x) = <<>> /\ y.todo # UNLOCK_WALLET /\ x.todo # UNLOCK_WALLET
<1>1. ~Has(x.todo, Writes)
  <2>1. Writing(x) BY DEF Fit
  <2>2. x.todo \notin Puts \cup Drops \cup {SWITCH_ACCOUNT, UNLOCK_WALLET, LOCK_WALLET}
    BY WritingGoes, StagesDiffer, StagesAre DEF Writes
  <2>3. ~Has(<<>>, Writes) BY DEF Has
  <2> QED BY <2>1, <2>2, <2>3 DEF Writing
<1>2. ~Has(y.todo, Writes)
  <2>1. CASE Stays(x, y)
    <3>1. x \in Requests BY DEF Fit
    <3> QED BY <1>1, <2>1, <3>1, StaysIs
  <2>2. CASE Goes(x, y)
    <3>1. x.todo \in Seq(Steps) /\ x.todo # <<>> /\ y.todo = Tail(x.todo)
      BY <2>2 DEF Goes, Fit, Formed
    <3> QED BY <1>1, <3>1, HasTail
  <2>3. CASE Stops(x, y) \/ Cuts(x, y)
    <3>1. y.todo \in {<<>>, <<"cleared", "putCleared">>} BY <2>3 DEF Stops, Cuts
    <3> QED BY <3>1, NewTodos
  <2>4. CASE Skips(x, y)
    <3> DEFINE t == x.todo
               u == Tail(t)
    <3>1. t \in Seq(Steps) /\ t # <<>> /\ u # <<>> /\ y.todo = Tail(u)
      BY <2>4 DEF Skips, Fit, Formed
    <3> HIDE DEF t
    <3>2. u \in Seq(Steps) /\ ~Has(u, Writes) BY <1>1, <3>1, HasTail, Suffix DEF t
    <3> HIDE DEF u
    <3> QED BY <3>1, <3>2, HasTail
  <2>5. CASE Connects(x, y) \/ Knows(x, y)
    <3>1. y.todo \in {<<"network", "unlock", "known">>, <<"network", "known">>,
                <<"network">>, <<"wait", "list", "grant", "answer">>, <<"wait", "list", "grant", "setNetwork", "answer">>}
      <4>1. CASE Connects(x, y)
        <5>1. y.todo = <<"network", "unlock", "known">> \/ y.todo = <<"network", "known">>
          BY <4>1 DEF Connects
        <5> QED BY <5>1, Zenon
      <4>2. CASE Knows(x, y)
        <5>1. y.todo = <<"network">> \/ y.todo = <<"wait", "list", "grant", "answer">> \/ y.todo = <<"wait", "list", "grant", "setNetwork", "answer">>
          BY <4>2 DEF Knows
        <5> QED BY <5>1, Zenon
      <4> QED BY <2>5, <4>1, <4>2
    <3> DEFINE t == y.todo
    <3>2. t \in {<<>>, <<"cleared", "putCleared">>, <<"network", "unlock", "known">>, <<"network", "known">>,
                      <<"network">>, <<"wait", "list", "grant", "answer">>, <<"wait", "list", "grant", "setNetwork", "answer">>}
      BY <3>1, Zenon
    <3> HIDE DEF t
    <3>3. ~Has(t, Writes) BY <3>2, NewTodos
    <3> QED BY <3>3 DEF t
  <2> QED BY <2>1, <2>2, <2>3, <2>4, <2>5 DEF Turned
<1>3. ASSUME NEW z, Fit(z), ~Has(z.todo, Writes) PROVE Hand(z) = <<>> /\ z.todo # UNLOCK_WALLET
  <2>1. z.todo # <<>> => Head(z.todo) \notin Writes BY <1>3, HasTail DEF Fit, Formed
  <2>2. Hand(z) = <<>>
    <3>1. Hand(z) # <<>> => z.todo # <<>> BY <1>3, HandIs
    <3> QED BY <1>3, <2>1, <3>1, HandIs
  <2>3. z.todo # UNLOCK_WALLET BY <2>1, StagesAre, StagesDiffer DEF Writes
  <2> QED BY <2>2, <2>3
<1> QED BY <1>1, <1>2, <1>3

(* A request that stays is left alone *)
LEMMA IdleStays ==
    ASSUME Base, NEW q \in Slots, Stays(req[q], req'[q]) PROVE Idle(q)
<1> DEFINE x == req[q]
           y == req'[q]
<1>1. x \in Requests /\ Stays(x, y) BY Typed
<1>2. y.todo = x.todo /\ y.begun = x.begun /\ y.pk = x.pk
  <2> HIDE DEF x, y
  <2> QED BY <1>1, StaysIs
<1> QED BY <1>2 DEF Idle, Hand

(* So is one that turns without writing *)
LEMMA IdleCalm ==
    ASSUME Base, Base', NEW q \in Slots, Turned(req[q], req'[q]), ~Starts(req[q], req'[q]),
           req[q].todo # <<>> => Head(req[q].todo) \notin Writes
    PROVE  Idle(q)
<1>1. Fit(req[q]) /\ Fit(req'[q]) BY DEF Base
<1> QED BY <1>1, CalmTurns DEF Idle

(* A step that leaves the session and all its writers alone *)
Still ==
    /\ UNCHANGED <<session, active, kept, overlapped>> /\ (sealed' => sealed)
    /\ \A q \in Slots : Idle(q)

(* And all of them when a handler makes a step that writes nothing of the session *)
LEMMA MoverIdle ==
    ASSUME Base, Base', NEW r \in Slots, Mover(r), Head(req[r].todo) \notin Writes, req[r].st # "new", NEW q \in Slots
    PROVE  Idle(q)
<1>1. CASE q = r
  <2>1. Turned(req[r], req'[r]) BY DEF Mover, Moves
  <2>2. ~Starts(req[r], req'[r]) BY BlankIs DEF Starts
  <2> QED BY <1>1, <2>1, <2>2, IdleCalm
<1>2. CASE q # r
  <2>1. Stays(req[q], req'[q]) BY <1>2 DEF Mover, Stays
  <2> QED BY <2>1, IdleStays
<1> QED BY <1>1, <1>2

(* Every group of actions but the session's own is still *)
LEMMA StillReads ==
    ASSUME Base, Base', NEW r \in Slots, ReadSteps(r), ~ReadActive(r), ~ReadSeed(r)
    PROVE  Still
<1>1. UNCHANGED Passive /\ Mover(r) BY ReadsShift
<1>2. req[r].st = "open" /\ Head(req[r].todo) \in Steps \ Writes
  <2> USE DEF Writes, Steps
  <2>1. CASE ReadSession(r) \/ ReadAccount(r) \/ ReadSecret(r) \/ ReadNetwork(r) \/ UnknownNetwork(r)
    BY <2>1 DEF At, ReadSession, ReadAccount, ReadSecret, ReadNetwork, UnknownNetwork
  <2>2. CASE Controls(r) \/ Allowed(r) \/ Fetch(r) \/ Sign(r) \/ ReadList(r)
    BY <2>2 DEF At, Controls, Allowed, Fetch, Sign, ReadList
  <2>3. CASE ReadPayloads(r) \/ Answer(r) \/ GiveUpUnlock(r)
    BY <2>3 DEF At, ReadPayloads, Answer, GiveUpUnlock
  <2> QED BY <2>1, <2>2, <2>3 DEF ReadSteps
<1> QED BY <1>1, <1>2, MoverIdle DEF Still, Passive, stored, history

LEMMA StillWrites ==
    ASSUME Base, Base', NEW r \in Slots, WriteSteps(r), ~SaveActive(r)
    PROVE  Still
<1>1. Mover(r) BY WritesShift
<1>2. /\ req[r].st = "open"
      /\ Head(req[r].todo) \in {"grant", "revoke", "revokeAll", "putPayload", "putCleared", "setNetwork"}
  BY DEF WriteSteps, At, Grant, Revoke, PutPayload, PutCleared, SetNetwork
<1>3. Head(req[r].todo) \notin Writes BY <1>2 DEF Writes
<1>4. UNCHANGED <<session, active, kept, overlapped, sealed>>
  BY DEF WriteSteps, Grant, Revoke, PutPayload, PutCleared, SetNetwork, history
<1> QED BY <1>1, <1>2, <1>3, <1>4, MoverIdle DEF Still

LEMMA StillConnects ==
    ASSUME Base, Base', NEW r \in Slots, Connect(r) \/ Known(r)
    PROVE  Still
<1>1. Mover(r) BY ConnectShifts, KnownShifts
<1>2. req[r].st = "open" /\ Head(req[r].todo) \in {"connect", "known"} BY DEF Connect, Known, At
<1>3. Head(req[r].todo) \notin Writes BY <1>2 DEF Writes
<1>4. UNCHANGED <<session, active, kept, overlapped, sealed>>
  BY DEF Connect, Known, Passive, stored, history
<1> QED BY <1>1, <1>2, <1>3, <1>4, MoverIdle DEF Still

LEMMA StillWindows ==
    ASSUME Base, Base', NEW r \in Slots, Windows(r)
    PROVE  Still
<1>1. ((r \in pending /\ Mover(r)) \/ req' = req) /\ UNCHANGED <<stored, overlapped, kept, sealed>>
  BY WindowsShift
<1>2. CASE req' = req BY <1>1, <1>2, IdleStays DEF Still, stored, Stays
<1>3. CASE r \in pending /\ Mover(r)
  <2>1. req[r].st = "open" /\ Head(req[r].todo) = "wait" BY <1>3 DEF Base, Waiting, At
  <2>2. Head(req[r].todo) \notin Writes BY <2>1 DEF Writes
  <2> QED BY <1>1, <1>3, <2>1, <2>2, MoverIdle DEF Still, stored
<1> QED BY <1>1, <1>2, <1>3

LEMMA StillArrives ==
    ASSUME Base, Base', NEW r \in Slots, Arrive(r)
    PROVE  Still
<1>1. /\ Starts(req[r], req'[r]) /\ (\A q \in Slots \ {r} : req'[q] = req[q])
      /\ sealed' = (sealed /\ ~Has(req'[r].todo, {"active"}))
      /\ UNCHANGED <<stored, overlapped, kept>>
  BY ArriveShifts
<1>2. sealed' => sealed /\ ~Has(req'[r].todo, {"active"})
  <2> HIDE DEF Has
  <2> QED BY <1>1
<1>3. Idle(r)
  <2>1. Hand(req[r]) = <<>> /\ Hand(req'[r]) = <<>> BY <1>1, BlankIs DEF Starts, Hand
  <2>2. Has(UNLOCK_WALLET, {"active"}) BY DEF Has, UNLOCK_WALLET
  <2> QED BY <1>2, <2>1, <2>2 DEF Idle
<1>4. \A q \in Slots : Idle(q) BY <1>1, <1>3, IdleStays DEF Stays
<1> QED BY <1>1, <1>2, <1>4 DEF Still, stored

(* A writer goes on to its next stage *)
LEMMA BegunHand ==
    ASSUME NEW x, NEW y, Fit(x), Goes(x, y), Head(x.todo) \in {"active", "seed", "dropAccount"} \/ x.begun
    PROVE  Hand(y) = Tail(x.todo) /\ y.todo = Tail(x.todo)
<1>1. y.todo = Tail(x.todo) /\ y.begun
  <2>1. x.begun \in BOOLEAN BY DEF Fit, Requests
  <2> QED BY <2>1 DEF Goes, Edits
<1> QED BY <1>1 DEF Hand

(* An unlock begins with the account stored as active *)
LEMMA ActiveRead ==
    ASSUME Base, NEW r \in Slots, ReadActive(r)
    PROVE  /\ Hand(req[r]) = <<>> /\ Hand(req'[r]) = UnlockAccount /\ req'[r].pk = active /\ req[r].todo = UNLOCK_WALLET
           /\ req'[r].todo # UNLOCK_WALLET /\ UNCHANGED Passive /\ \A q \in Slots \ {r} : Idle(q)
<1> DEFINE x == req[r]
           y == req'[r]
<1>1. x \in Requests /\ Fit(x) /\ x.st = "open" /\ x.todo # <<>> /\ Head(x.todo) = "active"
  BY Typed DEF ReadActive, At
<1>2. UNCHANGED Passive /\ Mover(r) BY ReadsShift DEF ReadSteps
<1>3. Hand(x) = <<>> /\ ~x.begun /\ x.todo = UNLOCK_WALLET BY <1>1, HandIs, StagesAre
<1>4. Goes(x, y) /\ y.pk = active
  <2> DEFINE z == [x EXCEPT !.pk = active, !.begun = TRUE]
  <2>1. req' = [req EXCEPT ![r] = Advanced(z)] BY DEF ReadActive, Becomes
  <2>2. y = Advanced(z) BY <2>1 DEF Base
  <2>3. z \in Requests
    <3>1. active \in Accounts \cup {None} BY Typed
    <3> QED BY <1>1, <3>1, Edited
  <2>4. Edits(x, z) /\ z.todo = x.todo /\ z.pk = active BY <1>1, Typed DEF Requests, Edits, PkReads
  <2> HIDE DEF z, x, y
  <2>5. Goes(x, y) /\ Alike(z, y) BY <1>1, <2>2, <2>3, <2>4, SetGoes
  <2> QED BY <2>4, <2>5 DEF Alike
<1>5. Hand(y) = UnlockAccount /\ y.todo = UnlockAccount BY <1>1, <1>3, <1>4, BegunHand, StagesAre
<1>6. \A q \in Slots \ {r} : Idle(q) BY <1>2, IdleStays DEF Mover, Stays
<1> QED BY <1>2, <1>3, <1>4, <1>5, <1>6, StagesDiffer DEF Unlocking

(* A switch begins when the seed is there *)
LEMMA SeedRead ==
    ASSUME Base, Base', NEW r \in Slots, ReadSeed(r)
    PROVE  /\ UNCHANGED Passive /\ \A q \in Slots \ {r} : Idle(q)
           /\ \/ Idle(r)
              \/ /\ Hand(req[r]) = <<>> /\ Hand(req'[r]) = SwitchActive /\ req'[r].pk = req[r].pk
                 /\ req'[r].todo # UNLOCK_WALLET /\ session.seed
<1> DEFINE x == req[r]
           y == req'[r]
<1>1. x \in Requests /\ Fit(x) /\ x.st = "open" /\ x.todo # <<>> /\ Head(x.todo) = "seed"
  BY Typed DEF ReadSeed, At
<1>2. UNCHANGED Passive /\ Mover(r) BY ReadsShift DEF ReadSteps
<1>3. Hand(x) = <<>> /\ ~x.begun /\ x.todo = SWITCH_ACCOUNT BY <1>1, HandIs, StagesAre
<1>4. \A q \in Slots \ {r} : Idle(q) BY <1>2, IdleStays DEF Mover, Stays
<1>5. CASE ~session.seed
  <2>1. req' = [req EXCEPT ![r] = Refused(x)] BY <1>5 DEF ReadSeed, Becomes
  <2>2. y = Refused(x) BY <2>1 DEF Base
  <2>3. y.todo = <<>> BY <1>1, <2>2, RefusedIs
  <2>4. Hand(y) = <<>> BY <2>3 DEF Hand
  <2> QED BY <1>2, <1>3, <1>4, <2>3, <2>4, StagesDiffer DEF Idle
<1>6. CASE session.seed
  <2> DEFINE z == [x EXCEPT !.begun = TRUE]
  <2>1. req' = [req EXCEPT ![r] = Advanced(z)] BY <1>6 DEF ReadSeed, Becomes
  <2>2. y = Advanced(z) BY <2>1 DEF Base
  <2>3. z \in Requests BY <1>1, Edited
  <2>4. Edits(x, z) /\ z.todo = x.todo /\ z.pk = x.pk BY <1>1 DEF Requests, Edits, PkReads
  <2>5. Goes(x, y) /\ y.pk = x.pk
    <3> HIDE DEF z, x, y
    <3>1. Goes(x, y) /\ Alike(z, y) BY <1>1, <2>2, <2>3, <2>4, SetGoes
    <3> QED BY <2>4, <3>1 DEF Alike
  <2>6. Hand(y) = SwitchActive /\ y.todo = SwitchActive BY <1>1, <1>3, <2>5, BegunHand, StagesAre
  <2>7. y.todo # UNLOCK_WALLET BY <2>6, StagesDiffer DEF Switching
  <2> QED BY <1>2, <1>3, <1>4, <1>6, <2>5, <2>6, <2>7
<1> QED BY <1>5, <1>6

(* A switch stores its account as active *)
LEMMA ActiveSaved ==
    ASSUME Base, NEW r \in Slots, SaveActive(r)
    PROVE  /\ Hand(req[r]) = SwitchActive /\ Hand(req'[r]) = SwitchAccount /\ req'[r].pk = req[r].pk
           /\ active' = req[r].pk
           /\ req'[r].todo # UNLOCK_WALLET /\ UNCHANGED <<session, overlapped, kept, sealed>> /\ \A q \in Slots \ {r} : Idle(q)
<1> DEFINE x == req[r]
           y == req'[r]
<1>1. x \in Requests /\ Fit(x) /\ x.st = "open" /\ x.todo # <<>> /\ Head(x.todo) = "saveActive"
  BY Typed DEF SaveActive, At
<1>2. Mover(r) /\ active' = x.pk /\ UNCHANGED <<session, overlapped, kept, sealed>>
  BY WritesShift DEF WriteSteps, SaveActive, history
<1>3. Hand(x) = x.todo /\ Hand(x) # <<>> /\ x.begun /\ Hand(x) = SwitchActive
  <2>1. Hand(x) = x.todo /\ Hand(x) # <<>> BY <1>1, HandIs DEF Writes
  <2>2. x.begun BY <2>1 DEF Hand
  <2>3. Hand(x) = SwitchActive BY <1>1, <2>1, HandIs, StagesAre DEF Unlocking, Switching, Locking
  <2> QED BY <2>1, <2>2, <2>3
<1>4. Goes(x, y) /\ y.pk = x.pk
  <2>1. y = Advanced(x) BY DEF SaveActive, Becomes, Base
  <2>2. Edits(x, x) BY <1>1 DEF Edits, PkReads
  <2> HIDE DEF x, y
  <2>3. Goes(x, y) /\ Alike(x, y) BY <1>1, <2>1, <2>2, SetGoes
  <2> QED BY <2>3 DEF Alike
<1>5. Hand(y) = SwitchAccount /\ y.todo = SwitchAccount
  <2>1. Hand(y) = Tail(x.todo) /\ y.todo = Tail(x.todo)
    <3> HIDE DEF x, y
    <3> QED BY <1>1, <1>3, <1>4, BegunHand
  <2>2. x.todo = SwitchActive BY <1>3
  <2> QED BY <2>1, <2>2, StagesAre
<1>6. \A q \in Slots \ {r} : Idle(q) BY <1>2, IdleStays DEF Mover, Stays
<1> QED BY <1>2, <1>3, <1>4, <1>5, <1>6, StagesDiffer DEF Switching

SessionHeads == {"putAccount", "putSecret", "putSeed", "dropAccount", "dropSecret", "dropSeed"}

(* A write of the session takes its writer to the next stage and leaves the others where they are *)
LEMMA SessionWritten ==
    ASSUME Base, Base', NEW r \in Slots, SessionSteps(r)
    PROVE  /\ Head(req[r].todo) \in SessionHeads /\ req[r].st = "open"
           /\ IF Head(req[r].todo) = "dropAccount" THEN Hand(req[r]) = <<>> /\ req[r].todo = LOCK_WALLET
              ELSE Hand(req[r]) = req[r].todo /\ Hand(req[r]) # <<>>
           /\ Hand(req'[r]) = Tail(req[r].todo) /\ req'[r].todo = Tail(req[r].todo)
           /\ req'[r].pk = req[r].pk
           /\ req'[r].todo # UNLOCK_WALLET
           /\ \A q \in Slots \ {r} : Idle(q)
           /\ UNCHANGED active /\ overlapped' = (overlapped \/ Overlap(r))
<1> DEFINE x == req[r]
           y == req'[r]
<1>1. x \in Requests /\ Fit(x) BY Typed
<1>2. x.st = "open" /\ x.todo # <<>> /\ Head(x.todo) \in SessionHeads
  BY DEF SessionSteps, PutAccount, PutSecret, PutSeed, DropAccount, DropSecret, DropSeed, At,
     SessionHeads
<1>3. Writer(x, y) /\ \A q \in Slots \ {r} : Bystander(q, r) BY WriterGoes
<1>4. UNCHANGED active /\ overlapped' = (overlapped \/ Overlap(r))
  BY DEF SessionSteps, PutAccount, PutSecret, PutSeed, DropAccount, DropSecret, DropSeed, Written
<1>5. IF Head(x.todo) = "dropAccount" THEN Hand(x) = <<>> /\ x.todo = LOCK_WALLET
      ELSE Hand(x) = x.todo /\ Hand(x) # <<>> /\ x.begun
  <2>1. CASE Head(x.todo) = "dropAccount"
    <3>1. Hand(x) = <<>> /\ x.todo = LOCK_WALLET BY <1>1, <1>2, <2>1, HandIs, StagesAre
    <3> QED BY <2>1, <3>1
  <2>2. CASE Head(x.todo) # "dropAccount"
    <3>1. Hand(x) = x.todo /\ Hand(x) # <<>> BY <1>1, <1>2, <2>2, HandIs DEF SessionHeads, Writes
    <3>2. x.begun BY <3>1 DEF Hand
    <3> QED BY <2>2, <3>1, <3>2
  <2> QED BY <2>1, <2>2
<1>6. Goes(x, y) /\ y.pk = x.pk BY <1>3 DEF Writer
<1>7. Hand(y) = Tail(x.todo) /\ y.todo = Tail(x.todo) BY <1>1, <1>5, <1>6, BegunHand
<1>8. y.todo # UNLOCK_WALLET
  <2>1. Fit(y) BY DEF Base
  <2>2. Hand(y) \in {<<>>} \cup Unlocking \cup Switching \cup Locking
    <3> HIDE DEF y
    <3> QED BY <2>1, HandIs
  <2> QED BY <1>7, <2>2, StagesDiffer
<1>9. ASSUME NEW q \in Slots \ {r} PROVE Idle(q)
  <2>1. CASE req'[q] = Disturbed(r, session')[q] BY <2>1, DisturbedIs, IdleStays
  <2>2. CASE Woken(q, req'[q])
    <3>1. Turned(req[q], req'[q]) /\ req[q].st = "open" /\ Head(req[q].todo) = "unlock"
      BY <2>2 DEF Woken, At, Turned
    <3>2. ~Starts(req[q], req'[q]) BY <3>1, BlankIs DEF Starts
    <3> QED BY <3>1, <3>2, IdleCalm DEF Writes
  <2> QED BY <1>3, <2>1, <2>2 DEF Bystander
<1> QED BY <1>2, <1>4, <1>5, <1>6, <1>7, <1>8, <1>9

(* Unless two writers overlap, the others have nothing in hand, or are unlocks for the same       *)
(* account                                                                                        *)
LEMMA Clear ==
    ASSUME Base, NEW r \in Slots, Head(req[r].todo) = "dropAccount" => req[r].todo = LOCK_WALLET,
           Head(req[r].todo) # "dropAccount" => Hand(req[r]) # <<>>, ~Overlap(r), NEW q \in Slots \ {r}
    PROVE  Hand(req[q]) = <<>> \/ (Hand(req[q]) \in Unlocking /\ Hand(req[r]) \in Unlocking /\ req[q].pk = req[r].pk)
<1>1. Fit(req[q]) /\ Fit(req[r]) BY DEF Base
<1>2. CASE ~Begun(q) BY <1>1, <1>2, HandIs DEF Begun
<1>3. CASE Same(r, q) /\ Begun(q)
  <2>1. Unlocks(req[r]) /\ Unlocks(req[q]) /\ req[r].pk = req[q].pk BY <1>3 DEF Same
  <2>2. Hand(req[q]) # <<>> BY <1>1, <1>3, HandIs DEF Begun
  <2>3. Head(req[r].todo) # "dropAccount" BY <1>1, <2>1, UnlocksIs
  <2> QED BY <1>1, <2>1, <2>2, <2>3, UnlocksIs
<1> QED BY <1>2, <1>3 DEF Overlap

(* A lock that holds: nothing is there, and only an unlock that has not come yet can put it back *)
Sealed == sealed =>
    /\ session.pk = None /\ session.secret = None /\ ~session.seed
    /\ \A q \in Slots : Hand(req[q]) \notin Unlocking \cup Switching /\ req[q].todo # UNLOCK_WALLET

(* Nobody writes but unlocks of one account *)
Alone == \A q, r \in Slots : q # r /\ Hand(req[q]) # <<>> /\ Hand(req[r]) # <<>> =>
    Hand(req[q]) \in Unlocking /\ Hand(req[r]) \in Unlocking /\ req[q].pk = req[r].pk
(* An open session has its own secret, or is about to get it *)
OneSecret == session.pk # None =>
    session.secret = session.pk \/ \E q \in Slots : Hand(req[q]) \in {UnlockSecret, SwitchSecret}
(* A locked session has no secret, but the one kept for a request or about to go *)
NoSecret == session.pk = None =>
    session.secret = None \/ kept \/ \E q \in Slots : Hand(req[q]) = LockSecret
(* What a writer has written is there *)
HalfPut == \A q \in Slots :
    /\ Hand(req[q]) \in {UnlockSecret, UnlockSeed, SwitchSecret} => session.pk = req[q].pk
    /\ Hand(req[q]) = UnlockSeed => session.secret = req[q].pk
(* What a lock has dropped is gone *)
HalfDropped == \A q \in Slots :
    /\ Hand(req[q]) \in Locking => session.pk = None
    /\ Hand(req[q]) = LockSeed => session.secret = None
(* The session's account is the one stored as active *)
Aligned == Alone =>
    /\ session.pk # None => active = session.pk \/ \E q \in Slots : Hand(req[q]) = SwitchAccount
    /\ \A q \in Slots : Hand(req[q]) \in Unlocking \cup {SwitchAccount, SwitchSecret} => active = req[q].pk
(* The session between two writes, unless two writers overlapped *)
Coherent == ~overlapped => OneSecret /\ NoSecret /\ HalfPut /\ HalfDropped /\ Aligned

(* The next state's hands, from its records *)
LEMMA HandPrimed == \A q \in Slots : (Hand(req[q]))' = Hand(req'[q])
BY DEF Hand

(* The session's type *)
LEMMA SessionIs == ASSUME Base PROVE session \in Sessions /\ active \in Accounts /\ active # None
BY TypeIs, SessionAssumption DEF Holdings

(* A still step changes none of it *)
LEMMA StillCoherent ==
    ASSUME Base, Still, Coherent, Sealed
    PROVE  Coherent' /\ Sealed'
<1>1. \A q \in Slots : Hand(req'[q]) = Hand(req[q]) /\ (Hand(req[q]) # <<>> => req'[q].pk = req[q].pk)
  BY DEF Still, Idle
<1>2. UNCHANGED <<session, active, kept, overlapped>> /\ (sealed' => sealed) BY DEF Still
<1>3. Sealed' BY <1>1, <1>2, HandPrimed DEF Sealed, Still, Idle
<1>4. ASSUME ~overlapped PROVE OneSecret' /\ NoSecret' /\ HalfPut' /\ HalfDropped' /\ Aligned'
  <2>1. OneSecret /\ NoSecret /\ HalfPut /\ HalfDropped /\ Aligned BY <1>4 DEF Coherent
  <2>2. OneSecret' BY <1>1, <1>2, <2>1, HandPrimed DEF OneSecret
  <2>3. NoSecret' BY <1>1, <1>2, <2>1, HandPrimed DEF NoSecret
  <2>4. HalfPut' BY <1>1, <1>2, <2>1, HandPrimed, StagesDiffer DEF HalfPut, Unlocking, Switching
  <2>5. HalfDropped' BY <1>1, <1>2, <2>1, HandPrimed DEF HalfDropped
  <2>6. Aligned' BY <1>1, <1>2, <2>1, HandPrimed, StagesDiffer DEF Aligned, Alone, Switching
  <2> QED BY <2>2, <2>3, <2>4, <2>5, <2>6
<1> QED BY <1>2, <1>3, <1>4 DEF Coherent

(* A handler that begins to write *)
LEMMA ReadCoherent ==
    ASSUME Base, Base', NEW r \in Slots, ReadActive(r) \/ ReadSeed(r), Coherent, Sealed
    PROVE  Coherent' /\ Sealed'
<1>1. UNCHANGED <<session, active, kept, overlapped, sealed>> /\ \A q \in Slots \ {r} : Idle(q)
  BY ActiveRead, SeedRead DEF Passive, stored, history
<1>2. CASE Idle(r)
  <2>1. Still BY <1>1, <1>2 DEF Still
  <2> QED BY <2>1, StillCoherent
<1>3. CASE ~Idle(r)
  <2> DEFINE h == Hand(req'[r])
  <2>1. /\ Hand(req[r]) = <<>> /\ h \in {UnlockAccount, SwitchActive} /\ req'[r].todo # UNLOCK_WALLET
        /\ h = UnlockAccount => req'[r].pk = active /\ req[r].todo = UNLOCK_WALLET
        /\ h = SwitchActive => session.seed
    <3>1. UnlockAccount # SwitchActive BY StagesDiffer DEF Unlocking, Switching
    <3>2. CASE ReadActive(r) BY <3>1, <3>2, ActiveRead
    <3>3. CASE ReadSeed(r) BY <1>3, <3>1, <3>3, SeedRead
    <3> QED BY <3>2, <3>3
  <2>2. \A q \in Slots \ {r} : Hand(req'[q]) = Hand(req[q]) /\ (Hand(req[q]) # <<>> => req'[q].pk = req[q].pk)
    BY <1>1 DEF Idle
  <2> HIDE DEF h
  <2>3. Sealed' BY <1>1, <2>1, <2>2, HandPrimed DEF Sealed, Idle, h
  <2>4. h \notin Locking \cup {<<>>, UnlockSecret, UnlockSeed, SwitchSecret, SwitchAccount}
    BY <2>1, StagesDiffer DEF Unlocking, Switching
  <2>5. ASSUME ~overlapped PROVE OneSecret' /\ NoSecret' /\ HalfPut' /\ HalfDropped' /\ Aligned'
    <3>1. OneSecret /\ NoSecret /\ HalfPut /\ HalfDropped /\ Aligned BY <2>5 DEF Coherent
    <3>2. OneSecret'
      <4>1. \A q \in Slots : Hand(req[q]) \in {UnlockSecret, SwitchSecret} => q # r
        BY <2>1, StagesDiffer DEF Unlocking, Switching
      <4> QED BY <1>1, <2>2, <3>1, <4>1, HandPrimed DEF OneSecret
    <3>3. NoSecret'
      <4>1. \A q \in Slots : Hand(req[q]) = LockSecret => q # r BY <2>1, StagesDiffer DEF Locking
      <4> QED BY <1>1, <2>2, <3>1, <4>1, HandPrimed DEF NoSecret
    <3>4. HalfPut'
      BY <1>1, <2>2, <2>4, <3>1, HandPrimed, StagesDiffer DEF HalfPut, Unlocking, Switching, h
    <3>5. HalfDropped'
      BY <1>1, <2>2, <2>4, <3>1, HandPrimed, StagesDiffer DEF HalfDropped, Locking, h
    <3>6. Aligned'
      <4> SUFFICES ASSUME Alone'
                   PROVE  /\ session.pk # None => active = session.pk \/ \E q \in Slots : Hand(req'[q]) = SwitchAccount
                          /\ \A q \in Slots : Hand(req'[q]) \in Unlocking \cup {SwitchAccount, SwitchSecret} => active = req'[q].pk
        BY <1>1, HandPrimed DEF Aligned
      <4>1. Alone BY <2>1, <2>2, HandPrimed DEF Alone
      <4>2. \A q \in Slots : Hand(req[q]) = SwitchAccount => q # r
        BY <2>1, StagesDiffer DEF Switching
      <4>3. h \in Unlocking => active = req'[r].pk BY <2>1, StagesDiffer DEF Unlocking, Switching
      <4>4. \A q \in Slots \ {r} : Hand(req'[q]) \in Unlocking \cup {SwitchAccount, SwitchSecret} => active = req'[q].pk
        BY <2>2, <3>1, <4>1, StagesDiffer DEF Aligned, Switching
      <4>5. session.pk # None => active = session.pk \/ \E q \in Slots : Hand(req'[q]) = SwitchAccount
        BY <2>2, <3>1, <4>1, <4>2 DEF Aligned
      <4> QED BY <2>4, <4>3, <4>4, <4>5 DEF h
    <3> QED BY <3>2, <3>3, <3>4, <3>5, <3>6
  <2> QED BY <1>1, <2>3, <2>5 DEF Coherent
<1> QED BY <1>2, <1>3

(* A switch that stores its account *)
LEMMA SavedCoherent ==
    ASSUME Base, Base', NEW r \in Slots, SaveActive(r), Coherent, Sealed
    PROVE  Coherent' /\ Sealed'
<1>1. /\ Hand(req[r]) = SwitchActive /\ Hand(req'[r]) = SwitchAccount /\ req'[r].pk = req[r].pk
      /\ active' = req[r].pk
      /\ req'[r].todo # UNLOCK_WALLET /\ UNCHANGED <<session, overlapped, kept, sealed>>
      /\ \A q \in Slots \ {r} : Hand(req'[q]) = Hand(req[q]) /\ (Hand(req[q]) # <<>> => req'[q].pk = req[q].pk)
      /\ \A q \in Slots \ {r} : req'[q].todo = UNLOCK_WALLET /\ sealed' => req[q].todo = UNLOCK_WALLET
  BY ActiveSaved DEF Idle
<1>2. SwitchActive \in Switching BY DEF Switching
<1>3. Sealed'
  <2>1. ~sealed BY <1>1, <1>2 DEF Sealed
  <2> QED BY <1>1, <2>1 DEF Sealed
<1>4. ASSUME ~overlapped PROVE OneSecret' /\ NoSecret' /\ HalfPut' /\ HalfDropped' /\ Aligned'
  <2>1. OneSecret /\ NoSecret /\ HalfPut /\ HalfDropped /\ Aligned BY <1>4 DEF Coherent
  <2>2. /\ SwitchAccount \notin Unlocking \cup Locking
        /\ SwitchAccount \notin {UnlockSecret, UnlockSeed, SwitchSecret, LockSeed}
        /\ SwitchActive \notin {UnlockSecret, SwitchSecret, LockSecret, <<>>}
        /\ SwitchAccount # <<>> /\ SwitchActive \notin Unlocking
    BY StagesDiffer DEF Unlocking, Switching, Locking
  <2>3. OneSecret' BY <1>1, <2>1, <2>2, HandPrimed DEF OneSecret
  <2>4. NoSecret' BY <1>1, <2>1, <2>2, HandPrimed DEF NoSecret
  <2>5. HalfPut' BY <1>1, <2>1, <2>2, HandPrimed, StagesDiffer DEF HalfPut, Unlocking, Switching
  <2>6. HalfDropped' BY <1>1, <2>1, <2>2, HandPrimed, StagesDiffer DEF HalfDropped, Locking
  <2>7. Aligned'
    <3> SUFFICES ASSUME Alone'
                 PROVE  /\ \E q \in Slots : Hand(req'[q]) = SwitchAccount
                        /\ \A q \in Slots : Hand(req'[q]) \in Unlocking \cup {SwitchAccount, SwitchSecret} => active' = req'[q].pk
      BY HandPrimed DEF Aligned
    <3>1. \A q \in Slots \ {r} : Hand(req'[q]) = <<>> BY <1>1, <2>2, HandPrimed DEF Alone
    <3>2. <<>> \notin Unlocking \cup {SwitchAccount, SwitchSecret} BY StagesDiffer DEF Switching
    <3> QED BY <1>1, <3>1, <3>2
  <2> QED BY <2>3, <2>4, <2>5, <2>6, <2>7
<1> QED BY <1>1, <1>3, <1>4 DEF Coherent

(* A final lock leaves nobody who could open the wallet *)
LEMMA FinalIs ==
    ASSUME Base, NEW r, Final(r), NEW q \in Slots \ {r}
    PROVE  Hand(req[q]) = <<>> /\ req[q].todo # UNLOCK_WALLET
<1>1. Fit(req[q]) /\ ~Begun(q) /\ ~(req[q].st = "open" /\ Unlocks(req[q])) BY DEF Final, Base
<1>2. Hand(req[q]) = <<>> BY <1>1, HandIs DEF Begun
<1>3. req[q].todo # UNLOCK_WALLET
  <2> SUFFICES ASSUME req[q].todo = UNLOCK_WALLET PROVE FALSE OBVIOUS
  <2>1. Unlocks(req[q]) BY <1>1, UnlocksIs
  <2>2. req[q].st = "open" BY <1>1, StagesDiffer DEF Fit, Staged
  <2> QED BY <1>1, <2>1, <2>2
<1> QED BY <1>2, <1>3

(* Which stage a step of the session is in *)
LEMMA SessionStages ==
    ASSUME Base, Base', NEW r \in Slots, SessionSteps(r)
    PROVE  LET h == Hand(req[r])
               t == Hand(req'[r])
           IN /\ PutAccount(r) => (h = UnlockAccount /\ t = UnlockSecret) \/ (h = SwitchAccount /\ t = SwitchSecret)
              /\ PutSecret(r) => (h = UnlockSecret /\ t = UnlockSeed) \/ (h = SwitchSecret /\ t = <<>>)
              /\ PutSeed(r) => h = UnlockSeed /\ t = <<>>
              /\ DropAccount(r) => h = <<>> /\ t = LockSecret
              /\ DropSecret(r) => h = LockSecret /\ t = LockSeed
              /\ DropSeed(r) => h = LockSeed /\ t = <<>>
<1> DEFINE h == Hand(req[r])
           t == Hand(req'[r])
           s == Head(req[r].todo)
<1>1. /\ IF s = "dropAccount" THEN h = <<>> /\ req[r].todo = LOCK_WALLET ELSE h = req[r].todo /\ h # <<>>
      /\ t = Tail(req[r].todo)
  BY SessionWritten
<1>2. h \in {<<>>} \cup Unlocking \cup Switching \cup Locking BY HandIs DEF Base
<1>3. /\ PutAccount(r) => s = "putAccount"
      /\ PutSecret(r) => s = "putSecret"
      /\ PutSeed(r) => s = "putSeed"
      /\ DropAccount(r) => s = "dropAccount"
      /\ DropSecret(r) => s = "dropSecret"
      /\ DropSeed(r) => s = "dropSeed"
  BY DEF At, PutAccount, PutSecret, PutSeed, DropAccount, DropSecret, DropSeed
<1>4. s # "dropAccount" => s = Head(h) /\ t = Tail(h) /\ h \in Unlocking \cup Switching \cup Locking
  BY <1>1, <1>2
<1>5. s = "dropAccount" => h = <<>> /\ t = LockSecret BY <1>1, StagesAre
<1> HIDE DEF h, t, s
<1>6. s = "putAccount" => (h = UnlockAccount /\ t = UnlockSecret) \/ (h = SwitchAccount /\ t = SwitchSecret)
  BY <1>4, StagesAre DEF Unlocking, Switching, Locking
<1>7. s = "putSecret" => (h = UnlockSecret /\ t = UnlockSeed) \/ (h = SwitchSecret /\ t = <<>>)
  BY <1>4, StagesAre DEF Unlocking, Switching, Locking
<1>8. s = "putSeed" => h = UnlockSeed /\ t = <<>>
  BY <1>4, StagesAre DEF Unlocking, Switching, Locking
<1>9. /\ s = "dropSecret" => h = LockSecret /\ t = LockSeed
      /\ s = "dropSeed" => h = LockSeed /\ t = <<>>
  BY <1>4, StagesAre DEF Unlocking, Switching, Locking
<1> QED BY <1>3, <1>5, <1>6, <1>7, <1>8, <1>9 DEF h, t

(* No writer opens a session that was locked for good *)
LEMMA SessionSealed ==
    ASSUME Base, Base', NEW r \in Slots, SessionSteps(r), Sealed
    PROVE  Sealed'
<1>1. /\ \A q \in Slots \ {r} : Idle(q)
      /\ req'[r].todo # UNLOCK_WALLET
  BY SessionWritten
<1>2. session \in Sessions BY SessionIs
<1>3. CASE PutAccount(r) \/ PutSecret(r) \/ PutSeed(r)
  <2>1. Hand(req[r]) \in Unlocking \cup Switching BY <1>3, SessionStages DEF Unlocking, Switching
  <2>2. ~sealed BY <2>1 DEF Sealed
  <2>3. sealed' = sealed BY <1>3 DEF PutAccount, PutSecret, PutSeed
  <2> QED BY <2>2, <2>3 DEF Sealed
<1>4. CASE DropAccount(r) \/ DropSecret(r)
  <2>1. /\ sealed' = sealed
        /\ session' \in {[session EXCEPT !.pk = None], [session EXCEPT !.secret = None]}
    BY <1>4 DEF DropAccount, DropSecret, Written
  <2>2. Hand(req'[r]) \notin Unlocking \cup Switching
    BY <1>4, SessionStages, StagesDiffer DEF Locking
  <2>3. sealed => session'.pk = None /\ session'.secret = None /\ ~session'.seed
    BY <1>2, <2>1 DEF Sealed, Sessions
  <2> QED BY <1>1, <2>1, <2>2, <2>3, HandPrimed DEF Sealed, Idle
<1>5. CASE DropSeed(r)
  <2>1. /\ session' = [session EXCEPT !.seed = FALSE]
        /\ (sealed' => sealed \/ (session.pk = None /\ session.secret = None /\ Final(r)))
    BY <1>5 DEF DropSeed, Written
  <2>2. Hand(req'[r]) = <<>> BY <1>5, SessionStages
  <2>3. ASSUME sealed' PROVE session'.pk = None /\ session'.secret = None /\ ~session'.seed
    BY <1>2, <2>1, <2>3 DEF Sealed, Sessions
  <2>4. ASSUME sealed', NEW q \in Slots \ {r} PROVE Hand(req'[q]) \notin Unlocking \cup Switching /\ req'[q].todo # UNLOCK_WALLET
    <3>1. CASE sealed BY <1>1, <2>4, <3>1 DEF Sealed, Idle
    <3>2. CASE Final(r) BY <1>1, <2>4, <3>2, FinalIs, StagesDiffer DEF Idle
    <3> QED BY <2>1, <2>4, <3>1, <3>2
  <2> QED BY <1>1, <2>2, <2>3, <2>4, HandPrimed, StagesDiffer DEF Sealed
<1> QED BY <1>3, <1>4, <1>5 DEF SessionSteps

(* The others while r writes and no two writers overlap *)
LEMMA Undisturbed ==
    ASSUME Base, Base', NEW r \in Slots, SessionSteps(r), ~Overlap(r)
    PROVE  /\ req'[r].pk = req[r].pk /\ active' = active
           /\ \A q \in Slots \ {r} :
                 /\ Hand(req'[q]) = Hand(req[q])
                 /\ \/ Hand(req[q]) = <<>>
                    \/ /\ Hand(req[q]) \in Unlocking /\ Hand(req[r]) \in Unlocking
                       /\ req[q].pk = req[r].pk /\ req'[q].pk = req'[r].pk
<1>1. /\ IF Head(req[r].todo) = "dropAccount" THEN Hand(req[r]) = <<>> /\ req[r].todo = LOCK_WALLET
         ELSE Hand(req[r]) = req[r].todo /\ Hand(req[r]) # <<>>
      /\ req'[r].pk = req[r].pk /\ (\A q \in Slots \ {r} : Idle(q)) /\ active' = active
  BY SessionWritten
<1>2. ASSUME NEW q \in Slots \ {r}
      PROVE  Hand(req[q]) = <<>> \/ (Hand(req[q]) \in Unlocking /\ Hand(req[r]) \in Unlocking /\ req[q].pk = req[r].pk)
  BY <1>1, Clear
<1> QED BY <1>1, <1>2, StagesDiffer DEF Idle

(* An unlock's or a switch's write *)
LEMMA PutCoherent ==
    ASSUME Base, Base', NEW r \in Slots, PutAccount(r) \/ PutSecret(r) \/ PutSeed(r), Coherent
    PROVE  Coherent'
<1> SUFFICES ASSUME ~overlapped, ~Overlap(r) PROVE OneSecret' /\ NoSecret' /\ HalfPut' /\ HalfDropped' /\ Aligned'
  BY SessionWritten DEF Coherent, SessionSteps
<1> DEFINE h == Hand(req[r])
           t == Hand(req'[r])
           a == req[r].pk
<1>1. OneSecret /\ NoSecret /\ HalfPut /\ HalfDropped /\ Aligned BY DEF Coherent
<1>2. /\ req'[r].pk = a /\ active' = active
      /\ \A q \in Slots \ {r} :
            /\ Hand(req'[q]) = Hand(req[q])
            /\ Hand(req[q]) = <<>> \/ (Hand(req[q]) \in Unlocking /\ h \in Unlocking /\ req[q].pk = a /\ req'[q].pk = a)
  BY Undisturbed DEF SessionSteps
<1>3. /\ PutAccount(r) => (h = UnlockAccount /\ t = UnlockSecret) \/ (h = SwitchAccount /\ t = SwitchSecret)
      /\ PutSecret(r) => (h = UnlockSecret /\ t = UnlockSeed) \/ (h = SwitchSecret /\ t = <<>>)
      /\ PutSeed(r) => h = UnlockSeed /\ t = <<>>
  BY SessionStages DEF SessionSteps
<1>4. session \in Sessions BY SessionIs
<1>5. /\ PutAccount(r) => session'.pk = a /\ session'.secret = session.secret
      /\ PutSecret(r) => session'.pk = session.pk /\ session'.secret = a
      /\ PutSeed(r) => session'.pk = session.pk /\ session'.secret = session.secret
  BY <1>4 DEF PutAccount, PutSecret, PutSeed, Written, Sessions
<1>6. h \in {UnlockAccount, UnlockSecret, UnlockSeed, SwitchAccount, SwitchSecret} BY <1>3
<1>7. a # None
  <2>1. h \in Unlocking \cup Switching BY <1>6 DEF Unlocking, Switching
  <2> QED BY <2>1, HandIs, SessionAssumption DEF Base
<1>8. Alone BY <1>2, StagesDiffer DEF Alone
<1>9. active = a BY <1>1, <1>6, <1>8 DEF Aligned, Unlocking
<1>10. h \in {UnlockSecret, UnlockSeed, SwitchSecret} => session.pk = a BY <1>1 DEF HalfPut
<1>11. h = UnlockSeed => session.secret = a BY <1>1 DEF HalfPut
<1>12. session'.pk = a
  <2>1. PutSecret(r) \/ PutSeed(r) => h \in {UnlockSecret, UnlockSeed, SwitchSecret} BY <1>3
  <2> QED BY <1>5, <1>10, <2>1
<1>13. \A q \in Slots \ {r} : Hand(req[q]) \notin Switching \cup Locking BY <1>2, StagesDiffer
<1>14. t \notin Locking /\ t # UnlockAccount BY <1>3, StagesDiffer DEF Unlocking, Switching
<1> HIDE DEF h, t, a
<1>15. OneSecret'
  <2>1. CASE PutAccount(r)
    <3>1. t \in {UnlockSecret, SwitchSecret} BY <1>3, <2>1
    <3> QED BY <3>1, HandPrimed DEF OneSecret, t
  <2>2. CASE PutSecret(r) BY <1>5, <1>12, <2>2 DEF OneSecret
  <2>3. CASE PutSeed(r) BY <1>3, <1>5, <1>11, <1>12, <2>3 DEF OneSecret
  <2> QED BY <2>1, <2>2, <2>3
<1>16. NoSecret' BY <1>7, <1>12 DEF NoSecret
<1>17. HalfPut'
  <2>1. t = UnlockSeed => session'.secret = a
    <3>1. t = UnlockSeed => PutSecret(r) BY <1>3, StagesDiffer DEF Unlocking, Switching
    <3> QED BY <1>5, <3>1
  <2>2. ASSUME NEW q \in Slots \ {r}, Hand(req[q]) = UnlockSeed PROVE session'.secret = a /\ req'[q].pk = a
    <3>1. req[q].pk = a /\ req'[q].pk = a /\ session.secret = a
      BY <1>1, <1>2, <2>2, StagesDiffer DEF HalfPut, Unlocking
    <3> QED BY <1>5, <3>1
  <2>3. ASSUME NEW q \in Slots, Hand(req'[q]) \in {UnlockSecret, UnlockSeed, SwitchSecret} PROVE session'.pk = req'[q].pk
    BY <1>2, <1>12, <2>3, StagesDiffer DEF Unlocking, Switching
  <2> QED BY <1>2, <2>1, <2>2, <2>3, HandPrimed DEF HalfPut, t
<1>18. HalfDropped'
  <2>1. \A q \in Slots : Hand(req'[q]) \notin Locking BY <1>2, <1>13, <1>14 DEF t
  <2> QED BY <2>1, HandPrimed DEF HalfDropped, Locking
<1>19. Aligned'
  <2>1. \A q \in Slots : Hand(req'[q]) \in Unlocking \cup {SwitchAccount, SwitchSecret} => req'[q].pk = a
    BY <1>2, StagesDiffer DEF Switching
  <2> QED BY <1>2, <1>9, <1>12, <2>1, HandPrimed DEF Aligned
<1> QED BY <1>15, <1>16, <1>17, <1>18, <1>19

(* A lock's removal *)
LEMMA DropCoherent ==
    ASSUME Base, Base', NEW r \in Slots, DropAccount(r) \/ DropSecret(r) \/ DropSeed(r), Coherent
    PROVE  Coherent'
<1> SUFFICES ASSUME ~overlapped, ~Overlap(r) PROVE OneSecret' /\ NoSecret' /\ HalfPut' /\ HalfDropped' /\ Aligned'
  BY SessionWritten DEF Coherent, SessionSteps
<1> DEFINE h == Hand(req[r])
           t == Hand(req'[r])
<1>1. OneSecret /\ NoSecret /\ HalfPut /\ HalfDropped /\ Aligned BY DEF Coherent
<1>2. /\ DropAccount(r) => h = <<>> /\ t = LockSecret
      /\ DropSecret(r) => h = LockSecret /\ t = LockSeed
      /\ DropSeed(r) => h = LockSeed /\ t = <<>>
  BY SessionStages DEF SessionSteps
<1>3. h \notin Unlocking BY <1>2, StagesDiffer DEF Locking
<1>4. \A q \in Slots \ {r} : Hand(req'[q]) = <<>>
  BY <1>3, Undisturbed DEF SessionSteps
<1>5. session \in Sessions BY SessionIs
<1>6. /\ DropAccount(r) => session'.pk = None
      /\ DropSecret(r) => session'.pk = session.pk /\ session'.secret = None
      /\ DropSeed(r) => session'.pk = session.pk /\ session'.secret = session.secret
  BY <1>5 DEF DropAccount, DropSecret, DropSeed, Written, Sessions
<1>7. h \in Locking => session.pk = None BY <1>1 DEF HalfDropped
<1>8. h = LockSeed => session.secret = None BY <1>1 DEF HalfDropped
<1> HIDE DEF h, t
<1>9. session'.pk = None BY <1>2, <1>6, <1>7 DEF Locking
<1>10. DropAccount(r) \/ session'.secret = None BY <1>2, <1>6, <1>8
<1>11. t \in {<<>>, LockSecret, LockSeed} /\ (t = LockSeed => DropSecret(r))
  BY <1>2, StagesDiffer DEF Locking
<1>12. OneSecret' BY <1>9 DEF OneSecret
<1>13. NoSecret' BY <1>2, <1>10, HandPrimed DEF NoSecret, t
<1>14. \A q \in Slots : Hand(req'[q]) \notin Unlocking \cup Switching
  BY <1>4, <1>11, StagesDiffer DEF Locking, t
<1>15. HalfPut' BY <1>14, HandPrimed DEF HalfPut, Unlocking, Switching
<1>16. HalfDropped'
  <2>1. LockSeed # <<>> BY StagesDiffer DEF Locking
  <2>2. \A q \in Slots : Hand(req'[q]) = LockSeed => session'.secret = None
    BY <1>4, <1>6, <1>11, <2>1 DEF t
  <2> QED BY <1>9, <2>2, HandPrimed DEF HalfDropped
<1>17. Aligned' BY <1>9, <1>14, HandPrimed DEF Aligned, Switching
<1> QED BY <1>12, <1>13, <1>15, <1>16, <1>17

(* The idle lock *)
LEMMA LockCoherent ==
    ASSUME Base, Base', lockSession, Coherent, Sealed
    PROVE  Coherent' /\ Sealed'
<1>1. \A q \in Slots : Idle(q)
  <2>1. \A q \in Slots : req'[q] = Disturbed(None, session')[q] BY LockShifts
  <2>2. \A q \in Slots : Stays(req[q], Disturbed(None, session')[q]) BY DisturbedIs
  <2> QED BY <2>1, <2>2, IdleStays
<1>2. session \in Sessions BY SessionIs
<1>3. /\ session' = IF pending = {} THEN Locked ELSE [session EXCEPT !.pk = None]
      /\ kept' = (pending # {} /\ session.secret # None)
      /\ sealed' = (sealed \/ (pending = {} /\ Final(None)))
      /\ overlapped' = (overlapped \/ \E q \in Slots : Begun(q))
      /\ active' = active
  BY DEF lockSession
<1>4. /\ session'.pk = None /\ (session'.secret = None \/ session'.secret = session.secret)
      /\ (pending = {} => session' = Locked)
  BY <1>2, <1>3 DEF Locked, Sessions
<1>5. Sealed'
  <2>1. ASSUME sealed', sealed PROVE session'.pk = None /\ session'.secret = None /\ ~session'.seed
    BY <1>2, <1>3, <2>1 DEF Sealed, Locked, Sessions
  <2>2. ASSUME sealed', ~sealed PROVE session'.pk = None /\ session'.secret = None /\ ~session'.seed
    BY <1>3, <2>2 DEF Locked
  <2>3. ASSUME sealed', NEW q \in Slots PROVE Hand(req'[q]) \notin Unlocking \cup Switching /\ req'[q].todo # UNLOCK_WALLET
    <3>1. CASE sealed BY <1>1, <2>3, <3>1 DEF Sealed, Idle
    <3>2. CASE Final(None)
      <4>1. q \in Slots \ {None} BY SessionAssumption
      <4>2. Hand(req[q]) = <<>> /\ req[q].todo # UNLOCK_WALLET BY <3>2, <4>1, FinalIs
      <4> QED BY <1>1, <2>3, <4>2, StagesDiffer DEF Idle
    <3> QED BY <1>3, <2>3, <3>1, <3>2
  <2> QED BY <2>1, <2>2, <2>3, HandPrimed DEF Sealed
<1>6. ASSUME ~overlapped' PROVE OneSecret' /\ NoSecret' /\ HalfPut' /\ HalfDropped' /\ Aligned'
  <2>1. \A q \in Slots : ~Begun(q) BY <1>3, <1>6
  <2>2. \A q \in Slots : Hand(req'[q]) = <<>> BY <1>1, <2>1, HandIs DEF Idle, Begun, Base
  <2>3. session'.secret = None \/ kept'
    BY <1>2, <1>3 DEF Locked, Sessions
  <2>4. OneSecret' /\ NoSecret' BY <1>4, <2>3 DEF OneSecret, NoSecret
  <2>5. HalfPut' /\ HalfDropped'
    BY <1>4, <2>2, HandPrimed, StagesDiffer DEF HalfPut, HalfDropped, Unlocking, Switching,
       Locking
  <2>6. Aligned' BY <1>4, <2>2, HandPrimed, StagesDiffer DEF Aligned, Switching
  <2> QED BY <2>4, <2>5, <2>6
<1> QED BY <1>5, <1>6 DEF Coherent

(* A restart ends what was half done, and marks it *)
LEMMA RestartCoherent ==
    ASSUME Base, Base', Restart, Coherent, Sealed
    PROVE  Coherent' /\ Sealed'
<1>1. ASSUME NEW q \in Slots PROVE Hand(req'[q]) = <<>> /\ (Hand(req[q]) # <<>> => Begun(q)) /\ (req'[q].todo # <<>> => req'[q] = req[q])
  <2>1. IF req[q].st = "open" THEN Stops(req[q], req'[q]) ELSE req'[q] = req[q] BY RestartShifts
  <2>2. Fit(req[q]) BY DEF Base
  <2>3. CASE req[q].st = "open" BY <2>1, <2>2, <2>3, HandIs DEF Stops, Hand, Begun
  <2>4. CASE req[q].st # "open" BY <2>1, <2>2, <2>4, HandIs
  <2> QED BY <2>3, <2>4
<1>2. /\ UNCHANGED <<session, active, kept, sealed>>
      /\ overlapped' = (overlapped \/ \E q \in Slots : Begun(q))
  BY DEF Restart, stored
<1>3. Sealed' BY <1>1, <1>2, HandPrimed, StagesDiffer DEF Sealed
<1>4. ASSUME ~overlapped' PROVE OneSecret' /\ NoSecret' /\ HalfPut' /\ HalfDropped' /\ Aligned'
  <2>1. Still
    <3>1. \A q \in Slots : Hand(req[q]) = <<>> BY <1>1, <1>2, <1>4
    <3>2. overlapped' = overlapped
      <4>1. ~overlapped /\ overlapped' \in BOOLEAN /\ overlapped \in BOOLEAN
        <5>1. (Flags)' /\ Flags
          <6>1. (Base => Holdings)' BY TypeIs, PTL
          <6> QED BY <6>1, TypeIs DEF Holdings
        <5> QED BY <1>2, <1>4, <5>1 DEF Flags
      <4> QED BY <1>4, <4>1
    <3> QED BY <1>1, <1>2, <3>1, <3>2, StagesDiffer DEF Still, Idle
  <2> QED BY <1>4, <2>1, StillCoherent DEF Coherent
<1> QED BY <1>3, <1>4 DEF Coherent

(* Every step keeps the session coherent and a lock sealed *)
LEMMA CoherentStep ==
    ASSUME Base, Coherent, Sealed, [Next]_vars
    PROVE  Coherent' /\ Sealed'
<1>1. Base' BY BaseStep
<1>2. CASE UNCHANGED vars
  <2>1. Still BY <1>2, IdleStays DEF Still, vars, stored, worker, history, Stays
  <2> QED BY <2>1, StillCoherent
<1>3. ASSUME NEW r \in Slots, Arrive(r) \/ ReadSteps(r) \/ WriteSteps(r) \/ Connect(r) \/ Known(r) \/ Windows(r)
      PROVE  Coherent' /\ Sealed'
  BY <1>1, <1>3, StillArrives, StillReads, ReadCoherent, StillWrites, SavedCoherent,
     StillConnects, StillWindows, StillCoherent
<1>4. ASSUME NEW r \in Slots, SessionSteps(r) PROVE Coherent' /\ Sealed'
  BY <1>1, <1>4, SessionSealed, PutCoherent, DropCoherent DEF SessionSteps
<1>5. CASE lockSession BY <1>1, <1>5, LockCoherent
<1>6. CASE Restart BY <1>1, <1>6, RestartCoherent
<1> QED BY <1>2, <1>3, <1>4, <1>5, <1>6, NextIs

(* Both hold at first *)
LEMMA CoherentInit ==
    ASSUME Init PROVE Coherent /\ Sealed
<1>1. \A q \in Slots : req[q] = Blank BY DEF Init
<1>2. \A q \in Slots : Hand(req[q]) = <<>> /\ req[q].todo # UNLOCK_WALLET
  BY <1>1, BlankIs, StagesDiffer DEF Hand
<1>3. sealed = (session.pk = None) /\ active \in Accounts
      /\ session \in {[pk |-> None, secret |-> None, seed |-> FALSE], [pk |-> active, secret |-> active, seed |-> TRUE]}
  <2>1. (CHOOSE a \in Accounts : TRUE) \in Accounts BY SessionAssumption
  <2> QED BY <2>1 DEF Init
<1>4. session.pk = None => session.secret = None /\ ~session.seed BY <1>3, SessionAssumption
<1>5. session.pk # None => session.pk = active /\ session.secret = session.pk BY <1>3
<1>6. Sealed BY <1>2, <1>3, <1>4, StagesDiffer DEF Sealed
<1>7. OneSecret /\ NoSecret BY <1>4, <1>5 DEF OneSecret, NoSecret
<1>8. HalfPut /\ HalfDropped
  BY <1>2, StagesDiffer DEF HalfPut, HalfDropped, Unlocking, Switching, Locking
<1>9. Aligned BY <1>2, <1>5, StagesDiffer DEF Aligned, Switching
<1> QED BY <1>6, <1>7, <1>8, <1>9 DEF Coherent

(* With no writer under way, coherent is whole *)
LEMMA CoherentSession ==
    ASSUME Base, Coherent, Sealed PROVE SessionInv
<1>1. RestCoherent
  <2> SUFFICES ASSUME AtRest, ~overlapped
               PROVE  /\ session.pk # None => session.secret = session.pk /\ active = session.pk
                      /\ session.pk = None => session.secret = None \/ kept
    BY DEF RestCoherent
  <2>1. \A q \in Slots : Hand(req[q]) = <<>> BY HandIs DEF AtRest, Begun, Base
  <2>2. Alone BY <2>1 DEF Alone
  <2> QED
    BY <2>1, <2>2, StagesDiffer DEF Coherent, OneSecret, NoSecret, Aligned, Unlocking, Switching,
       Locking
<1>2. LockHolds BY DEF Sealed, LockHolds
<1> QED BY <1>1, <1>2 DEF SessionInv, Base

(* SessionInv holds: the types, the session whole at rest (RestCoherent), and a lock that nothing *)
(* but a password opens (LockHolds), for any requests, interleaved as they may be                 *)
THEOREM SessionWhole == Spec => []SessionInv
<1>1. Init => Base /\ Coherent /\ Sealed BY BaseInit, CoherentInit
<1>2. Base /\ Coherent /\ Sealed /\ [Next]_vars => (Base /\ Coherent /\ Sealed)'
  BY BaseStep, CoherentStep
<1>3. Base /\ Coherent /\ Sealed => SessionInv BY CoherentSession
<1> QED BY <1>1, <1>2, <1>3, PTL DEF Spec

-----------------------------------------------------------------------------
(* The account that signs is the one that is reported. *)

(* The account whose keys the session holds *)
Held == IF session.pk # None THEN session.pk ELSE session.secret
(* The accounts whose keys a handler has read *)
Read(x) == {x.pk, x.secret} \ {None}
(* A handler no write has disturbed will sign, or has signed, for the account it names *)
Reports(x) ==
    ~x.moved => /\ Has(x.todo, {"sign"}) => Read(x) \subseteq {Held}
                /\ x.signed => x.pk = x.secret
Reported == ~overlapped => \A q \in Slots : Reports(req[q])

(* The secret a reader meets is the held account's, unless the session is half written *)
LEMMA WholeHeld ==
    ASSUME Base, Coherent, ~overlapped, ~HalfWritten
    PROVE  session.secret = Held
<1> DEFINE A == {"putSecret", "dropSecret"}
<1>1. ASSUME NEW q \in Slots PROVE Hand(req[q]) \notin {UnlockSecret, SwitchSecret}
  <2> DEFINE x == req[q]
  <2>1. Fit(x) /\ x.todo \in Seq(Steps) BY DEF Base, Fit, Formed
  <2>2. Has(UnlockSecret, A) /\ Has(SwitchSecret, A) BY DEF Has, UnlockSecret, SwitchSecret
  <2>3. Hand(x) \in {UnlockSecret, SwitchSecret} => Hand(x) # <<>>
    BY StagesDiffer DEF Unlocking, Switching
  <2>4. Hand(x) # <<>> => x.st = "open" /\ x.begun /\ Hand(x) = x.todo BY <2>1, HandIs
  <2>5. Runs(q, A) <=> x.st = "open" /\ Has(x.todo, A) BY <2>1, RangeHas DEF Runs
  <2>6. ~(x.st = "open" /\ x.begun /\ Has(x.todo, A)) BY <2>5 DEF HalfWritten, Begun
  <2> QED BY <2>2, <2>3, <2>4, <2>6
<1>2. OneSecret BY DEF Coherent
<1> QED BY <1>1, <1>2 DEF Held, OneSecret

(* What a turn may change of what is signed *)
LEMMA SignLeft ==
    ASSUME NEW x, NEW y, Fit(x), Fit(y), Turned(x, y), x.todo # <<>>
    PROVE  LET h == Head(x.todo) IN
           /\ y.pk # x.pk => h \in PkReads
           /\ y.secret # x.secret => h = "secret"
           /\ y.signed # x.signed => h = "sign" /\ y.signed
           /\ Has(y.todo, {"sign"}) => Has(x.todo, {"sign"})
<1> DEFINE h == Head(x.todo)
<1>1. x \in Requests /\ x.todo \in Seq(Steps) BY DEF Fit, Formed
<1>2. \A A : Has(Tail(x.todo), A) => Has(x.todo, A)
  <2> DEFINE t == x.todo
  <2>1. t \in Seq(Steps) /\ t # <<>> BY <1>1
  <2> HIDE DEF t
  <2>2. \A A : Has(Tail(t), A) => Has(t, A) BY <2>1, HasTail
  <2> QED BY <2>2 DEF t
<1>3. CASE Stays(x, y)
  <2> HIDE DEF h
  <2> QED BY <1>1, <1>3, StaysIs
<1>4. CASE Goes(x, y) BY <1>2, <1>4 DEF Goes, Edits
<1>5. CASE Stops(x, y) \/ Cuts(x, y)
  <2>1. y.todo \in {<<>>, <<"cleared", "putCleared">>} /\ Kept(x, y) BY <1>5 DEF Stops, Cuts
  <2> QED BY <2>1, NoSigns DEF Kept
<1>6. CASE Connects(x, y) \/ Knows(x, y)
  <2>1. ~Has(y.todo, {"sign"})
    BY <1>6, NewTodos DEF Connects, Knows
  <2>2. Kept(x, y) BY <1>6 DEF Connects, Knows
  <2> QED BY <2>1, <2>2 DEF Kept
<1>7. CASE Skips(x, y)
  <2> DEFINE t == Tail(x.todo)
  <2>1. t \in Seq(Steps) /\ t # <<>> BY <1>1, <1>7, Suffix DEF Skips
  <2>2. y.todo = Tail(t) /\ h = "session" /\ y.secret = x.secret /\ y.signed = x.signed
    BY <1>7 DEF Skips
  <2> HIDE DEF t, h
  <2>3. Has(Tail(t), {"sign"}) => Has(t, {"sign"}) BY <2>1, HasTail
  <2> QED BY <1>2, <2>2, <2>3 DEF t, h, PkReads
<1>8. CASE Starts(x, y) BY <1>8, BlankIs DEF Starts
<1> QED BY <1>3, <1>4, <1>5, <1>6, <1>7, <1>8 DEF Turned

(* A handler's own step that does not write the session *)
LEMMA MoveReports ==
    ASSUME Base, Base', Coherent, ~overlapped, NEW r \in Slots, Mover(r), req[r].todo # <<>>,
           session' = session, Reports(req[r])
    PROVE  Reports(req'[r])
<1> DEFINE x == req[r]
           y == req'[r]
           h == Head(x.todo)
           S == {"sign"}
<1>1. Fit(x) /\ Fit(y) /\ Turned(x, y) /\ Heeds(x, y) /\ x.todo \in Seq(Steps) /\ x.todo # <<>>
  BY Typed DEF Mover, Moves, Base, Fit, Formed
<1>2. /\ y.pk # x.pk => h \in PkReads
      /\ y.secret # x.secret => h = "secret"
      /\ y.signed # x.signed => h = "sign" /\ y.signed
      /\ Has(y.todo, S) => Has(x.todo, S)
  BY <1>1, SignLeft
<1>3. \A A : h \in A => Has(x.todo, A)
  <2> DEFINE t == x.todo
  <2>1. t \in Seq(Steps) /\ t # <<>> BY <1>1
  <2> HIDE DEF t
  <2>2. \A A : Head(t) \in A => Has(t, A) BY <2>1, HasTail
  <2> QED BY <2>2 DEF t
<1>4. ~x.moved => /\ Has(x.todo, S) => Read(x) \subseteq {Held}
                  /\ x.signed => x.pk = x.secret
  BY DEF Reports
<1>5. x.moved /\ ~y.moved => h = "session" /\ (y.todo # <<>> \/ y.moved # x.moved) BY <1>1 DEF Heeds
<1>6. session.pk # None => session.pk = Held BY DEF Held
<1>7. x.signed => h \notin Reads
  <2>1. x.signed => ~Has(x.todo, Reads) BY <1>1 DEF Fit, Signing
  <2> QED BY <1>3, <2>1
<1>8. y.signed => y.pk # None /\ y.secret # None BY <1>1 DEF Fit, Signing
<1>9. h = "session" => x.pk = None /\ x.secret = None
  <2>1. h = "session" => Has(x.todo, {"session"}) BY <1>3
  <2> QED BY <1>1, <2>1 DEF Fit, Revoking
<1>10. h = "active" => ~Has(x.todo, S)
  <2>1. h = "active" => Has(x.todo, Writes) BY <1>3 DEF Writes
  <2>2. h = "active" => x.todo \in {<<>>, SWITCH_ACCOUNT, UNLOCK_WALLET, LOCK_WALLET} \cup Puts \cup Drops
    BY <1>1, <2>1 DEF Fit, Writing
  <2>3. \A t \in {<<>>, SWITCH_ACCOUNT, UNLOCK_WALLET, LOCK_WALLET} \cup Puts \cup Drops : ~Has(t, S)
    BY DEF Has, SWITCH_ACCOUNT, UNLOCK_WALLET, LOCK_WALLET, Puts, Drops
  <2> QED BY <2>2, <2>3
<1>11. ASSUME ~y.moved, y.signed PROVE y.pk = y.secret
  <2>1. CASE x.signed BY <1>2, <1>4, <1>5, <1>7, <1>11, <2>1 DEF Reads, PkReads
  <2>2. CASE ~x.signed
    <3>1. h = "sign" BY <1>2, <1>11, <2>2
    <3>2. y.pk = x.pk /\ y.secret = x.secret /\ ~x.moved BY <1>2, <1>5, <1>11, <3>1 DEF PkReads
    <3>3. Read(x) \subseteq {Held} BY <1>3, <1>4, <3>1, <3>2
    <3>4. x.pk # None /\ x.secret # None BY <1>8, <1>11, <3>2
    <3>5. {x.pk, x.secret} \ {None} \subseteq {Held} BY <3>3 DEF Read
    <3>6. x.pk = Held /\ x.secret = Held
      <4> HIDE DEF x
      <4> QED BY <3>4, <3>5
    <3> QED BY <3>2, <3>6
  <2> QED BY <2>1, <2>2
<1>12. ASSUME ~y.moved, Has(y.todo, S) PROVE Read(y) \subseteq {Held}
  <2>1. Has(x.todo, S) /\ y.todo # <<>> BY <1>2, <1>12 DEF Has
  <2>2. h # "active" BY <1>10, <2>1
  <2>3. /\ y.pk # x.pk => y.pk = session.pk
        /\ y.secret # x.secret => y.secret = session.secret /\ ~HalfWritten
    BY <1>1, <1>12, <2>1, <2>2 DEF Heeds
  <2>4. y.secret # x.secret => y.secret = Held BY <2>3, WholeHeld
  <2>5. CASE h = "session" BY <1>2, <1>6, <1>9, <2>3, <2>5 DEF Read
  <2>6. CASE h # "session"
    <3>1. Read(x) \subseteq {Held} BY <1>4, <1>5, <1>12, <2>1, <2>6
    <3> QED BY <1>6, <2>3, <2>4, <3>1 DEF Read
  <2> QED BY <2>5, <2>6
<1>13. Reports(y) BY <1>11, <1>12 DEF Reports
<1> QED BY <1>13

(* The next state's reports, from its records *)
LEMMA ReportsPrimed == \A q \in Slots : (Reports(req[q]))' <=>
    (~req'[q].moved => /\ Has(req'[q].todo, {"sign"}) => Read(req'[q]) \subseteq {Held'}
                       /\ req'[q].signed => req'[q].pk = req'[q].secret)
BY DEF Reports, Read, Has

(* What another's write of the session leaves of a handler that is not marked *)
LEMMA DisturbedReports ==
    ASSUME Base, NEW q \in Slots, NEW r, req'[q] = Disturbed(r, session')[q], q # r, Reports(req[q])
    PROVE  (Reports(req[q]))'
<1> DEFINE x == req[q]
           y == req'[q]
           R == {x.pk, x.secret} \ {None}
<1>1. /\ Stays(x, y) /\ y.todo = x.todo
      /\ y.moved <=> x.moved \/ Reached(q, r, session')
  BY DisturbedIs, ZenonT(40)
<1>2. x \in Requests /\ Fit(x) BY Typed
<1>3. y.pk = x.pk /\ y.secret = x.secret /\ y.signed = x.signed
  <2> HIDE DEF x, y
  <2> QED BY <1>1, <1>2, StaysIs
<1>4. Has(x.todo, {"sign"}) => Runs(q, {"sign"})
  <2>1. x.todo \in Seq(Steps) /\ (x.todo # <<>> => x.st = "open") BY <1>2 DEF Fit, Staged, Formed
  <2>2. Has(x.todo, {"sign"}) => x.todo # <<>> BY DEF Has
  <2> QED BY <2>1, <2>2, RangeHas DEF Runs
<1>5. ASSUME ~y.moved, Has(x.todo, {"sign"}) PROVE R \subseteq {Held'}
  <2>1. ~x.moved /\ ~Reached(q, r, session') BY <1>1, <1>5
  <2>2. R = {} \/ {session'.pk, session'.secret} \subseteq R BY <1>4, <1>5, <2>1 DEF Reached
  <2>3. R \subseteq {Held} BY <1>5, <2>1 DEF Reports, Read
  <2>4. Held' = IF session'.pk # None THEN session'.pk ELSE session'.secret BY DEF Held
  <2> HIDE DEF R
  <2>5. CASE R # {} BY <2>2, <2>3, <2>4, <2>5
  <2> QED BY <2>5
<1>6. ~y.moved /\ x.signed => x.pk = x.secret BY <1>1 DEF Reports
<1> QED BY <1>1, <1>3, <1>5, <1>6, ReportsPrimed DEF Read

(* A write of the session leaves every unmarked handler's report right *)
LEMMA SessionReports ==
    ASSUME Base, Base', NEW r \in Slots, SessionSteps(r), \A q \in Slots : Reports(req[q])
    PROVE  \A q \in Slots : (Reports(req[q]))'
<1>1. Writer(req[r], req'[r]) /\ \A q \in Slots \ {r} : Bystander(q, r) BY WriterGoes
<1>2. (Reports(req[r]))'
  <2> DEFINE x == req[r]
             y == req'[r]
  <2>1. /\ y.todo = Tail(x.todo) /\ y.pk = x.pk /\ y.secret = x.secret /\ y.moved = x.moved
        /\ y.signed = x.signed
    BY <1>1, SessionWritten DEF Writer
  <2>2. Hand(y) = y.todo BY SessionWritten
  <2>3. y.todo \in {<<>>} \cup Unlocking \cup Switching \cup Locking BY <2>2, HandIs DEF Base
  <2>4. \A t \in {<<>>} \cup Unlocking \cup Switching \cup Locking : ~Has(t, {"sign"})
    BY DEF Has, Unlocking, Switching, Locking, UnlockAccount, UnlockSecret, UnlockSeed,
       SwitchActive, SwitchAccount,
           SwitchSecret, LockSecret, LockSeed
  <2> QED BY <2>1, <2>3, <2>4, ReportsPrimed DEF Reports
<1>3. ASSUME NEW q \in Slots \ {r} PROVE (Reports(req[q]))'
  <2> DEFINE x == req[q]
             y == req'[q]
  <2>1. Reports(x) OBVIOUS
  <2>2. CASE req'[q] = Disturbed(r, session')[q] BY <2>2, DisturbedReports
  <2>3. CASE Woken(q, y)
    <3>1. /\ x.todo # <<>> /\ Head(x.todo) = "unlock" /\ Goes(x, y) /\ y.pk = session'.pk
          /\ y.secret = x.secret
      BY <2>3 DEF Woken, At
    <3>2. Fit(x) /\ x.todo \in Seq(Steps) BY DEF Base, Fit, Formed
    <3>3. Has(x.todo, {"unlock"}) /\ Has(x.todo, Reads)
      <4> DEFINE t == x.todo
      <4>1. t \in Seq(Steps) /\ t # <<>> /\ Head(t) = "unlock" BY <3>1, <3>2
      <4> HIDE DEF t
      <4>2. Has(t, {"unlock"}) /\ Has(t, Reads) BY <4>1, HasTail DEF Reads
      <4> QED BY <4>2 DEF t
    <3>4. x.secret = None /\ ~x.signed BY <3>2, <3>3 DEF Fit, Signing
    <3>5. ~y.signed BY <3>1, <3>4 DEF Goes, Edits
    <3>6. session'.pk # None => session'.pk = Held' BY DEF Held
    <3> QED BY <3>1, <3>4, <3>5, <3>6, ReportsPrimed DEF Read
  <2> QED BY <1>1, <2>2, <2>3 DEF Bystander
<1> QED BY <1>2, <1>3

(* Every step keeps the reports right *)
LEMMA ReportedStep ==
    ASSUME Base, Coherent, Sealed, Reported, [Next]_vars
    PROVE  Reported'
<1>1. Base' BY BaseStep
<1>2. ASSUME NEW r \in Slots, Mover(r), req[r].todo # <<>>, session' = session, overlapped' = overlapped PROVE Reported'
  <2>1. ~overlapped => Reports(req'[r]) BY <1>1, <1>2, MoveReports DEF Reported
  <2>2. Held' = Held BY <1>2 DEF Held
  <2>3. \A q \in Slots \ {r} : req'[q] = req[q] BY <1>2 DEF Mover
  <2> QED BY <1>2, <2>1, <2>2, <2>3, ReportsPrimed DEF Reported, Reports
<1>3. ASSUME req' = req, session' = session, overlapped' = overlapped PROVE Reported'
  <2>1. Held' = Held BY <1>3 DEF Held
  <2> QED BY <1>3, <2>1, ReportsPrimed DEF Reported, Reports
<1>4. ASSUME NEW r \in Slots, ReadSteps(r) PROVE Reported'
  <2>1. Mover(r) /\ req[r].todo # <<>> /\ UNCHANGED Passive BY <1>4, ReadsShift, ReadHeads
  <2> QED BY <1>2, <2>1 DEF Passive, stored, history
<1>5. ASSUME NEW r \in Slots, WriteSteps(r) PROVE Reported'
  <2>1. Mover(r) BY <1>5, WritesShift
  <2>2. req[r].todo # <<>> /\ session' = session /\ overlapped' = overlapped
    BY <1>5 DEF WriteSteps, At, Grant, Revoke, PutPayload, PutCleared, SetNetwork, SaveActive,
       history
  <2> QED BY <1>2, <2>1, <2>2
<1>6. ASSUME NEW r \in Slots, Connect(r) \/ Known(r) PROVE Reported'
  <2>1. Mover(r) BY <1>6, ConnectShifts, KnownShifts
  <2>2. req[r].todo # <<>> /\ session' = session /\ overlapped' = overlapped
    BY <1>6 DEF Connect, Known, At, Passive, stored, history
  <2> QED BY <1>2, <2>1, <2>2
<1>7. ASSUME NEW r \in Slots, Windows(r) PROVE Reported'
  <2>1. /\ ((r \in pending /\ Mover(r)) \/ req' = req) /\ session' = session
        /\ overlapped' = overlapped
    BY <1>7, WindowsShift DEF stored
  <2>2. r \in pending => req[r].todo # <<>> BY DEF Base, Waiting, At
  <2> QED BY <1>2, <1>3, <2>1, <2>2
<1>8. ASSUME NEW r \in Slots, Arrive(r) PROVE Reported'
  <2>1. /\ Starts(req[r], req'[r]) /\ (\A q \in Slots \ {r} : req'[q] = req[q])
        /\ session' = session /\ overlapped' = overlapped
    BY <1>8, ArriveShifts DEF stored
  <2>2. Held' = Held BY <2>1 DEF Held
  <2>3. /\ ~req'[r].signed
        /\ (Has(req'[r].todo, {"sign"}) => req'[r].pk = None /\ req'[r].secret = None)
    <3>1. ~Has(SWITCH_ACCOUNT, {"sign"}) BY DEF Has, SWITCH_ACCOUNT
    <3> QED BY <2>1, <3>1 DEF Starts
  <2> QED BY <2>1, <2>2, <2>3, ReportsPrimed DEF Reported, Reports, Read
<1>9. ASSUME NEW r \in Slots, SessionSteps(r) PROVE Reported'
  <2>1. overlapped' = (overlapped \/ Overlap(r)) BY <1>1, <1>9, SessionWritten
  <2> QED BY <1>1, <1>9, <2>1, SessionReports DEF Reported
<1>10. CASE lockSession
  <2>1. \A q \in Slots : req'[q] = Disturbed(None, session')[q] BY <1>10, LockShifts
  <2>2. overlapped' = (overlapped \/ \E q \in Slots : Begun(q)) BY <1>10 DEF lockSession
  <2>3. \A q \in Slots : q # None BY SessionAssumption
  <2>4. ~overlapped => \A q \in Slots : (Reports(req[q]))'
    BY <2>1, <2>3, DisturbedReports DEF Reported
  <2> QED BY <2>2, <2>4 DEF Reported
<1>11. CASE Restart
  <2>1. session' = session /\ overlapped' = (overlapped \/ \E q \in Slots : Begun(q))
    BY <1>11 DEF Restart, stored
  <2>2. Held' = Held BY <2>1 DEF Held
  <2>3. ASSUME NEW q \in Slots, Reports(req[q]) PROVE (Reports(req[q]))'
    <3>1. CASE req[q].st = "open"
      <4>1. Stops(req[q], req'[q]) /\ req'[q].moved = req[q].moved BY <1>11, <3>1, RestartShifts
      <4>2. ~Has(req'[q].todo, {"sign"}) BY <4>1 DEF Stops, Has
      <4> QED BY <2>3, <4>1, <4>2, ReportsPrimed DEF Reports, Stops, Kept
    <3>2. CASE req[q].st # "open"
      <4>1. req'[q] = req[q] BY <1>11, <3>2, RestartShifts
      <4> QED BY <2>2, <2>3, <4>1, ReportsPrimed DEF Reports
    <3> QED BY <3>1, <3>2
  <2> QED BY <2>1, <2>3 DEF Reported
<1>12. CASE UNCHANGED vars BY <1>3, <1>12 DEF vars, stored, worker, history
<1> QED BY <1>4, <1>5, <1>6, <1>7, <1>8, <1>9, <1>10, <1>11, <1>12, NextIs

(* An unmarked signature is the reported account's *)
LEMMA ReportedSigner ==
    ASSUME Base, Reported PROVE SignerIsReported
<1> SUFFICES ASSUME NEW r \in Slots, req[r].signed, req[r].secret # req[r].pk
             PROVE  ~req[r].sure /\ (req[r].moved \/ overlapped)
  BY DEF SignerIsReported
<1>1. ~req[r].sure BY DEF Base, Fit, Signing
<1>2. ~overlapped => req[r].moved BY DEF Reported, Reports
<1> QED BY <1>1, <1>2

(* SignerIsReported holds: a signature under another key than the reported account's was made     *)
(* only around a write of the session, and never by a private payment                             *)
THEOREM SignerHolds == Spec => []SignerIsReported
<1>1. Init => Base /\ Coherent /\ Sealed /\ Reported
  <2>1. Init => Reported BY BlankIs DEF Init, Reported, Reports, Has
  <2> QED BY <2>1, BaseInit, CoherentInit
<1>2. Base /\ Coherent /\ Sealed /\ Reported /\ [Next]_vars => (Base /\ Coherent /\ Sealed /\ Reported)'
  BY BaseStep, CoherentStep, ReportedStep
<1>3. Base /\ Reported => SignerIsReported BY ReportedSigner
<1> QED BY <1>1, <1>2, <1>3, PTL DEF Spec
=============================================================================
