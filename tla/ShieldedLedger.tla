--------------------------- MODULE ShieldedLedger ---------------------------
(***************************************************************************)
(* What the shielded pool promises, with no roots, proofs, nullifiers or   *)
(* ring buffers: a book of coins, each worth a fixed amount and consumed   *)
(* at most once, and a reserve that changes by exactly the difference      *)
(* between what a movement consumes and what it creates.                   *)
(***************************************************************************)
EXTENDS Integers

CONSTANTS
    CoinIds,   \* identities a coin may have
    Padding,   \* an input that consumes nothing, not a coin
    MaxNote    \* the largest amount of one coin

VARIABLES
    unspent,   \* the live coins: a function from their ids to their amounts
    issued,    \* ids that were ever given to a coin
    reserve    \* what the pool holds on behalf of the live coins

vars == <<unspent, issued, reserve>>

Live == DOMAIN unspent

TypeOK ==
    /\ issued \subseteq CoinIds
    /\ Live \subseteq issued
    /\ unspent \in [Live -> 0..MaxNote]
    /\ reserve \in Nat

Init ==
    /\ unspent = [c \in {} |-> 0]
    /\ issued = {}
    /\ reserve = 0

(* A padding input consumes nothing; any other input consumes a live coin. *)
Worth(c) == IF c \in Live THEN unspent[c] ELSE 0

(* Two inputs are consumed, two coins are created under fresh ids, and the *)
(* reserve absorbs the difference.                                         *)
Move(in1, in2, out1, out2, amt1, amt2) ==
    LET net  == amt1 + amt2 - Worth(in1) - Worth(in2)
        kept == Live \ {in1, in2}
    IN  /\ in1 = in2 => in1 = Padding
        /\ out1 # out2
        /\ reserve + net >= 0
        /\ issued' = issued \cup {out1, out2}
        /\ unspent' = [c \in kept \cup {out1, out2} |->
                          IF c = out1 THEN amt1
                          ELSE IF c = out2 THEN amt2
                          ELSE unspent[c]]
        /\ reserve' = reserve + net

Next ==
    \E in1, in2 \in Live \cup {Padding}, out1, out2 \in CoinIds \ issued,
       amt1, amt2 \in 0..MaxNote :
        Move(in1, in2, out1, out2, amt1, amt2)

Spec == Init /\ [][Next]_vars
=============================================================================
