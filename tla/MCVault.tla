------------------------------ MODULE MCVault ------------------------------
(***************************************************************************)
(* Either the vault, with the tree as a list of its leaves, or the tree as *)
(* the contract, the wallet and the circuit compute it.  The scan's ledger *)
(* numbers keep the proportions of tree.ts: a window inside what one query *)
(* covers, a scan back shorter than the pool's history.                    *)
(***************************************************************************)
EXTENDS Vault, MerkleTree, TLC

CONSTANTS u1, u2, d1, d2, d3, d4

MCSymmetry == Permutations(Dummies) \cup Permutations(Commitments)
MCExtAmounts == {-1, 0, 1, 2}
MCFees == {-1, 0, 1}

VARIABLE focus

VaultOrTreeInit == focus \in {"vault", "tree"} /\ Init /\ TreeInit
VaultOrTreeNext ==
    \/ focus = "vault" /\ Next /\ UNCHANGED <<focus, merkleVars>>
    \/ focus = "tree" /\ TreeNext /\ UNCHANGED <<focus, vars>>
VaultOrTreeSpec == VaultOrTreeInit /\ [][VaultOrTreeNext]_<<focus, vars, merkleVars>>
=============================================================================
