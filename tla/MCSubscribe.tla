----------------------------- MODULE MCSubscribe -----------------------------
(* Instances of Subscribe for TLC. *)
EXTENDS Subscribe, TLC

CONSTANTS t1, t2

MCTx == {t1, t2}
OneTx == {t1}
OnePort == {1}
MCEphPorts == {3}
NoPorts == {}

TxSymmetry == Permutations(MCTx)

=============================================================================
