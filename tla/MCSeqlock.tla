------------------------------ MODULE MCSeqlock ------------------------------
(* Instances of Seqlock for TLC. *)
EXTENDS Seqlock

OneWriter == {"media"}
BothWriters == {"media", "ptp"}
OneReader == {"app"}

=============================================================================
