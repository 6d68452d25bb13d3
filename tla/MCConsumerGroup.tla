--------------------------- MODULE MCConsumerGroup ---------------------------
(* Small instances of the consumer group for TLC.                          *)
EXTENDS ConsumerGroup, TLC

CONSTANTS k1, c1, c2

MCSymmetry == Permutations({c1, c2})
=============================================================================
