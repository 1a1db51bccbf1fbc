-------------------------- MODULE ReactionQueueMC --------------------------
(* Small queues for TLC: two reactions, both of them acks.  *)
EXTENDS ReactionQueue

CONSTANTS r1, r2, i1, i2, i3, i4, i5
=============================================================================
