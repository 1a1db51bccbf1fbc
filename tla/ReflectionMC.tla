---------------------------- MODULE ReflectionMC ----------------------------
(* Small instances for TLC: two or three turns of one thread. *)
EXTENDS Reflection

CONSTANTS t1, t2, t3, i1, i2, i3, i4, i5, i6
=============================================================================
