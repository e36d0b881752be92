-------------------------- MODULE MCSelectorTable ---------------------------
(* A platform with seven descriptors and a selector that starts with room   *)
(* for two, so that fds grows up to twice: descriptor 3 needs five elements *)
(* and descriptor 6 the clamped maximum of eight.  The descriptors include  *)
(* both ends, the one equal to the first size, and two that are not valid.  *)
EXTENDS SelectorTable, TLC

CONSTANTS d1, d2

MCData == {d1, d2}
MCDescriptors == {-1, 0, 2, 3, 6, 7}
\* Nothing distinguishes two attachments.
Symmetry == Permutations(MCData)
=============================================================================
