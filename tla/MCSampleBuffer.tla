--------------------------- MODULE MCSampleBuffer ---------------------------
(***************************************************************************)
(* Instance of SampleBuffer for TLC.  Objects and blocks are               *)
(* interchangeable.                                                        *)
(***************************************************************************)
EXTENDS SampleBuffer, TLC

Symmetry == Permutations(Objects) \cup Permutations(Blocks)
=============================================================================
