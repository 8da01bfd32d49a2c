--------------------------- MODULE MCShadowReplay ----------------------------
(***************************************************************************)
(* A small instance of ShadowReplay for TLC.                               *)
(***************************************************************************)
EXTENDS ShadowReplay

CONSTANTS r1, w1, w2

=============================================================================
