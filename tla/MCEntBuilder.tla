---------------------------- MODULE MCEntBuilder ----------------------------
(* Instances of EntBuilder for TLC.                                        *)
EXTENDS EntBuilder, TLC

CONSTANTS x1, x2, x3, long

ThreeNames == <<x1, x2, x3>>
=============================================================================
