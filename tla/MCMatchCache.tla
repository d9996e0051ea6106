---------------------------- MODULE MCMatchCache ----------------------------
(* Instances of MatchCache for TLC.                                        *)
EXTENDS MatchCache

(* The warm-up fills the longer of two lists; requests ask for either.     *)
LongerList == <<2>>
=============================================================================
