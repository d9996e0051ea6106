------------------------------ MODULE MCWarmUp ------------------------------
(* Instances of WarmUp for TLC.                                            *)
EXTENDS WarmUp, TLC

CONSTANTS c1, i1, u1, u2, u3

(* Nobody, a user without tags, two users with tags.                       *)
SmallPools == {<<>>, <<u3>>, <<u1, u2>>}
HomeOne == [c \in {c1} |-> i1]
Lengths == <<10, 20>>
=============================================================================
