---------------------------- MODULE MCTeamViews ----------------------------
(* Instances of TeamViews for TLC.                                         *)
EXTENDS TeamViews, TLC

CONSTANTS u1, w1

(* Public and private teams; a public one whose time is over.              *)
Row(status, expire) ==
  [state |-> "active", leader |-> u1, max |-> MaxTeamMembers, status |-> status,
   pw |-> w1, expire |-> expire]
SmallRows == {Row("public", 1), Row("private", 1), Row("public", 0)}
OpenRows == {Row("public", 1), Row("private", 1)}
=============================================================================
