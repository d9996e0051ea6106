------------------------------ MODULE EntField ------------------------------
(***************************************************************************)
(* What the generated ent code offers for a field, by the kind of field:   *)
(* which methods its mutation has (ent/mutation.go) and which predicates   *)
(* its package has (ent/*/where.go).                                       *)
(***************************************************************************)
EXTENDS Integers

CONSTANTS
  Texts,      \* values of text fields
  LongTexts,  \* those among them that are longer than MaxLen allows
  MaxNumber,  \* bound: numeric fields hold 0 .. MaxNumber, statuses at least
  Ids,        \* ids of rows that foreign keys name
  MaxClock,   \* bound on the clock
  Null        \* the SQL NULL

ASSUME FieldAssumption ==
  /\ LongTexts \subseteq Texts /\ MaxNumber \in Nat \ {0, 1} /\ MaxClock \in Nat
  /\ Ids # {} /\ Null \notin Texts \cup Ids /\ Null \notin Nat

Numbers == 0 .. MaxNumber
Short == Texts \ LongTexts

(* Every field can be set and reset, an optional one cleared, a numeric    *)
(* one added to; a field with an immutable value has the same methods.     *)
Text == [kind |-> "text", values |-> Texts, methods |-> {"set", "reset"}]
Number == [kind |-> "number", values |-> Numbers, methods |-> {"set", "add", "reset"}]
Time == [kind |-> "time", values |-> 0 .. MaxClock, methods |-> {"set", "reset"}]
Key == [kind |-> "key", values |-> Ids, methods |-> {"set", "reset"}]
Optional(d) == [d EXCEPT !.methods = @ \cup {"clear"}]

(* The families of predicates.                                             *)
Equalities == {"EQ", "NEQ", "In", "NotIn"}
Orders == {"GT", "GTE", "LT", "LTE"}
Searches == {"Contains", "HasPrefix", "HasSuffix", "EqualFold", "ContainsFold"}
NilTests == {"IsNil", "NotNil"}
=============================================================================
