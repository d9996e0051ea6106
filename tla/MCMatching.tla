----------------------------- MODULE MCMatching -----------------------------
(* An instance of Matching, and of Accounts with it, for TLC.              *)
EXTENDS Matching, TLC

CONSTANTS p1, p2

(* Four users with tags, whose distances differ from one another and would *)
(* order otherwise if a replacement cost two.  Registrations may meet in a *)
(* planet code, updates take the tags or another's code.                   *)
User(account, code, tags) ==
  [account |-> account, code |-> code, tags |-> tags, deleted |-> FALSE,
   updated |-> 0, codeBy |-> "register", saw |-> 0]
SmallLists == {<<"go", "tla">>, <<"tla", "c", "rust">>, <<"c", "rust">>, <<"tla">>}
SmallTables ==
  {<<User("ann", "1", <<"go", "tla">>), User("bob", "2", <<"tla", "c", "rust">>),
     User("cyd", "3", <<"c", "rust">>), User("dan", "5", <<"tla">>)>>}
SmallRegistrations == {[account |-> "eve", code |-> "4"], [account |-> "fay", code |-> "4"],
   [account |-> "eve", code |-> "1"]}
SmallForms == {[account |-> "ann", code |-> "1", tags |-> <<"go", "tla">>],
   [account |-> "bob", code |-> "4", tags |-> NoTags],
   [account |-> "cyd", code |-> "3", tags |-> Junk]}
=============================================================================
