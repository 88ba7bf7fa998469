----------------------------- MODULE MCAccounts -----------------------------
(* Two users and four forms for TLC: against the first, the second has the *)
(* name in another case, the third the same e-mail and the fourth exactly  *)
(* the same name.                                                          *)
EXTENDS Accounts, TLC

CONSTANTS b1, b2, c1, l1, l2, none

Typed == {[username |-> "bob", email |-> "b@x", password |-> "p"],
          [username |-> "Bob", email |-> "c@x", password |-> "p"],
          [username |-> "ann", email |-> "b@x", password |-> "q"],
          [username |-> "bob", email |-> "c@x", password |-> "q"]}
Collation == [s \in {"bob", "Bob", "ann", "b@x", "c@x"} |->
                 IF s = "Bob" THEN "bob" ELSE s]

Acts == (b1 :> 2 @@ b2 :> 1)
=============================================================================
