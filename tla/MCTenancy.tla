------------------------------ MODULE MCTenancy ------------------------------
(* Model-checking instance of Tenancy: the tokens in use, and what the     *)
(* slugs of their users begin with.                                        *)
EXTENDS Tenancy

Token(s, e, n) == [sub |-> s, email |-> e, name |-> n]

(* Two identities of one email, one of them without a name, and a user who *)
(* has the name of the first.                                              *)
TwoOfAnnAndAnother == {Token("sub1", "a@", "Ann"), Token("sub2", "a@", NoName),
                       Token("sub3", "b@", "Ann")}

(* A user without a name is called as the email is.                        *)
LowerCased ==
    [n \in Names |-> [e \in Emails |->
        IF n = "Ann" THEN "ann" ELSE IF e = "a@" THEN "a" ELSE "b"]]
SlugBases == {"ann", "a", "b"}
=============================================================================
