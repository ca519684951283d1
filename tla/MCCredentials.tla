--------------------------- MODULE MCCredentials ---------------------------
(* Two browsers and two requests at once; one of two people is let in.       *)
EXTENDS Credentials, TLC

CONSTANTS m1, b1, b2, q1, q2

MCAccounts == [provider : {"google"}, subject : {"ann", "bob"}]
MCAllowed == {x \in MCAccounts : x.subject = "ann"}

Symmetry == Permutations({b1, b2}) \cup Permutations({q1, q2})
=============================================================================
