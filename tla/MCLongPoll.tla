----------------------------- MODULE MCLongPoll -----------------------------
(* Two manager processes, one poll in each.                                  *)
EXTENDS LongPoll

CONSTANTS m1, m2, p1, p2

MCManagerOf(x) == IF x = p1 THEN m1 ELSE m2
=============================================================================
