--------------------------- MODULE MCRelayClient3 ---------------------------
(* Three clients, for broadcasts to more than one recipient.  p1 may make *)
(* two facade calls, p2 and p3 one each: enough for p2 and p3 to connect  *)
(* to p1 and for p1 to broadcast to both.                                 *)
EXTENDS RelayClient

CONSTANTS p1, p2, p3

MCClients3 == {p1, p2, p3}

MCCallBound(c) == IF c = p1 THEN 2 ELSE 1

RecipientSymmetry == Permutations({p2, p3})

=============================================================================
