--------------------------- MODULE MCRelayClient ---------------------------
(* Model-checking instance of RelayClient: clients and facade handles are *)
(* model values given in the .cfg files.                                  *)
EXTENDS RelayClient

CONSTANTS a, b

MCClients == {a, b}

(* The clients are interchangeable. *)
ClientSymmetry == Permutations(MCClients)

=============================================================================
