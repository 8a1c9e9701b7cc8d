------------------------- MODULE MCSecurityGateway -------------------------
(***************************************************************************)
(* SecurityGateway for TLC.                                                *)
(***************************************************************************)
EXTENDS SecurityGateway, TLC

CONSTANTS e1, c1, u1

\* One client application that connects again and again, or several times at once.
OneUser == [s \in Sockets |-> u1]

\* The event is of the call.
OneCall == e1 :> c1

Symmetry == Permutations(Sockets)
=============================================================================
