------------------------------ MODULE MCWhowas ------------------------------
(* A small instance of Whowas: two nicks share a hash bucket and the ring   *)
(* wraps after three records.                                               *)
EXTENDS Whowas, TLC

CONSTANTS c1, c2, n1, n2, n3, b1, b2

MCHashOf == (n1 :> b1) @@ (n2 :> b1) @@ (n3 :> b2)

=============================================================================
