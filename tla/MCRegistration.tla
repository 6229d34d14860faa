--------------------------- MODULE MCRegistration ---------------------------
(* An instance of Registration for TLC: two prefix lengths that tell the   *)
(* connections apart differently, with a limit on the wider one.           *)
EXTENDS Registration

CONSTANTS c1, r1, n1, n2

Networks == [t \in Tiers |-> [c \in Clients |->
                IF t = "cidr48" /\ c = r1 THEN n2 ELSE n1]]

TwoSettings == {[own |-> FALSE, cookie |-> TRUE], [own |-> TRUE, cookie |-> FALSE]}

WideLimit == [t \in Tiers |-> IF t = "cidr48" THEN 0 ELSE 1]
=============================================================================
