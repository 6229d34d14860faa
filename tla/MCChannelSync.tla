--------------------------- MODULE MCChannelSync ---------------------------
(* Instances of ChannelSync for TLC: servers sa - sb - sc in a line. *)
EXTENDS ChannelSync, TLC

CONSTANTS sa, sb, sc, u1, u2, u3

HomeEach == (u1 :> sa) @@ (u2 :> sb) @@ (u3 :> sc)
HomeEnds == (u1 :> sa) @@ (u3 :> sc)

Line == {<<sa, sb>>, <<sc, sb>>}

HopLine == [s \in Servers |-> [t \in Servers |->
                IF t = s \/ s = sb THEN t ELSE sb]]

\* The two ends of the line, with their users, are alike.
Ends == {f \in Permutations({sa, sc, u1, u3}) :
             \A u \in {u1, u3} : f[u] \in {u1, u3} /\ f[HomeEnds[u]] = HomeEnds[f[u]]}
=============================================================================
