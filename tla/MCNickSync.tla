----------------------------- MODULE MCNickSync -----------------------------
(* Instances of NickSync for TLC: servers sa - sb - sc in a line. *)
EXTENDS NickSync, TLC

CONSTANTS sa, sb, sc, u1, u2, u3, n1, n2

\* One user on each server, all with different user@hosts.
HomeEach == (u1 :> sa) @@ (u2 :> sb) @@ (u3 :> sc)
HomeEnds == (u1 :> sa) @@ (u3 :> sc)
AllDiffer == [u \in Users |-> u]

\* u1 and u3 are the same person reconnecting at the other end.
SamePerson == [u \in Users |-> IF u = u3 THEN u1 ELSE u]

Line == {<<sa, sb>>, <<sc, sb>>}
FirstLink == {<<sa, sb>>}
=============================================================================
