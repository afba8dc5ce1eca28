------------------------------ MODULE MCFanout ------------------------------
(* An instance of Fanout: one connection, two subscription ids, two EVENT tasks. *)
EXTENDS Fanout

CONSTANTS c1, t1, t2, s1, s2, k1, k2, e1, e2

\* An event of each kind.
TwoKinds == [e \in {e1, e2} |-> IF e = e1 THEN k1 ELSE k2]

\* A REQ for the one kind, or with a filter for the other kind and one for any kind.
OneKindOrAny == {{{k2}}, {{k1}, {}}}
=============================================================================
