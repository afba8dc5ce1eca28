--------------------------- MODULE MCPersistence ---------------------------
(***************************************************************************)
(* Instances of Persistence for TLC.  Events 1 and 2 are two versions of   *)
(* one replaceable event, 2 the newer; 3 is a regular event.  In Regular   *)
(* both events are regular.                                                *)
(***************************************************************************)
EXTENDS Persistence, TLC

CONSTANTS t1, t2, key

Mixed == {1, 2, 3}
MixedKey == [e \in Mixed |-> IF e = 3 THEN None ELSE key]
MixedTime == [e \in Mixed |-> e]

Regular == {1, 2}
RegularKey == [e \in Regular |-> None]
RegularTime == [e \in Regular |-> e]

ThreadSymmetry == Permutations(Threads)

=============================================================================
