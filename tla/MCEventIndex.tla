---------------------------- MODULE MCEventIndex ----------------------------
(***************************************************************************)
(* Small instances of EventIndex.                                          *)
(***************************************************************************)
EXTENDS EventIndex, TLC

CONSTANTS t1, t2, key, alone

\* Two versions of one replaceable event; 2 is the newer one.
Versions == {1, 2}
VersionsKey == [e \in Versions |-> key]
VersionsTime == [e \in Versions |-> e]

VersionsSize == [e \in Versions |-> 10 * e]

\* A regular event.
Single == {3}
SingleKey == [e \in Single |-> None]
SingleTime == [e \in Single |-> 1]
SingleSize == [e \in Single |-> 10]

\* Two versions with the same timestamp, a regular event, and the only version of
\* another replaceable one.
Mixed == 1 .. 4
MixedKey == <<key, key, None, alone>>
MixedTime == [e \in Mixed |-> 1]
MixedSize == [e \in Mixed |-> 10 * e]

ThreadSymmetry == Permutations(Threads)
=============================================================================
