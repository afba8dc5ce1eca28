----------------------------- MODULE MCRequests -----------------------------
(***************************************************************************)
(* Instances of Requests for TLC.  Ann has a note (1), two versions of an  *)
(* addressable event (3, 4) and two deletion requests: 5 names the note,   *)
(* Bob's note 2 and the address; 6 names request 5.  Version 4 is newer    *)
(* than request 5.  Event 7 is ephemeral.  Bob's note mentions note 1,     *)
(* in capitals, and Ann.                                                   *)
(***************************************************************************)
EXTENDS Requests, TLC

CONSTANTS t1, t2, ann, bob

E == 1 .. 7
EAuthor == [e \in E |-> IF e = 2 THEN bob ELSE ann]
EKind == <<1, 1, 30000, 30000, 5, 5, 20000>>
ECreatedAt == <<1, 2, 2, 4, 3, 4, 4>>
EShard == <<1, 2, 2, 1, 2, 1, 1>>

Tag(n, v) == [name |-> n, value |-> v]

ETags == <<
    <<Tag("t", "x")>>,
    <<Tag("e", "H1"), Tag("p", "ha"), Tag("t", "y")>>,
    <<Tag("d", "d")>>,
    <<Tag("d", "d"), Tag("t", "x")>>,
    <<Tag("e", "h1"), Tag("e", "h2"), Tag("e", "junk"), Tag("a", "1:a:d"), Tag("a", "junk")>>,
    <<Tag("e", "h5"), Tag("p", "hb")>>,
    <<>> >>

Text == {"h1", "H1", "h2", "h5", "ha", "hb", "x", "y", "d", "1:a:d", "junk"}

EBytes == [v \in Text |->
    CASE v \in {"h1", "H1"} -> 1 [] v = "h2" -> 2 [] v = "h5" -> 5
      [] v = "ha" -> ann [] v = "hb" -> bob [] OTHER -> None]

ECoordinates == [v \in Text |->
    IF v = "1:a:d" THEN [pubkey |-> ann, kind |-> 30000, d |-> "d"] ELSE None]

Base == NoCondition

EFilters == {
    Base,
    [Base EXCEPT !.ids = <<2, 1>>, !.until = 1],
    [Base EXCEPT !.authors = <<ann>>, !.since = 2, !.limit = 2],
    [Base EXCEPT !.kinds = <<1, 5>>, !.until = 3],
    [Base EXCEPT !.kinds = <<5>>, !.limit = 1],
    [Base EXCEPT !.tags = [l \in {"e"} |-> <<"h1", "h2">>]],
    [Base EXCEPT !.tags = [l \in {"e"} |-> <<"junk">>]],
    [Base EXCEPT !.tags = [l \in {"p"} |-> <<"ha">>], !.kinds = <<1>>],
    [Base EXCEPT !.tags = [l \in {"t"} |-> <<"x">>], !.limit = 1] }

TwoNewest == {[Base EXCEPT !.limit = 2]}

ERestored == {{1, 2, 3}, {1, 2, 4, 5}}

\* Nothing that follows an answer changes it, and what the tasks do then they also do
\* while there is no query: states with an answer are checked but not continued.
UpToTheAnswer == qpc # "done"

TaskSymmetry == Permutations(Tasks)

=============================================================================
