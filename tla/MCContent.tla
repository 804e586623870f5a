------------------------------ MODULE MCContent ------------------------------
(***************************************************************************)
(* Small instances of Content for TLC.                                     *)
(***************************************************************************)
EXTENDS Content, TLC

CONSTANTS s1, s2, t, p1, p2, p3

Item1(title, text, flags, files) ==
  [title |-> title, text |-> text, flags |-> flags, files |-> files]

Whole   == Item1(t, "x", {"f1", "f2"}, {})
Other   == Item1(t, "y", {"f3", "blank"}, {"g1"})
Bare    == Item1(t, "w", {"blank"}, {"torn"})
NoFlags == Item1(s1, "z", {}, {"g2"})

MCUnreadable == {"blank", "torn"}

BodyA == [text |-> "a", flags |-> {"f1"}]
BodyB == [text |-> "b", flags |-> {"f1", "f2"}]

MCBodies == {BodyA, BodyB}
MCFirstBodies == (s1 :> {BodyA}) @@ (s2 :> {})
MCItems == {Whole, Other, NoFlags, Bare}
MCFiles == {<<Other>>, <<Bare, NoFlags>>}
MCMade  == {Whole, Bare}
MCFirst == <<Whole>>

CallSymmetry == Permutations(Importers) \cup Permutations(Calls \ Importers)

=============================================================================
