---------------------------- MODULE MCCollection ----------------------------
(***************************************************************************)
(* Instances of Collection.                                                *)
(***************************************************************************)
EXTENDS Collection

Gets(n) == [op |-> "get", name |-> n]
Adds(n) == [op |-> "add", name |-> n]

(***************************************************************************)
(* Tangle: two resolvers that each ask for the other's fact, and one with  *)
(* a pattern that also asks for the fact its pattern matches; the fourth   *)
(* announces a name that the first announces, too; the fifth is behind the *)
(* third in the list of resolvers with patterns.                           *)
(***************************************************************************)
TangleNames == << {1}, {3}, {4}, {1}, {} >>
TangleMatches == << {}, {}, {2}, {}, {5} >>
TangleProgram == <<
    << Gets(3), Adds(1) >>,
    << Gets(1), Gets(2), Adds(3) >>,
    << Gets(2), Adds(4), Adds(2) >>,
    << Adds(1) >>,
    << Adds(5) >> >>
TanglePatterned == {3, 5}
TangleAsked == {1, 2}
TangleSupplied == {2, 3}
TangleQueries == {{1, 2, 4}}

(***************************************************************************)
(* Overlap: two resolvers registered for the same name, the first of them  *)
(* also for the name that follows it in the multimap.                      *)
(***************************************************************************)
OverlapNames == << {1, 2}, {1}, {3} >>
OverlapMatches == << {}, {}, {} >>
OverlapProgram == << << Adds(2), Adds(1) >>, << Adds(1) >>, << Adds(3) >> >>
OverlapPatterned == {}
OverlapAsked == {1, 2}
OverlapSupplied == {2}
OverlapQueries == {{1, 3}}

\* Both instances are what the theorems assume of resolvers.
ASSUME InstancesAreRegular == AddsAnnounced /\ PatternsApart
=============================================================================
