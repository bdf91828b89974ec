------------------------------- MODULE MCCases ------------------------------
(***************************************************************************)
(* A board of three cells and one mine, two games of Mines, openings of a  *)
(* case that an administrator edits once, two rotations, and keys that     *)
(* both games use.  The run checks no liveness: requests, keys and cells   *)
(* may be interchanged.                                                    *)
(***************************************************************************)
EXTENDS Cases, TLC

MCMultiplier == [n \in 0..Cardinality(Cells) |-> 100 + 50 * n]

\* The price goes down as the items get better.
MCPrice == [n \in Editions |-> 3 - n]

MCValues == [n \in Editions |-> {0, 2 * n}]

MCSymmetry == Permutations(Requests) \cup Permutations(Keys) \cup Permutations(Cells)
=============================================================================
