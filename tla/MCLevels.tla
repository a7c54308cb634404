------------------------------ MODULE MCLevels ------------------------------
(* Instances of Levels for TLC.                                            *)
EXTENDS Levels

NoRange  == {}
OneKey   == {[lo |-> 2, hi |-> 2]}
\* Not in a run: section 5.3 of the README.
AllKeys  == {[lo |-> 1, hi |-> 3]}
=============================================================================
