------------------------------ MODULE MCAccount ------------------------------
(* Instances of Account for TLC: a is registered, b is not.                *)
EXTENDS Account

CONSTANTS a, b

OnlyA == {a}

==============================================================================
