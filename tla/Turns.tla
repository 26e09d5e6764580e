------------------------------- MODULE Turns -------------------------------
(***************************************************************************)
(* Whether clients take turns: one calls only when nothing of another's    *)
(* call is left under way.  The code does not make them; what holds of     *)
(* those who do is stated by the properties named Turns..., and the rest   *)
(* of the properties hold of those who overlap as well.                    *)
(***************************************************************************)
CONSTANT TurnModes      \* which of taking turns (TRUE) and overlapping (FALSE) is looked at

ASSUME TurnsAssumption == TurnModes \subseteq BOOLEAN

VARIABLE turns      \* chosen once per behaviour
=============================================================================
