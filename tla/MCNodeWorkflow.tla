--------------------------- MODULE MCNodeWorkflow ---------------------------
(* Small instances of NodeWorkflow for TLC. *)
EXTENDS NodeWorkflow, TLC

\* Nothing tells generations apart.
Symmetry == Permutations(Generations)


\* Two sections that each have a field called "name".
MCTemplate == <<"name", "name">>

Data(first, second, form) == [fields |-> <<first, second>>, form |-> form]

\* Overlapping clients write a field and the form, or neither; taking turns, any values.
MCWritten ==
    [inTurns \in BOOLEAN |->
        IF inTurns
        THEN {Data(a, b, NoForm) : a, b \in Values \cup {NoValue, NoField}}
                \cup {Data(NoValue, NoValue, form) : form \in Forms}
        ELSE {Data(NoField, NoField, form) : form \in Forms \cup {NoForm}}
                \cup {Data(value, NoField, NoForm) : value \in Found}]

=============================================================================
