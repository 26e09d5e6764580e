------------------------------ MODULE MCPages ------------------------------
(* A small instance of Pages for TLC. *)
EXTENDS Pages

Says(kind, report, state, suggested) ==
    [kind |-> kind, report |-> report, status |-> state, tasks |-> suggested]

MCInboxAnswers == { Says("object", TRUE, "NEEDS_REVIEW", <<"fdv">>) }
MCAnswers == MCInboxAnswers \cup
    { Says("object", TRUE, "APPROVED", <<"fdv", "hms", "fdv">>),
      Says("object", FALSE, "none", <<"hms", NoCode>>), Says("null", FALSE, "none", <<>>),
      Nothing }

MCStatusOf  == <<"PENDING_REVIEW", "APPROVED">>
MCTypeOf    == <<"plan", "report">>
MCRuleSetsOf == <<<<1, 2>>, <<2>>>>
MCChecklist == <<<<1, 2>>, <<>>, <<3>>, <<>>>>
=============================================================================
