-------------------------- MODULE MCProjectServices --------------------------
(* A small instance of ProjectServices for TLC. *)
EXTENDS ProjectServices

\* Calls are numbers: of behaviours that number them otherwise, the one in order of arrival.
Numbered ==
    /\ \A s, t \in Signings : s < t /\ signing[t].pc # "unused" => signing[s].pc # "unused"
    /\ \A u, v \in Calls : u < v /\ call[v].pc # "unused" => call[u].pc # "unused"
    /\ \A c, d \in Requests : c < d /\ request[d].pc # "unused" => request[c].pc # "unused"

\* Projects are not told apart.
Symmetric == Permutations(Projects)

----------------------------------------------------------------------------
(* Facts: a pressure, which is a column, and a risk, which is not and which clients state   *)
(* in words, as a list or as a flag.                                                        *)

MCValues == [k \in Columns \cup Extras |->
               IF k \in Columns THEN {Number(0), Number(3)}
               ELSE {Word("high", "upper"), List(<<Number(3)>>), Bool(TRUE)}]

Silent == [fields |-> NoColumns, facts |-> Nothing]
Field(v) == [Silent EXCEPT !.fields["psValue"] = v]
Fact(k, v) == [Silent EXCEPT !.facts[k] = v]

MCDtos == { Silent, Field(Number(3)), Fact("psValue", Number(0)), Fact("risk", Word("high", "upper")),
            [Field(Number(0)) EXCEPT !.facts["risk"] = List(<<Number(3)>>)],
            [Fact("risk", Bool(TRUE)) EXCEPT !.facts["psValue"] = Null] }

Branch(kind, parts) ==
    [kind |-> kind, parts |-> parts, fact |-> "", operator |-> "",
     value |-> Undefined, equals |-> Undefined, match |-> Undefined]
AllOf(parts) == Branch("all", parts)
AnyOf(parts) == Branch("any", parts)
Not(part)    == Branch("not", {part})
Empties      == Branch("none", {})
Asks(fact, operator, value) ==
    [Branch("test", {}) EXCEPT !.fact = fact, !.operator = operator, !.value = value]
Matches(fact, operator, value) == [Asks(fact, operator, Null) EXCEPT !.match = value]

High(case) == Word("high", case)

\* Every operator, on a fact of the right kind, of the wrong kind and on one that is not there.
MCForm == <<
    Asks("psValue", "gte", Number(3)), Asks("psValue", "lt", List(<<Number(3)>>)),
    Asks("psValue", "gt", Number(0)), Asks("risk", "lte", Number(3)),
    Asks("risk", "eq", High("lower")), Matches("risk", "neq", High("lower")),
    Asks("risk", "in", List(<<Number(0), High("mixed")>>)),
    Asks("risk", "nin", List(<<Number(3)>>)), Asks("risk", "nin", Number(3)),
    Asks("risk", "contains", Word("hi", "lower")), Asks("risk", "exists", Undefined),
    Matches("psValue", "eq", Null), Asks("psValue", "unheard of", Number(3)), Empties,
    AllOf({1, 5}), AllOf({}), AnyOf({2, 6}), AnyOf({}), Not(1), Not(14), Not(17), AllOf({15, 21}),
    AnyOf({3, 12, 19}), Not(18), Asks("risk", "contains", Number(3)), Asks("risk", "gt", Bool(FALSE)),
    Asks("risk", "contains", Undefined), Asks("risk", "eq", Object), Asks("risk", "gte", List(<<>>)) >>

MCConditions == DOMAIN MCForm
MCReads  == [w \in {"high", "hi", "3", "0", "true", "false", "undefined", "null",
                     "[object object]", "0,high", ""} |->
               CASE w \in {"0", ""} -> {0} [] w = "3" -> {3} [] OTHER -> {}]
MCPartOf == {<<w, w>> : w \in DOMAIN MCReads} \cup {<<"", w>> : w \in DOMAIN MCReads}
            \cup {<<"hi", "high">>, <<"0", "0,high">>, <<"high", "0,high">>, <<"hi", "0,high">>}

Texts  == << <<Number(0), "0">>, <<Number(3), "3">>, <<Bool(TRUE), "true">>, <<Bool(FALSE), "false">>,
             <<List(<<Number(3)>>), "3">>, <<List(<<>>), "">>, <<Object, "[object object]">>,
             <<List(<<Number(0), High("mixed")>>), "0,high">>, <<Null, "null">>, <<Undefined, "undefined">> >>
MCText == [v \in {Texts[i][1] : i \in DOMAIN Texts} |->
             Texts[CHOOSE i \in DOMAIN Texts : Texts[i][1] = v][2]]

ASSUME ProjectFactsAssumption /\ RulesAssumption /\ TextAssumption

----------------------------------------------------------------------------
(* Documentation: of the contents of the metadata, two are complete and differ in the year  *)
(* alone, so that they share a root folder, and one lacks the site.                         *)

MCMetas    == {"y1", "y2", "bare"}
MCReady    == {"y1", "y2"}
MCRootOf   == [m \in MCMetas |-> IF m = "bare" THEN "missing" ELSE "site"]
MCPathOf   == [f \in {"review", "main", "plan"} |-> [m \in MCMetas |->
                 IF f = "review" THEN <<f, m>> ELSE <<f, MCRootOf[m]>>]]
MCCopied   == <<"review">>
MCAsked    == <<"main", "plan">>

ASSUME ProjectDocsAssumption
=============================================================================
