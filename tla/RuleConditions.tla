--------------------------- MODULE RuleConditions ---------------------------
(***************************************************************************)
(* The condition language of the rule engine (rule-engine.service.ts,      *)
(* evaluateCondition): conditions nested by all, any and not over tests of *)
(* one fact, with JavaScript's conversions.                                *)
(*                                                                         *)
(* A condition is a member of Conditions, whose form Form gives; parts are *)
(* conditions again, never one's own.  A value is what JSON can hold: a    *)
(* number, a boolean, a word in some spelling, a list, an object, null; or *)
(* undefined.  What JavaScript makes of a word, and the word it makes of   *)
(* another value, are tables.                                              *)
(***************************************************************************)
EXTENDS Integers, Sequences

CONSTANTS
    Conditions,     \* the nodes of the conditions' JSON trees
    Form,           \* per node: its kind, its parts or the test it makes
    Reads,          \* per word, the numbers Number() reads in it: one, or none
    PartOf,         \* pairs of words of which the second contains the first
    Text            \* per value that is no word, the word String() makes of it

Number(n)     == <<"number", n>>
Bool(b)       == <<"boolean", b>>
Word(w, case) == <<"word", w, case>>
List(values)  == <<"list", values>>
Object        == <<"object">>
Null          == <<"null">>
Undefined     == <<"undefined">>

Absent == {Null, Undefined}

NoText    == ""
EmptyWord == Word(NoText, "lower")

\* A number is a whole one.
Numeric(v) == v[1] = "number" => v[2] \in Int

\* What the constants are taken to be: JSON text nests finitely, so of any conditions with
\* parts one has none of the others for a part.
ConditionsAssumption ==
    /\ \A c \in Conditions : Form[c].parts \subseteq Conditions
    /\ \A c \in Conditions : Form[c].kind = "test" =>
          Numeric(Form[c].value) /\ Numeric(Form[c].equals) /\ Numeric(Form[c].match)
    /\ \A c \in Conditions : Form[c].kind = "not" => Form[c].parts # {}
    /\ \A S \in SUBSET {c \in Conditions : Form[c].parts # {}} :
          S # {} => \E c \in S : Form[c].parts \cap S = {}

\* String(v), spelling aside.
TextOf(v) == IF v[1] = "word" THEN v[2] ELSE Text[v]

\* The tables are JavaScript's: no elements make the empty text, one makes its own, null
\* and undefined make none there; an empty text is zero, and that of a number the number.
TextAssumption ==
    /\ Reads[NoText] = {0}
    /\ \A w \in DOMAIN Reads : {<<NoText, w>>, <<w, w>>} \subseteq PartOf
    /\ \A v \in DOMAIN Text :
        /\ v[1] = "number" => Reads[Text[v]] = {v[2]}
        /\ v[1] \in {"boolean", "object", "undefined", "null"} => Reads[Text[v]] = {}
        /\ v[1] = "list" /\ Len(v[2]) < 2 =>
             Text[v] = IF v[2] = <<>> \/ v[2][1] \in Absent THEN NoText ELSE TextOf(v[2][1])

\* Compared by ===, two lists or objects are never the same.
Scalar(v) == v[1] \notin {"list", "object"}

\* normalizeValue: spelling does not count.
Fold(v) == IF v[1] = "word" THEN Word(v[2], "lower") ELSE v

\* Number(v), as the set of the numbers it is: NaN is none, null is zero, and a list or an
\* object is what its text is.
ToNumber(v) == CASE v[1] = "number"    -> {v[2]}
                 [] v[1] = "boolean"   -> {IF v[2] THEN 1 ELSE 0}
                 [] v[1] = "null"      -> {0}
                 [] v[1] = "undefined" -> {}
                 [] OTHER              -> Reads[TextOf(v)]

\* compareValues(a, b) === 0
Equal(a, b) == Scalar(a) /\ Fold(a) = Fold(b)

\* condition.value ?? condition.equals ?? condition.match
Target(form) == CASE form.value \notin Absent  -> form.value
                  [] form.value \in Absent /\ form.equals \notin Absent -> form.equals
                  [] OTHER -> form.match

\* list.map(normalizeValue).includes(normalizeValue(v))
Listed(v, list) == Scalar(v) /\ \E i \in DOMAIN list[2] : Fold(list[2][i]) = Fold(v)

\* One test of one fact.  An operator that is not known holds of everything.
Test(operator, v, target) ==
    CASE operator = "eq"   -> Equal(v, target)
      [] operator = "neq"  -> ~Equal(v, target)
      [] operator = "gt"   -> \E a \in ToNumber(v), b \in ToNumber(target) : a > b
      [] operator = "gte"  -> \E a \in ToNumber(v), b \in ToNumber(target) : a >= b
      [] operator = "lt"   -> \E a \in ToNumber(v), b \in ToNumber(target) : a < b
      [] operator = "lte"  -> \E a \in ToNumber(v), b \in ToNumber(target) : a <= b
      [] operator = "in"   -> target[1] = "list" /\ Listed(v, target)
      [] operator = "nin"  -> target[1] = "list" => ~Listed(v, target)
      [] operator = "contains" -> \/ v[1] = "list" /\ Listed(target, v)
                                  \/ v[1] = "word" /\ <<TextOf(target), v[2]>> \in PartOf
      [] operator = "exists" -> v \notin Absent /\ Fold(v) # EmptyWord
      [] OTHER -> TRUE

\* Broken variant of EvaluateCondition: an any of which no part holds is taken for an all.
EvaluateConditionEager(facts) ==
    LET Holds[c \in Conditions] ==
          LET form == Form[c] IN
          CASE form.kind \in {"all", "any"} -> \A part \in form.parts : Holds[part]
            [] form.kind = "not"  -> \A part \in form.parts : ~Holds[part]
            [] form.kind = "test" -> Test(form.operator, facts[form.fact], Target(form))
            [] OTHER -> TRUE
    IN Holds

\* evaluateCondition, for all conditions at once.  A condition without a form the engine
\* knows ("none": no key, or keys it does not look at) holds of everything.
EvaluateCondition(facts) ==
    LET Holds[c \in Conditions] ==
          LET form == Form[c] IN
          CASE form.kind = "all"  -> \A part \in form.parts : Holds[part]
            [] form.kind = "any"  -> \E part \in form.parts : Holds[part]
            [] form.kind = "not"  -> \A part \in form.parts : ~Holds[part]
            [] form.kind = "test" -> Test(form.operator, facts[form.fact], Target(form))
            [] OTHER -> TRUE
    IN Holds

----------------------------------------------------------------------------
(* The reference: what a condition says of facts some of which are not known, by what its *)
(* operators mean and without JavaScript's conversions                                    *)

Orderings == {"gt", "gte", "lt", "lte"}

\* The same to a reader: the same value, or the same word however it is spelled.
Alike(v, w) == v = w \/ (v[1] = "word" /\ w[1] = "word" /\ v[2] = w[2])
Among(v, values) == \E i \in DOMAIN values : Alike(v, values[i])

\* A test is sure of its answer where it compares like with like, or asks what is there.
Sure(operator, v, target) ==
    CASE operator \in Orderings      -> v[1] = "number" /\ target[1] = "number"
      [] operator \in {"eq", "neq"}  -> v \notin Absent /\ (Scalar(v) \/ Scalar(target))
      [] operator \in {"in", "nin"}  -> v \notin Absent /\ Scalar(v) /\ target[1] = "list"
      [] operator = "contains"       -> \/ v[1] = "list" /\ Scalar(target)
                                        \/ v[1] = "word" /\ target[1] = "word"
      [] OTHER -> TRUE

\* What it answers then.
Compare(operator, v, target) ==
    CASE operator = "gt"  -> v[2] > target[2]
      [] operator = "gte" -> ~(v[2] < target[2])
      [] operator = "lt"  -> v[2] < target[2]
      [] operator = "lte" -> ~(v[2] > target[2])
      [] operator = "eq"  -> Alike(v, target)
      [] operator = "neq" -> ~Alike(v, target)
      [] operator = "in"  -> Among(v, target[2])
      [] operator = "nin" -> ~Among(v, target[2])
      [] operator = "contains" -> IF v[1] = "list" THEN Among(target, v[2])
                                                   ELSE <<target[2], v[2]>> \in PartOf
      [] operator = "exists" -> v \notin Absent /\ ~Alike(v, EmptyWord)
      [] OTHER -> TRUE

\* The truth values a condition may have, whatever the facts that are not there would be.
Truths(facts) ==
    LET Of[c \in Conditions] ==
          LET form == Form[c] IN
          CASE form.kind = "all" ->
                 {b \in BOOLEAN : IF b THEN \A part \in form.parts : TRUE \in Of[part]
                                       ELSE \E part \in form.parts : FALSE \in Of[part]}
            [] form.kind = "any" ->
                 {b \in BOOLEAN : IF b THEN \E part \in form.parts : TRUE \in Of[part]
                                       ELSE \A part \in form.parts : FALSE \in Of[part]}
            [] form.kind = "not" -> {~b : b \in UNION {Of[part] : part \in form.parts}}
            [] form.kind = "test" ->
                 IF Sure(form.operator, facts[form.fact], Target(form))
                   THEN {Compare(form.operator, facts[form.fact], Target(form))}
                   ELSE BOOLEAN
            [] OTHER -> {TRUE}
    IN Of
=============================================================================
