------------------------------ MODULE MCCaches ------------------------------
(* A small instance of Caches for TLC.  Calls are numbers: queries for fields from 1,      *)
(* indexings of a short guide from 11 and of a longer manual from 13, lists from 21.       *)
EXTENDS Caches

MCFileOf == [i \in Indexings |-> IF i < 13 THEN "guide" ELSE "manual"]
MCChunks == [f \in Files |-> IF f = "guide" THEN 1 ELSE 2]
MCClass  == [f \in Files |-> IF f = "guide" THEN "B" ELSE "A"]
\* The first chunk passes by its vector alone; the second needs its words, and they do not
\* count for enough beside the first one's.
MCVector == [q \in Queries |-> [chunk \in Files \X (1..2) |-> IF chunk[2] = 1 THEN 95 ELSE 50]]
MCWords  == [q \in Queries |-> [chunk \in Files \X (1..2) |-> IF chunk[2] = 1 THEN 2 ELSE 1]]
MCUsed   == {{1, 2, 11, 12}, {1, 13, 14}, {13, 14, 15}, {21, 22, 23}}

Everything == {"A", "B"}
Everybody  == {Everything}
Mixed      == {{"A"}, Everything}

\* Of behaviours that number calls otherwise, the one in order of beginning.
Ordered(calls, pc(_)) == \A c, d \in calls : c < d /\ pc(d) # "unused" => pc(c) # "unused"
FieldPc(c) == field[c].pc
IndexPc(i) == indexing[i].pc
ListPc(c)  == list[c].pc
Numbered   == /\ Ordered(used \cap Fields, FieldPc) /\ Ordered(used \cap Indexings, IndexPc)
              /\ Ordered(used \cap Lists, ListPc)
=============================================================================
