---------------------------- MODULE MCIngestion ----------------------------
(* Small instances of Ingestion for TLC. *)
EXTENDS Ingestion, TLC

\* For the safety runs: nothing tells files, calls, or contents apart.
Symmetry == Permutations(Files) \cup Permutations(Calls) \cup Permutations(Contents)

\* For the liveness run, where symmetry is unsound and calls are numbers: of behaviours
\* that differ in the numbering of calls only, the one that numbers them as they arrive.
\* No fairness is asked of arrivals, so no fair behaviour is lost.
Numbered == \A u, v \in Calls : u < v /\ call[v].pc # "unused" => call[u].pc # "unused"

=============================================================================
