----------------------------- MODULE WorkQueue -----------------------------
(***************************************************************************)
(* What the in-memory ingestion queue promises, with nothing about flags,  *)
(* promises or who happens to run the loop: each server instance serves    *)
(* the files submitted to it one at a time, in the order of submission,    *)
(* and goes on until nothing waits.  A restarted instance has forgotten    *)
(* what it was given.                                                      *)
(***************************************************************************)
EXTENDS Sequences

CONSTANTS Instances, Files, NoFile   \* NoFile is not in Files

VARIABLES waiting,   \* per instance, the files submitted and not yet taken up
          current    \* per instance, the file being served, or NoFile

vars == <<waiting, current>>

Init ==
    /\ waiting = [i \in Instances |-> <<>>]
    /\ current = [i \in Instances |-> NoFile]

\* An idle instance takes the file up at once; a busy one makes it wait.
Submit(i, f) ==
    \/ /\ current[i] = NoFile
       /\ current' = [current EXCEPT ![i] = f]
       /\ UNCHANGED waiting
    \/ /\ current[i] # NoFile
       /\ waiting' = [waiting EXCEPT ![i] = Append(@, f)]
       /\ UNCHANGED current

\* The current file has been served: the first one waiting is next.
Serve(i) ==
    /\ current[i] # NoFile
    /\ \/ /\ waiting[i] = <<>>
          /\ current' = [current EXCEPT ![i] = NoFile]
          /\ UNCHANGED waiting
       \/ /\ waiting[i] # <<>>
          /\ current' = [current EXCEPT ![i] = Head(waiting[i])]
          /\ waiting' = [waiting EXCEPT ![i] = Tail(@)]

Restart(i) ==
    /\ waiting' = [waiting EXCEPT ![i] = <<>>]
    /\ current' = [current EXCEPT ![i] = NoFile]

Next == \E i \in Instances : (\E f \in Files : Submit(i, f)) \/ Serve(i) \/ Restart(i)

SafeSpec == Init /\ [][Next]_vars

Spec == SafeSpec /\ \A i \in Instances : WF_vars(Serve(i))

=============================================================================
