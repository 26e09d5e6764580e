-------------------------- MODULE ProjectServices --------------------------
(***************************************************************************)
(* Three services of the backend that work on a project and share no       *)
(* state: the sign-off of a node, the facts of a project, and its          *)
(* documentation; and the seed of the demonstration project.  As no step   *)
(* of one can be told by another, a behaviour uses one of them; what the   *)
(* others would keep stays as it begins.                                   *)
(***************************************************************************)
EXTENDS Kiuva, ProjectFacts, ProjectDocs, Seed

VARIABLE service        \* the one that is used

nodeVars == <<signature, signing>>
rowVars  == <<project, call, pending, latest, said>>
services == <<service, turns, nodeVars, rowVars, docVars, seedVars>>

\* The services differ in what there is when they are first called.
ServicesInit ==
    /\ service \in {"sign-off", "facts", "documentation", "seed"}
    /\ Init /\ FactsInit /\ DocInit /\ SInit
    /\ service \notin {"sign-off", "facts"} => turns
    /\ service # "seed" => seeding.script = "seed"
    /\ service # "documentation" => meta = [p \in Projects |-> CHOOSE m \in Metas : TRUE]

OnSignOff       == service = "sign-off" /\ UNCHANGED <<service, rowVars, docVars, seedVars>>
OnFacts         == service = "facts" /\ UNCHANGED <<service, nodeVars, docVars, seedVars>>
OnDocumentation == service = "documentation" /\ UNCHANGED <<service, vars, rowVars, seedVars>>
OnSeed          == service = "seed" /\ UNCHANGED <<service, vars, rowVars, docVars>>

ServicesNext ==
    \/ OnSignOff /\ Next
    \/ OnFacts /\ FactsNext
    \/ OnDocumentation /\ DocNext
    \/ OnSeed /\ SNext

ServicesSpec == ServicesInit /\ [][ServicesNext]_services
=============================================================================
