------------------------------- MODULE JobLife -------------------------------
(***************************************************************************)
(* What the page of a script's jobs promises: a job runs once and comes to  *)
(* one end; the page shows no other end, and shows it for good; jobs are    *)
(* listed under a script that is, and go with it at once.  ScriptJobs       *)
(* implements this with rows, Celery's results that expire, and requests    *)
(* that overtake each other.                                               *)
(***************************************************************************)
CONSTANTS Scripts, Jobs

None == "none"

VARIABLES
    listed,   \* listed[s]: whether s is "new", "listed" or "gone"
    run,      \* run[j]: the script that j was sent to run
    outcome,  \* outcome[j]: what j came to, as far as anybody can still tell
    page      \* page[j]: what is shown of j

vars == <<listed, run, outcome, page>>

Final   == {"SUCCESS", "FAILURE"}
Nothing == [status |-> None, content |-> None]
Pending == [status |-> "PENDING", content |-> None]
Unknown == [status |-> "UNKNOWN", content |-> None]
Result  == [status |-> "SUCCESS", content |-> "result"]
Ends    == {Result} \cup [status : Final, content : {"error"}]

Init ==
    /\ listed = [s \in Scripts |-> "new"]
    /\ run = [j \in Jobs |-> None]
    /\ outcome = [j \in Jobs |-> Nothing]
    /\ page = [j \in Jobs |-> Nothing]

\* A script whose project is gone is never listed.
Add(s) ==
    /\ listed[s] = "new"
    /\ \E state \in {"listed", "gone"} : listed' = [listed EXCEPT ![s] = state]
    /\ UNCHANGED <<run, outcome, page>>

\* With the jobs that are shown.
Remove(s) ==
    /\ listed[s] = "listed"
    /\ listed' = [listed EXCEPT ![s] = "gone"]
    /\ page' = [j \in Jobs |->
                   IF run[j] = s /\ page[j].status \in {"PENDING"} \cup Final
                   THEN [page[j] EXCEPT !.status = "deleted"] ELSE page[j]]
    /\ UNCHANGED <<run, outcome>>

Submit(j, s) ==
    /\ run[j] = None /\ listed[s] # "new"
    /\ run' = [run EXCEPT ![j] = s]
    /\ UNCHANGED <<listed, outcome, page>>

List(j) ==
    /\ run[j] # None /\ page[j].status = None
    /\ listed[run[j]] = "listed"
    /\ page' = [page EXCEPT ![j] = Pending]
    /\ UNCHANGED <<listed, run, outcome>>

\* A result needs the script.
End(j, end) ==
    /\ run[j] # None /\ outcome[j] = Nothing
    /\ end = Result => listed[run[j]] = "listed"
    /\ outcome' = [outcome EXCEPT ![j] = end]
    /\ UNCHANGED <<listed, run, page>>

\* Nobody can tell any more what these came to, or will come to.
Forgets(js) ==
    /\ \A j \in js : run[j] # None
    /\ outcome' = [j \in Jobs |-> IF j \in js THEN Unknown ELSE outcome[j]]

Forget(js) ==
    /\ Forgets(js)
    /\ UNCHANGED <<listed, run, page>>

\* Jobs that are shown as pending get their ends; who brought them may have been the
\* last to know.
Show(js, forgotten) ==
    /\ \A j \in js : page[j].status = "PENDING" /\ outcome[j].status \in Final
    /\ page' = [j \in Jobs |-> IF j \in js THEN outcome[j] ELSE page[j]]
    /\ Forgets(forgotten)
    /\ UNCHANGED <<listed, run>>

Next ==
    \/ \E s \in Scripts : Add(s) \/ Remove(s)
    \/ \E j \in Jobs : List(j) \/ (\E s \in Scripts : Submit(j, s))
                       \/ (\E end \in Ends : End(j, end))
    \/ \E js \in SUBSET Jobs : Forget(js) \/ (\E others \in SUBSET Jobs : Show(js, others))

Spec == Init /\ [][Next]_vars
=============================================================================
