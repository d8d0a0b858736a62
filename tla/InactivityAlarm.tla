--------------------------- MODULE InactivityAlarm ---------------------------
(***************************************************************************)
(* What sensor activity tracking promises, one alarm per sensor: an alarm  *)
(* is raised only for a sensor that is quiet, it is cleared only when the  *)
(* sensor has been seen after the moment the alarm reports, and apart from *)
(* that only a user makes it go away.  SensorActivity implements this with *)
(* tasks, queries and commits.                                             *)
(***************************************************************************)
EXTENDS Naturals

CONSTANT Things

VARIABLES
    alarm,      \* "off", "on", or "stale": still up, the sensor has been seen since
    quiet,      \* the sensor is tracked and was not seen within its threshold
    requests    \* how many requests users have made

vars == <<alarm, quiet, requests>>

Init ==
    /\ alarm = [t \in Things |-> "off"]
    /\ quiet \in [Things -> BOOLEAN]
    /\ requests = 0

Sighting(t) ==
    /\ quiet' = [quiet EXCEPT ![t] = FALSE]
    /\ alarm' = [alarm EXCEPT ![t] = IF @ = "on" THEN "stale" ELSE @]
    /\ UNCHANGED requests

FallQuiet(T) == quiet' = [t \in Things |-> t \in T \/ quiet[t]]

\* Time passes, or a sensor that was never seen becomes known.
Wait(T) ==
    /\ FallQuiet(T)
    /\ UNCHANGED <<alarm, requests>>

Raise(t) ==
    /\ quiet[t]
    /\ alarm[t] = "off"
    /\ alarm' = [alarm EXCEPT ![t] = "on"]
    /\ UNCHANGED <<quiet, requests>>

Clear(t) ==
    /\ alarm[t] = "stale"
    /\ alarm' = [alarm EXCEPT ![t] = "off"]
    /\ UNCHANGED <<quiet, requests>>

\* A user acknowledges an alert, deletes the definition with all of its alerts, or
\* asks for tracking; nothing but a request takes an alarm away that is not stale.
Request(T, Q) ==
    /\ requests' = requests + 1
    /\ alarm' = [t \in Things |-> IF t \in T THEN "off" ELSE alarm[t]]
    /\ FallQuiet(Q)

Next ==
    \/ \E t \in Things : Sighting(t) \/ Raise(t) \/ Clear(t)
    \/ \E T \in SUBSET Things : Wait(T)
    \/ \E T, Q \in SUBSET Things : Request(T, Q)

Spec == Init /\ [][Next]_vars
=============================================================================
