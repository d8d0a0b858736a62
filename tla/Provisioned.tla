----------------------------- MODULE Provisioned -----------------------------
(***************************************************************************)
(* What provisioning promises, thing by thing: a creation answers "created" *)
(* only if the project has the thing, or is gone, or the link, the last     *)
(* step, has just failed; a thing appears only because it was ordered, or   *)
(* because its configuration was sent while it was there; its data come     *)
(* only while it is there; and apart from that only users take things away, *)
(* and are told so.  SensorProvisioning implements this with messages,      *)
(* timeouts and three stores.                                               *)
(***************************************************************************)
CONSTANT Things

VARIABLES
    ordered,  \* things that have been ordered, ever
    open,     \* things whose creation has not been answered
    missing,  \* things that their project does not have
    there,    \* things that the TSM has
    data,     \* things with rows of their own
    coming,   \* things that something under way may bring, or bring back
    word,     \* word[t]: what the user was last told of t
    loose     \* things whose creation was answered though its last step, the link, failed

vars == <<ordered, open, missing, there, data, coming, word, loose>>

Init ==
    /\ ordered \in SUBSET Things
    /\ open = {} /\ missing = {} /\ coming = {}
    /\ there = ordered /\ data = ordered
    /\ word = [t \in Things |-> "none"]
    /\ loose = {}

\* Something that was under way for t ends.
Lapses(t) == coming' \in {coming, coming \ {t}}

Order(t) ==
    /\ t \notin ordered
    /\ ordered' = ordered \cup {t}
    /\ open' = open \cup {t}
    /\ coming' = coming \cup {t}
    /\ missing' \in {missing, missing \cup {t}}
    /\ UNCHANGED <<there, data, word, loose>>

\* The configuration of a thing that is there is taken, to be sent again.
Sync(t) ==
    /\ t \in there
    /\ coming' = coming \cup {t}
    /\ UNCHANGED <<ordered, open, missing, there, data, word, loose>>

Lapse(t) ==
    /\ Lapses(t)
    /\ UNCHANGED <<ordered, open, missing, there, data, word, loose>>

Appear(t) ==
    /\ t \in coming
    /\ there' = there \cup {t}
    /\ Lapses(t)
    /\ UNCHANGED <<ordered, open, missing, data, word, loose>>

SetUp(t) ==
    /\ t \in there
    /\ data' = data \cup {t}
    /\ UNCHANGED <<ordered, open, missing, there, coming, word, loose>>

\* A creation is answered; the link may be its last step.
Settle(t, answer) ==
    /\ t \in open
    /\ open' = open \ {t}
    /\ missing' \in {missing, missing \ {t}}
    /\ answer = "created" => t \notin missing'
    /\ word' = [word EXCEPT ![t] = answer]
    /\ Lapses(t)
    /\ UNCHANGED <<ordered, there, data, loose>>

\* The last step of a creation fails, and the user hears "created" all the same.
SettleLoose(t) ==
    /\ t \in open
    /\ open' = open \ {t}
    /\ word' = [word EXCEPT ![t] = "created"]
    /\ loose' = loose \cup {t}
    /\ UNCHANGED <<ordered, missing, there, data, coming>>

\* A user links t, or the project of some things is deleted.
NotMissing(T) ==
    /\ missing' = missing \ T
    /\ UNCHANGED <<ordered, open, there, data, coming, word, loose>>

\* A user takes t out of a project, or deletes it, in several steps; at most the
\* last of those that end is told.
Remove(t, answer) ==
    /\ t \in ordered
    /\ missing' \in {missing, missing \cup {t}}
    /\ there' \in {there, there \ {t}}
    /\ data' \in {data, data \ {t}}
    /\ word' = [word EXCEPT ![t] = answer]
    /\ UNCHANGED <<ordered, open, coming, loose>>

\* A deletion of which nobody was told yet.
Delete(t) ==
    /\ there' \in {there, there \ {t}}
    /\ data' \in {data, data \ {t}}
    /\ UNCHANGED <<ordered, open, missing, coming, word, loose>>

Next ==
    \/ \E t \in Things :
          \/ Order(t) \/ Sync(t) \/ Lapse(t) \/ Appear(t) \/ SetUp(t) \/ Delete(t)
          \/ \E answer \in {"created", "failed"} : Settle(t, answer)
          \/ SettleLoose(t)
          \/ \E answer \in {"unlinked", "deleted"} : Remove(t, answer)
    \/ \E T \in SUBSET Things : NotMissing(T)

Spec == Init /\ [][Next]_vars
=============================================================================
