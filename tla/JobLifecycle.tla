---------------------------- MODULE JobLifecycle ----------------------------
(***************************************************************************)
(* What a job table promises to the people who submit jobs and poll them,  *)
(* whatever the queue behind it does.  A job row is created queued, is     *)
(* taken by at most one worker lane in its whole life, never becomes       *)
(* queued again, and ends completed or failed.  An outcome may still be    *)
(* revised, but only by the one lane that took the job and only while that *)
(* lane holds it: recovery marks a job failed although its lane may still  *)
(* be running, and the lane writes its own outcome over the mark.          *)
(*                                                                         *)
(* The Atlas queue and the review queue are both shown to implement this.  *)
(***************************************************************************)

CONSTANT JobIds

VARIABLES
    status,     \* the status column of every job row, "absent" before the row
    held        \* the jobs some live lane is executing

vars == <<status, held>>

Outcomes == {"completed", "failed"}
Statuses == {"absent", "queued", "running"} \cup Outcomes

TypeOK ==
    /\ status \in [JobIds -> Statuses]
    /\ held \in SUBSET JobIds

Init ==
    /\ status = [j \in JobIds |-> "absent"]
    /\ held = {}

\* A client's request creates the row.
Submit(j) ==
    /\ status[j] = "absent"
    /\ status' = [status EXCEPT ![j] = "queued"]
    /\ UNCHANGED held

\* One lane takes a queued job; this is the only way to become a holder.
Start(j) ==
    /\ status[j] = "queued"
    /\ status' = [status EXCEPT ![j] = "running"]
    /\ held' = held \cup {j}

\* The holder writes an outcome, and lets the job go or works on.
Report(j) ==
    /\ j \in held
    /\ \E out \in Outcomes : status' = [status EXCEPT ![j] = out]
    /\ held' \in {held, held \ {j}}

\* Some holders let go, or die, without writing anything.
Drop(S) ==
    /\ held' = held \ S
    /\ UNCHANGED status

\* Maintenance fails jobs that waited, or ran, for too long.  It looks at the
\* clock and never at the holders.
FailOverdue(S) ==
    /\ \E phase \in {"queued", "running"} : \A j \in S : status[j] = phase
    /\ status' = [j \in JobIds |-> IF j \in S THEN "failed" ELSE status[j]]
    /\ UNCHANGED held

Next ==
    \/ \E j \in JobIds : Submit(j) \/ Start(j) \/ Report(j)
    \/ \E S \in SUBSET JobIds : Drop(S) \/ FailOverdue(S)

Spec == Init /\ [][Next]_vars
=============================================================================
