------------------------------ MODULE AgentRuns ------------------------------
(***************************************************************************)
(* The agent analysis of one Atlas result: the route that queues a run and *)
(* leaves it to a background task of the API process, the task, and the    *)
(* page section that polls the latest run on an interval.                  *)
(*                                                                         *)
(* The interval does not wait for the last request, so several requests of *)
(* a client are in flight at once and their answers arrive in any order.   *)
(***************************************************************************)
EXTENDS Naturals, Sequences

CONSTANTS
    Clients,        \* open pages showing the result
    MaxRuns,        \* bound: runs triggered
    MaxCalls        \* bound: polls of a client in flight at once

ASSUME BoundsAssumption == MaxRuns \in Nat /\ MaxCalls \in Nat \ {0}

Outcomes == {"completed", "failed"}
Statuses == {"queued", "running"} \cup Outcomes
RunIds == 1 .. MaxRuns
Calls == 1 .. MaxCalls

\* What the page shows of a run; run 0 is none.
Nothing == [run |-> 0, status |-> "queued"]
Views == [run : RunIds, status : Statuses] \cup {Nothing}

\* A request: not made, on its way there, or its answer on the way back.
Requests == [pc : {"free", "sent", "answered"}, view : Views]
Free == [pc |-> "free", view |-> Nothing]
Sent == [pc |-> "sent", view |-> Nothing]

VARIABLES
    status,         \* agent_runs, by creation: the status of each row
    task,           \* the background task of each row
    shown,          \* the section's run
    call,           \* the section's GET requests
    trigger         \* the section's POST request

serverVars == <<status, task>>
clientVars == <<shown, call, trigger>>
vars == <<status, task, shown, call, trigger>>

TypeOK ==
    /\ status \in Seq(Statuses) /\ Len(status) <= MaxRuns
    /\ task \in Seq({"pending", "working", "over", "lost"}) /\ Len(task) = Len(status)
    /\ shown \in [Clients -> Views]
    /\ call \in [Clients -> [Calls -> Requests]]
    /\ trigger \in [Clients -> Requests]

\* The section mounts and asks whether a run exists already.
Init ==
    /\ status = <<>> /\ task = <<>>
    /\ shown = [c \in Clients |-> Nothing]
    /\ call = [c \in Clients |-> [i \in Calls |-> IF i = 1 THEN Sent ELSE Free]]
    /\ trigger = [c \in Clients |-> Free]

-----------------------------------------------------------------------------
(* The server                                                              *)

\* Mutant of CreateRun: a failed run is queued again rather than a new row.
RequeueRun(c) ==
    /\ IF status # <<>> /\ status[Len(status)] = "failed"
         THEN /\ status' = [status EXCEPT ![Len(status)] = "queued"]
              /\ task' = [task EXCEPT ![Len(status)] = "pending"]
         ELSE status' = Append(status, "queued") /\ task' = Append(task, "pending")
    /\ trigger' = [trigger EXCEPT ![c] =
         [pc |-> "answered", view |-> [run |-> Len(status'), status |-> "queued"]]]

CreateRun(c) ==
    /\ status' = Append(status, "queued")
    /\ task' = Append(task, "pending")
    /\ trigger' = [trigger EXCEPT ![c] =
         [pc |-> "answered", view |-> [run |-> Len(status'), status |-> "queued"]]]

\* POST /results/{result_id}/agent-analysis
TriggerRun(c) ==
    /\ trigger[c].pc = "sent" /\ Len(status) < MaxRuns
    /\ CreateRun(c)
    /\ UNCHANGED <<shown, call>>

StartRun(r) ==
    /\ task[r] = "pending"
    /\ status' = [status EXCEPT ![r] = "running"]
    /\ task' = [task EXCEPT ![r] = "working"]
    /\ UNCHANGED clientVars

\* The pipeline's result, or whatever it raised, is the last commit.
FinishRun(r) ==
    /\ task[r] = "working"
    /\ \E outcome \in Outcomes : status' = [status EXCEPT ![r] = outcome]
    /\ task' = [task EXCEPT ![r] = "over"]
    /\ UNCHANGED clientVars

\* A commit of the task fails, which nothing catches.
LoseTask(r) ==
    /\ task[r] \in {"pending", "working"}
    /\ task' = [task EXCEPT ![r] = "lost"]
    /\ UNCHANGED <<status, clientVars>>

\* The API process dies, and its background tasks with it.
Crash ==
    /\ \E r \in DOMAIN task : task[r] \in {"pending", "working"}
    /\ task' = [r \in DOMAIN task |-> IF task[r] = "over" THEN "over" ELSE "lost"]
    /\ UNCHANGED <<status, clientVars>>

\* GET /results/{result_id}/agent-analysis answers with the latest run.
ReadLatest(c, i) ==
    /\ call[c][i].pc = "sent"
    /\ call' = [call EXCEPT ![c][i] =
         [pc |-> "answered",
          view |-> IF status = <<>> THEN Nothing
                   ELSE [run |-> Len(status), status |-> status[Len(status)]]]]
    /\ UNCHANGED <<serverVars, shown, trigger>>

-----------------------------------------------------------------------------
(* The section                                                             *)

\* The section shows a run as queued or running.
Waiting(c) == shown[c].run # 0 /\ shown[c].status \notin Outcomes

\* Mutant of Polling: a run that waits for its task is not polled.
PollingRunning(c) == shown[c].run # 0 /\ shown[c].status = "running"

\* Its effect keeps an interval as long as it does.
Polling(c) == Waiting(c)

\* The interval fires, whether or not earlier requests were answered.
Ask(c) ==
    /\ Polling(c)
    /\ \E i \in Calls :
         /\ call[c][i] = Free
         /\ call' = [call EXCEPT ![c][i] = Sent]
    /\ UNCHANGED <<serverVars, shown, trigger>>

\* setRun; a 404 for want of a run is an error like any other.
Show(c, i) ==
    /\ call[c][i].pc = "answered"
    /\ shown' = [shown EXCEPT ![c] =
         IF call[c][i].view = Nothing THEN @ ELSE call[c][i].view]
    /\ call' = [call EXCEPT ![c][i] = Free]
    /\ UNCHANGED <<serverVars, trigger>>

\* A request fails and is ignored.
Ignore(c, i) ==
    /\ call[c][i].pc # "free"
    /\ call' = [call EXCEPT ![c][i] = Free]
    /\ UNCHANGED <<serverVars, shown, trigger>>

\* The button is there when there is no run, or a failed one.
Press(c) ==
    /\ trigger[c] = Free
    /\ shown[c].run = 0 \/ shown[c].status = "failed"
    /\ trigger' = [trigger EXCEPT ![c] = Sent]
    /\ UNCHANGED <<serverVars, shown, call>>

ShowTriggered(c) ==
    /\ trigger[c].pc = "answered"
    /\ shown' = [shown EXCEPT ![c] = trigger[c].view]
    /\ trigger' = [trigger EXCEPT ![c] = Free]
    /\ UNCHANGED <<serverVars, call>>

\* The POST fails, before or after the row was committed.
ShowError(c) ==
    /\ trigger[c].pc # "free"
    /\ trigger' = [trigger EXCEPT ![c] = Free]
    /\ UNCHANGED <<serverVars, shown, call>>

Next ==
    \/ \E r \in DOMAIN status : StartRun(r) \/ FinishRun(r) \/ LoseTask(r)
    \/ Crash
    \/ \E c \in Clients :
        \/ TriggerRun(c) \/ Press(c) \/ ShowTriggered(c) \/ ShowError(c) \/ Ask(c)
        \/ \E i \in Calls : ReadLatest(c, i) \/ Show(c, i) \/ Ignore(c, i)

Spec == Init /\ [][Next]_vars

\* Tasks of a living process proceed, the interval keeps firing, and requests
\* that are made again and again do not fail for ever.
Fairness ==
    /\ \A r \in RunIds :
         WF_vars(r \in DOMAIN status /\ (StartRun(r) \/ FinishRun(r)))
    /\ \A c \in Clients :
         /\ WF_vars(Ask(c)) /\ WF_vars(ShowTriggered(c) \/ ShowError(c))
         /\ \A i \in Calls : SF_vars(ReadLatest(c, i)) /\ SF_vars(Show(c, i))

FairSpec == Spec /\ Fairness

LatestLost == task # <<>> /\ task[Len(task)] = "lost"

-----------------------------------------------------------------------------
(* Properties                                                              *)

\* What a view says of a run happened, and an outcome stays.
Sound(view) ==
    view.run # 0 =>
        /\ view.run \in DOMAIN status
        /\ view.status \in Outcomes => status[view.run] = view.status

\* An outcome on the screen is, and stays, the outcome of the run it is shown
\* for, in whatever order answers arrive.
ShownHappened == \A c \in Clients : Sound(shown[c])

\* What makes it inductive: so is what answers in flight say, and a run whose
\* task is not over has no outcome.
AnswersHappened ==
    \A c \in Clients :
        Sound(trigger[c].view) /\ \A i \in Calls : Sound(call[c][i].view)

TasksAreOpen ==
    \A r \in DOMAIN status : task[r] \in {"pending", "working"} => status[r] \notin Outcomes

RunsInvariant == TypeOK /\ ShownHappened /\ AnswersHappened /\ TasksAreOpen

\* A section that polls comes to show an outcome, although answers overtake
\* each other and fail, unless the task of the latest run was lost.
PollingEnds ==
    \A c \in Clients :
        Waiting(c) ~> (~Waiting(c) \/ LatestLost)
=============================================================================
