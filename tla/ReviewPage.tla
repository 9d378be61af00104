------------------------------ MODULE ReviewPage ------------------------------
(***************************************************************************)
(* The review page: it submits a repository, polls the job on timers until *)
(* there is a report or a failure, and shows the report; a page opened on  *)
(* a result link loads that report whenever it has none to show.           *)
(*                                                                         *)
(* Every await is a step: requests are in flight while the user, a timer   *)
(* or another answer changes the page.  Requests fail at any time.         *)
(***************************************************************************)
EXTENDS Naturals

CONSTANTS
    MaxJob,         \* bound: submissions
    MaxPolls,       \* MAX_POLLS
    HasLink,        \* the page was opened with ?result_id=
    None, Linked    \* no job or report, and the report of the link

ASSUME MaxJobAssumption == MaxJob \in Nat
ASSUME MaxPollsAssumption == MaxPolls \in Nat \ {0}
ASSUME NamesAssumption == None # Linked /\ {None, Linked} \cap Nat = {}
ASSUME HasLinkAssumption == HasLink \in BOOLEAN

Jobs == 1 .. MaxJob
Statuses == {"idle", "queued", "running", "completed", "failed"}

VARIABLES
    server,         \* the status of each job at the server
    status,         \* what the page shows
    result,         \* the report it shows: of a job, or the linked one
    active,         \* activeJobId
    loop,           \* per submission: where its chain of awaits and timers is
    timer,          \* pollTimeout: the job whose timer was armed last
    link            \* a load of the linked report that was not cancelled

page == <<status, result, active>>
vars == <<server, status, result, active, loop, timer, link>>

Loops == [pc : {"new", "submit", "status", "result", "timer", "over"},
          polls : 0 .. MaxPolls - 1]

TypeOK ==
    /\ server \in [Jobs -> Statuses \ {"idle"}]
    /\ status \in Statuses
    /\ result \in Jobs \cup {None, Linked}
    /\ active \in Jobs \cup {None}
    /\ loop \in [Jobs -> Loops]
    /\ timer \in Jobs \cup {None}
    /\ link \in BOOLEAN

Init ==
    /\ server = [j \in Jobs |-> "queued"]
    /\ status = "idle" /\ result = None /\ active = None
    /\ loop = [j \in Jobs |-> [pc |-> "new", polls |-> 0]]
    /\ timer = None
    /\ link = HasLink

Waiting == status \in {"queued", "running"}

-----------------------------------------------------------------------------

\* Once submitted, the job proceeds, whether or not anybody asks.
Proceed(j) ==
    /\ loop[j].pc # "new"
    /\ \/ server[j] = "queued" /\ server' = [server EXCEPT ![j] = "running"]
       \/ /\ server[j] \in {"queued", "running"}
          /\ \E s \in {"completed", "failed"} : server' = [server EXCEPT ![j] = s]
    /\ UNCHANGED <<page, loop, timer, link>>

Step(j, pc) == loop' = [loop EXCEPT ![j].pc = pc]

\* The report changes; the effect of the link cancels its load, or starts one.
SetResult(report) ==
    /\ result' = report
    /\ link' = IF report # result THEN HasLink /\ report = None ELSE link

\* handleSubmit, while the button is enabled.
Submit(j) ==
    /\ ~Waiting
    /\ loop[j].pc = "new" /\ \A i \in Jobs : i < j => loop[i].pc # "new"
    /\ loop' = [i \in Jobs |->
         IF i = j THEN [loop[i] EXCEPT !.pc = "submit"]
         ELSE IF i = timer /\ loop[i].pc = "timer" THEN [loop[i] EXCEPT !.pc = "over"]
         ELSE loop[i]]
    /\ active' = None
    /\ status' = "queued"
    /\ SetResult(None)
    /\ UNCHANGED <<server, timer>>

\* ... and its answer: the job is tracked from now on.
Submitted(j) ==
    /\ loop[j].pc = "submit"
    /\ active' = j
    /\ Step(j, "status")
    /\ UNCHANGED <<server, status, result, timer, link>>

SubmitFails(j) ==
    /\ loop[j].pc = "submit"
    /\ status' = "idle"
    /\ Step(j, "over")
    /\ UNCHANGED <<server, result, active, timer, link>>

\* The next poll is put on a timer.
Arm(j) == Step(j, "timer") /\ timer' = j

\* Mutant of Tracked: answers are not checked against the active job.
Anyway(j) == TRUE

Tracked(j) == active = j

\* An answer for a job that is no longer tracked ends its loop.
Dropped(j) ==
    /\ loop[j].pc = "status" /\ ~Tracked(j)
    /\ Step(j, "over")
    /\ UNCHANGED <<server, page, timer, link>>

StatusAnswer(j) ==
    /\ loop[j].pc = "status" /\ Tracked(j)
    /\ status' = server[j]
    /\ \/ /\ server[j] \in {"queued", "running"} /\ Arm(j)
          /\ UNCHANGED active
       \/ /\ server[j] = "completed" /\ Step(j, "result")
          /\ UNCHANGED <<active, timer>>
       \/ /\ server[j] = "failed" /\ Step(j, "over")
          /\ active' = None
          /\ UNCHANGED timer
    /\ UNCHANGED <<server, result, link>>

\* The report is shown, and whatever is tracked no longer is.
ResultAnswer(j) ==
    /\ loop[j].pc = "result"
    /\ SetResult(j)
    /\ active' = None
    /\ Step(j, "over")
    /\ UNCHANGED <<server, status, timer>>

\* Mutant of PollFails: a failed request ends the loop.
PollFailsForGood(j) ==
    /\ loop[j].pc \in {"status", "result"}
    /\ Step(j, "over")
    /\ UNCHANGED <<server, page, timer, link>>

\* A failed request for the status or the report is one poll more.
PollFails(j) ==
    /\ loop[j].pc \in {"status", "result"}
    /\ IF active = j THEN Arm(j) ELSE Step(j, "over") /\ UNCHANGED timer
    /\ UNCHANGED <<server, page, link>>

\* The timer was that of the last poll.
LastPoll(j) == loop[j].polls + 1 >= MaxPolls

\* Mutant of Fire: the next poll does not count the ones before.
FireUncounted(j) ==
    /\ loop[j].pc = "timer" /\ ~LastPoll(j)
    /\ Step(j, "status")
    /\ UNCHANGED <<server, page, timer, link>>

\* The timer fires: the next poll, or none after MAX_POLLS.
Fire(j) ==
    /\ loop[j].pc = "timer" /\ ~LastPoll(j)
    /\ loop' = [loop EXCEPT ![j] = [pc |-> "status", polls |-> @.polls + 1]]
    /\ UNCHANGED <<server, page, timer, link>>

GiveUp(j) ==
    /\ loop[j].pc = "timer" /\ LastPoll(j)
    /\ Step(j, "over")
    /\ status' = "failed" /\ active' = None
    /\ UNCHANGED <<server, result, timer, link>>

\* The linked report arrives.
LinkLoaded ==
    /\ link
    /\ SetResult(Linked)
    /\ status' = "completed"
    /\ UNCHANGED <<server, active, loop, timer>>

LinkFails ==
    /\ link /\ link' = FALSE
    /\ UNCHANGED <<server, page, loop, timer>>

\* What follows by itself once a review was submitted.
Follow(j) ==
    \/ Submitted(j) \/ SubmitFails(j) \/ Dropped(j) \/ StatusAnswer(j)
    \/ ResultAnswer(j) \/ PollFails(j) \/ Fire(j) \/ GiveUp(j)

Next ==
    \/ \E j \in Jobs : Proceed(j) \/ Submit(j) \/ Follow(j)
    \/ LinkLoaded \/ LinkFails

Spec == Init /\ [][Next]_vars

\* Requests are answered or fail, and timers fire; the job need not proceed.
FairSpec == Spec /\ \A j \in Jobs : WF_vars(Follow(j))

-----------------------------------------------------------------------------
(* Properties                                                              *)

\* A tracked job is always awaited by a request or a timer: the page never
\* keeps a job nobody will ask for again.
TrackedIsAwaited ==
    active # None => loop[active].pc \in {"status", "result", "timer"}

\* The page says completed without showing a report only while it is still
\* after that report.
CompletedShowsReport ==
    status = "completed" /\ result = None => active # None

PageInvariant == TypeOK /\ TrackedIsAwaited /\ CompletedShowsReport

\* A submission comes to an end on the screen, though every request may fail
\* and the job never end, unless the report of an earlier one lands meanwhile.
SubmissionEnds == Waiting ~> (~Waiting \/ result # None)

-----------------------------------------------------------------------------
(* A promise the page does not keep                                        *)

\* review/page.tsx:267: "Submit a public GitHub repository and wait for the
\* scorecard plus findings": the wait ends for every submission.
EverySubmissionEnds == Waiting ~> ~Waiting
=============================================================================
