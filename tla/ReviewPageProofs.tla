--------------------------- MODULE ReviewPageProofs ---------------------------
(***************************************************************************)
(* The review page never forgets the job it tracks, and never says that a  *)
(* review is completed with neither a report nor a request for it, for any *)
(* number of submissions and polls.                                        *)
(***************************************************************************)
EXTENDS ReviewPage, TLAPS

USE MaxJobAssumption, MaxPollsAssumption, NamesAssumption, HasLinkAssumption

\* A page that was just opened satisfies the invariant.
THEOREM InvariantInit == Init => PageInvariant
  BY DEF Init, PageInvariant, TypeOK, Statuses, Loops, TrackedIsAwaited,
         CompletedShowsReport

\* A name that is no number is no job.
LEMMA NamesAreNoJobs == None \notin Jobs /\ Linked \notin Jobs /\ None # Linked
  BY DEF Jobs

\* Moving a loop keeps the shape of loops and the other loops.
LEMMA StepMoves ==
  ASSUME TypeOK, NEW j \in Jobs, NEW pc \in {"submit", "status", "result", "timer", "over"},
         Step(j, pc)
  PROVE  /\ loop' \in [Jobs -> Loops]
         /\ loop'[j].pc = pc
         /\ \A i \in Jobs : i # j => loop'[i] = loop[i]
  BY DEF TypeOK, Step, Loops

\* Setting the report to a job's, the linked one or none keeps the types.
LEMMA SetResultTypes ==
  ASSUME TypeOK, NEW report \in Jobs \cup {None, Linked}, SetResult(report)
  PROVE  result' = report /\ link' \in BOOLEAN
  BY DEF TypeOK, SetResult

\* Every await, timer and click keeps the invariant.
THEOREM InvariantStep == PageInvariant /\ [Next]_vars => PageInvariant'
<1> SUFFICES ASSUME PageInvariant, [Next]_vars PROVE PageInvariant'
  OBVIOUS
<1> USE DEF PageInvariant, page
<1>n. None \notin Jobs /\ Linked \notin Jobs /\ None # Linked
  BY NamesAreNoJobs
<1>1. ASSUME NEW j \in Jobs, Proceed(j) PROVE PageInvariant'
  BY <1>1 DEF Proceed, TypeOK, Statuses, TrackedIsAwaited, CompletedShowsReport
<1>2. ASSUME NEW j \in Jobs, Submit(j) PROVE PageInvariant'
  <2>1. loop' \in [Jobs -> Loops]
    BY <1>2 DEF Submit, TypeOK, Loops
  <2>2. TypeOK'
    BY <1>2, <2>1, SetResultTypes DEF Submit, TypeOK, Statuses
  <2> QED
    BY <1>2, <2>2 DEF Submit, TrackedIsAwaited, CompletedShowsReport
<1>3. ASSUME NEW j \in Jobs, Submitted(j) PROVE PageInvariant'
  BY <1>3, <1>n, StepMoves DEF Submitted, TypeOK, TrackedIsAwaited, CompletedShowsReport
<1>4. ASSUME NEW j \in Jobs, SubmitFails(j) PROVE PageInvariant'
  BY <1>4, StepMoves
     DEF SubmitFails, TypeOK, Statuses, TrackedIsAwaited, CompletedShowsReport
<1>5. ASSUME NEW j \in Jobs, Dropped(j) PROVE PageInvariant'
  BY <1>5, StepMoves DEF Dropped, Tracked, TypeOK, TrackedIsAwaited, CompletedShowsReport
<1>6. ASSUME NEW j \in Jobs, StatusAnswer(j) PROVE PageInvariant'
  <2>1. /\ active = j /\ status' = server[j] /\ server[j] \in Statuses \ {"idle"}
        /\ UNCHANGED <<server, result, link>>
    BY <1>6 DEF StatusAnswer, Tracked, TypeOK
  <2>2. CASE server[j] \in {"queued", "running"} /\ Arm(j) /\ UNCHANGED active
    BY <2>1, <2>2, <1>n, StepMoves
       DEF Arm, TypeOK, Statuses, TrackedIsAwaited, CompletedShowsReport
  <2>3. CASE server[j] = "completed" /\ Step(j, "result") /\ UNCHANGED <<active, timer>>
    BY <2>1, <2>3, <1>n, StepMoves
       DEF TypeOK, Statuses, TrackedIsAwaited, CompletedShowsReport
  <2>4. CASE server[j] = "failed" /\ Step(j, "over") /\ active' = None /\ UNCHANGED timer
    BY <2>1, <2>4, StepMoves
       DEF TypeOK, Statuses, TrackedIsAwaited, CompletedShowsReport
  <2> QED
    BY <1>6, <2>2, <2>3, <2>4 DEF StatusAnswer
<1>7. ASSUME NEW j \in Jobs, ResultAnswer(j) PROVE PageInvariant'
  <2>1. result' = j /\ link' \in BOOLEAN
    BY <1>7, SetResultTypes DEF ResultAnswer
  <2> QED
    BY <1>7, <2>1, <1>n, StepMoves
       DEF ResultAnswer, TypeOK, TrackedIsAwaited, CompletedShowsReport
<1>8. ASSUME NEW j \in Jobs, PollFails(j) PROVE PageInvariant'
  <2>1. CASE active = j
    BY <1>8, <2>1, StepMoves
       DEF PollFails, Arm, TypeOK, TrackedIsAwaited, CompletedShowsReport
  <2>2. CASE active # j
    BY <1>8, <2>2, StepMoves
       DEF PollFails, TypeOK, TrackedIsAwaited, CompletedShowsReport
  <2> QED
    BY <2>1, <2>2
<1>9. ASSUME NEW j \in Jobs, Fire(j) PROVE PageInvariant'
  <2>1. loop[j].polls + 1 \in 0 .. MaxPolls - 1
    BY <1>9 DEF Fire, LastPoll, TypeOK, Loops
  <2>2. /\ loop' \in [Jobs -> Loops] /\ loop'[j].pc = "status"
        /\ \A i \in Jobs : i # j => loop'[i] = loop[i]
    BY <1>9, <2>1 DEF Fire, TypeOK, Loops
  <2> QED
    BY <1>9, <2>2 DEF Fire, TypeOK, TrackedIsAwaited, CompletedShowsReport
<1>10. ASSUME NEW j \in Jobs, GiveUp(j) PROVE PageInvariant'
  BY <1>10, StepMoves DEF GiveUp, TypeOK, Statuses, TrackedIsAwaited, CompletedShowsReport
<1>11. CASE LinkLoaded
  BY <1>11, <1>n, SetResultTypes
     DEF LinkLoaded, TypeOK, Statuses, TrackedIsAwaited, CompletedShowsReport
<1>12. CASE LinkFails
  BY <1>12 DEF LinkFails, TypeOK, TrackedIsAwaited, CompletedShowsReport
<1>13. CASE UNCHANGED vars
  BY <1>13 DEF vars, TypeOK, TrackedIsAwaited, CompletedShowsReport
<1> QED
  BY <1>1, <1>2, <1>3, <1>4, <1>5, <1>6, <1>7, <1>8, <1>9, <1>10, <1>11, <1>12, <1>13
     DEF Next, Follow

\* The invariant holds in every reachable state.
THEOREM InvariantHolds == Spec => []PageInvariant
  BY InvariantInit, InvariantStep, PTL DEF Spec

\* A job the page tracks is awaited by a request or a timer.
THEOREM TrackedJobsAreAwaited == Spec => []TrackedIsAwaited
  BY InvariantHolds, PTL DEF PageInvariant

\* A page that says completed shows a report or still asks for it.
THEOREM CompletedPagesShowReports == Spec => []CompletedShowsReport
  BY InvariantHolds, PTL DEF PageInvariant
=============================================================================
