-------------------------- MODULE ReviewQueueProofs --------------------------
(***************************************************************************)
(* The inductive invariant of the review queue, for any number of jobs,    *)
(* lanes, workers, requests and commits, and the properties it carries.    *)
(* As in the Atlas queue, a lane relies on what it alone may change from   *)
(* the claim on: no other lane can take its job, nobody but it writes the  *)
(* job's review, and the review it found when deduplicating stays.         *)
(***************************************************************************)
EXTENDS ReviewQueue, TLAPS

USE NoJobAssumption, WorkerOfAssumption, LimitAssumption

LEMMA OldestAgeNat == OldestAge \in Nat
  BY DEF OldestAge

LEMMA BlankIdle == Blank \in Locals /\ Idle \in Polls
  BY DEF Locals, Blank, Polls, Idle, Statuses

\* The columns a lane reads of a request, and the rows it makes of them.
LEMMA RequestColumns ==
  ASSUME NEW r \in Requests
  PROVE  r.via \in {"route", "webhook", "abbreviated"} /\ r.sha \in Shas \cup {NoSha}
  BY DEF Requests

LEMMA ReviewRow ==
  ASSUME NEW e \in {"none"} \cup RunErrors, NEW v \in {"route", "webhook", "abbreviated"},
         NEW s \in Shas \cup {NoSha}
  PROVE  [error |-> e, via |-> v, sha |-> s] \in Reviews
  BY DEF Reviews

\* Setting fields of a lane's memory keeps it one ...
LEMMA TargetField ==
  ASSUME NEW r \in Locals, NEW j \in JobIds PROVE [r EXCEPT !.target = j] \in Locals
  BY DEF Locals

LEMMA ShaField ==
  ASSUME NEW r \in Locals, NEW s \in Shas \cup {NoSha}
  PROVE  [r EXCEPT !.sha = s] \in Locals
  BY DEF Locals

LEMMA ErrorField ==
  ASSUME NEW r \in Locals, NEW e \in RunErrors PROVE [r EXCEPT !.error = e] \in Locals
  BY DEF Locals

\* ... and so do the fields of a request.
LEMMA FoundPoll ==
  ASSUME NEW q \in Polls, NEW j \in JobIds, NEW due \in SUBSET JobIds
  PROVE  [q EXCEPT !.pc = "clear", !.job = j, !.due = due] \in Polls
  BY DEF Polls

LEMMA ClearedPoll ==
  ASSUME NEW q \in Polls PROVE [q EXCEPT !.pc = "refresh", !.due = {}] \in Polls
  BY DEF Polls

LEMMA ReadPoll ==
  ASSUME NEW q \in Polls, NEW s \in Statuses, NEW c \in JobIds \cup {NoJob}
  PROVE  [q EXCEPT !.pc = "answer", !.status = s, !.cached = c] \in Polls
  BY DEF Polls

\* The first review of a job is its only one.
LEMMA FirstReview ==
  ASSUME NEW r \in Reviews
  PROVE  /\ Append(<<>>, r) \in Seq(Reviews)
         /\ Append(<<>>, r) # <<>>
         /\ Len(Append(<<>>, r)) = 1
         /\ DOMAIN Append(<<>>, r) = {1}
         /\ Append(<<>>, r)[1] = r
  OBVIOUS

LEMMA TypeInit == Init => TypeOK
  BY OldestAgeNat, BlankIdle
     DEF Init, TypeOK, Statuses, Errors, Requests, Control, ClaimAttempts

\* A lane that executes has a job, and a poll that reads again too.
JobsKnown == /\ \A l \in Lanes : pc[l] \in Executing => job[l] \in JobIds
             /\ \A p \in Pollers : poll[p].pc # "idle" => poll[p].job \in JobIds

LEMMA TypeStep == TypeOK /\ JobsKnown /\ [Next]_vars => TypeOK'
<1> SUFFICES ASSUME TypeOK, JobsKnown, [Next]_vars PROVE TypeOK'
  OBVIOUS
<1> USE DEF TypeOK, jobVars, laneVars
<1>1. ASSUME NEW j \in JobIds, Submit(j) PROVE TypeOK'
  BY <1>1 DEF Submit, Statuses
<1>2. ASSUME NEW l \in Lanes, SelectNothing(l) PROVE TypeOK'
  BY <1>2 DEF SelectNothing, ClaimAttempts
<1>3. ASSUME NEW l \in Lanes, SelectCandidate(l) PROVE TypeOK'
  BY <1>3 DEF SelectCandidate, HasStatus, Control
<1>4. ASSUME NEW l \in Lanes, ClaimWon(l) PROVE TypeOK'
  <2>1. 0 \in 0 .. OldestAge
    BY OldestAgeNat
  <2>2. age' \in [JobIds -> 0 .. OldestAge]
    BY <1>4, <2>1 DEF ClaimWon
  <2>3. status' \in [JobIds -> Statuses] /\ error' \in [JobIds -> Errors]
    BY <1>4 DEF ClaimWon, Statuses, Errors
  <2>4. pc' \in [Lanes -> Control] /\ tries' \in [Lanes -> 0 .. ClaimAttempts - 1]
    BY <1>4 DEF ClaimWon, ClaimAttempts, Control, Executing
  <2> QED
    BY <1>4, <2>2, <2>3, <2>4 DEF ClaimWon
<1>5. ASSUME NEW l \in Lanes, ClaimLost(l) PROVE TypeOK'
  <2>1. NextTry(l) \in 0 .. ClaimAttempts - 1
    <3>1. tries[l] \in 0 .. 2
      BY DEF ClaimAttempts
    <3>2. (tries[l] + 1) % 3 \in 0 .. 2
      BY <3>1
    <3> QED
      BY <3>2 DEF NextTry, ClaimAttempts
  <2> QED
    BY <1>5, <2>1 DEF ClaimLost, Control
<1>6. ASSUME NEW l \in Lanes, DedupeMiss(l) PROVE TypeOK'
  BY <1>6 DEF DedupeMiss, Goto, Control, Executing
<1>7. ASSUME NEW l \in Lanes, DedupeHit(l) PROVE TypeOK'
  <2>1. PICK k \in JobIds : local' = [local EXCEPT ![l] = [@ EXCEPT !.target = k]]
    BY <1>7 DEF DedupeHit, Found
  <2>2. [local[l] EXCEPT !.target = k] \in Locals
    BY TargetField
  <2> QED
    BY <1>7, <2>1, <2>2 DEF DedupeHit, Goto, Control, Executing
<1>8. ASSUME NEW l \in Lanes, Release(l)
      PROVE  /\ pc' \in [Lanes -> Control]
             /\ job' \in [Lanes -> JobIds \cup {NoJob}]
             /\ local' \in [Lanes -> Locals]
  BY <1>8, BlankIdle DEF Release, Control
<1>9. ASSUME NEW l \in Lanes, CommitHit(l) PROVE TypeOK'
  <2>1. local[l].target \in JobIds \cup {NoJob}
    BY DEF Locals
  <2>2. status' \in [JobIds -> Statuses] /\ cached' \in [JobIds -> JobIds \cup {NoJob}]
    BY <1>9, <2>1 DEF CommitHit, Statuses, Outcomes
  <2> QED
    BY <1>8, <1>9, <2>2 DEF CommitHit
<1>10. ASSUME NEW l \in Lanes, RunReport(l) PROVE TypeOK'
  <2>1. PICK s \in Resolved(job[l]) : local' = [local EXCEPT ![l] = [@ EXCEPT !.sha = s]]
    BY <1>10 DEF RunReport
  <2>2. s \in Shas \cup {NoSha}
    <3>1. job[l] \in JobIds
      BY <1>10 DEF RunReport, JobsKnown, Executing
    <3>2. request[job[l]].sha \in Shas \cup {NoSha}
      BY <3>1, RequestColumns
    <3> QED
      BY <3>2 DEF Resolved
  <2>3. [local[l] EXCEPT !.sha = s] \in Locals
    BY <2>2, ShaField
  <2> QED
    BY <1>10, <2>1, <2>3 DEF RunReport, Goto, Control, Executing
<1>11. ASSUME NEW l \in Lanes, NEW e \in RunErrors,
              local' = [local EXCEPT ![l] = [@ EXCEPT !.error = e]]
       PROVE  local' \in [Lanes -> Locals]
  <2>1. [local[l] EXCEPT !.error = e] \in Locals
    BY ErrorField
  <2> QED
    BY <1>11, <2>1
<1>12. ASSUME NEW l \in Lanes, RunError(l) PROVE TypeOK'
  <2>1. local' \in [Lanes -> Locals]
    BY <1>11, <1>12 DEF RunError, RunErrors
  <2> QED
    BY <1>12, <2>1 DEF RunError, Goto, Control, Executing
<1>13. ASSUME NEW l \in Lanes, Unexpected(l) PROVE TypeOK'
  <2>1. local' \in [Lanes -> Locals]
    BY <1>11, <1>13 DEF Unexpected, RunErrors
  <2> QED
    BY <1>13, <2>1 DEF Unexpected, Goto, Control, Executing
<1>14. ASSUME NEW l \in Lanes, Finish(l)
       PROVE  /\ pc' \in [Lanes -> Control]
              /\ job' \in [Lanes -> JobIds \cup {NoJob}]
              /\ local' \in [Lanes -> Locals]
  BY <1>8, <1>14 DEF Finish, Goto, Control, Executing
<1>15. ASSUME NEW j \in JobIds, NEW r \in Reviews, AddReview(j, r)
       PROVE  reviews' \in [JobIds -> Seq(Reviews)]
  <2>1. Append(reviews[j], r) \in Seq(Reviews)
    OBVIOUS
  <2> QED
    BY <1>15, <2>1 DEF AddReview
<1>16. ASSUME NEW l \in Lanes, CommitReport(l) PROVE TypeOK'
  <2>1. job[l] \in JobIds /\ local[l].sha \in Shas \cup {NoSha}
    BY <1>16 DEF CommitReport, JobsKnown, Executing, Locals
  <2>2. reviews' \in [JobIds -> Seq(Reviews)]
    BY <1>15, <1>16, <2>1, ReviewRow DEF CommitReport
  <2>3. status' \in [JobIds -> Statuses]
    BY <1>16 DEF CommitReport, Statuses, Outcomes
  <2> QED
    BY <1>14, <1>16, <2>2, <2>3 DEF CommitReport
<1>17. ASSUME NEW l \in Lanes, CommitError(l) PROVE TypeOK'
  <2>1. job[l] \in JobIds /\ local[l].error \in {"none"} \cup RunErrors
    BY <1>17 DEF CommitError, JobsKnown, Executing, Locals
  <2>2. [error |-> local[l].error, via |-> request[job[l]].via,
         sha |-> request[job[l]].sha] \in Reviews
    BY <2>1, RequestColumns, ReviewRow
  <2>3. reviews' \in [JobIds -> Seq(Reviews)]
    BY <1>15, <1>17, <2>1, <2>2 DEF CommitError
  <2>4. status' \in [JobIds -> Statuses] /\ error' \in [JobIds -> Errors]
    BY <1>17, <2>1 DEF CommitError, Statuses, Outcomes, Errors
  <2> QED
    BY <1>14, <1>17, <2>3, <2>4 DEF CommitError
<1>18. ASSUME NEW l \in Lanes, PostComment(l) PROVE TypeOK'
  BY <1>8, <1>18 DEF PostComment
<1>19. ASSUME NEW l \in Lanes, SkipComment(l) PROVE TypeOK'
  BY <1>8, <1>19 DEF SkipComment
<1>20. ASSUME NEW l \in Lanes, Abandon(l) PROVE TypeOK'
  BY <1>8, <1>20 DEF Abandon
<1>21. ASSUME RecoverStale
       PROVE  status' \in [JobIds -> Statuses] /\ error' \in [JobIds -> Errors]
  BY <1>21 DEF RecoverStale, Statuses, Outcomes, Errors
<1>22. ASSUME NEW w \in Workers, Recover(w) PROVE TypeOK'
  BY <1>21, <1>22 DEF Recover
<1>23. ASSUME NEW w \in Workers, Restart(w) PROVE TypeOK'
  BY <1>21, <1>23 DEF Restart, Control
<1>24. ASSUME NEW w \in Workers, Crash(w) PROVE TypeOK'
  BY <1>24, BlankIdle DEF Crash, Control, ClaimAttempts
<1>25. ASSUME NEW p \in Pollers, PollFind(p) PROVE TypeOK'
  <2> DEFINE due == {i \in HasStatus("queued") : age[i] > GuardAfter}
  <2>1. PICK j \in JobIds :
          poll' = [poll EXCEPT ![p] = [@ EXCEPT !.pc = "clear", !.job = j, !.due = due]]
    BY <1>25 DEF PollFind
  <2>2. due \in SUBSET JobIds
    BY DEF HasStatus
  <2> HIDE DEF due
  <2>3. [poll[p] EXCEPT !.pc = "clear", !.job = j, !.due = due] \in Polls
    BY <2>2, FoundPoll
  <2> QED
    BY <1>25, <2>1, <2>3 DEF PollFind
<1>26. ASSUME NEW p \in Pollers, PollClear(p) PROVE TypeOK'
  <2>1. [poll[p] EXCEPT !.pc = "refresh", !.due = {}] \in Polls
    BY ClearedPoll
  <2>2. poll' \in [Pollers -> Polls]
    BY <1>26, <2>1 DEF PollClear
  <2>3. status' \in [JobIds -> Statuses] /\ error' \in [JobIds -> Errors]
    BY <1>26 DEF PollClear, Statuses, Outcomes, Errors
  <2> QED
    BY <1>26, <2>2, <2>3 DEF PollClear
<1>27. ASSUME NEW p \in Pollers, poll[p].job \in JobIds, PollRefresh(p) PROVE TypeOK'
  <2>1. [poll[p] EXCEPT !.pc = "answer", !.status = status[poll[p].job],
                        !.cached = cached[poll[p].job]] \in Polls
    BY <1>27, ReadPoll
  <2> QED
    BY <1>27, <2>1 DEF PollRefresh
<1>28. ASSUME NEW p \in Pollers, PollAnswer(p) PROVE TypeOK'
  BY <1>28, BlankIdle DEF PollAnswer
<1>29. CASE Tick
  BY <1>29, OldestAgeNat DEF Tick
<1>30. CASE UNCHANGED vars
  BY <1>30 DEF vars
<1> QED
  BY <1>1, <1>2, <1>3, <1>4, <1>5, <1>6, <1>7, <1>9, <1>10, <1>12, <1>13,
     <1>16, <1>17, <1>18, <1>19, <1>20, <1>22, <1>23, <1>24, <1>25, <1>26,
     <1>27, <1>28, <1>29, <1>30
     DEF Next, Claim, Execute, Poll, JobsKnown, PollRefresh

-----------------------------------------------------------------------------

LEMMA InvariantInit == Init => ReviewInvariant
<1> SUFFICES ASSUME Init PROVE ReviewInvariant
  OBVIOUS
<1> USE DEF Init, Holds, Executing
<1>1. TypeOK
  BY TypeInit
<1>2. /\ ExclusiveReview /\ QueuedIsFresh /\ CompletedHasReport
      /\ \A l \in Lanes : LaneSound(l)
  BY DEF ExclusiveReview, QueuedIsFresh, CompletedHasReport, LaneSound, Blank
<1>3. RequestsSound /\ CompletedAnswerHasReport
  BY DEF RequestsSound, CompletedAnswerHasReport, Idle
<1>4. /\ OneReviewPerJob /\ JobAgreesWithReview /\ CachedReviewFits
      /\ CommentTellsOutcome /\ TimedOutNeverReviewed
  BY DEF OneReviewPerJob, JobAgreesWithReview, CachedReviewFits, CommentTellsOutcome,
         TimedOutNeverReviewed, Held
<1> QED
  BY <1>1, <1>2, <1>3, <1>4 DEF ReviewInvariant

\* A reused review still fits as long as the tables keep what is completed.
LEMMA CachedKept ==
  ASSUME CachedReviewFits, UNCHANGED <<cached, reviews>>,
         \A j \in JobIds : status[j] = "completed" =>
            status'[j] = "completed" /\ request'[j] = request[j]
  PROVE  CachedReviewFits'
<1> SUFFICES ASSUME NEW j \in JobIds, cached[j] # NoJob
             PROVE  /\ status'[j] = "completed" /\ reviews[j] = <<>>
                    /\ \E i \in DOMAIN reviews[cached[j]] :
                         /\ reviews[cached[j]][i].error = "none"
                         /\ reviews[cached[j]][i].sha = request'[j].sha
  BY DEF CachedReviewFits
<1>1. status'[j] = "completed" /\ request'[j] = request[j]
  BY DEF CachedReviewFits
<1> QED
  BY <1>1 DEF CachedReviewFits

\* A request that does not answer disturbs none of the answers.
LEMMA AnswersKept ==
  ASSUME RequestsSound, CompletedAnswerHasReport, UNCHANGED <<cached, reviews>>,
         NEW p \in Pollers, poll'[p].pc # "answer",
         poll'[p].pc # "idle" => poll'[p].job \in JobIds,
         \A q \in Pollers : q # p => poll'[q] = poll[q]
  PROVE  RequestsSound' /\ CompletedAnswerHasReport'
<1>1. RequestsSound'
  BY DEF RequestsSound
<1>2. \A q \in Pollers : q # p => ResultOf(q)' = ResultOf(q)
  BY DEF ResultOf
<1>3. CompletedAnswerHasReport'
  BY <1>2 DEF CompletedAnswerHasReport
<1> QED
  BY <1>1, <1>3

LEMMA InvariantStep == ReviewInvariant /\ [Next]_vars => ReviewInvariant'
<1> SUFFICES ASSUME ReviewInvariant, [Next]_vars PROVE ReviewInvariant'
  OBVIOUS
<1>t. TypeOK /\ TypeOK'
  BY TypeStep DEF ReviewInvariant, JobsKnown, LaneSound, RequestsSound
<1> USE DEF ReviewInvariant, ExclusiveReview, LaneSound, QueuedIsFresh, CompletedHasReport,
            RequestsSound, OneReviewPerJob, JobAgreesWithReview, CachedReviewFits,
            CommentTellsOutcome, CompletedAnswerHasReport, TimedOutNeverReviewed,
            Holds, Held, Executing, ResultOf, jobVars, laneVars
<1>1. ASSUME NEW j \in JobIds, Submit(j) PROVE ReviewInvariant'
  <2>1. /\ status[j] = "absent"
        /\ status' = [status EXCEPT ![j] = "queued"]
        /\ \A i \in JobIds : i # j => request'[i] = request[i]
        /\ UNCHANGED <<error, cached, age, reviews, comment, up, laneVars, poll>>
    BY <1>1, <1>t DEF Submit, TypeOK
  <2>2. \A i \in JobIds : i # j => Found(i)' = Found(i)
    BY <2>1 DEF Found
  <2>3. /\ ExclusiveReview' /\ QueuedIsFresh' /\ CompletedHasReport' /\ RequestsSound'
        /\ \A l \in Lanes : LaneSound(l)'
    BY <2>1, <2>2, <1>t DEF TypeOK
  <2>4. CachedReviewFits'
    <3>1. \A i \in JobIds : status[i] = "completed" =>
             status'[i] = "completed" /\ request'[i] = request[i]
      BY <2>1, <1>t DEF TypeOK
    <3> QED
      BY <2>1, <3>1, CachedKept
  <2>5. CompletedAnswerHasReport' /\ OneReviewPerJob' /\ CommentTellsOutcome'
    BY <2>1, <1>t DEF TypeOK
  <2>6. JobAgreesWithReview' /\ TimedOutNeverReviewed'
    BY <2>1, <1>t DEF TypeOK
  <2> QED
    BY <2>3, <2>4, <2>5, <2>6, <1>t
<1>2. ASSUME NEW l \in Lanes, SelectNothing(l) PROVE ReviewInvariant'
  BY <1>2, <1>t DEF SelectNothing, TypeOK, Found
<1>3. ASSUME NEW l \in Lanes, SelectCandidate(l) PROVE ReviewInvariant'
  BY <1>3, <1>t DEF SelectCandidate, TypeOK, HasStatus, Found
<1>4. ASSUME NEW l \in Lanes, ClaimWon(l) PROVE ReviewInvariant'
  <2>1. /\ job[l] \in JobIds /\ status[job[l]] = "queued" /\ pc[l] = "update"
        /\ status' = [status EXCEPT ![job[l]] = "running"]
        /\ error' = [error EXCEPT ![job[l]] = "none"]
        /\ \E where \in {"review", "dedupe"} : pc' = [pc EXCEPT ![l] = where]
        /\ UNCHANGED <<request, cached, reviews, comment, up, job, local, poll>>
    BY <1>4, <1>t DEF ClaimWon, StillQueued
  <2>2. \A i \in JobIds : Found(i)' = Found(i)
    BY <2>1 DEF Found
  <2>3. \A k \in Lanes : pc[k] \in Executing => job[k] # job[l]
    BY <2>1
  <2>4. ExclusiveReview' /\ \A k \in Lanes : LaneSound(k)'
    BY <2>1, <2>2, <2>3, <1>t DEF TypeOK
  <2>5. QueuedIsFresh' /\ CompletedHasReport' /\ RequestsSound' /\ CompletedAnswerHasReport'
    BY <2>1, <1>t DEF TypeOK
  <2>6. OneReviewPerJob' /\ CommentTellsOutcome' /\ JobAgreesWithReview'
    BY <2>1, <1>t DEF TypeOK
  <2>7. TimedOutNeverReviewed'
    BY <2>1, <2>3, <1>t DEF TypeOK
  <2>8. CachedReviewFits'
    <3>1. \A i \in JobIds : status[i] = "completed" =>
             status'[i] = "completed" /\ request'[i] = request[i]
      BY <2>1, <1>t DEF TypeOK
    <3> QED
      BY <2>1, <3>1, CachedKept
  <2> QED
    BY <2>4, <2>5, <2>6, <2>7, <2>8, <1>t
<1>5. ASSUME NEW l \in Lanes, ClaimLost(l) PROVE ReviewInvariant'
  BY <1>5, <1>t DEF ClaimLost, TypeOK, Found
<1>6. ASSUME NEW l \in Lanes, DedupeMiss(l) PROVE ReviewInvariant'
  BY <1>6, <1>t DEF DedupeMiss, TypeOK, Goto, Found
<1>7. ASSUME NEW l \in Lanes, DedupeHit(l) PROVE ReviewInvariant'
  <2>1. PICK k \in Found(job[l]) : local' = [local EXCEPT ![l] = [@ EXCEPT !.target = k]]
    BY <1>7 DEF DedupeHit
  <2>2. /\ pc[l] = "dedupe" /\ pc' = [pc EXCEPT ![l] = "hit"]
        /\ UNCHANGED <<jobVars, reviews, comment, up, job, tries, poll>>
    BY <1>7 DEF DedupeHit, Goto
  <2>3. \A i \in JobIds : Found(i)' = Found(i)
    BY <2>2 DEF Found
  <2>4. /\ k \in JobIds /\ job[l] \in JobIds
        /\ local'[l].target = k /\ local'[l].error = local[l].error
        /\ \A m \in Lanes : m # l => local'[m] = local[m]
    BY <2>1, <2>2, <1>t DEF TypeOK, Locals, Found
  <2>5. \A m \in Lanes : LaneSound(m)'
    BY <2>2, <2>3, <2>4, <1>t DEF TypeOK
  <2>6. ExclusiveReview' /\ TimedOutNeverReviewed'
    BY <2>2, <1>t DEF TypeOK
  <2>7. /\ QueuedIsFresh' /\ CompletedHasReport' /\ RequestsSound' /\ OneReviewPerJob'
        /\ JobAgreesWithReview' /\ CachedReviewFits' /\ CommentTellsOutcome'
        /\ CompletedAnswerHasReport'
    BY <2>2
  <2> QED
    BY <2>5, <2>6, <2>7, <1>t
<1>8. ASSUME NEW l \in Lanes, CommitHit(l) PROVE ReviewInvariant'
  <2>1. /\ job[l] \in JobIds /\ local[l].target \in Found(job[l]) /\ pc[l] = "hit"
        /\ status[job[l]] \notin {"absent", "queued"} /\ comment[job[l]] = "none"
        /\ reviews[job[l]] = <<>> /\ cached[job[l]] = NoJob
        /\ local[l].target \in JobIds
    BY <1>8 DEF CommitHit
  <2>2. /\ status' = [status EXCEPT ![job[l]] = "completed"]
        /\ cached' = [cached EXCEPT ![job[l]] = local[l].target]
        /\ pc' = [pc EXCEPT ![l] = "select"]
        /\ job' = [job EXCEPT ![l] = NoJob]
        /\ local' = [local EXCEPT ![l] = Blank]
        /\ UNCHANGED <<request, error, age, reviews, comment, up, tries, poll>>
    BY <1>8 DEF CommitHit, Release
  <2>3. \A i \in JobIds : Found(i)' = Found(i)
    BY <2>2 DEF Found
  <2>4. \A m \in Lanes : m # l /\ pc[m] \in Executing => job[m] # job[l]
    BY <2>1
  <2>5. ExclusiveReview' /\ \A m \in Lanes : LaneSound(m)'
    BY <2>1, <2>2, <2>3, <2>4, <1>t DEF TypeOK, Blank
  <2>6. CachedReviewFits'
    BY <2>1, <2>2, <1>t DEF TypeOK, Found
  <2>7. /\ QueuedIsFresh' /\ CompletedHasReport' /\ OneReviewPerJob'
        /\ JobAgreesWithReview' /\ CommentTellsOutcome'
    BY <2>1, <2>2, <1>t DEF TypeOK
  <2>8. RequestsSound' /\ CompletedAnswerHasReport'
    BY <2>1, <2>2, <1>t DEF TypeOK
  <2>9. TimedOutNeverReviewed'
    BY <2>1, <2>2, <1>t DEF TypeOK
  <2> QED
    BY <2>5, <2>6, <2>7, <2>8, <2>9, <1>t
<1>9. ASSUME NEW l \in Lanes, RunReport(l) PROVE ReviewInvariant'
  BY <1>9, <1>t DEF RunReport, TypeOK, Goto, Found, Locals
<1>10. ASSUME NEW l \in Lanes, RunError(l) PROVE ReviewInvariant'
  BY <1>10, <1>t DEF RunError, TypeOK, Goto, Found, Locals
<1>11. ASSUME NEW l \in Lanes, Unexpected(l) PROVE ReviewInvariant'
  <2>1. /\ pc[l] \in {"review", "report"} /\ pc' = [pc EXCEPT ![l] = "fail"]
        /\ local'[l].error = "unexpected"
        /\ \A m \in Lanes : m # l => local'[m] = local[m]
        /\ UNCHANGED <<jobVars, reviews, comment, up, job, tries, poll>>
    BY <1>11, <1>t DEF Unexpected, Goto, TypeOK, Locals
  <2>2. \A i \in JobIds : Found(i)' = Found(i)
    BY <2>1 DEF Found
  <2>3. \A m \in Lanes : LaneSound(m)'
    BY <2>1, <2>2, <1>t DEF TypeOK
  <2>4. ExclusiveReview' /\ TimedOutNeverReviewed'
    BY <2>1, <1>t DEF TypeOK
  <2>5. /\ QueuedIsFresh' /\ CompletedHasReport' /\ RequestsSound' /\ OneReviewPerJob'
        /\ JobAgreesWithReview' /\ CachedReviewFits' /\ CommentTellsOutcome'
        /\ CompletedAnswerHasReport'
    BY <2>1
  <2> QED
    BY <2>3, <2>4, <2>5, <1>t
<1>12. ASSUME NEW l \in Lanes, PostComment(l) PROVE ReviewInvariant'
  BY <1>12, <1>t DEF PostComment, TypeOK, Release, Found, Blank
<1>13. ASSUME NEW l \in Lanes, SkipComment(l) PROVE ReviewInvariant'
  BY <1>13, <1>t DEF SkipComment, TypeOK, Release, Found, Blank
<1>14. ASSUME NEW l \in Lanes, Abandon(l) PROVE ReviewInvariant'
  BY <1>14, <1>t DEF Abandon, TypeOK, Release, Found, Blank
<1>15. ASSUME NEW w \in Workers, Recover(w) PROVE ReviewInvariant'
  BY <1>15, <1>t DEF Recover, RecoverStale, Stale, TypeOK, Found
<1>16. ASSUME NEW w \in Workers, Restart(w) PROVE ReviewInvariant'
  <2>1. /\ \A j \in JobIds : \/ /\ status'[j] = status[j]
                                /\ error'[j] = error[j]
                             \/ /\ status[j] = "running" /\ status'[j] = "failed"
                                /\ error'[j] = "worker_restarted"
        /\ UNCHANGED <<request, cached, age, reviews, comment, job, tries, local, poll>>
    <3>1. ASSUME NEW j \in JobIds
          PROVE  /\ status'[j] = IF Stale(j) THEN "failed" ELSE status[j]
                 /\ error'[j] = IF Stale(j) THEN "worker_restarted" ELSE error[j]
      BY <1>16 DEF Restart, RecoverStale
    <3>2. UNCHANGED <<request, cached, age, reviews, comment, job, tries, local, poll>>
      BY <1>16 DEF Restart
    <3> HIDE DEF ReviewInvariant
    <3> QED
      BY <3>1, <3>2 DEF Stale
  <2>2. \A i \in JobIds : Found(i)' = Found(i)
    BY <2>1 DEF Found
  <2>3. /\ up' = [up EXCEPT ![w] = TRUE]
        /\ \A l \in Lanes : IF WorkerOf[l] = w THEN pc[l] = "down" /\ pc'[l] = "select"
                             ELSE pc'[l] = pc[l]
    BY <1>16, <1>t DEF Restart, TypeOK
  <2>4. \A l \in Lanes : pc'[l] \in Executing <=> pc[l] \in Executing
    BY <2>3
  <2>5. ExclusiveReview' /\ Held' = Held
    BY <2>1, <2>4
  <2>6. ASSUME NEW l \in Lanes PROVE LaneSound(l)'
    <3>1. CASE WorkerOf[l] = w
      BY <2>1, <2>3, <3>1, <1>t DEF TypeOK
    <3>2. CASE WorkerOf[l] # w
      BY <2>1, <2>2, <2>3, <3>2, <1>t DEF TypeOK
    <3> QED
      BY <3>1, <3>2
  <2>i. /\ QueuedIsFresh /\ CompletedHasReport /\ RequestsSound /\ OneReviewPerJob
        /\ JobAgreesWithReview /\ CachedReviewFits /\ CommentTellsOutcome
        /\ CompletedAnswerHasReport /\ TimedOutNeverReviewed
    OBVIOUS
  <2>7. QueuedIsFresh' /\ CompletedHasReport' /\ OneReviewPerJob' /\ CommentTellsOutcome'
    <3> HIDE DEF ReviewInvariant
    <3> QED
      BY <2>1, <2>i
  <2>8. RequestsSound' /\ CompletedAnswerHasReport'
    <3>1. \A p \in Pollers : ResultOf(p)' = ResultOf(p)
      BY <2>1
    <3> HIDE DEF ReviewInvariant, ResultOf
    <3> QED
      BY <2>1, <2>i, <3>1
  <2>9. JobAgreesWithReview'
    <3> HIDE DEF ReviewInvariant
    <3> SUFFICES ASSUME NEW j \in JobIds, NEW i \in DOMAIN reviews[j]
                 PROVE  IF reviews[j][i].error = "none"
                          THEN status'[j] = "completed"
                          ELSE status'[j] = "failed" /\ error'[j] = reviews[j][i].error
      BY <2>1
    <3>1. status[j] # "running"
      BY <2>i
    <3> QED
      BY <2>1, <2>i, <3>1
  <2>10. CachedReviewFits'
    BY <2>1, CachedKept
  <2>11. TimedOutNeverReviewed'
    BY <2>1, <2>5
  <2> QED
    BY <2>5, <2>6, <2>7, <2>8, <2>9, <2>10, <2>11, <1>t
<1>17. ASSUME NEW w \in Workers, Crash(w) PROVE ReviewInvariant'
  BY <1>17, <1>t DEF Crash, TypeOK, Found, Blank
<1>18. ASSUME NEW p \in Pollers, PollFind(p) PROVE ReviewInvariant'
  <2>1. /\ UNCHANGED <<jobVars, reviews, comment, up, laneVars>>
        /\ poll'[p].pc = "clear" /\ poll'[p].job \in JobIds
        /\ \A q \in Pollers : q # p => poll'[q] = poll[q]
    <3> DEFINE due == {i \in HasStatus("queued") : age[i] > GuardAfter}
    <3>1. PICK j \in JobIds :
            poll' = [poll EXCEPT ![p] = [@ EXCEPT !.pc = "clear", !.job = j, !.due = due]]
      BY <1>18 DEF PollFind
    <3> HIDE DEF due
    <3>2. poll'[p].pc = "clear" /\ poll'[p].job = j
      BY <3>1, <1>t DEF TypeOK, Polls
    <3> QED
      BY <1>18, <3>1, <3>2, <1>t DEF PollFind, TypeOK
  <2>2. RequestsSound' /\ CompletedAnswerHasReport'
    BY <2>1, AnswersKept
  <2> QED
    BY <2>1, <2>2, <1>t DEF Found
<1>19. ASSUME NEW p \in Pollers, PollClear(p) PROVE ReviewInvariant'
  <2>1. /\ \A j \in JobIds : \/ /\ status'[j] = status[j]
                                /\ error'[j] = error[j]
                             \/ /\ status[j] = "queued"
                                /\ status'[j] = "failed"
        /\ UNCHANGED <<request, cached, age, reviews, comment, up, laneVars>>
    <3>1. ASSUME NEW j \in JobIds
          PROVE  /\ status'[j] = IF j \in Overdue(p) THEN "failed" ELSE status[j]
                 /\ error'[j] = IF j \in Overdue(p) THEN "queue_timeout" ELSE error[j]
      BY <1>19 DEF PollClear
    <3>2. UNCHANGED <<request, cached, age, reviews, comment, up, laneVars>>
      BY <1>19 DEF PollClear
    <3> HIDE DEF ReviewInvariant
    <3> QED
      BY <3>1, <3>2 DEF Overdue, HasStatus
  <2>2. \A i \in JobIds : Found(i)' = Found(i)
    BY <2>1 DEF Found
  <2>3. ExclusiveReview' /\ Held' = Held /\ \A l \in Lanes : LaneSound(l)'
    BY <2>1, <2>2
  <2>4. /\ poll'[p].pc = "refresh" /\ poll'[p].job = poll[p].job
        /\ \A q \in Pollers : q # p => poll'[q] = poll[q]
    BY <1>19, <1>t DEF PollClear, TypeOK, Polls
  <2>5. RequestsSound' /\ CompletedAnswerHasReport'
    <3>1. poll'[p].job \in JobIds
      BY <1>19, <2>4 DEF PollClear
    <3>2. RequestsSound /\ CompletedAnswerHasReport
      OBVIOUS
    <3> HIDE DEF ReviewInvariant, RequestsSound, CompletedAnswerHasReport
    <3> QED
      BY <2>1, <2>4, <3>1, <3>2, AnswersKept
  <2>6. /\ QueuedIsFresh' /\ CompletedHasReport' /\ OneReviewPerJob'
        /\ JobAgreesWithReview' /\ CommentTellsOutcome'
    BY <2>1
  <2>7. CachedReviewFits'
    BY <2>1, CachedKept
  <2>8. TimedOutNeverReviewed'
    BY <2>1, <2>3
  <2> QED
    BY <2>3, <2>5, <2>6, <2>7, <2>8, <1>t
<1>20. ASSUME NEW p \in Pollers, PollRefresh(p) PROVE ReviewInvariant'
  <2> DEFINE j == poll[p].job
  <2>1. /\ UNCHANGED <<jobVars, reviews, comment, up, laneVars>>
        /\ j \in JobIds /\ poll'[p].job = j
        /\ poll'[p].pc = "answer" /\ poll'[p].status = status[j]
        /\ poll'[p].cached = cached[j]
        /\ \A q \in Pollers : q # p => poll'[q] = poll[q]
    BY <1>20, <1>t DEF PollRefresh, TypeOK, Polls
  <2>2. RequestsSound'
    BY <2>1
  <2>3. ASSUME status[j] = "completed"
        PROVE  ResultOf(p)' \in JobIds /\ \E i \in DOMAIN reviews[ResultOf(p)'] :
                                           reviews[ResultOf(p)'][i].error = "none"
    <3>1. CASE reviews[j] = <<>>
      <4>1. cached[j] \in JobIds
        BY <2>1, <2>3, <3>1, <1>t DEF TypeOK
      <4> QED
        BY <2>1, <3>1, <4>1
    <3>2. CASE reviews[j] # <<>>
      <4>1. cached[j] = NoJob
        BY <2>1, <3>2
      <4> QED
        BY <2>1, <2>3, <3>2, <4>1
    <3> QED
      BY <3>1, <3>2
  <2>4. CompletedAnswerHasReport'
    <3>1. poll'[p].status = "completed" => status[j] = "completed"
      BY <2>1
    <3>2. \A q \in Pollers : q # p => ResultOf(q)' = ResultOf(q) /\ poll'[q] = poll[q]
      BY <2>1
    <3>3. reviews' = reviews
      BY <2>1
    <3> HIDE DEF ResultOf
    <3> QED
      BY <2>3, <3>1, <3>2, <3>3
  <2> QED
    BY <2>1, <2>2, <2>4, <1>t DEF Found
<1>21. ASSUME NEW p \in Pollers, PollAnswer(p) PROVE ReviewInvariant'
  BY <1>21, <1>t DEF PollAnswer, TypeOK, Found, Idle
<1>22. CASE Tick
  BY <1>22, <1>t DEF Tick, TypeOK, Found
<1>23. CASE UNCHANGED vars
  BY <1>23, <1>t DEF vars, TypeOK, Found
\* What committing a review does, whether it is a report or an error.
<1>24. ASSUME NEW l \in Lanes, NEW r \in Reviews, pc[l] \in {"report", "fail"},
              AddReview(job[l], r), Finish(l),
              UNCHANGED <<request, cached, age, comment, up, tries, poll>>
       PROVE  /\ job[l] \in JobIds /\ reviews[job[l]] = <<>>
              /\ cached[job[l]] = NoJob /\ comment[job[l]] = "none"
              /\ status[job[l]] \notin {"absent", "queued", "completed"}
              /\ reviews'[job[l]] # <<>> /\ Len(reviews'[job[l]]) = 1
              /\ DOMAIN reviews'[job[l]] = {1} /\ reviews'[job[l]][1] = r
              /\ \A j \in JobIds : j # job[l] => reviews'[j] = reviews[j]
              /\ \A k \in Lanes : k # l => /\ pc'[k] = pc[k] /\ job'[k] = job[k]
                                           /\ local'[k] = local[k]
              /\ \A k \in Lanes : k # l /\ pc[k] \in Executing => job[k] # job[l]
              /\ \/ /\ pc'[l] = "comment" /\ job'[l] = job[l]
                    /\ local'[l] = local[l]
                 \/ /\ pc'[l] = "select"
                    /\ local'[l] = Blank
  <2>1. /\ job[l] \in JobIds /\ reviews[job[l]] = <<>>
        /\ cached[job[l]] = NoJob /\ comment[job[l]] = "none"
        /\ status[job[l]] \notin {"absent", "queued", "completed"}
    <3>1. /\ job[l] \in JobIds /\ reviews[job[l]] = <<>>
          /\ cached[job[l]] = NoJob /\ comment[job[l]] = "none"
          /\ status[job[l]] \notin {"absent", "queued"}
      BY <1>24
    <3>2. DOMAIN reviews[job[l]] = {}
      BY <3>1
    <3>3. status[job[l]] # "completed"
      BY <3>1, <3>2
    <3> QED
      BY <3>1, <3>3
  <2>2. \A k \in Lanes : k # l /\ pc[k] \in Executing => job[k] # job[l]
    BY <1>24, <2>1
  <2> HIDE DEF ReviewInvariant
  <2>3. reviews' = [reviews EXCEPT ![job[l]] = Append(<<>>, r)]
    BY <1>24, <2>1 DEF AddReview
  <2>4. /\ reviews'[job[l]] = Append(<<>>, r)
        /\ \A j \in JobIds : j # job[l] => reviews'[j] = reviews[j]
    BY <2>1, <2>3, <1>t DEF TypeOK
  <2>5. /\ reviews'[job[l]] # <<>> /\ Len(reviews'[job[l]]) = 1
        /\ DOMAIN reviews'[job[l]] = {1} /\ reviews'[job[l]][1] = r
    BY <2>4, FirstReview
  <2>6. /\ \A k \in Lanes : k # l => /\ pc'[k] = pc[k] /\ job'[k] = job[k]
                                     /\ local'[k] = local[k]
        /\ \/ /\ pc'[l] = "comment" /\ job'[l] = job[l]
              /\ local'[l] = local[l]
           \/ /\ pc'[l] = "select"
              /\ local'[l] = Blank
    BY <1>24, <1>t DEF Finish, Goto, Release, TypeOK
  <2> QED
    BY <2>1, <2>2, <2>4, <2>5, <2>6
<1>25. ASSUME NEW l \in Lanes, NEW r \in Reviews, NEW s \in Outcomes,
              pc[l] \in {"report", "fail"}, r.error = local[l].error,
              AddReview(job[l], r), Finish(l),
              status' = [status EXCEPT ![job[l]] = s],
              r.error = "none" => s = "completed" /\ error' = error,
              r.error # "none" =>
                s = "failed" /\ error' = [error EXCEPT ![job[l]] = r.error],
              UNCHANGED <<request, cached, age, comment, up, tries, poll>>
       PROVE  ReviewInvariant'
  <2> DEFINE j == job[l]
  <2>1. /\ j \in JobIds /\ reviews[j] = <<>>
        /\ cached[j] = NoJob /\ comment[j] = "none"
        /\ status[j] \notin {"absent", "queued", "completed"}
        /\ reviews'[j] # <<>> /\ Len(reviews'[j]) = 1
        /\ DOMAIN reviews'[j] = {1} /\ reviews'[j][1] = r
        /\ \A i \in JobIds : i # j => reviews'[i] = reviews[i]
        /\ \A k \in Lanes : k # l => /\ pc'[k] = pc[k] /\ job'[k] = job[k]
                                     /\ local'[k] = local[k]
        /\ \A k \in Lanes : k # l /\ pc[k] \in Executing => job[k] # j
        /\ \/ /\ pc'[l] = "comment" /\ job'[l] = job[l]
              /\ local'[l] = local[l]
           \/ /\ pc'[l] = "select"
              /\ local'[l] = Blank
    BY <1>25, <1>24
  <2>2. /\ status'[j] = s
        /\ \A i \in JobIds : i # j => status'[i] = status[i] /\ error'[i] = error[i]
        /\ error'[j] = IF r.error = "none" THEN error[j] ELSE r.error
        /\ r.error # "queue_timeout"
    BY <1>25, <2>1, <1>t DEF TypeOK, Reviews, RunErrors
  <2>3. Held' \subseteq Held /\ ExclusiveReview'
    BY <2>1, <1>25
  <2>4. \A i \in JobIds : i # j => Found(i) \subseteq Found(i)'
    <3>1. \A k \in JobIds, i \in JobIds : k \in Found(i) => k # j
      BY <2>1 DEF Found
    <3> QED
      BY <1>25, <2>1, <3>1 DEF Found
  <2>5. ASSUME NEW k \in Lanes PROVE LaneSound(k)'
    <3>1. CASE k = l
      BY <1>25, <2>1, <2>2, <3>1 DEF Blank
    <3>2. CASE k # l
      <4>1. pc[k] \in Executing => job[k] # j
        BY <2>1, <3>2
      <4> QED
        BY <1>25, <2>1, <2>2, <2>4, <3>2, <4>1
    <3> QED
      BY <3>1, <3>2
  <2>i. /\ QueuedIsFresh /\ RequestsSound /\ OneReviewPerJob /\ CachedReviewFits
        /\ CommentTellsOutcome /\ CompletedAnswerHasReport
    OBVIOUS
  <2>6. QueuedIsFresh' /\ OneReviewPerJob' /\ CommentTellsOutcome' /\ RequestsSound'
    <3> HIDE DEF ReviewInvariant
    <3>1. status'[j] \notin {"absent", "queued"}
      BY <1>25, <2>2 DEF Outcomes
    <3>2. QueuedIsFresh'
      BY <1>25, <2>1, <2>2, <2>i, <3>1
    <3>3. OneReviewPerJob'
      <4> SUFFICES ASSUME NEW i \in JobIds PROVE Len(reviews'[i]) <= 1
        OBVIOUS
      <4>1. Len(reviews[i]) <= 1
        BY <2>i
      <4>2. CASE i = j
        <5>1. Len(reviews'[i]) = 1
          BY <2>1, <4>2, Zenon
        <5> QED
          BY <5>1
      <4>3. CASE i # j
        <5>1. reviews'[i] = reviews[i]
          BY <2>1, <4>3
        <5> QED
          BY <4>1, <5>1
      <4> QED
        BY <4>2, <4>3
    <3>4. CommentTellsOutcome'
      BY <1>25, <2>1, <2>2, <2>i
    <3>5. RequestsSound'
      BY <1>25, <2>i
    <3> QED
      BY <3>2, <3>3, <3>4, <3>5
  <2>7. CompletedHasReport'
    BY <1>25, <2>1, <2>2
  <2>8. JobAgreesWithReview'
    BY <1>25, <2>1, <2>2
  <2>9. CachedReviewFits'
    <3> HIDE DEF ReviewInvariant
    <3> SUFFICES ASSUME NEW i \in JobIds, cached[i] # NoJob
                 PROVE  /\ status'[i] = "completed" /\ reviews'[i] = <<>>
                        /\ \E n \in DOMAIN reviews'[cached[i]] :
                             /\ reviews'[cached[i]][n].error = "none"
                             /\ reviews'[cached[i]][n].sha = request[i].sha
      BY <1>25
    <3>1. i # j
      BY <2>1
    <3>2. /\ status[i] = "completed" /\ reviews[i] = <<>>
          /\ \E n \in DOMAIN reviews[cached[i]] :
               /\ reviews[cached[i]][n].error = "none"
               /\ reviews[cached[i]][n].sha = request[i].sha
      BY <2>i
    <3>3. cached[i] \in JobIds
      BY <1>t DEF TypeOK
    <3>4. cached[i] # j
      <4>1. DOMAIN reviews[j] = {}
        BY <2>1
      <4> QED
        BY <3>2, <4>1
    <3>5. reviews'[cached[i]] = reviews[cached[i]]
      BY <2>1, <3>3, <3>4
    <3> QED
      BY <2>1, <2>2, <3>1, <3>2, <3>5
  <2>10. CompletedAnswerHasReport'
    <3> SUFFICES ASSUME NEW q \in Pollers, poll[q].pc = "answer",
                        poll[q].status = "completed"
                 PROVE  /\ ResultOf(q)' \in JobIds
                        /\ \E n \in DOMAIN reviews'[ResultOf(q)'] :
                             reviews'[ResultOf(q)'][n].error = "none"
      BY <1>25
    <3> HIDE DEF ReviewInvariant
    <3>1. /\ ResultOf(q) \in JobIds
          /\ \E n \in DOMAIN reviews[ResultOf(q)] : reviews[ResultOf(q)][n].error = "none"
      BY <2>i
    <3>2. ResultOf(q) # j
      <4>1. DOMAIN reviews[j] = {}
        BY <2>1
      <4> QED
        BY <3>1, <4>1
    <3>3. poll[q].job \in JobIds /\ poll[q].cached \in {NoJob, cached[poll[q].job]}
      BY <2>i
    <3>4. poll[q].job # j
      BY <2>1, <3>1, <3>3
    <3>5. ResultOf(q)' = ResultOf(q)
      BY <1>25, <2>1, <3>3, <3>4
    <3>6. reviews'[ResultOf(q)] = reviews[ResultOf(q)]
      BY <2>1, <3>1, <3>2
    <3> QED
      BY <3>1, <3>5, <3>6
  <2>11. TimedOutNeverReviewed'
    BY <1>25, <2>1, <2>2, <2>3
  <2> QED
    BY <2>3, <2>5, <2>6, <2>7, <2>8, <2>9, <2>10, <2>11, <1>t
<1>26. ASSUME NEW l \in Lanes, CommitReport(l) PROVE ReviewInvariant'
  <2> DEFINE r == [error |-> "none", via |-> "route", sha |-> local[l].sha]
  <2>1. /\ pc[l] = "report" /\ AddReview(job[l], r) /\ Finish(l)
        /\ status' = [status EXCEPT ![job[l]] = "completed"]
        /\ UNCHANGED <<request, error, cached, age, comment, up, tries, poll>>
    BY <1>26 DEF CommitReport
  <2>2. r \in Reviews
    <3>1. local[l].sha \in Shas \cup {NoSha}
      BY <1>t DEF TypeOK, Locals
    <3> QED
      BY <3>1, ReviewRow
  <2>3. local[l].error = "none" /\ r.error = "none"
    BY <2>1
  <2>4. "completed" \in Outcomes /\ pc[l] \in {"report", "fail"}
    BY <2>1 DEF Outcomes
  <2> HIDE DEF r, ReviewInvariant
  <2> QED
    BY <2>1, <2>2, <2>3, <2>4, <1>25
<1>27. ASSUME NEW l \in Lanes, CommitError(l) PROVE ReviewInvariant'
  <2> DEFINE r == [error |-> local[l].error, via |-> request[job[l]].via,
                   sha |-> request[job[l]].sha]
  <2>1. /\ pc[l] = "fail" /\ AddReview(job[l], r) /\ Finish(l)
        /\ status' = [status EXCEPT ![job[l]] = "failed"]
        /\ error' = [error EXCEPT ![job[l]] = r.error]
        /\ UNCHANGED <<request, cached, age, comment, up, tries, poll>>
    BY <1>27 DEF CommitError
  <2>2. r \in Reviews
    <3>1. local[l].error \in {"none"} \cup RunErrors /\ job[l] \in JobIds
      BY <2>1, <1>t DEF TypeOK, Locals
    <3>2. request[job[l]] \in Requests
      BY <3>1, <1>t DEF TypeOK
    <3>3. /\ request[job[l]].via \in {"route", "webhook", "abbreviated"}
          /\ request[job[l]].sha \in Shas \cup {NoSha}
      BY <3>2, RequestColumns
    <3> HIDE DEF ReviewInvariant
    <3> QED
      BY <3>1, <3>3, ReviewRow
  <2>3. local[l].error # "none" /\ r.error = local[l].error
    BY <2>1
  <2>4. "failed" \in Outcomes /\ pc[l] \in {"report", "fail"}
    BY <2>1 DEF Outcomes
  <2> HIDE DEF r, ReviewInvariant
  <2> QED
    BY <2>1, <2>2, <2>3, <2>4, <1>25
<1> QED
  BY <1>1, <1>2, <1>3, <1>4, <1>5, <1>6, <1>7, <1>8, <1>9, <1>10, <1>11, <1>12,
     <1>13, <1>14, <1>15, <1>16, <1>17, <1>18, <1>19, <1>20, <1>21, <1>22, <1>23,
     <1>26, <1>27 DEF Next, Claim, Execute, Poll

-----------------------------------------------------------------------------

\* The invariant of the queue: a claim is exclusive until the lane lets go, and
\* the tables agree with each other after every commit.
THEOREM InvariantHolds == Spec => []ReviewInvariant
<1>1. Init => ReviewInvariant
  BY InvariantInit
<1>2. ReviewInvariant /\ [Next]_vars => ReviewInvariant'
  BY InvariantStep
<1> QED
  BY <1>1, <1>2, PTL DEF Spec

\* A report belongs to a completed job and an error row to a failed job with the
\* code of the row, whatever recovery did while the review was running.
THEOREM JobsAgreeWithReviews == Spec => []JobAgreesWithReview
  BY InvariantHolds, PTL DEF ReviewInvariant

\* At most one review row of a job, though nothing in the schema says so.
THEOREM ReviewsAreSingle == Spec => []OneReviewPerJob
  BY InvariantHolds, PTL DEF ReviewInvariant

\* A deduplicated job points at a report of the commit it asked for.
THEOREM ReusedReviewsFit == Spec => []CachedReviewFits
  BY InvariantHolds, PTL DEF ReviewInvariant

\* The comment on the pull request tells the outcome of the job.
THEOREM CommentsAreTrue == Spec => []CommentTellsOutcome
  BY InvariantHolds, PTL DEF ReviewInvariant

\* A job the queue guard timed out was never claimed by a lane.
THEOREM TimedOutUnclaimed == Spec => []TimedOutNeverReviewed
  BY InvariantHolds, PTL DEF ReviewInvariant

\* An answer of the status route that says completed comes with a report.
THEOREM AnswersHaveReports == Spec => []CompletedAnswerHasReport
  BY InvariantHolds, PTL DEF ReviewInvariant

-----------------------------------------------------------------------------

\* What a step of a lane does to the jobs that are held.
LEMMA HeldSame ==
  ASSUME UNCHANGED job,
         \A l \in Lanes : pc'[l] \in Executing <=> pc[l] \in Executing
  PROVE  Held' = Held
  BY DEF Held, Holds

LEMMA HeldReleased ==
  ASSUME ReviewInvariant, NEW l \in Lanes, Release(l), pc[l] \in Executing
  PROVE  Held' = Held \ {job[l]} /\ job[l] \in Held
<1>1. TypeOK /\ LaneSound(l) /\ ExclusiveReview
  BY DEF ReviewInvariant
<1>2. /\ \A k \in Lanes : k # l => pc'[k] = pc[k] /\ job'[k] = job[k]
      /\ pc'[l] \notin Executing
  BY <1>1 DEF Release, TypeOK, Executing
<1>3. job[l] \in JobIds
  BY <1>1 DEF LaneSound
<1>4. \A k \in Lanes : k # l /\ pc[k] \in Executing => job[k] # job[l]
  BY <1>1, <1>3 DEF ExclusiveReview, Holds
<1> QED
  BY <1>2, <1>3, <1>4 DEF Held, Holds

LEMMA LifecycleStep ==
  ReviewInvariant /\ [Next]_vars => [Lifecycle!Next]_(Lifecycle!vars)
<1> SUFFICES ASSUME ReviewInvariant, [Next]_vars
             PROVE  [Lifecycle!Next]_(Lifecycle!vars)
  OBVIOUS
<1> USE DEF jobVars, laneVars
<1>t. /\ TypeOK
      /\ \A l \in Lanes : /\ pc[l] \in Executing \cup {"update"} => job[l] \in JobIds
                          /\ ~up[WorkerOf[l]] => pc[l] = "down"
  BY DEF ReviewInvariant, LaneSound
<1>s. ASSUME status' = status, Held' = Held
      PROVE  UNCHANGED Lifecycle!vars
  BY <1>s DEF Lifecycle!vars
<1>g. ASSUME NEW l \in Lanes, NEW where \in Executing, pc[l] \in Executing, Goto(l, where)
      PROVE  Held' = Held
  <2>1. pc' = [pc EXCEPT ![l] = where] /\ UNCHANGED job
    BY <1>g DEF Goto
  <2>2. \A k \in Lanes : pc'[k] \in Executing <=> pc[k] \in Executing
    BY <1>g, <2>1, <1>t DEF TypeOK
  <2> QED
    BY <2>1, <2>2, HeldSame
\* Whoever holds a job may write its outcome, and keep it or let go.
<1>w. ASSUME NEW l \in Lanes, NEW out \in Outcomes, pc[l] \in Executing,
             status' = [status EXCEPT ![job[l]] = out],
             Release(l) \/ Goto(l, "comment")
      PROVE  Lifecycle!Next
  <2>1. job[l] \in JobIds /\ job[l] \in Held
    BY <1>w, <1>t DEF Held, Holds
  <2>2. Held' \in {Held, Held \ {job[l]}}
    BY <1>w, <1>g, HeldReleased DEF Executing
  <2> QED
    BY <1>w, <2>1, <2>2 DEF Lifecycle!Next, Lifecycle!Report, Lifecycle!Outcomes, Outcomes
<1>r. ASSUME NEW l \in Lanes, pc[l] \in Executing, Release(l), status' = status
      PROVE  Lifecycle!Next
  <2>1. Held' = Held \ {job[l]} /\ job[l] \in JobIds
    BY <1>r, HeldReleased, <1>t
  <2> QED
    BY <1>r, <2>1 DEF Lifecycle!Next, Lifecycle!Drop
<1>o. ASSUME NEW S \in SUBSET JobIds, NEW phase \in {"queued", "running"},
             \A j \in S : status[j] = phase,
             status' = [j \in JobIds |-> IF j \in S THEN "failed" ELSE status[j]],
             Held' = Held
      PROVE  Lifecycle!Next
  BY <1>o DEF Lifecycle!Next, Lifecycle!FailOverdue
<1>1. ASSUME NEW j \in JobIds, Submit(j) PROVE Lifecycle!Next
  BY <1>1, HeldSame DEF Submit, Lifecycle!Next, Lifecycle!Submit
<1>2. ASSUME NEW l \in Lanes, SelectNothing(l) PROVE UNCHANGED Lifecycle!vars
  BY <1>2, <1>s, HeldSame DEF SelectNothing
<1>3. ASSUME NEW l \in Lanes, SelectCandidate(l) PROVE UNCHANGED Lifecycle!vars
  <2> Held' = Held
    BY <1>3, <1>t DEF SelectCandidate, Held, Holds, Executing, TypeOK
  <2> QED
    BY <1>3, <1>s DEF SelectCandidate
<1>4. ASSUME NEW l \in Lanes, ClaimWon(l) PROVE Lifecycle!Next
  <2>1. job[l] \in JobIds
    BY <1>4, <1>t DEF ClaimWon
  <2>2. Held' = Held \cup {job[l]}
    BY <1>4, <2>1, <1>t DEF ClaimWon, Held, Holds, Executing, TypeOK
  <2> QED
    BY <1>4, <2>1, <2>2 DEF ClaimWon, StillQueued, Lifecycle!Next, Lifecycle!Start
<1>5. ASSUME NEW l \in Lanes, ClaimLost(l) PROVE UNCHANGED Lifecycle!vars
  <2> Held' = Held
    BY <1>5, <1>t DEF ClaimLost, Held, Holds, Executing, TypeOK
  <2> QED
    BY <1>5, <1>s DEF ClaimLost
<1>6. ASSUME NEW l \in Lanes,
             DedupeMiss(l) \/ DedupeHit(l) \/ RunReport(l) \/ RunError(l) \/ Unexpected(l)
      PROVE  UNCHANGED Lifecycle!vars
  <2>1. status' = status /\ pc[l] \in Executing
    BY <1>6 DEF DedupeMiss, DedupeHit, RunReport, RunError, Unexpected, Executing
  <2>2. \E where \in Executing : Goto(l, where)
    BY <1>6 DEF DedupeMiss, DedupeHit, RunReport, RunError, Unexpected, Executing
  <2> QED
    BY <2>1, <2>2, <1>g, <1>s
<1>7. ASSUME NEW l \in Lanes, CommitHit(l) PROVE Lifecycle!Next
  BY <1>7, <1>w DEF CommitHit, Executing, Outcomes
<1>8. ASSUME NEW l \in Lanes, CommitReport(l) PROVE Lifecycle!Next
  BY <1>8, <1>w DEF CommitReport, Finish, Executing, Outcomes
<1>9. ASSUME NEW l \in Lanes, CommitError(l) PROVE Lifecycle!Next
  BY <1>9, <1>w DEF CommitError, Finish, Executing, Outcomes
<1>10. ASSUME NEW l \in Lanes, PostComment(l) \/ SkipComment(l) \/ Abandon(l)
       PROVE  Lifecycle!Next
  BY <1>10, <1>r DEF PostComment, SkipComment, Abandon, Executing
<1>11. ASSUME NEW w \in Workers, Recover(w) \/ Restart(w) PROVE Lifecycle!Next
  <2> DEFINE S == {j \in JobIds : Stale(j)}
  <2>1. S \in SUBSET JobIds /\ \A j \in S : status[j] = "running"
    BY DEF Stale
  <2>2. status' = [j \in JobIds |-> IF j \in S THEN "failed" ELSE status[j]]
    BY <1>11 DEF Recover, Restart, RecoverStale
  <2>3. Held' = Held
    BY <1>11, <1>t DEF Recover, Restart, Held, Holds, Executing, TypeOK
  <2> HIDE DEF S
  <2> QED
    BY <2>1, <2>2, <2>3, <1>o
<1>12. ASSUME NEW w \in Workers, Crash(w) PROVE Lifecycle!Next
  <2> DEFINE S == Held \ Held'
  <2>1. Held' \subseteq Held
    BY <1>12, <1>t DEF Crash, Held, Holds, Executing, TypeOK
  <2>2. S \in SUBSET JobIds /\ Held' = Held \ S
    BY <2>1 DEF Held
  <2> HIDE DEF S
  <2> QED
    BY <1>12, <2>2 DEF Crash, Lifecycle!Next, Lifecycle!Drop
<1>13. ASSUME NEW p \in Pollers, PollClear(p) PROVE Lifecycle!Next
  <2> DEFINE S == Overdue(p)
  <2>1. S \in SUBSET JobIds /\ \A j \in S : status[j] = "queued"
    BY DEF Overdue, HasStatus
  <2>2. status' = [j \in JobIds |-> IF j \in S THEN "failed" ELSE status[j]]
    BY <1>13 DEF PollClear
  <2>3. Held' = Held
    BY <1>13, HeldSame DEF PollClear
  <2> HIDE DEF S
  <2> QED
    BY <2>1, <2>2, <2>3, <1>o
<1>14. ASSUME NEW p \in Pollers, PollFind(p) \/ PollRefresh(p) \/ PollAnswer(p)
       PROVE  UNCHANGED Lifecycle!vars
  BY <1>14, <1>s, HeldSame DEF PollFind, PollRefresh, PollAnswer
<1>15. CASE Tick
  BY <1>15, <1>s, HeldSame DEF Tick
<1>16. CASE UNCHANGED vars
  BY <1>16, <1>s, HeldSame DEF vars
<1> QED
  BY <1>1, <1>2, <1>3, <1>4, <1>5, <1>6, <1>7, <1>8, <1>9, <1>10, <1>11, <1>12,
     <1>13, <1>14, <1>15, <1>16 DEF Next, Claim, Execute, Poll

\* The review queue implements the same abstract job table as the Atlas queue.
THEOREM ImplementsLifecycleHolds == Spec => ImplementsLifecycle
<1>1. Init => Lifecycle!Init
  BY DEF Init, Lifecycle!Init, Held, Holds, Executing
<1> QED
  BY <1>1, InvariantHolds, LifecycleStep, PTL
     DEF Spec, ImplementsLifecycle, Lifecycle!Spec
=============================================================================
