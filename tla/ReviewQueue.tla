----------------------------- MODULE ReviewQueue -----------------------------
(***************************************************************************)
(* The review queue: the review_jobs and reviews tables, the GitHub pull   *)
(* request webhook and the public route that fill it, the lanes of the     *)
(* worker processes that claim and review, the stale job recovery, and the *)
(* status route with its queue guard.                                      *)
(*                                                                         *)
(* Everything is about one repository and branch: jobs of others share     *)
(* nothing with these but the lanes.  One action is one transaction, or    *)
(* one read whose value is used after another process may have committed.  *)
(***************************************************************************)
EXTENDS Integers, Sequences

CONSTANTS
    JobIds,         \* review_jobs.id, random UUIDs
    NoJob,          \* no job
    Workers,        \* worker processes
    Lanes,          \* review lanes (asyncio tasks) of all workers
    WorkerOf,       \* the process each lane belongs to
    Pollers,        \* API requests that can be in flight at once
    Shas,           \* full commit SHAs of the repository
    NoSha,          \* no commit: none was requested, or none could be resolved
    GuardAfter,     \* worker_queue_guard_seconds, in ticks
    StaleAfter      \* worker_stale_job_seconds, in ticks

ASSUME NoJobAssumption == NoJob \notin JobIds
ASSUME WorkerOfAssumption == WorkerOf \in [Lanes -> Workers]
ASSUME ShaAssumption == NoSha \notin Shas
ASSUME LimitAssumption == GuardAfter \in Nat /\ StaleAfter \in Nat

\* No timestamp is older than the oldest cut-off it is compared with.
OldestAge == IF GuardAfter > StaleAfter THEN GuardAfter + 1 ELSE StaleAfter + 1

Outcomes == {"completed", "failed"}
Statuses == {"absent", "queued", "running"} \cup Outcomes

\* "review" stands for every code of ReviewError.
RunErrors == {"review", "unexpected"}
Errors == {"none", "queue_timeout", "worker_restarted"} \cup RunErrors

\* What was asked for: the public route stores the canonical URL and may be
\* given an abbreviated commit; the webhook stores the clone URL of the payload.
Requests == [via : {"route", "webhook"}, sha : Shas \cup {NoSha}]
              \cup [via : {"abbreviated"}, sha : Shas]

\* A row of reviews.  A report is stored under the canonical URL and the full
\* SHA of the checkout, an error under the URL and commit of the request.
Reviews == [error : {"none"} \cup RunErrors, via : {"route", "webhook", "abbreviated"},
            sha : Shas \cup {NoSha}]

VARIABLES
    request,                            \* columns of review_jobs that never change
    status, error, cached, age,         \* and those that do
    reviews,                            \* the reviews rows of every job
    comment,                            \* comments on the pull request
    up,                                 \* worker processes that run
    pc, job, tries,                     \* control of every lane
    local,                              \* what a lane remembers of its job
    poll                                \* status requests in flight

jobVars == <<request, status, error, cached, age>>
laneVars == <<pc, job, tries, local>>
vars == <<jobVars, reviews, comment, up, laneVars, poll>>

Executing == {"dedupe", "hit", "review", "report", "fail", "comment"}
Control == Executing \cup {"down", "select", "update"}
ClaimAttempts == 3

\* target: the job whose review was found.  sha: the commit that was reviewed.
\* error: what went wrong instead.
Locals == [target : JobIds \cup {NoJob}, sha : Shas \cup {NoSha},
           error : {"none"} \cup RunErrors]
Blank == [target |-> NoJob, sha |-> NoSha, error |-> "none"]

Polls == [pc : {"idle", "clear", "refresh", "answer"}, job : JobIds \cup {NoJob},
          due : SUBSET JobIds, status : Statuses, cached : JobIds \cup {NoJob}]
Idle == [pc |-> "idle", job |-> NoJob, due |-> {}, status |-> "absent",
         cached |-> NoJob]

TypeOK ==
    /\ request \in [JobIds -> Requests]
    /\ status \in [JobIds -> Statuses]
    /\ error \in [JobIds -> Errors]
    /\ cached \in [JobIds -> JobIds \cup {NoJob}]
    /\ age \in [JobIds -> 0 .. OldestAge]
    /\ reviews \in [JobIds -> Seq(Reviews)]
    /\ comment \in [JobIds -> {"none", "report", "error"}]
    /\ up \in [Workers -> BOOLEAN]
    /\ pc \in [Lanes -> Control]
    /\ job \in [Lanes -> JobIds \cup {NoJob}]
    /\ tries \in [Lanes -> 0 .. ClaimAttempts - 1]
    /\ local \in [Lanes -> Locals]
    /\ poll \in [Pollers -> Polls]

Init ==
    /\ request = [j \in JobIds |-> [via |-> "route", sha |-> NoSha]]
    /\ status = [j \in JobIds |-> "absent"]
    /\ error = [j \in JobIds |-> "none"]
    /\ cached = [j \in JobIds |-> NoJob]
    /\ age = [j \in JobIds |-> 0]
    /\ reviews = [j \in JobIds |-> <<>>]
    /\ comment = [j \in JobIds |-> "none"]
    /\ up = [w \in Workers |-> FALSE]
    /\ pc = [l \in Lanes |-> "down"]
    /\ job = [l \in Lanes |-> NoJob]
    /\ tries = [l \in Lanes |-> 0]
    /\ local = [l \in Lanes |-> Blank]
    /\ poll = [p \in Pollers |-> Idle]

HasStatus(s) == {j \in JobIds : status[j] = s}

-----------------------------------------------------------------------------
(* Submission                                                              *)

\* POST /api/review/ and POST /api/webhook/github insert a queued row.  GitHub
\* redelivers and a pull request is pushed to: nothing tells two rows apart.
Submit(j) ==
    /\ status[j] = "absent"
    /\ \E r \in Requests : request' = [request EXCEPT ![j] = r]
    /\ status' = [status EXCEPT ![j] = "queued"]
    /\ UNCHANGED <<error, cached, age, reviews, comment, up, laneVars, poll>>

-----------------------------------------------------------------------------
(* Claiming                                                                *)

\* The lane's claim came back empty: it sleeps and starts a fresh one.
SelectNothing(l) ==
    /\ pc[l] = "select" /\ tries[l] > 0
    /\ HasStatus("queued") = {}
    /\ tries' = [tries EXCEPT ![l] = 0]
    /\ UNCHANGED <<jobVars, reviews, comment, up, pc, job, local, poll>>

\* The candidate is a queued row with the earliest created_at.
SelectCandidate(l) ==
    /\ pc[l] = "select"
    /\ \E j \in HasStatus("queued") :
         /\ \A i \in HasStatus("queued") : age[i] <= age[j]
         /\ job' = [job EXCEPT ![l] = j]
    /\ pc' = [pc EXCEPT ![l] = "update"]
    /\ UNCHANGED <<jobVars, reviews, comment, up, tries, local, poll>>

\* Mutant of StillQueued: the UPDATE without AND status = 'queued'.
AnyRow(l) == TRUE

\* The row the UPDATE of a claim matches: WHERE id = :id AND status = 'queued'.
StillQueued(l) == status[job[l]] = "queued"

NextTry(l) == (tries[l] + 1) % ClaimAttempts

\* The UPDATE matched, and is committed.  A job without a commit is reviewed at
\* once, there is nothing to look up.
ClaimWon(l) ==
    /\ pc[l] = "update" /\ StillQueued(l)
    /\ status' = [status EXCEPT ![job[l]] = "running"]
    /\ error' = [error EXCEPT ![job[l]] = "none"]
    /\ age' = [age EXCEPT ![job[l]] = 0]
    /\ pc' = [pc EXCEPT ![l] =
                IF request[job[l]].sha = NoSha THEN "review" ELSE "dedupe"]
    /\ tries' = [tries EXCEPT ![l] = 0]
    /\ UNCHANGED <<request, cached, reviews, comment, up, job, local, poll>>

\* It matched nothing: another lane or the guard was first.
ClaimLost(l) ==
    /\ pc[l] = "update" /\ ~StillQueued(l)
    /\ pc' = [pc EXCEPT ![l] = "select"]
    /\ job' = [job EXCEPT ![l] = NoJob]
    /\ tries' = [tries EXCEPT ![l] = NextTry(l)]
    /\ UNCHANGED <<jobVars, reviews, comment, up, local, poll>>

-----------------------------------------------------------------------------
(* Reviewing                                                               *)

\* The lane is done with its job and returns to its claim loop.
Release(l) ==
    /\ pc' = [pc EXCEPT ![l] = "select"]
    /\ job' = [job EXCEPT ![l] = NoJob]
    /\ local' = [local EXCEPT ![l] = Blank]

Goto(l, where) ==
    /\ pc' = [pc EXCEPT ![l] = where]
    /\ UNCHANGED job

\* Mutant of Found: error rows are not filtered out.
FoundAny(j) ==
    {k \in JobIds : \E i \in DOMAIN reviews[k] :
        /\ reviews[k][i].via = request[j].via
        /\ reviews[k][i].sha = request[j].sha}

\* The jobs with a review the lookup matches: no error, and the same spelling of
\* the URL and of the commit.
Found(j) ==
    {k \in JobIds : \E i \in DOMAIN reviews[k] :
        /\ reviews[k][i].error = "none"
        /\ reviews[k][i].via = request[j].via
        /\ reviews[k][i].sha = request[j].sha}

DedupeMiss(l) ==
    /\ pc[l] = "dedupe" /\ Found(job[l]) = {}
    /\ Goto(l, "review")
    /\ UNCHANGED <<jobVars, reviews, comment, up, tries, local, poll>>

\* Any of the matching rows is taken.
DedupeHit(l) ==
    /\ pc[l] = "dedupe"
    /\ \E k \in Found(job[l]) : local' = [local EXCEPT ![l] = [@ EXCEPT !.target = k]]
    /\ Goto(l, "hit")
    /\ UNCHANGED <<jobVars, reviews, comment, up, tries, poll>>

\* The job is completed with the review found, and no comment is posted.
CommitHit(l) ==
    /\ pc[l] = "hit"
    /\ status' = [status EXCEPT ![job[l]] = "completed"]
    /\ cached' = [cached EXCEPT ![job[l]] = local[l].target]
    /\ Release(l)
    /\ UNCHANGED <<request, error, age, reviews, comment, up, tries, poll>>

\* What git rev-parse HEAD can answer after a checkout: the commit asked for, or
\* the head of the branch; "unknown" is no SHA.
Resolved(j) ==
    (IF request[j].sha = NoSha THEN Shas ELSE {request[j].sha}) \cup {NoSha}

\* run_review returns a report ...
RunReport(l) ==
    /\ pc[l] = "review"
    /\ \E sha \in Resolved(job[l]) :
         local' = [local EXCEPT ![l] = [@ EXCEPT !.sha = sha]]
    /\ Goto(l, "report")
    /\ UNCHANGED <<jobVars, reviews, comment, up, tries, poll>>

\* ... or raises a ReviewError, the timeout of the whole run included.
RunError(l) ==
    /\ pc[l] = "review"
    /\ local' = [local EXCEPT ![l] = [@ EXCEPT !.error = "review"]]
    /\ Goto(l, "fail")
    /\ UNCHANGED <<jobVars, reviews, comment, up, tries, poll>>

\* Whatever else raises before the commit lands in the last handler.
Unexpected(l) ==
    /\ pc[l] \in {"review", "report"}
    /\ local' = [local EXCEPT ![l] = [@ EXCEPT !.error = "unexpected"]]
    /\ Goto(l, "fail")
    /\ UNCHANGED <<jobVars, reviews, comment, up, tries, poll>>

\* A job of a pull request goes on to its comment, another one is done.
Finish(l) ==
    IF request[job[l]].via = "webhook"
      THEN Goto(l, "comment") /\ UNCHANGED local
      ELSE Release(l)

AddReview(j, review) == reviews' = [reviews EXCEPT ![j] = Append(@, review)]

\* Mutant of CommitReport: the review is committed ahead of the status.
CommitReviewAlone(l) ==
    /\ pc[l] = "report"
    /\ AddReview(job[l], [error |-> "none", via |-> "route", sha |-> local[l].sha])
    /\ Finish(l)
    /\ UNCHANGED <<jobVars, comment, up, tries, poll>>

\* The report and the completed status are one transaction; the status is
\* written without looking at what it has become meanwhile.  An error code that
\* recovery wrote meanwhile stays.
CommitReport(l) ==
    /\ pc[l] = "report"
    /\ AddReview(job[l], [error |-> "none", via |-> "route", sha |-> local[l].sha])
    /\ status' = [status EXCEPT ![job[l]] = "completed"]
    /\ Finish(l)
    /\ UNCHANGED <<request, error, cached, age, comment, up, tries, poll>>

\* The two handlers: a review row for the error, and the failed status.
CommitError(l) ==
    /\ pc[l] = "fail"
    /\ AddReview(job[l], [error |-> local[l].error, via |-> request[job[l]].via,
                          sha |-> request[job[l]].sha])
    /\ status' = [status EXCEPT ![job[l]] = "failed"]
    /\ error' = [error EXCEPT ![job[l]] = local[l].error]
    /\ Finish(l)
    /\ UNCHANGED <<request, cached, age, comment, up, tries, poll>>

\* The comment tells what the review row holds.
PostComment(l) ==
    /\ pc[l] = "comment"
    /\ comment' = [comment EXCEPT ![job[l]] =
                     IF local[l].error = "none" THEN "report" ELSE "error"]
    /\ Release(l)
    /\ UNCHANGED <<jobVars, reviews, up, tries, poll>>

\* No token, or GitHub refused: post_pr_comment swallows it and nobody retries.
SkipComment(l) ==
    /\ pc[l] = "comment"
    /\ Release(l)
    /\ UNCHANGED <<jobVars, reviews, comment, up, tries, poll>>

\* The lookup or a commit raises outside the handlers, or leaves them a session
\* they cannot commit: _run_claim logs it and the lane moves on.
Abandon(l) ==
    /\ pc[l] \in {"dedupe", "hit", "report", "fail"}
    /\ Release(l)
    /\ UNCHANGED <<jobVars, reviews, comment, up, tries, poll>>

-----------------------------------------------------------------------------
(* Worker processes: recovery, crash, restart                              *)

\* Mutant of Stale: the UPDATE looks at started_at alone.
StartedLongAgo(j) == age[j] > StaleAfter

\* UPDATE ... SET status = 'failed' WHERE running and started before the cutoff.
Stale(j) == status[j] = "running" /\ age[j] > StaleAfter

\* Mutant of RecoverStale: stale jobs are queued again, to be retried.
RequeueStale ==
    /\ status' = [j \in JobIds |-> IF Stale(j) THEN "queued" ELSE status[j]]
    /\ error' = [j \in JobIds |-> IF Stale(j) THEN "worker_restarted" ELSE error[j]]

RecoverStale ==
    /\ status' = [j \in JobIds |-> IF Stale(j) THEN "failed" ELSE status[j]]
    /\ error' = [j \in JobIds |-> IF Stale(j) THEN "worker_restarted" ELSE error[j]]

\* The periodic recovery of one worker; the lanes are not consulted.
Recover(w) ==
    /\ up[w]
    /\ \E j \in JobIds : Stale(j)
    /\ RecoverStale
    /\ UNCHANGED <<request, cached, age, reviews, comment, up, laneVars, poll>>

\* A worker starts: it recovers stale jobs first and opens its lanes after.
Restart(w) ==
    /\ ~up[w]
    /\ up' = [up EXCEPT ![w] = TRUE]
    /\ RecoverStale
    /\ pc' = [l \in Lanes |-> IF WorkerOf[l] = w THEN "select" ELSE pc[l]]
    /\ UNCHANGED <<request, cached, age, reviews, comment, job, tries, local, poll>>

\* A worker dies, and whatever its lanes had not committed is gone.
Crash(w) ==
    /\ up[w]
    /\ up' = [up EXCEPT ![w] = FALSE]
    /\ pc' = [l \in Lanes |-> IF WorkerOf[l] = w THEN "down" ELSE pc[l]]
    /\ job' = [l \in Lanes |-> IF WorkerOf[l] = w THEN NoJob ELSE job[l]]
    /\ tries' = [l \in Lanes |-> IF WorkerOf[l] = w THEN 0 ELSE tries[l]]
    /\ local' = [l \in Lanes |-> IF WorkerOf[l] = w THEN Blank ELSE local[l]]
    /\ UNCHANGED <<jobVars, reviews, comment, poll>>

-----------------------------------------------------------------------------
(* GET /api/review/{job_id}                                                *)

\* An id without a row is answered 404 and changes nothing.  The guard that
\* runs for any other id fixes its cutoff.
PollFind(p) ==
    /\ poll[p].pc = "idle"
    /\ \E j \in JobIds :
         /\ status[j] # "absent"
         /\ poll' = [poll EXCEPT ![p] =
              [@ EXCEPT !.pc = "clear", !.job = j,
                        !.due = {i \in HasStatus("queued") : age[i] > GuardAfter}]]
    /\ UNCHANGED <<jobVars, reviews, comment, up, laneVars>>

\* Mutant of Overdue: the UPDATE without status = 'queued'.
EverDue(p) == poll[p].due

\* The rows its UPDATE matches: created before the cutoff and queued now.
Overdue(p) == poll[p].due \cap HasStatus("queued")

PollClear(p) ==
    /\ poll[p].pc = "clear"
    /\ LET overdue == Overdue(p)
       IN  /\ status' = [j \in JobIds |->
                           IF j \in overdue THEN "failed" ELSE status[j]]
           /\ error' = [j \in JobIds |->
                           IF j \in overdue THEN "queue_timeout" ELSE error[j]]
    /\ poll' = [poll EXCEPT ![p] = [@ EXCEPT !.pc = "refresh", !.due = {}]]
    /\ UNCHANGED <<request, cached, age, reviews, comment, up, laneVars>>

\* The job row is read again ...
PollRefresh(p) ==
    /\ poll[p].pc = "refresh"
    /\ poll' = [poll EXCEPT ![p] =
         [@ EXCEPT !.pc = "answer", !.status = status[poll[p].job],
                   !.cached = cached[poll[p].job]]]
    /\ UNCHANGED <<jobVars, reviews, comment, up, laneVars>>

\* ... and its review by a second query; one of its own wins over the cached.
ResultOf(p) == IF reviews[poll[p].job] # <<>> THEN poll[p].job ELSE poll[p].cached

PollAnswer(p) ==
    /\ poll[p].pc = "answer"
    /\ poll' = [poll EXCEPT ![p] = Idle]
    /\ UNCHANGED <<jobVars, reviews, comment, up, laneVars>>

-----------------------------------------------------------------------------
(* Time and the specification                                              *)

Tick ==
    /\ \E j \in JobIds : status[j] \in {"queued", "running"} /\ age[j] < OldestAge
    /\ age' = [j \in JobIds |->
                 IF status[j] \in {"queued", "running"} /\ age[j] < OldestAge
                   THEN age[j] + 1 ELSE age[j]]
    /\ UNCHANGED <<request, status, error, cached, reviews, comment, up, laneVars, poll>>

Claim(l) == SelectNothing(l) \/ SelectCandidate(l) \/ ClaimWon(l) \/ ClaimLost(l)

Execute(l) ==
    \/ DedupeMiss(l) \/ DedupeHit(l) \/ CommitHit(l)
    \/ RunReport(l) \/ RunError(l) \/ Unexpected(l)
    \/ CommitReport(l) \/ CommitError(l)
    \/ PostComment(l) \/ SkipComment(l) \/ Abandon(l)

Poll(p) == PollFind(p) \/ PollClear(p) \/ PollRefresh(p) \/ PollAnswer(p)

Next ==
    \/ \E j \in JobIds : Submit(j)
    \/ \E l \in Lanes : Claim(l) \/ Execute(l)
    \/ \E w \in Workers : Recover(w) \/ Restart(w) \/ Crash(w)
    \/ \E p \in Pollers : Poll(p)
    \/ Tick

Spec == Init /\ [][Next]_vars

-----------------------------------------------------------------------------
(* Properties                                                              *)

Holds(l, j) == pc[l] \in Executing /\ job[l] = j
Held == {j \in JobIds : \E l \in Lanes : Holds(l, j)}

\* A job has at most one review row, whatever lanes, recoveries and crashes do:
\* nothing in the schema makes reviews.job_id unique, yet the status route reads
\* one row and trusts it.
OneReviewPerJob == \A j \in JobIds : Len(reviews[j]) <= 1

\* A job and its review tell the same story: a report belongs to a completed
\* job, and an error row to a failed job with the code of the row, even if
\* recovery failed the job while the review was still running.
JobAgreesWithReview ==
    \A j \in JobIds : \A i \in DOMAIN reviews[j] :
        IF reviews[j][i].error = "none"
          THEN status[j] = "completed"
          ELSE status[j] = "failed" /\ error[j] = reviews[j][i].error

\* A job that was deduplicated is completed, has no review of its own, and
\* points at a report of the very commit it asked for.
CachedReviewFits ==
    \A j \in JobIds : cached[j] # NoJob =>
        /\ status[j] = "completed" /\ reviews[j] = <<>>
        /\ \E i \in DOMAIN reviews[cached[j]] :
             /\ reviews[cached[j]][i].error = "none"
             /\ reviews[cached[j]][i].sha = request[j].sha

\* The comment on a pull request tells the outcome the job has: it is posted
\* after the commit, and nothing may change the job from then on.
CommentTellsOutcome ==
    \A j \in JobIds :
        /\ comment[j] = "report" => status[j] = "completed"
        /\ comment[j] = "error" => status[j] = "failed" /\ reviews[j] # <<>>

\* A poll that answers "completed" also answers the id of a report, although the
\* job and its review are read by two queries with commits in between.
CompletedAnswerHasReport ==
    \A p \in Pollers : poll[p].pc = "answer" /\ poll[p].status = "completed" =>
        /\ ResultOf(p) \in JobIds
        /\ \E i \in DOMAIN reviews[ResultOf(p)] :
             reviews[ResultOf(p)][i].error = "none"

\* A job the queue guard timed out was never reviewed: the guard and the claim
\* race for the same queued row, and the loser must notice.
TimedOutNeverReviewed ==
    \A j \in JobIds : error[j] = "queue_timeout" =>
        status[j] = "failed" /\ j \notin Held /\ reviews[j] = <<>>

\* The queue implements the promises of JobLifecycle.
Lifecycle == INSTANCE JobLifecycle WITH held <- Held
ImplementsLifecycle == Lifecycle!Spec

\* What makes the invariants above inductive: what every lane and every request
\* in flight may rely on.
ExclusiveReview ==
    \A l, k \in Lanes : \A j \in JobIds : Holds(l, j) /\ Holds(k, j) => l = k

LaneSound(l) ==
    /\ ~up[WorkerOf[l]] => pc[l] = "down"
    /\ pc[l] \in Executing \cup {"update"} => job[l] \in JobIds
    /\ pc[l] \in Executing =>
         status[job[l]] \notin {"absent", "queued"} /\ comment[job[l]] = "none"
    /\ pc[l] \in Executing \ {"comment"} =>
         reviews[job[l]] = <<>> /\ cached[job[l]] = NoJob
    /\ pc[l] = "hit" =>
         local[l].target \in JobIds /\ local[l].target \in Found(job[l])
    /\ pc[l] \notin {"fail", "comment"} => local[l].error = "none"
    /\ pc[l] = "fail" => local[l].error # "none"
    /\ pc[l] = "comment" =>
         IF local[l].error = "none" THEN status[job[l]] = "completed"
           ELSE status[job[l]] = "failed" /\ reviews[job[l]] # <<>>

QueuedIsFresh ==
    \A j \in JobIds : status[j] \in {"absent", "queued"} =>
        reviews[j] = <<>> /\ cached[j] = NoJob /\ comment[j] = "none"

CompletedHasReport ==
    \A j \in JobIds : status[j] = "completed" =>
        cached[j] # NoJob \/ \E i \in DOMAIN reviews[j] : reviews[j][i].error = "none"

RequestsSound ==
    \A p \in Pollers :
        /\ poll[p].pc # "idle" => poll[p].job \in JobIds
        /\ poll[p].pc = "answer" => poll[p].cached \in {NoJob, cached[poll[p].job]}

ReviewInvariant ==
    /\ TypeOK
    /\ ExclusiveReview
    /\ \A l \in Lanes : LaneSound(l)
    /\ QueuedIsFresh /\ CompletedHasReport /\ RequestsSound
    /\ OneReviewPerJob /\ JobAgreesWithReview /\ CachedReviewFits
    /\ CommentTellsOutcome /\ CompletedAnswerHasReport /\ TimedOutNeverReviewed
=============================================================================
