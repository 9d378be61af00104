----------------------------- MODULE AtlasQueue -----------------------------
(***************************************************************************)
(* The Atlas analysis queue: the atlas_jobs and atlas_results tables, the  *)
(* lanes of the worker processes that claim and execute jobs, the stale    *)
(* job recovery every worker runs, and the status route whose polls fail   *)
(* jobs that waited too long.                                              *)
(*                                                                         *)
(* One action is one database transaction, or one read whose value is used *)
(* after another process may have committed.  The database is read         *)
(* committed: a statement sees what was committed when it ran, and a       *)
(* conditional UPDATE re-reads the row it locks.  Timestamps are kept as   *)
(* the age of the one that matters: created_at while a job is queued,      *)
(* started_at while it runs.                                               *)
(***************************************************************************)
EXTENDS Integers, FiniteSets

CONSTANTS
    MaxJob,         \* bound: job ids are 1 .. MaxJob, in order of creation
    Workers,        \* worker processes
    Lanes,          \* queue lanes (asyncio tasks) of all workers
    WorkerOf,       \* the process each lane belongs to
    Pollers,        \* API requests that can be in flight at once
    Shas,           \* tree SHAs a snapshot of the repository can have
    NoSha,          \* GitHub returned no tree SHA
    GuardAfter,     \* worker_queue_guard_seconds, in ticks
    StaleAfter      \* worker_stale_job_seconds, in ticks

ASSUME MaxJobAssumption == MaxJob \in Nat
ASSUME WorkerOfAssumption == WorkerOf \in [Lanes -> Workers]
ASSUME ShaAssumption == NoSha \notin Shas
ASSUME LimitAssumption == GuardAfter \in Nat /\ StaleAfter \in Nat

JobIds == 1 .. MaxJob
NoJob == 0
ClaimAttempts == 3

\* No timestamp is older than the oldest cut-off it is compared with.
OldestAge == IF GuardAfter > StaleAfter THEN GuardAfter + 1 ELSE StaleAfter + 1

Outcomes == {"completed", "failed"}
Statuses == {"absent", "queued", "running"} \cup Outcomes
Errors == {"none", "no_worker", "capacity", "stale", "pipeline"}

\* A result row is keyed by the job that wrote it (atlas_results.job_id is
\* unique); the three diagnostic sections are written together or not at all.
NoRow == [sha |-> NoSha, tabs |-> "no_row"]
Rows == [sha : Shas \cup {NoSha}, tabs : {"missing", "scanned", "scan_failed"}]

VARIABLES
    status, error, cached, age,         \* columns of atlas_jobs
    row,                                \* atlas_results
    up,                                 \* worker processes that run
    pc, job, tries,                     \* control of every lane
    local,                              \* what a lane remembers of its job
    poll                                \* status requests in flight

jobVars == <<status, error, cached, age>>
laneVars == <<pc, job, tries, local>>
vars == <<jobVars, row, up, laneVars, poll>>

Executing == {"analyse", "dedupe", "hit", "hit_tabs", "summarise", "tabs",
              "intel", "fail"}
Control == Executing \cup {"down", "select", "update"}

\* sha and intel: what run_analysis returned.  target and seen: the result row
\* the lane works on and its sections as loaded.  expired: the session was
\* rolled back, so the loaded rows can no longer be read.
Locals == [sha : Shas \cup {NoSha}, intel : BOOLEAN, target : JobIds \cup {NoJob},
           seen : {"missing", "scanned", "scan_failed"}, expired : BOOLEAN]
Blank == [sha |-> NoSha, intel |-> FALSE, target |-> NoJob, seen |-> "missing",
          expired |-> FALSE]

\* due and busy: what the guard read.  job, status and result: the job row read.
Polls == [pc : {"idle", "clear", "job", "result"}, due : SUBSET JobIds,
          busy : BOOLEAN, job : JobIds \cup {NoJob}, status : Statuses,
          result : JobIds \cup {NoJob}]
Idle == [pc |-> "idle", due |-> {}, busy |-> FALSE, job |-> NoJob,
         status |-> "absent", result |-> NoJob]

TypeOK ==
    /\ status \in [JobIds -> Statuses]
    /\ error \in [JobIds -> Errors]
    /\ cached \in [JobIds -> JobIds \cup {NoJob}]
    /\ age \in [JobIds -> 0 .. OldestAge]
    /\ row \in [JobIds -> Rows \cup {NoRow}]
    /\ up \in [Workers -> BOOLEAN]
    /\ pc \in [Lanes -> Control]
    /\ job \in [Lanes -> JobIds \cup {NoJob}]
    /\ tries \in [Lanes -> 0 .. ClaimAttempts - 1]
    /\ local \in [Lanes -> Locals]
    /\ poll \in [Pollers -> Polls]

Init ==
    /\ status = [j \in JobIds |-> "absent"]
    /\ error = [j \in JobIds |-> "none"]
    /\ cached = [j \in JobIds |-> NoJob]
    /\ age = [j \in JobIds |-> 0]
    /\ row = [j \in JobIds |-> NoRow]
    /\ up = [w \in Workers |-> FALSE]
    /\ pc = [l \in Lanes |-> "down"]
    /\ job = [l \in Lanes |-> NoJob]
    /\ tries = [l \in Lanes |-> 0]
    /\ local = [l \in Lanes |-> Blank]
    /\ poll = [p \in Pollers |-> Idle]

HasStatus(s) == {j \in JobIds : status[j] = s}
HasRow(j) == row[j] # NoRow
WithSha(s) == {j \in JobIds : HasRow(j) /\ row[j].sha = s}

-----------------------------------------------------------------------------
(* Submission                                                              *)

\* POST /api/analyze, past parsing and rate limiting: one row is inserted.
Submit(j) ==
    /\ status[j] = "absent"
    /\ \A i \in JobIds : i < j => status[i] # "absent"
    /\ status' = [status EXCEPT ![j] = "queued"]
    /\ UNCHANGED <<error, cached, age, row, up, laneVars, poll>>

-----------------------------------------------------------------------------
(* Claiming                                                                *)

\* The lane's claim came back empty: it sleeps and starts a fresh one.
SelectNothing(l) ==
    /\ pc[l] = "select" /\ tries[l] > 0
    /\ HasStatus("queued") = {}
    /\ tries' = [tries EXCEPT ![l] = 0]
    /\ UNCHANGED <<jobVars, row, up, pc, job, local, poll>>

\* The oldest queued row is the candidate; it is read, not locked.
SelectCandidate(l) ==
    /\ pc[l] = "select"
    /\ \E j \in HasStatus("queued") :
         /\ \A i \in HasStatus("queued") : j <= i
         /\ job' = [job EXCEPT ![l] = j]
    /\ pc' = [pc EXCEPT ![l] = "update"]
    /\ UNCHANGED <<jobVars, row, up, tries, local, poll>>

\* Mutant of StillQueued: the UPDATE without AND status = 'queued'.
AnyRow(l) == TRUE

\* Mutant of StillQueued: the UPDATE spares only jobs that have ended.
NotEnded(l) == status[job[l]] \notin Outcomes

\* The row the UPDATE of a claim matches: WHERE id = :id AND status = 'queued'.
StillQueued(l) == status[job[l]] = "queued"

\* Three attempts make a claim; after the third the count starts afresh.
NextTry(l) == (tries[l] + 1) % ClaimAttempts

\* The UPDATE matched, and is committed.
ClaimWon(l) ==
    /\ pc[l] = "update" /\ StillQueued(l)
    /\ status' = [status EXCEPT ![job[l]] = "running"]
    /\ error' = [error EXCEPT ![job[l]] = "none"]
    /\ age' = [age EXCEPT ![job[l]] = 0]
    /\ pc' = [pc EXCEPT ![l] = "analyse"]
    /\ tries' = [tries EXCEPT ![l] = 0]
    /\ UNCHANGED <<cached, row, up, job, local, poll>>

\* It matched nothing: another lane or the guard was first.
ClaimLost(l) ==
    /\ pc[l] = "update" /\ ~StillQueued(l)
    /\ pc' = [pc EXCEPT ![l] = "select"]
    /\ job' = [job EXCEPT ![l] = NoJob]
    /\ tries' = [tries EXCEPT ![l] = NextTry(l)]
    /\ UNCHANGED <<jobVars, row, up, local, poll>>

-----------------------------------------------------------------------------
(* Executing                                                               *)

\* The lane is done with its job and returns to its claim loop.
Release(l) ==
    /\ pc' = [pc EXCEPT ![l] = "select"]
    /\ job' = [job EXCEPT ![l] = NoJob]
    /\ local' = [local EXCEPT ![l] = Blank]

Goto(l, where) ==
    /\ pc' = [pc EXCEPT ![l] = where]
    /\ UNCHANGED job

\* run_analysis returned evidence, with or without a tree SHA and with or
\* without the intelligence layer's result.
Analyse(l) ==
    /\ pc[l] = "analyse"
    /\ \E sha \in Shas \cup {NoSha}, intel \in BOOLEAN :
         /\ local' = [local EXCEPT ![l] = [@ EXCEPT !.sha = sha, !.intel = intel]]
         /\ Goto(l, IF sha = NoSha THEN "summarise" ELSE "dedupe")
    /\ UNCHANGED <<jobVars, row, up, tries, poll>>

\* Whatever raises before the result is committed lands in the outer handler:
\* run_analysis, the dedupe query, decrypting the found row, the summaries.  The
\* query always does when it finds more than one row (scalar_one_or_none).
Raise(l) ==
    /\ pc[l] \in {"analyse", "dedupe", "hit", "summarise"}
    /\ Goto(l, "fail")
    /\ UNCHANGED <<jobVars, row, up, tries, local, poll>>

\* No analysed snapshot has this SHA.
DedupeMiss(l) ==
    /\ pc[l] = "dedupe" /\ WithSha(local[l].sha) = {}
    /\ Goto(l, "summarise")
    /\ UNCHANGED <<jobVars, row, up, tries, local, poll>>

\* Exactly one has, and is loaded with its sections as they are now.
DedupeHit(l) ==
    /\ pc[l] = "dedupe"
    /\ \E r \in JobIds :
         /\ WithSha(local[l].sha) = {r}
         /\ local' = [local EXCEPT ![l] =
                         [@ EXCEPT !.target = r, !.seen = row[r].tabs]]
    /\ Goto(l, "hit")
    /\ UNCHANGED <<jobVars, row, up, tries, poll>>

\* Mutant of CommitHit: the id of the result found is not recorded.
CommitHitUnlinked(l) ==
    /\ pc[l] = "hit"
    /\ status' = [status EXCEPT ![job[l]] = "completed"]
    /\ Goto(l, "hit_tabs")
    /\ UNCHANGED <<error, cached, age, row, up, tries, local, poll>>

\* The job is completed with another job's result, whatever its status has
\* become meanwhile.
CommitHit(l) ==
    /\ pc[l] = "hit"
    /\ status' = [status EXCEPT ![job[l]] = "completed"]
    /\ cached' = [cached EXCEPT ![job[l]] = local[l].target]
    /\ Goto(l, "hit_tabs")
    /\ UNCHANGED <<error, age, row, up, tries, local, poll>>

\* The result row and the completed status are one transaction; the status is
\* written without looking at what it has become meanwhile.
CommitResult(l) ==
    /\ pc[l] = "summarise"
    /\ row' = [row EXCEPT ![job[l]] = [sha |-> local[l].sha, tabs |-> "missing"]]
    /\ status' = [status EXCEPT ![job[l]] = "completed"]
    /\ local' = [local EXCEPT ![l] =
                    [@ EXCEPT !.target = job[l], !.seen = "missing"]]
    /\ Goto(l, "tabs")
    /\ UNCHANGED <<error, cached, age, up, tries, poll>>

\* The sections are filled from what was loaded, not from what is there now: a
\* row that had all of them is left alone, a failed clone or scan writes
\* sentinels.
WriteTabs(l) ==
    /\ IF local[l].seen = "missing"
         THEN \E found \in {"scanned", "scan_failed"} :
                row' = [row EXCEPT ![local[l].target] = [@ EXCEPT !.tabs = found]]
         ELSE UNCHANGED row
    /\ UNCHANGED <<jobVars, up, tries, poll>>

HitTabs(l) ==
    /\ pc[l] = "hit_tabs"
    /\ WriteTabs(l)
    /\ Release(l)

NewTabs(l) ==
    /\ pc[l] = "tabs"
    /\ WriteTabs(l)
    /\ Goto(l, "intel")
    /\ UNCHANGED local

\* A flush or the commit of the sections raises: the session is rolled back
\* and every row it had loaded is expired.
HitTabsRollback(l) ==
    /\ pc[l] = "hit_tabs" /\ local[l].seen = "missing"
    /\ Release(l)
    /\ UNCHANGED <<jobVars, row, up, tries, poll>>

NewTabsRollback(l) ==
    /\ pc[l] = "tabs"
    /\ local' = [local EXCEPT ![l] = [@ EXCEPT !.expired = TRUE]]
    /\ Goto(l, "intel")
    /\ UNCHANGED <<jobVars, row, up, tries, poll>>

\* The intelligence rows need result.id, which an expired row cannot give: the
\* read raises and the outer handler takes over.  Otherwise they, and the
\* search chunks, are stored in sessions of their own or skipped.
StoreIntelligence(l) ==
    /\ pc[l] = "intel"
    /\ IF local[l].intel /\ local[l].expired
         THEN Goto(l, "fail") /\ UNCHANGED local
         ELSE Release(l)
    /\ UNCHANGED <<jobVars, row, up, tries, poll>>

\* The outer handler.
CommitFailure(l) ==
    /\ pc[l] = "fail"
    /\ status' = [status EXCEPT ![job[l]] = "failed"]
    /\ error' = [error EXCEPT ![job[l]] = "pipeline"]
    /\ Release(l)
    /\ UNCHANGED <<cached, age, row, up, tries, poll>>

\* A commit fails and leaves the session unusable, so the handler's own commit
\* raises too; _run_claim logs it and the lane moves on.
LoseCommit(l) ==
    /\ pc[l] \in {"hit", "summarise", "fail"}
    /\ Release(l)
    /\ UNCHANGED <<jobVars, row, up, tries, poll>>

-----------------------------------------------------------------------------
(* Worker processes: recovery, crash, restart                              *)

\* Mutant of Stale: the UPDATE looks at started_at alone.
StartedLongAgo(j) == age[j] > StaleAfter

\* Mutant of Stale: the UPDATE looks at the wrong status.
QueuedLongAgo(j) == status[j] = "queued" /\ age[j] > StaleAfter

\* UPDATE ... SET status = 'failed' WHERE running and started before the cutoff.
Stale(j) == status[j] = "running" /\ age[j] > StaleAfter

\* Mutant of RecoverStale: stale jobs are queued again, to be retried.
RequeueStale ==
    /\ status' = [j \in JobIds |-> IF Stale(j) THEN "queued" ELSE status[j]]
    /\ error' = [j \in JobIds |-> IF Stale(j) THEN "stale" ELSE error[j]]

RecoverStale ==
    /\ status' = [j \in JobIds |-> IF Stale(j) THEN "failed" ELSE status[j]]
    /\ error' = [j \in JobIds |-> IF Stale(j) THEN "stale" ELSE error[j]]

\* The periodic recovery of one worker; the lanes are not consulted.
Recover(w) ==
    /\ up[w]
    /\ \E j \in JobIds : Stale(j)
    /\ RecoverStale
    /\ UNCHANGED <<cached, age, row, up, laneVars, poll>>

\* A worker starts: it recovers stale jobs first and opens its lanes after.
Restart(w) ==
    /\ ~up[w]
    /\ up' = [up EXCEPT ![w] = TRUE]
    /\ RecoverStale
    /\ pc' = [l \in Lanes |-> IF WorkerOf[l] = w THEN "select" ELSE pc[l]]
    /\ UNCHANGED <<cached, age, row, job, tries, local, poll>>

\* A worker dies: killed, or an unguarded exception in a claim or a recovery
\* ended its gather.  Whatever its lanes had not committed is gone.
Crash(w) ==
    /\ up[w]
    /\ up' = [up EXCEPT ![w] = FALSE]
    /\ pc' = [l \in Lanes |-> IF WorkerOf[l] = w THEN "down" ELSE pc[l]]
    /\ job' = [l \in Lanes |-> IF WorkerOf[l] = w THEN NoJob ELSE job[l]]
    /\ tries' = [l \in Lanes |-> IF WorkerOf[l] = w THEN 0 ELSE tries[l]]
    /\ local' = [l \in Lanes |-> IF WorkerOf[l] = w THEN Blank ELSE local[l]]
    /\ UNCHANGED <<jobVars, row, poll>>

-----------------------------------------------------------------------------
(* GET /api/analyze/{job_id}: the queue guard, then the answer             *)

\* Mutant of PastCutoff: jobs behind a busy worker are never given up.
PastCutoffIfIdle ==
    IF HasStatus("running") = {}
      THEN {j \in HasStatus("queued") : age[j] > GuardAfter} ELSE {}

\* The jobs created before a cutoff that is fixed now.
PastCutoff == {j \in HasStatus("queued") : age[j] > GuardAfter}

\* The guard fixes its cutoff and counts the running jobs.
PollCount(p) ==
    /\ poll[p].pc = "idle"
    /\ poll' = [poll EXCEPT ![p] =
         [Idle EXCEPT !.pc = "clear",
                      !.due = PastCutoff,
                      !.busy = HasStatus("running") # {}]]
    /\ UNCHANGED <<jobVars, row, up, laneVars>>

\* Mutant of Overdue: the UPDATE without status = 'queued'.
EverDue(p) == poll[p].due

\* The rows its UPDATE matches: created before the cutoff and queued now.
Overdue(p) == poll[p].due \cap HasStatus("queued")

\* They fail, with the message the earlier count chose.
PollClear(p) ==
    /\ poll[p].pc = "clear"
    /\ LET overdue == Overdue(p)
           message == IF poll[p].busy THEN "capacity" ELSE "no_worker"
       IN  /\ status' = [j \in JobIds |->
                           IF j \in overdue THEN "failed" ELSE status[j]]
           /\ error' = [j \in JobIds |->
                           IF j \in overdue THEN message ELSE error[j]]
    /\ poll' = [poll EXCEPT ![p] =
                            [@ EXCEPT !.pc = "job", !.due = {}, !.busy = FALSE]]
    /\ UNCHANGED <<cached, age, row, up, laneVars>>

\* No row has the polled id: 404.
PollMissing(p) ==
    /\ poll[p].pc = "job"
    /\ \E j \in JobIds : status[j] = "absent"
    /\ poll' = [poll EXCEPT ![p] = Idle]
    /\ UNCHANGED <<jobVars, row, up, laneVars>>

\* The job row is read ...
PollJob(p) ==
    /\ poll[p].pc = "job"
    /\ \E j \in JobIds :
         /\ status[j] # "absent"
         /\ poll' = [poll EXCEPT ![p] =
              [@ EXCEPT !.pc = "result", !.job = j,
                        !.status = status[j], !.result = cached[j]]]
    /\ UNCHANGED <<jobVars, row, up, laneVars>>

\* ... and its result row by a second query; a row of its own wins over the
\* cached one.
ResultId(p) == IF HasRow(poll[p].job) THEN poll[p].job ELSE poll[p].result

PollResult(p) ==
    /\ poll[p].pc = "result"
    /\ poll' = [poll EXCEPT ![p] = Idle]
    /\ UNCHANGED <<jobVars, row, up, laneVars>>

-----------------------------------------------------------------------------
(* Time and the specification                                              *)

Tick ==
    /\ \E j \in JobIds : status[j] \in {"queued", "running"} /\ age[j] < OldestAge
    /\ age' = [j \in JobIds |->
                 IF status[j] \in {"queued", "running"} /\ age[j] < OldestAge
                   THEN age[j] + 1 ELSE age[j]]
    /\ UNCHANGED <<status, error, cached, row, up, laneVars, poll>>

Claim(l) == SelectNothing(l) \/ SelectCandidate(l) \/ ClaimWon(l) \/ ClaimLost(l)

Execute(l) ==
    \/ Analyse(l) \/ Raise(l)
    \/ DedupeMiss(l) \/ DedupeHit(l)
    \/ CommitHit(l) \/ CommitResult(l)
    \/ HitTabs(l) \/ NewTabs(l) \/ HitTabsRollback(l) \/ NewTabsRollback(l)
    \/ StoreIntelligence(l) \/ CommitFailure(l) \/ LoseCommit(l)

Poll(p) ==
    \/ PollCount(p) \/ PollClear(p)
    \/ PollMissing(p) \/ PollJob(p) \/ PollResult(p)

Next ==
    \/ \E j \in JobIds : Submit(j)
    \/ \E l \in Lanes : Claim(l) \/ Execute(l)
    \/ \E w \in Workers : Recover(w) \/ Restart(w) \/ Crash(w)
    \/ \E p \in Pollers : Poll(p)
    \/ Tick

Spec == Init /\ [][Next]_vars

-----------------------------------------------------------------------------
(* Properties                                                              *)

Holds(l, j) == pc[l] \in Executing /\ job[l] = j
Held == {j \in JobIds : \E l \in Lanes : Holds(l, j)}

\* No two lanes, of one worker or of several, ever execute the same job: the
\* conditional UPDATE of a claim has one winner although the candidate row was
\* read without a lock, the guard and the recovery write the same column, and
\* a crashed worker leaves its jobs behind as running.
ExclusiveExecution ==
    \A l, k \in Lanes : \A j \in JobIds : Holds(l, j) /\ Holds(k, j) => l = k

\* A completed job leads to a result row: its own, or the cached one it was
\* deduplicated to.
CompletedHasResult ==
    \A j \in JobIds : status[j] = "completed" =>
        HasRow(j) \/ (cached[j] # NoJob /\ HasRow(cached[j]))

\* Deduplication never chains and never doubles: a job points at a row another
\* job wrote itself, and has no row of its own to take precedence over it.
CachedIsOriginal ==
    \A j \in JobIds : cached[j] # NoJob =>
        HasRow(cached[j]) /\ ~HasRow(j) /\ cached[cached[j]] = NoJob

\* No result, own or cached, is ever visible for a job that is still queued or
\* running: execute_analysis_job commits the two together.
ResultMeansEnded ==
    \A j \in JobIds : HasRow(j) \/ cached[j] # NoJob => status[j] \in Outcomes

\* A job the queue guard timed out was never executed: the guard and the claim
\* race for the same queued row, and the loser must notice.
TimedOutNeverRan ==
    \A j \in JobIds : error[j] \in {"no_worker", "capacity"} =>
        status[j] = "failed" /\ j \notin Held /\ ~HasRow(j)

\* A poll that answers "completed" also answers a result id, although the job
\* row and the result row are read by two queries with commits in between.
AnswerHasResult ==
    \A p \in Pollers : poll[p].pc = "result" /\ poll[p].status = "completed" =>
        ResultId(p) # NoJob

\* The outcome of a job changes only while the lane that claimed it still holds
\* it.  Once that lane has let go, or died, the outcome is final, whatever
\* recoveries, polls and other workers do.
UnheldOutcomeIsFinal ==
    [][\A j \in JobIds : status[j] \in Outcomes /\ j \notin Held =>
           status'[j] = status[j]]_vars

\* What makes the invariants above inductive: what every lane and every request
\* in flight may rely on.
Uncommitted == {"analyse", "dedupe", "hit", "summarise"}

LanesSound ==
    \A l \in Lanes :
        /\ ~up[WorkerOf[l]] => pc[l] = "down"
        /\ pc[l] \in Executing \cup {"update"} => job[l] \in JobIds
        /\ pc[l] \in Executing => status[job[l]] \notin {"absent", "queued"}
        /\ pc[l] \in Uncommitted => ~HasRow(job[l]) /\ cached[job[l]] = NoJob
        /\ pc[l] \in {"hit", "hit_tabs", "tabs"} =>
              local[l].target \in JobIds /\ HasRow(local[l].target)

RequestsSound ==
    \A p \in Pollers : poll[p].pc = "result" => poll[p].job \in JobIds

QueueInvariant ==
    /\ TypeOK
    /\ LanesSound /\ RequestsSound
    /\ ExclusiveExecution
    /\ CompletedHasResult /\ ResultMeansEnded /\ CachedIsOriginal
    /\ TimedOutNeverRan
    /\ AnswerHasResult

\* The queue implements the promises of JobLifecycle.
Lifecycle == INSTANCE JobLifecycle WITH held <- Held
ImplementsLifecycle == Lifecycle!Spec

-----------------------------------------------------------------------------
(* Liveness                                                                *)

\* The clock runs and the client keeps polling.
PolledSpec ==
    /\ Spec
    /\ WF_vars(Tick)
    /\ \A p \in Pollers : WF_vars(Poll(p))

\* The platform restarts a dead worker, and a live one keeps recovering.
WorkersReturn == \A w \in Workers : WF_vars(Recover(w)) /\ WF_vars(Restart(w))

\* With every worker stopped, a polled job still does not stay queued for ever.
QueuedEnds ==
    \A j \in JobIds : status[j] = "queued" ~> status[j] # "queued"

\* Where workers return, every submitted job ends, however often they crash and
\* commits are lost.
EveryJobEnds ==
    WorkersReturn => \A j \in JobIds : status[j] = "queued" ~> status[j] \in Outcomes

-----------------------------------------------------------------------------
(* Claims of comments in the code that the queue does not keep             *)

\* atlas_worker.py:241: "Any session corruption inside
\* _populate_diagnostic_tabs cannot erase this commit" of result and status.
CommittedStaysCompleted ==
    \A j \in JobIds : HasRow(j) => status[j] = "completed"
=============================================================================
