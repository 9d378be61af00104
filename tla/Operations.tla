----------------------------- MODULE Operations -----------------------------
(* What an operator is told: workers beat (services/worker_heartbeat.py) while *)
(* they take jobs, and a request of the summary (api/routes_ops.py) runs the  *)
(* queue guard, reads both job tables and the heartbeats, one query after the *)
(* other, and says whether anything needs attention.                          *)
(*                                                                            *)
(* The job tables are abstract (AtlasQueue and ReviewQueue have the protocol  *)
(* of the claims). Time is in units of which the thresholds are multiples, in *)
(* the order of the configuration: 90, 120, 180 and 1800 seconds. A worker is *)
(* one run of the process, which makes up an identity when it starts.         *)
EXTENDS Integers, FiniteSets

CONSTANTS
    Workers,
    Jobs,
    StaleAfter,     \* worker_heartbeat_stale_seconds
    AlertAfter,     \* ops_worker_queue_alert_seconds
    GuardAfter,     \* worker_queue_guard_seconds
    StaleJobAfter,  \* worker_stale_job_seconds
    FailureAlert,   \* 3 failures of a day
    MaxTime

ASSUME OperationsAssumption ==
  /\ StaleAfter \in Nat \ {0}
  /\ {AlertAfter, GuardAfter, StaleJobAfter, FailureAlert, MaxTime} \subseteq Nat

Queues == {"atlas", "review"}

VARIABLES
    now,
    process,    \* of a worker: new, up, ending or gone, with the time it ended
    writes,     \* heartbeats a worker has begun to write, and not committed
    beats,      \* the worker_heartbeats rows: sets of at most one
    jobs,       \* the rows of both tables, each with its table and when it was
                \* submitted or claimed
    request,    \* the summary being made: a set of at most one
    shown       \* the last summary, with when it was asked for

opsVars == <<now, process, writes, beats, jobs, request, shown>>

NoSummary == [status |-> "none", at |-> 0, fresh |-> {}, stuck |-> {}, missing |-> {},
              slow |-> {}, cleared |-> {}, root_cause |-> "none", running |-> {}, waited |-> {}]

OpsInit == /\ now = 0
           /\ process = [w \in Workers |-> [state |-> "new", ended |-> 0]]
           /\ writes = [w \in Workers |-> {}]
           /\ beats = [w \in Workers |-> {}]
           /\ jobs = [j \in Jobs |-> [queue |-> "atlas", status |-> "none", since |-> 0]]
           /\ request = {}
           /\ shown = NoSummary

Tick == /\ now < MaxTime
        /\ now' = now + 1
        /\ UNCHANGED <<process, writes, beats, jobs, request, shown>>

(* Workers *)

\* Nothing depends on the time of a row that says stopping.
Stopping == [status |-> "stopping", last_seen |-> 0]

Start(w) == /\ process[w].state = "new"
            /\ process' = [process EXCEPT ![w].state = "up"]
            /\ UNCHANGED <<now, writes, beats, jobs, request, shown>>

\* record_worker_heartbeat takes the time, reads the row, and commits later. An
\* exception in a lane does not end the loop, so it may beat until the process
\* is gone.
Beat(w) == /\ process[w].state \in {"up", "ending"}
           /\ \A b \in writes[w] : b.status # "running"
           /\ writes' = [writes EXCEPT ![w] = @ \cup {[status |-> "running", last_seen |-> now]}]
           /\ UNCHANGED <<now, process, beats, jobs, request, shown>>

CommitBeat(w, b) == /\ writes' = [writes EXCEPT ![w] = @ \ {b}]
                    /\ beats' \in {[beats EXCEPT ![w] = {b}], beats}    \* or the write fails
                    /\ process' = IF b = Stopping
                                  THEN [process EXCEPT ![w] = [state |-> "gone", ended |-> now]]
                                  ELSE process
                    /\ UNCHANGED <<now, jobs, request, shown>>

\* The gather of the loops ends, and the worker says that it stops.
StopWorker(w) == /\ process[w].state = "up"
                 /\ process' = [process EXCEPT ![w].state = "ending"]
                 /\ writes' = [writes EXCEPT ![w] = @ \cup {Stopping}]
                 /\ UNCHANGED <<now, beats, jobs, request, shown>>

CrashWorker(w) == /\ process[w].state \in {"up", "ending"}
                  /\ process' = [process EXCEPT ![w] = [state |-> "gone", ended |-> now]]
                  /\ writes' = [writes EXCEPT ![w] = {}]
                  /\ UNCHANGED <<now, beats, jobs, request, shown>>

(* Jobs: submission, what live workers do with them, and recovery *)

Age(j) == now - jobs[j].since
Has(j, status) == jobs[j].status = status
AnyUp == \E w \in Workers : process[w].state = "up"

SetJob(j, queue, status, since) ==
  /\ jobs' = [jobs EXCEPT ![j] = [queue |-> queue, status |-> status, since |-> since]]
  /\ UNCHANGED <<now, process, writes, beats, request, shown>>

SubmitJob(j) == Has(j, "none") /\ \E q \in Queues : SetJob(j, q, "queued", now)
ClaimJob(j) == AnyUp /\ Has(j, "queued") /\ SetJob(j, jobs[j].queue, "running", now)
EndJob(j) == /\ AnyUp
             /\ Has(j, "running")
             /\ \E end \in {"completed", "failed"} : SetJob(j, jobs[j].queue, end, 0)
RecoverJob(j) == /\ AnyUp
                 /\ Has(j, "running")
                 /\ Age(j) > StaleJobAfter
                 /\ SetJob(j, jobs[j].queue, "failed", 0)

(* The summary *)

\* Rows of a queue in a reading of the tables.
InQueue(rows, q, status) == {j \in DOMAIN rows : rows[j].queue = q /\ rows[j].status = status}
Oldest(rows, found, age) == \E j \in found : now - rows[j].since >= age

Expired == {j \in Jobs : Has(j, "queued") /\ Age(j) > GuardAfter}

\* The reason follows from the running rows as they are before jobs are failed.
RootCause(expired) ==
  LET idle(q) == (\E j \in expired : jobs[j].queue = q) /\ InQueue(jobs, q, "running") = {}
  IN  CASE idle("atlas")                    -> "atlas_worker_inactive"
        [] ~idle("atlas") /\ idle("review") -> "review_worker_inactive"
        [] expired = {}                     -> "none"
        [] OTHER                            -> "worker_capacity_saturated"

Started == {w \in Workers : process[w].state # "new"}
NobodyThere == \A w \in Workers : process[w].state \in {"new", "gone"}

\* What a request is compared with later (who was there, and which queues had
\* waited) is kept beside what it knows.
NewRequest ==
  [at |-> now, rows |-> {}, cleared |-> {jobs[j].queue : j \in Expired},
   root_cause |-> RootCause(Expired), nobody |-> NobodyThere, started |-> Started,
   waited |-> {jobs[j].queue : j \in {i \in Jobs : Has(i, "queued") /\ Age(i) >= AlertAfter}}]

\* clear_expired_queued_jobs.
AskSummary == /\ request = {}
              /\ request' = {NewRequest}
              /\ jobs' = [j \in Jobs |-> IF j \in Expired THEN [jobs[j] EXCEPT !.status = "failed", !.since = 0]
                                         ELSE jobs[j]]
              /\ UNCHANGED <<now, process, writes, beats, shown>>

Rows(q) == [j \in {i \in Jobs : jobs[i].queue = q} |-> jobs[j]]

ReadAtlas == \E r \in request :
               /\ r.rows = {}
               /\ request' = {[r EXCEPT !.rows = {Rows("atlas")}]}
               /\ UNCHANGED <<now, process, writes, beats, jobs, shown>>

\* Mutant of FreshAt: a row that says running is fresh.
RunningAt(t) == {w \in Workers : \E b \in beats[w] : b.status = "running"}

\* Workers that are fresh at t. Each serves both queues.
FreshAt(t) == {w \in Workers : \E b \in beats[w] : b.status = "running" /\ t - b.last_seen < StaleAfter}

\* Mutant of StuckQueues: the alert comes a moment late.
StuckQueuesLate(rows) ==
  {q \in Queues : /\ InQueue(rows, q, "running") = {}
                  /\ Oldest(rows, InQueue(rows, q, "queued"), AlertAfter + 1)}

StuckQueues(rows) ==
  {q \in Queues : /\ InQueue(rows, q, "running") = {}
                  /\ Oldest(rows, InQueue(rows, q, "queued"), AlertAfter)}

SlowQueues(rows) == {q \in Queues : Oldest(rows, InQueue(rows, q, "running"), StaleJobAfter)}

OpsStatus(rows, github) ==
  LET with(status) == {j \in DOMAIN rows : rows[j].status = status}
  IN  IF \/ github # "ok"
         \/ Cardinality(with("failed")) >= FailureAlert
         \/ StuckQueues(rows) \cup SlowQueues(rows) # {}
      THEN "watch"
      ELSE IF with("running") \cup with("queued") # {} THEN "active" ELSE "steady"

\* A row is in one of the tables: once it is a review it is no job of the other.
Both(reviews, atlas) == [j \in DOMAIN reviews \cup DOMAIN atlas |->
                           IF j \in DOMAIN reviews THEN reviews[j] ELSE atlas[j]]

\* Heartbeats are aged by the time the request came. The message names stuck
\* queues first, and slow ones if there are none.
OpsSummary(r, rows, github) ==
  [status |-> OpsStatus(rows, github), at |-> r.at, fresh |-> FreshAt(r.at),
   stuck |-> StuckQueues(rows),
   missing |-> IF FreshAt(r.at) = {} THEN StuckQueues(rows) ELSE {},
   slow |-> IF StuckQueues(rows) = {} THEN SlowQueues(rows) ELSE {},
   cleared |-> r.cleared, root_cause |-> r.root_cause,
   running |-> {q \in Queues : InQueue(rows, q, "running") # {}},
   waited |-> IF r.nobody /\ r.started = Started THEN r.waited ELSE {}]

\* The review table and the heartbeats are read last.
Answer ==
  \E r \in request : \E atlas \in r.rows : \E github \in {"ok", "degraded"} :
    /\ shown' = OpsSummary(r, Both(Rows("review"), atlas), github)
    /\ request' = {}
    /\ UNCHANGED <<now, process, writes, beats, jobs>>

OpsNext == \/ Tick
           \/ \E w \in Workers : \/ Start(w) \/ Beat(w) \/ StopWorker(w) \/ CrashWorker(w)
                                 \/ \E b \in writes[w] : CommitBeat(w, b)
           \/ \E j \in Jobs : SubmitJob(j) \/ ClaimJob(j) \/ EndJob(j) \/ RecoverJob(j)
           \/ AskSummary \/ ReadAtlas \/ Answer

OpsSpec == OpsInit /\ [][OpsNext]_opsVars

(***************************************************************************)
(* Properties                                                              *)
(***************************************************************************)

\* A worker that the summary calls fresh was there less than StaleAfter before
\* the request, whatever it wrote last and in whichever order that was stored.
FreshIsRecent ==
  \A w \in shown.fresh : \/ process[w].state \in {"up", "ending"}
                         \/ process[w].ended > shown.at - StaleAfter

\* While no worker is there, a queue in which a job has waited for the alert's
\* time is noticed: the summary says watch and names the queue (and the missing
\* worker, if the last one ended long enough ago for its heartbeat), or the guard
\* has just failed the job and says why. Only a running row that a dead worker
\* left behind hides it, and only until that row is old.
UnservedIsNoticed ==
  LET ago == \A w \in Workers : process[w].state = "gone" => shown.at - process[w].ended >= StaleAfter
  IN  \A q \in shown.waited :
        \/ shown.status = "watch" /\ q \in shown.stuck /\ (ago => q \in shown.missing)
        \/ q \in shown.cleared /\ (shown.root_cause = "worker_capacity_saturated" => q \in shown.running)
        \/ q \in shown.running /\ (q \in shown.slow => shown.status = "watch")
=============================================================================
