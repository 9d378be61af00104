---------------------------- MODULE ServicesProofs ----------------------------
(***************************************************************************)
(* Three parts of the backend that share no state, for any constants.      *)
(*                                                                         *)
(* Operations. A worker that the summary calls fresh was there recently:   *)
(* no write, stored or begun, bears a time at which its worker was already *)
(* gone. A queue that nobody serves is noticed: as long as no worker comes *)
(* between the question and the answer, each job that had waited is still  *)
(* there to be read, or was failed by the guard.                           *)
(*                                                                         *)
(* Rate limits. Let x be the time of a call that was counted. The requests *)
(* that are let in up to x are those it counted and those of calls that    *)
(* went on while it counted, and there is one such call for each of Calls: *)
(* later requests bear later times.                                        *)
(*                                                                         *)
(* Repair engine. What is true of a proposal when it is built stays true,  *)
(* wherever the sorting puts it and whatever is decided about it.          *)
(***************************************************************************)
EXTENDS RepairEngine, Operations, RateLimits, TLAPS, FiniteSetTheorems

(***************************************************************************)
(* Workers and their heartbeats                                            *)
(***************************************************************************)

Heartbeats == [status : {"running", "stopping"}, last_seen : Nat]

Clocks == /\ now \in Nat
          /\ process \in [Workers -> [state : {"new", "up", "ending", "gone"}, ended : Nat]]
          /\ writes \in [Workers -> SUBSET Heartbeats]
          /\ beats \in [Workers -> SUBSET Heartbeats]
          /\ \A r \in request : r.at \in 0..now
          /\ shown.at \in 0..now /\ shown.fresh \subseteq Workers

\* A worker that has not started wrote nothing, and a dead one nothing since.
Sound(w, b) == /\ process[w].state # "new"
               /\ b.status = "running" =>
                    /\ b.last_seen <= now
                    /\ process[w].state = "gone" => b.last_seen <= process[w].ended

Heard == \A w \in Workers : \A b \in writes[w] \cup beats[w] : Sound(w, b)
Past == \A w \in Workers : process[w].ended <= now

OpsInvariant == Clocks /\ Heard /\ Past /\ FreshIsRecent
                /\ \A w \in shown.fresh : process[w].state # "new"

\* Nothing is written and nothing shown at the start.
LEMMA OpsInitInvariant == OpsInit => OpsInvariant
  BY DEF OpsInit, OpsInvariant, Clocks, Heard, Past, FreshIsRecent, NoSummary

\* Steps that leave the workers, their heartbeats and what is shown alone.
LEMMA Elsewhere ==
  ASSUME OpsInvariant, UNCHANGED <<process, writes, beats, shown>>,
         now' \in {now, now + 1}, \A r \in request' : r.at \in 0..now'
  PROVE  OpsInvariant'
<1> USE DEF OpsInvariant
<1>1. Clocks'
  BY DEF Clocks
<1>2. Heard'
  BY DEF Clocks, Heard, Sound, Heartbeats
<1>3. Past'
  BY DEF Clocks, Past
<1> QED
  BY <1>1, <1>2, <1>3 DEF FreshIsRecent

\* Every step of a worker keeps the invariant.
LEMMA WorkerStep ==
  ASSUME OpsInvariant, NEW w \in Workers,
         \/ Start(w) \/ Beat(w) \/ StopWorker(w) \/ CrashWorker(w)
         \/ \E b \in writes[w] : CommitBeat(w, b)
  PROVE  OpsInvariant'
<1> USE OperationsAssumption DEF OpsInvariant
<1>1. CASE Start(w)
  BY <1>1 DEF Start, Clocks, Heard, Sound, Past, FreshIsRecent
<1>2. CASE Beat(w)
  BY <1>2 DEF Beat, Clocks, Heard, Sound, Past, FreshIsRecent, Heartbeats
<1>3. CASE StopWorker(w)
  BY <1>3 DEF StopWorker, Stopping, Clocks, Heard, Sound, Past, FreshIsRecent, Heartbeats
<1>4. CASE CrashWorker(w)
  <2>1. Clocks' /\ Past'
    BY <1>4 DEF CrashWorker, Clocks, Past
  <2>2. Heard'
    BY <1>4 DEF CrashWorker, Clocks, Heard, Sound, Heartbeats
  <2>3. FreshIsRecent' /\ \A v \in shown'.fresh : process'[v].state # "new"
    BY <1>4 DEF CrashWorker, Clocks, FreshIsRecent
  <2> QED
    BY <2>1, <2>2, <2>3
<1>5. ASSUME NEW b \in writes[w], CommitBeat(w, b)
      PROVE  OpsInvariant'
  BY <1>5 DEF CommitBeat, Clocks, Heard, Sound, Past, FreshIsRecent
<1> QED
  BY <1>1, <1>2, <1>3, <1>4, <1>5

\* A summary counts as fresh only workers whose last stored beat is recent.
LEMMA AnswerStep ==
  ASSUME OpsInvariant, Answer
  PROVE  OpsInvariant'
<1> USE OperationsAssumption DEF OpsInvariant
<1>1. PICK r \in request : shown'.at = r.at /\ shown'.fresh = FreshAt(r.at)
  BY DEF Answer, OpsSummary
<1>2. request' = {} /\ UNCHANGED <<now, process, writes, beats>>
  BY DEF Answer
<1>3. \A w \in FreshAt(r.at) :
        /\ w \in Workers /\ process[w].state # "new"
        /\ process[w].state \in {"up", "ending"} \/ process[w].ended > r.at - StaleAfter
  BY DEF FreshAt, Heard, Sound, Clocks, Heartbeats
<1>4. Clocks' /\ Heard' /\ Past'
  BY <1>1, <1>2, <1>3 DEF Clocks, Heard, Sound, Past
<1> QED
  BY <1>1, <1>2, <1>3, <1>4 DEF FreshIsRecent

\* Jobs and requests leave the workers alone.
LEMMA OtherStep ==
  ASSUME OpsInvariant,
         \/ Tick \/ AskSummary \/ ReadAtlas
         \/ \E j \in Jobs : SubmitJob(j) \/ ClaimJob(j) \/ EndJob(j) \/ RecoverJob(j)
  PROVE  OpsInvariant'
<1>1. /\ UNCHANGED <<process, writes, beats, shown>>
      /\ now' \in {now, now + 1}
  BY DEF Tick, AskSummary, ReadAtlas, SubmitJob, ClaimJob, EndJob, RecoverJob, SetJob
<1>2. \A r \in request' : r.at \in 0..now'
  <2>1. CASE request' = request
    BY <1>1, <2>1 DEF OpsInvariant, Clocks
  <2>2. CASE AskSummary
    <3>1. request' = {NewRequest}
      BY <2>2 DEF AskSummary
    <3>2. NewRequest.at = now
      BY DEF NewRequest
    <3>3. \A r \in request' : r.at = now
      BY <3>1, <3>2, Zenon
    <3> QED
      BY <1>1, <3>3 DEF OpsInvariant, Clocks
  <2>3. CASE ReadAtlas
    <3>1. PICK r \in request : request' = {[r EXCEPT !.rows = {Rows("atlas")}]}
      BY <2>3 DEF ReadAtlas
    <3>2. [r EXCEPT !.rows = {Rows("atlas")}].at = r.at
      OBVIOUS
    <3>3. r.at \in 0..now
      BY DEF OpsInvariant, Clocks
    <3>4. \A s \in request' : s.at \in 0..now
      BY <3>1, <3>2, <3>3, Zenon
    <3> QED
      BY <1>1, <3>4 DEF OpsInvariant, Clocks
  <2> QED
    BY <2>1, <2>2, <2>3 DEF Tick, SubmitJob, ClaimJob, EndJob, RecoverJob, SetJob
<1> QED
  BY <1>1, <1>2, Elsewhere

\* The invariant holds in every reachable state.
THEOREM OpsInvariantHolds == OpsSpec => []OpsInvariant
<1>1. OpsInvariant /\ [OpsNext]_opsVars => OpsInvariant'
  <2> SUFFICES ASSUME OpsInvariant, [OpsNext]_opsVars PROVE OpsInvariant'
    OBVIOUS
  <2>1. CASE UNCHANGED opsVars
    BY <2>1, Elsewhere DEF opsVars, OpsInvariant, Clocks
  <2>2. CASE OpsNext
    BY <2>2, WorkerStep, OtherStep, AnswerStep DEF OpsNext
  <2> QED
    BY <2>1, <2>2
<1> QED
  BY <1>1, OpsInitInvariant, PTL DEF OpsSpec

\* A worker that the operations summary calls fresh was there less than
\* StaleAfter before the request, however its writes raced its end.
THEOREM FreshWorkersAreRecent == OpsSpec => []FreshIsRecent
<1>1. OpsInvariant => FreshIsRecent
  BY DEF OpsInvariant
<1> QED
  BY <1>1, OpsInvariantHolds, PTL

(***************************************************************************)
(* Queues that nobody serves                                               *)
(***************************************************************************)

JobRow == [queue : Queues, status : {"none", "queued", "running", "completed", "failed"}, since : Nat]
Readings == UNION {[S -> JobRow] : S \in SUBSET Jobs}
Causes == {"none", "atlas_worker_inactive", "review_worker_inactive", "worker_capacity_saturated"}
Requests == [at : Nat, rows : SUBSET Readings, cleared : SUBSET Queues, root_cause : Causes,
             nobody : BOOLEAN, started : SUBSET Workers, waited : SUBSET Queues]

\* Nobody has been there since the summary was asked for.
Unattended(r) == r.nobody /\ r.started = Started

\* In a reading of the tables at time t, the queue still has its old job, or the
\* guard has failed it and what it said of the workers is still to be seen.
Explained(r, rows, q, t) ==
  \/ \E j \in InQueue(rows, q, "queued") : t - rows[j].since >= AlertAfter
  \/ /\ q \in r.cleared
     /\ r.root_cause = "worker_capacity_saturated" => InQueue(rows, q, "running") # {}

\* A row that was read as a job of the atlas queue still is one.
Kept(a) == \A j \in DOMAIN a : /\ a[j].queue = "atlas"
                               /\ a[j].status # "none" => jobs[j].status # "none" /\ jobs[j].queue = "atlas"

Asked == \A r \in request :
           /\ r.started \subseteq Started
           /\ Unattended(r) => /\ NobodyThere
                               /\ \A q \in r.waited : Explained(r, jobs, q, now)
                               /\ "atlas" \in r.waited => \A a \in r.rows : Explained(r, a, "atlas", now)
           /\ \A a \in r.rows : Kept(a)

NoticedInvariant == /\ jobs \in [Jobs -> JobRow] /\ request \subseteq Requests
                    /\ Asked /\ UnservedIsNoticed
\* Nothing is asked at the start.
LEMMA NoticedInit == OpsInit => NoticedInvariant
<1> SUFFICES ASSUME OpsInit PROVE NoticedInvariant
  OBVIOUS
<1>1. jobs \in [Jobs -> JobRow]
  BY DEF OpsInit, JobRow, Queues
<1>2. request = {}
  BY DEF OpsInit
<1>3. UnservedIsNoticed
  BY DEF OpsInit, NoSummary, UnservedIsNoticed
<1> QED
  BY <1>1, <1>2, <1>3 DEF NoticedInvariant, Asked

\* What explained a waiting queue still does, once time has passed and other
\* rows have come.
LEMMA ExplainedKept ==
  ASSUME NEW r, NEW rows, NEW rows2, NEW q, NEW t \in Int, NEW t2 \in Int, t <= t2,
         \A j \in DOMAIN rows : rows[j].since \in Int,
         \A j \in DOMAIN rows : rows[j].queue = q /\ rows[j].status \in {"queued", "running"}
                                => j \in DOMAIN rows2 /\ rows2[j] = rows[j],
         Explained(r, rows, q, t)
  PROVE  Explained(r, rows2, q, t2)
<1>1. AlertAfter \in Int
  BY OperationsAssumption
<1>2. InQueue(rows, q, "running") \subseteq InQueue(rows2, q, "running")
  BY DEF InQueue
<1>3. CASE \E j \in InQueue(rows, q, "queued") : t - rows[j].since >= AlertAfter
  <2>1. PICK j \in InQueue(rows, q, "queued") : t - rows[j].since >= AlertAfter
    BY <1>3
  <2>2. j \in InQueue(rows2, q, "queued") /\ rows2[j] = rows[j] /\ rows[j].since \in Int
    BY DEF InQueue
  <2>3. t2 - rows[j].since >= AlertAfter
    BY <1>1, <2>1, <2>2
  <2> QED
    BY <2>2, <2>3 DEF Explained
<1> QED
  BY <1>2, <1>3 DEF Explained

\* A summary that was shown is not refuted by what workers do later.
LEMMA NoticedKept ==
  ASSUME OpsInvariant, UnservedIsNoticed, shown' = shown,
         \A w \in Workers : process[w].state = "gone"
            => process'[w].state = "gone" /\ process'[w].ended \in Nat /\ process'[w].ended >= process[w].ended
  PROVE  UnservedIsNoticed'
<1>1. (\A w \in Workers : process'[w].state = "gone" => shown.at - process'[w].ended >= StaleAfter)
      => (\A w \in Workers : process[w].state = "gone" => shown.at - process[w].ended >= StaleAfter)
  <2>1. /\ \A w \in Workers : process[w].ended \in Nat
        /\ shown.at \in Nat /\ StaleAfter \in Nat
    BY OperationsAssumption DEF OpsInvariant, Clocks
  <2> QED
    BY <2>1
<1> QED
  BY <1>1 DEF UnservedIsNoticed

\* The requests that wait for an answer, across a step of a worker or of a job or
\* of time.
LEMMA AskedKept ==
  ASSUME OpsInvariant, NoticedInvariant, request' = request, now' \in Nat, now' >= now,
         Started \subseteq Started',
         NobodyThere /\ Started' = Started => NobodyThere',
         jobs' \in [Jobs -> JobRow],
         \A j \in Jobs : jobs[j].status # "none" => jobs'[j].status # "none" /\ jobs'[j].queue = jobs[j].queue,
         \A j \in Jobs : NobodyThere /\ jobs[j].status # "none" => jobs'[j] = jobs[j]
  PROVE  Asked'
<1> SUFFICES ASSUME NEW r \in request
             PROVE  /\ r.started \subseteq Started'
                    /\ r.nobody /\ r.started = Started'
                       => /\ NobodyThere'
                          /\ \A q \in r.waited : Explained(r, jobs', q, now')
                          /\ "atlas" \in r.waited => \A a \in r.rows : Explained(r, a, "atlas", now')
                    /\ \A a \in r.rows : Kept(a)'
  BY DEF Asked, Unattended
<1>1. /\ Asked /\ r \in Requests /\ jobs \in [Jobs -> JobRow] /\ now \in Nat
  BY DEF NoticedInvariant, OpsInvariant, Clocks
<1>2. r.started \subseteq Started'
  BY <1>1 DEF Asked
<1>3. ASSUME NEW a \in r.rows PROVE Kept(a)'
  <2>1. a \in Readings /\ Kept(a)
    BY <1>1 DEF Asked, Requests
  <2>2. \A j \in DOMAIN a : j \in Jobs
    BY <2>1 DEF Readings
  <2> QED
    BY <2>1, <2>2 DEF Kept
<1>4. ASSUME r.nobody, r.started = Started'
      PROVE  /\ NobodyThere'
             /\ \A q \in r.waited : Explained(r, jobs', q, now')
             /\ "atlas" \in r.waited => \A a \in r.rows : Explained(r, a, "atlas", now')
  <2>1. Started' = Started /\ Unattended(r)
    BY <1>1, <1>4 DEF Asked, Unattended
  <2>2. /\ NobodyThere
        /\ \A q \in r.waited : Explained(r, jobs, q, now)
        /\ "atlas" \in r.waited => \A a \in r.rows : Explained(r, a, "atlas", now)
    BY <1>1, <2>1 DEF Asked
  <2>3. ASSUME NEW q \in r.waited PROVE Explained(r, jobs', q, now')
    <3>1. /\ DOMAIN jobs = Jobs /\ DOMAIN jobs' = Jobs
          /\ \A j \in Jobs : jobs[j].since \in Int
          /\ \A j \in Jobs : jobs[j].status \in {"queued", "running"} => jobs'[j] = jobs[j]
      BY <1>1, <2>2 DEF JobRow
    <3> QED
      BY <1>1, <2>2, <3>1, ExplainedKept
  <2>4. ASSUME "atlas" \in r.waited, NEW a \in r.rows PROVE Explained(r, a, "atlas", now')
    <3>1. a \in Readings /\ Explained(r, a, "atlas", now)
      BY <1>1, <2>2, <2>4 DEF Requests
    <3>2. \A j \in DOMAIN a : a[j].since \in Int
      BY <3>1 DEF Readings, JobRow
    <3> QED
      BY <1>1, <3>1, <3>2, ExplainedKept
  <2> QED
    BY <2>1, <2>2, <2>3, <2>4
<1> QED
  BY <1>2, <1>3, <1>4

\* A worker that starts while a request is being answered is not counted for it;
\* one that ends serves no queue.
LEMMA WorkerIsNoticed ==
  ASSUME OpsInvariant, NoticedInvariant, NEW w \in Workers,
         \/ Start(w) \/ Beat(w) \/ StopWorker(w) \/ CrashWorker(w)
         \/ \E b \in writes[w] : CommitBeat(w, b)
  PROVE  NoticedInvariant'
<1>1. /\ jobs' = jobs /\ request' = request /\ now' = now /\ shown' = shown
      /\ jobs \in [Jobs -> JobRow] /\ request \subseteq Requests /\ UnservedIsNoticed
  BY DEF Start, Beat, StopWorker, CrashWorker, CommitBeat, NoticedInvariant
<1>2. \/ process' = process
      \/ process[w].state = "new" /\ process' = [process EXCEPT ![w].state = "up"]
      \/ process[w].state = "up" /\ process' = [process EXCEPT ![w].state = "ending"]
      \/ process' = [process EXCEPT ![w] = [state |-> "gone", ended |-> now]]
  BY DEF Start, Beat, StopWorker, CrashWorker, CommitBeat
<1>3. /\ process \in [Workers -> [state : {"new", "up", "ending", "gone"}, ended : Nat]]
      /\ \A v \in Workers : process[v].ended <= now
      /\ now \in Nat
  BY DEF OpsInvariant, Clocks, Past
<1>4. \A v \in Workers : process[v].state = "gone"
         => process'[v].state = "gone" /\ process'[v].ended \in Nat /\ process'[v].ended >= process[v].ended
  BY <1>2, <1>3
<1>5. Started \subseteq Started'
  BY <1>2, <1>3 DEF Started
<1>6. NobodyThere /\ Started' = Started => NobodyThere'
  <2> SUFFICES ASSUME NobodyThere, Started' = Started PROVE NobodyThere'
    OBVIOUS
  <2>1. process[w].state \in {"new", "gone"}
    BY DEF NobodyThere
  <2>2. CASE process[w].state = "new" /\ process' = [process EXCEPT ![w].state = "up"]
    <3>1. w \in Started' /\ w \notin Started
      BY <1>3, <2>2 DEF Started
    <3> QED
      BY <3>1
  <2>3. CASE process' = process \/ process' = [process EXCEPT ![w] = [state |-> "gone", ended |-> now]]
    BY <1>3, <2>3 DEF NobodyThere
  <2> QED
    BY <1>2, <2>1, <2>2, <2>3
<1>7. Asked'
  BY <1>1, <1>3, <1>5, <1>6, AskedKept
<1>8. UnservedIsNoticed'
  BY <1>1, <1>4, NoticedKept
<1> QED
  BY <1>1, <1>7, <1>8 DEF NoticedInvariant

\* Without a worker, a job can only be submitted.
LEMMA JobIsNoticed ==
  ASSUME OpsInvariant, NoticedInvariant,
         \/ Tick
         \/ \E j \in Jobs : SubmitJob(j) \/ ClaimJob(j) \/ EndJob(j) \/ RecoverJob(j)
  PROVE  NoticedInvariant'
<1>1. /\ request' = request /\ shown' = shown /\ process' = process
      /\ jobs \in [Jobs -> JobRow] /\ request \subseteq Requests /\ UnservedIsNoticed
  BY DEF Tick, SubmitJob, ClaimJob, EndJob, RecoverJob, SetJob, NoticedInvariant
<1>2. now \in Nat /\ now' \in Nat /\ now' >= now
  BY DEF Tick, SubmitJob, ClaimJob, EndJob, RecoverJob, SetJob, OpsInvariant, Clocks
<1>3. \/ jobs' = jobs
      \/ \E j \in Jobs, q \in Queues, since \in {0, now} :
           /\ jobs[j].status = "none"
           /\ jobs' = [jobs EXCEPT ![j] = [queue |-> q, status |-> "queued", since |-> since]]
      \/ /\ AnyUp
         /\ \E j \in Jobs, status \in {"running", "completed", "failed"}, since \in {0, now} :
              jobs' = [jobs EXCEPT ![j] = [queue |-> jobs[j].queue, status |-> status, since |-> since]]
  BY DEF Tick, SubmitJob, ClaimJob, EndJob, RecoverJob, SetJob, Has
<1>4. jobs' \in [Jobs -> JobRow]
  BY <1>1, <1>2, <1>3 DEF JobRow
<1>5. \A j \in Jobs : jobs[j].status # "none"
         => jobs'[j].status # "none" /\ jobs'[j].queue = jobs[j].queue
  BY <1>1, <1>3
<1>6. \A j \in Jobs : NobodyThere /\ jobs[j].status # "none" => jobs'[j] = jobs[j]
  <2>1. NobodyThere => ~AnyUp
    BY DEF NobodyThere, AnyUp
  <2> QED
    BY <1>1, <1>3, <2>1
<1>7. Started' = Started /\ (NobodyThere => NobodyThere')
  BY <1>1 DEF Started, NobodyThere
<1>8. Asked'
  BY <1>1, <1>2, <1>4, <1>5, <1>6, <1>7, AskedKept
<1>9. UnservedIsNoticed'
  <2>1. \A w \in Workers : process'[w].ended \in Nat /\ process[w].ended = process'[w].ended
    BY <1>1 DEF OpsInvariant, Clocks
  <2> QED
    BY <1>1, <2>1, NoticedKept
<1> QED
  BY <1>1, <1>4, <1>8, <1>9 DEF NoticedInvariant

\* Saturation is named only when each queue that was cleared has a running job.
LEMMA RootCauses ==
  /\ RootCause(Expired) \in Causes
  /\ RootCause(Expired) = "worker_capacity_saturated"
     => \A j \in Expired : jobs[j].queue \in Queues => InQueue(jobs, jobs[j].queue, "running") # {}
  BY DEF RootCause, Causes, Queues

\* The guard fails a job that waited, or leaves it to be read.
LEMMA AskIsNoticed ==
  ASSUME OpsInvariant, NoticedInvariant, AskSummary
  PROVE  NoticedInvariant'
<1>1. PICK r : r = NewRequest
  OBVIOUS
<1>2. /\ request' = {r} /\ shown' = shown /\ process' = process /\ now' = now
      /\ jobs' = [j \in Jobs |-> IF j \in Expired THEN [jobs[j] EXCEPT !.status = "failed", !.since = 0]
                                 ELSE jobs[j]]
  BY <1>1 DEF AskSummary
<1>3. jobs \in [Jobs -> JobRow] /\ UnservedIsNoticed /\ now \in Nat
  BY DEF NoticedInvariant, OpsInvariant, Clocks
<1>4. jobs' \in [Jobs -> JobRow]
  BY <1>2, <1>3 DEF JobRow
<1>5. /\ r.at = now /\ r.rows = {} /\ r.cleared = {jobs[j].queue : j \in Expired}
      /\ r.root_cause = RootCause(Expired) /\ r.started = Started /\ r.nobody = NobodyThere
      /\ r.waited = {jobs[j].queue : j \in {i \in Jobs : Has(i, "queued") /\ Age(i) >= AlertAfter}}
  BY <1>1 DEF NewRequest
<1>6. r \in Requests
  <2>1. /\ {jobs[j].queue : j \in Expired} \subseteq Queues
        /\ {jobs[j].queue : j \in {i \in Jobs : Has(i, "queued") /\ Age(i) >= AlertAfter}} \subseteq Queues
    BY <1>3 DEF JobRow, Expired
  <2>2. Started \subseteq Workers /\ NobodyThere \in BOOLEAN /\ RootCause(Expired) \in Causes
    BY RootCauses DEF Started, NobodyThere
  <2> QED
    BY <1>1, <1>3, <2>1, <2>2 DEF NewRequest, Requests
<1>7. ASSUME NEW q \in r.waited PROVE Explained(r, jobs', q, now')
  <2>1. PICK j \in Jobs : Has(j, "queued") /\ Age(j) >= AlertAfter /\ q = jobs[j].queue
    BY <1>5
  <2>2. CASE j \in Expired
    <3>1. q \in r.cleared /\ q \in Queues
      BY <1>3, <1>5, <2>1, <2>2 DEF JobRow
    <3>2. \A i \in Jobs : Has(i, "running") => i \notin Expired
      BY DEF Expired, Has
    <3>3. InQueue(jobs, q, "running") \subseteq InQueue(jobs', q, "running")
      BY <1>2, <1>3, <3>2 DEF InQueue, Has
    <3>4. r.root_cause = "worker_capacity_saturated" => InQueue(jobs', q, "running") # {}
      BY <1>5, <2>1, <2>2, <3>1, <3>3, RootCauses
    <3> QED
      BY <3>1, <3>4 DEF Explained
  <2>3. CASE j \notin Expired
    <3>1. jobs'[j] = jobs[j] /\ DOMAIN jobs' = Jobs
      BY <1>2, <2>3
    <3>2. j \in InQueue(jobs', q, "queued") /\ now' - jobs'[j].since >= AlertAfter
      BY <1>2, <2>1, <3>1 DEF InQueue, Has, Age
    <3> QED
      BY <3>2 DEF Explained
  <2> QED
    BY <2>2, <2>3
<1>8. Asked'
  <2>1. Started' = Started /\ (NobodyThere' <=> NobodyThere)
    BY <1>2 DEF Started, NobodyThere
  <2>2. r.nobody => NobodyThere'
    BY <1>5, <2>1
  <2> QED
    BY <1>2, <1>5, <1>7, <2>1, <2>2 DEF Asked, Unattended
<1>9. UnservedIsNoticed'
  <2>1. shown' = shown /\ process' = process /\ \A w \in Workers : process[w].ended \in Nat
    BY <1>2 DEF OpsInvariant, Clocks
  <2> QED
    BY <1>3, <2>1, NoticedKept
<1> QED
  BY <1>2, <1>4, <1>6, <1>8, <1>9 DEF NoticedInvariant

\* What the Atlas rows say is what the tables say at that time.
LEMMA ReadIsNoticed ==
  ASSUME OpsInvariant, NoticedInvariant, ReadAtlas
  PROVE  NoticedInvariant'
<1>1. PICK r \in request : request' = {[r EXCEPT !.rows = {Rows("atlas")}]}
  BY DEF ReadAtlas
<1>2. PICK a : a = Rows("atlas")
  OBVIOUS
<1>3. PICK s : s = [r EXCEPT !.rows = {a}]
  OBVIOUS
<1>4. request' = {s} /\ UNCHANGED <<now, process, jobs, shown>>
  BY <1>1, <1>2, <1>3 DEF ReadAtlas
<1>5. r \in Requests /\ jobs \in [Jobs -> JobRow] /\ UnservedIsNoticed /\ Asked
  BY DEF NoticedInvariant
<1>6. /\ DOMAIN a = {i \in Jobs : jobs[i].queue = "atlas"}
      /\ \A j \in DOMAIN a : a[j] = jobs[j] /\ a[j] \in JobRow
  BY <1>2, <1>5 DEF Rows
<1>7. a \in Readings
  <2>1. a \in [{i \in Jobs : jobs[i].queue = "atlas"} -> JobRow]
    BY <1>2, <1>5 DEF Rows
  <2> QED
    BY <2>1 DEF Readings
<1>8. /\ s \in Requests /\ s.rows = {a} /\ s.cleared = r.cleared /\ s.root_cause = r.root_cause
      /\ s.nobody = r.nobody /\ s.started = r.started /\ s.waited = r.waited
  BY <1>3, <1>5, <1>7 DEF Requests
<1>9. Kept(a)'
  BY <1>4, <1>6 DEF Kept
<1>10. ASSUME r.nobody, r.started = Started
       PROVE  /\ NobodyThere
              /\ \A q \in r.waited : Explained(s, jobs, q, now)
              /\ "atlas" \in r.waited => Explained(s, a, "atlas", now)
  <2>1. NobodyThere /\ \A q \in r.waited : Explained(r, jobs, q, now)
    BY <1>5, <1>10 DEF Asked, Unattended
  <2>2. \A q \in r.waited : Explained(s, jobs, q, now)
    BY <1>8, <2>1 DEF Explained
  <2>3. \A status : InQueue(a, "atlas", status) = InQueue(jobs, "atlas", status)
    BY <1>5, <1>6 DEF InQueue
  <2>4. "atlas" \in r.waited => Explained(s, a, "atlas", now)
    BY <1>6, <2>2, <2>3 DEF Explained, InQueue
  <2> QED
    BY <2>1, <2>2, <2>4
<1>11. Asked'
  <2>1. Started' = Started /\ (NobodyThere' <=> NobodyThere) /\ r.started \subseteq Started
    BY <1>4, <1>5 DEF Started, NobodyThere, Asked
  <2> QED
    BY <1>4, <1>8, <1>9, <1>10, <2>1 DEF Asked, Unattended
<1>12. UnservedIsNoticed'
  <2>1. \A w \in Workers : process'[w].ended \in Nat /\ process[w].ended = process'[w].ended
    BY <1>4 DEF OpsInvariant, Clocks
  <2> QED
    BY <1>4, <1>5, <2>1, NoticedKept
<1> QED
  BY <1>4, <1>5, <1>8, <1>11, <1>12 DEF NoticedInvariant

\* The rows of both tables, read at different times, still tell of each queue.
LEMMA AnswerIsNoticed ==
  ASSUME OpsInvariant, NoticedInvariant, Answer
  PROVE  NoticedInvariant'
<1>1. PICK r \in request : \E a \in r.rows : \E github \in {"ok", "degraded"} :
                              shown' = OpsSummary(r, Both(Rows("review"), a), github)
  BY DEF Answer
<1>a. PICK a \in r.rows : \E github \in {"ok", "degraded"} : shown' = OpsSummary(r, Both(Rows("review"), a), github)
  BY <1>1
<1>2. request' = {} /\ UNCHANGED <<now, process, writes, beats, jobs>>
  BY DEF Answer
<1>3. PICK rows : rows = Both(Rows("review"), a)
  OBVIOUS
<1>g. PICK github \in {"ok", "degraded"} : shown' = OpsSummary(r, rows, github)
  BY <1>a, <1>3
<1>4. /\ shown'.status = OpsStatus(rows, github) /\ shown'.at = r.at /\ shown'.stuck = StuckQueues(rows)
      /\ shown'.missing = IF FreshAt(r.at) = {} THEN StuckQueues(rows) ELSE {}
      /\ shown'.slow = IF StuckQueues(rows) = {} THEN SlowQueues(rows) ELSE {}
      /\ shown'.cleared = r.cleared /\ shown'.root_cause = r.root_cause
      /\ shown'.running = {q \in Queues : InQueue(rows, q, "running") # {}}
      /\ shown'.waited = IF r.nobody /\ r.started = Started THEN r.waited ELSE {}
  BY <1>g DEF OpsSummary
<1>5. r \in Requests /\ jobs \in [Jobs -> JobRow] /\ Asked /\ now \in Nat
  BY DEF NoticedInvariant, OpsInvariant, Clocks
<1>6. a \in Readings /\ Kept(a)
  BY <1>5 DEF Asked, Requests
<1>7. /\ DOMAIN rows = {i \in Jobs : jobs[i].queue = "review"} \cup DOMAIN a
      /\ \A j \in DOMAIN rows : rows[j] = IF j \in Jobs /\ jobs[j].queue = "review" THEN jobs[j] ELSE a[j]
  BY <1>3 DEF Rows, Both
<1>8. ASSUME r.nobody, r.started = Started, NEW q \in r.waited
      PROVE  Explained(r, rows, q, now)
  <2>1. /\ Explained(r, jobs, q, now)
        /\ q = "atlas" => Explained(r, a, "atlas", now)
    BY <1>5, <1>8 DEF Asked, Unattended
  <2>2. CASE q = "atlas"
    <3>1. a \in Readings /\ \A j \in DOMAIN a : a[j].since \in Int
      BY <1>6 DEF Readings, JobRow
    <3>2. \A j \in DOMAIN a : a[j].queue = q /\ a[j].status \in {"queued", "running"}
                              => j \in DOMAIN rows /\ rows[j] = a[j]
      BY <1>6, <1>7 DEF Kept
    <3> QED
      BY <1>5, <2>1, <2>2, <3>1, <3>2, ExplainedKept
  <2>3. CASE q = "review"
    <3>1. /\ DOMAIN jobs = Jobs
          /\ \A j \in Jobs : jobs[j].since \in Int
          /\ \A j \in Jobs : jobs[j].queue = q => j \in DOMAIN rows /\ rows[j] = jobs[j]
      BY <1>5, <1>7, <2>3 DEF JobRow
    <3> QED
      BY <1>5, <2>1, <3>1, ExplainedKept
  <2> QED
    BY <1>5, <2>2, <2>3 DEF Requests, Queues
<1>9. (\A w \in Workers : process[w].state = "gone" => r.at - process[w].ended >= StaleAfter) /\ NobodyThere
      => FreshAt(r.at) = {}
  <2> SUFFICES ASSUME \A w \in Workers : process[w].state = "gone" => r.at - process[w].ended >= StaleAfter,
                      NobodyThere, NEW w \in Workers, NEW b \in beats[w],
                      b.status = "running", r.at - b.last_seen < StaleAfter
               PROVE  FALSE
    BY DEF FreshAt
  <2>1. /\ process[w].state = "gone" /\ b.last_seen <= process[w].ended
        /\ b.last_seen \in Nat /\ process[w].ended \in Nat /\ r.at \in Nat
    BY DEF NobodyThere, OpsInvariant, Clocks, Heard, Sound, Heartbeats
  <2>2. StaleAfter \in Nat /\ r.at - process[w].ended >= StaleAfter
    BY <2>1, OperationsAssumption
  <2> QED
    BY <2>1, <2>2
<1>10. /\ StuckQueues(rows) # {} => shown'.status = "watch"
       /\ SlowQueues(rows) # {} => shown'.status = "watch"
  BY <1>4 DEF OpsStatus
<1>11. UnservedIsNoticed'
  <2> SUFFICES ASSUME NEW q \in shown'.waited
               PROVE  \/ /\ shown'.status = "watch" /\ q \in shown'.stuck
                         /\ (\A w \in Workers : process[w].state = "gone"
                                => r.at - process[w].ended >= StaleAfter) => q \in shown'.missing
                      \/ /\ q \in shown'.cleared
                         /\ shown'.root_cause = "worker_capacity_saturated" => q \in shown'.running
                      \/ q \in shown'.running /\ (q \in shown'.slow => shown'.status = "watch")
    BY <1>2, <1>4 DEF UnservedIsNoticed
  <2>1. r.nobody /\ r.started = Started /\ q \in r.waited /\ q \in Queues /\ NobodyThere
    BY <1>4, <1>5 DEF Requests, Asked, Unattended
  <2>2. Explained(r, rows, q, now)
    BY <1>8, <2>1
  <2>3. CASE InQueue(rows, q, "running") # {}
    BY <1>4, <1>10, <2>1, <2>3
  <2>4. CASE InQueue(rows, q, "running") = {} /\ r.root_cause # "worker_capacity_saturated" /\ q \in r.cleared
    BY <1>4, <2>4
  <2>5. CASE InQueue(rows, q, "running") = {}
             /\ \E j \in InQueue(rows, q, "queued") : now - rows[j].since >= AlertAfter
    <3>1. q \in StuckQueues(rows)
      BY <2>1, <2>5 DEF StuckQueues, Oldest
    <3> QED
      BY <1>4, <1>9, <1>10, <2>1, <3>1
  <2> QED
    BY <2>2, <2>3, <2>4, <2>5 DEF Explained
<1> QED
  BY <1>2, <1>5, <1>11 DEF NoticedInvariant, Asked

\* The invariant of the requests for a summary.
THEOREM NoticedInvariantHolds == OpsSpec => []NoticedInvariant
<1>1. OpsInvariant /\ NoticedInvariant /\ [OpsNext]_opsVars => NoticedInvariant'
  <2> SUFFICES ASSUME OpsInvariant, NoticedInvariant, [OpsNext]_opsVars PROVE NoticedInvariant'
    OBVIOUS
  <2>1. CASE UNCHANGED opsVars
    BY <2>1 DEF opsVars, NoticedInvariant, Asked, Unattended, Started, NobodyThere, Kept, UnservedIsNoticed
  <2>2. CASE OpsNext
    BY <2>2, WorkerIsNoticed, JobIsNoticed, AskIsNoticed, ReadIsNoticed, AnswerIsNoticed DEF OpsNext
  <2> QED
    BY <2>1, <2>2
<1> QED
  BY <1>1, NoticedInit, OpsInvariantHolds, PTL DEF OpsSpec

\* While no worker is there, a queue in which a job has waited too long is always
\* noticed, whatever is submitted and however long the queries take.
THEOREM UnservedQueuesAreNoticed == OpsSpec => []UnservedIsNoticed
<1>1. NoticedInvariant => UnservedIsNoticed
  BY DEF NoticedInvariant
<1> QED
  BY <1>1, NoticedInvariantHolds, PTL

(***************************************************************************)
(* Calls of the limiter that overlap                                       *)
(***************************************************************************)

CallStates == [next : {"idle", "zremrangebyscore", "zcount", "zcard", "zadd"}, at : Nat, burst : Nat]

LimitTypes ==
  /\ clock \in Nat
  /\ calls \in [Calls -> CallStates]
  /\ \A c \in Calls : calls[c].at <= clock
  /\ window \subseteq admitted /\ admitted \subseteq 0..clock

\* Pruning by any call spares what a daily window that ends now contains ...
WindowKeeps == \A s \in admitted : s > clock - DAILY_WINDOW => s \in window

\* ... and there is a last request among those that were let in.
HasLatest == admitted = {} \/ \E last \in admitted : \A s \in admitted : s <= last

\* Times of the calls that are going on, and of all that may count in the end.
Going == {c \in Calls : calls[c].next # "idle"}
Pending == {calls[c].at : c \in Going}
Counting == admitted \cup Pending
Recent(times, x, from) == {s \in times : from <= s /\ s <= x}

\* Calls that found the burst, and the day, below its limit.
PassedBurst == {c \in Calls : calls[c].next \in {"zcard", "zadd"} /\ calls[c].burst < BURST_LIMIT}
PassedDay == {c \in Calls : calls[c].next = "zadd"}
BurstTimes == admitted \cup {calls[c].at : c \in PassedBurst}
DayTimes == admitted \cup {calls[c].at : c \in PassedDay}

BurstBounded ==
  \A x \in BurstTimes :
     Cardinality(Recent(Counting, x, clock - BURST_WINDOW)) <= BURST_LIMIT - 1 + Cardinality(Calls)
DayBounded ==
  \A x \in DayTimes :
     Cardinality(Recent(Counting, x, clock - (DAILY_WINDOW - 1))) <= DAILY_LIMIT - 1 + Cardinality(Calls)

LimitInvariant ==
  /\ LimitTypes /\ WindowKeeps /\ HasLatest
  /\ PassedDay \subseteq PassedBurst
  /\ BurstBounded /\ DayBounded

\* Each call that is going on has one time.
LEMMA PendingIsSmall ==
  /\ IsFiniteSet(Pending) /\ Cardinality(Pending) <= Cardinality(Calls)
  /\ Cardinality(Calls) \in Nat /\ Cardinality(Pending) \in Nat
<1> DEFINE f == [c \in Going |-> calls[c].at]
<1>1. /\ IsFiniteSet(Going) /\ Cardinality(Going) <= Cardinality(Calls)
      /\ Cardinality(Calls) \in Nat /\ Cardinality(Going) \in Nat
  BY FS_Subset, FS_CardinalityType, LimitsAssumption DEF Going
<1>2. f \in Surjection(Going, Pending)
  <2>1. f \in [Going -> Pending]
    BY DEF Pending
  <2>2. \A t \in Pending : \E c \in Going : f[c] = t
    BY DEF Pending
  <2> HIDE DEF f
  <2> QED
    BY <2>1, <2>2 DEF Surjection
<1>3. IsFiniteSet(Pending) /\ Cardinality(Pending) <= Cardinality(Going)
  <2> HIDE DEF f
  <2> QED
    BY <1>1, <1>2, FS_Surjection
<1> QED
  BY <1>1, <1>3, FS_CardinalityType

\* What may count at a time is a finite set.
LEMMA RecentIsFinite ==
  ASSUME LimitTypes, NEW x, NEW from
  PROVE  IsFiniteSet(Recent(Counting, x, from)) /\ Cardinality(Recent(Counting, x, from)) \in Nat
<1>1. IsFiniteSet(admitted)
  <2>1. IsFiniteSet(0..clock) /\ admitted \in SUBSET (0..clock)
    BY FS_Interval DEF LimitTypes
  <2> QED
    BY <2>1, FS_Subset
<1>2. IsFiniteSet(Counting)
  BY <1>1, PendingIsSmall, FS_Union DEF Counting
<1>3. Recent(Counting, x, from) \in SUBSET Counting
  BY DEF Recent
<1> QED
  BY <1>2, <1>3, FS_Subset, FS_CardinalityType

\* What has been counted so far bounds what a call may let in once it is added:
\* itself, and every call that was going on when it counted.
LEMMA CountedBound ==
  ASSUME LimitTypes, NEW x, NEW from, NEW counted, NEW limit \in Nat \ {0},
         counted \subseteq window, Cardinality(counted) < limit,
         \A s \in admitted : from <= s /\ s <= x => s \in counted
  PROVE  Cardinality(Recent(Counting, x, from)) <= limit - 1 + Cardinality(Calls)
<1>1. IsFiniteSet(counted) /\ Cardinality(counted) \in Nat
  <2>1. IsFiniteSet(0..clock) /\ counted \in SUBSET (0..clock)
    BY FS_Interval DEF LimitTypes
  <2> QED
    BY <2>1, FS_Subset, FS_CardinalityType
<1>2. /\ IsFiniteSet(counted \cup Pending)
      /\ Cardinality(counted \cup Pending) <= Cardinality(counted) + Cardinality(Pending)
      /\ Cardinality(counted \cup Pending) \in Nat
  <2>1. IsFiniteSet(counted \cap Pending)
    BY <1>1, FS_Intersection
  <2>2. Cardinality(counted \cap Pending) \in Nat
    BY <2>1, FS_CardinalityType
  <2>3. /\ IsFiniteSet(counted \cup Pending)
        /\ Cardinality(counted \cup Pending)
             = Cardinality(counted) + Cardinality(Pending) - Cardinality(counted \cap Pending)
    BY <1>1, PendingIsSmall, FS_Union DEF Counting
  <2>4. Cardinality(counted \cup Pending) \in Nat
    BY <2>3, FS_CardinalityType
  <2> QED
    BY <1>1, <2>2, <2>3, <2>4, PendingIsSmall
<1>3. Recent(Counting, x, from) \in SUBSET (counted \cup Pending)
  BY DEF Recent, Counting
<1>4. /\ Cardinality(Recent(Counting, x, from)) <= Cardinality(counted \cup Pending)
      /\ Cardinality(Recent(Counting, x, from)) \in Nat
  BY <1>2, <1>3, FS_Subset, RecentIsFinite
<1> QED
  BY <1>1, <1>2, <1>4, PendingIsSmall

\* Nothing becomes recent for a time that has passed.
LEMMA RecentShrinks ==
  ASSUME LimitTypes, NEW x \in Int, x <= clock, clock' \in Int, clock' >= clock, NEW k \in Int,
         \A s \in Counting' : s \in Counting \/ (s \in Int /\ s > clock)
  PROVE  /\ Cardinality(Recent(Counting', x, clock' - k)) <= Cardinality(Recent(Counting, x, clock - k))
         /\ Cardinality(Recent(Counting', x, clock' - k)) \in Nat
         /\ Cardinality(Recent(Counting, x, clock - k)) \in Nat
<1>1. \A s \in Counting : s \in Int
  <2>1. \A c \in Calls : calls[c].at \in Nat
    BY DEF LimitTypes, CallStates
  <2>2. \A s \in Pending : s \in Int
    BY <2>1 DEF Pending, Going
  <2>3. \A s \in admitted : s \in Int
    BY DEF LimitTypes
  <2> QED
    BY <2>2, <2>3 DEF Counting
<1>2. \A s \in Recent(Counting', x, clock' - k) : s \in Recent(Counting, x, clock - k)
  <2> SUFFICES ASSUME NEW s \in Counting', clock' - k <= s, s <= x
               PROVE  s \in Recent(Counting, x, clock - k)
    BY DEF Recent
  <2>1. s \in Counting
    <3>1. CASE s \in Int /\ s > clock
      BY <3>1 DEF LimitTypes
    <3> QED
      BY <3>1
  <2> QED
    BY <1>1, <2>1 DEF Recent, LimitTypes
<1>3. Recent(Counting', x, clock' - k) \in SUBSET Recent(Counting, x, clock - k)
  BY <1>2
<1>4. IsFiniteSet(Recent(Counting, x, clock - k)) /\ Cardinality(Recent(Counting, x, clock - k)) \in Nat
  BY RecentIsFinite
<1>5. /\ IsFiniteSet(Recent(Counting', x, clock' - k))
      /\ Cardinality(Recent(Counting', x, clock' - k)) <= Cardinality(Recent(Counting, x, clock - k))
  BY <1>3, <1>4, FS_Subset
<1> QED
  BY <1>4, <1>5, FS_CardinalityType

\* A bound is kept for the times it held for.
LEMMA BoundsKept ==
  ASSUME LimitInvariant, clock' \in Int, clock' >= clock,
         \A s \in Counting' : s \in Counting \/ (s \in Int /\ s > clock),
         \A x \in BurstTimes' :
            \/ x \in BurstTimes
            \/ Cardinality(Recent(Counting', x, clock' - BURST_WINDOW)) <= BURST_LIMIT - 1 + Cardinality(Calls),
         \A x \in DayTimes' :
            \/ x \in DayTimes
            \/ Cardinality(Recent(Counting', x, clock' - (DAILY_WINDOW - 1))) <= DAILY_LIMIT - 1 + Cardinality(Calls)
  PROVE  BurstBounded' /\ DayBounded'
<1>1. LimitTypes /\ BurstBounded /\ DayBounded
  BY DEF LimitInvariant
<1>2. /\ BURST_LIMIT \in Nat /\ DAILY_LIMIT \in Nat /\ Cardinality(Calls) \in Nat
      /\ BURST_WINDOW \in Int /\ DAILY_WINDOW - 1 \in Int
  BY LimitsAssumption, PendingIsSmall
<1>3. \A x \in BurstTimes \cup DayTimes : x \in Int /\ x <= clock
  BY <1>1 DEF LimitTypes, CallStates, BurstTimes, DayTimes, PassedBurst, PassedDay
<1>4. BurstBounded'
  <2> SUFFICES ASSUME NEW x \in BurstTimes
               PROVE  Cardinality(Recent(Counting', x, clock' - BURST_WINDOW)) <= BURST_LIMIT - 1 + Cardinality(Calls)
    BY DEF BurstBounded
  <2>1. /\ Cardinality(Recent(Counting', x, clock' - BURST_WINDOW)) <= Cardinality(Recent(Counting, x, clock - BURST_WINDOW))
        /\ Cardinality(Recent(Counting', x, clock' - BURST_WINDOW)) \in Nat
        /\ Cardinality(Recent(Counting, x, clock - BURST_WINDOW)) \in Nat
    BY <1>1, <1>2, <1>3, RecentShrinks
  <2>2. Cardinality(Recent(Counting, x, clock - BURST_WINDOW)) <= BURST_LIMIT - 1 + Cardinality(Calls)
    BY <1>1 DEF BurstBounded
  <2> QED
    BY <1>2, <2>1, <2>2
<1>5. DayBounded'
  <2> SUFFICES ASSUME NEW x \in DayTimes
               PROVE  Cardinality(Recent(Counting', x, clock' - (DAILY_WINDOW - 1))) <= DAILY_LIMIT - 1 + Cardinality(Calls)
    BY DEF DayBounded
  <2>1. /\ Cardinality(Recent(Counting', x, clock' - (DAILY_WINDOW - 1))) <= Cardinality(Recent(Counting, x, clock - (DAILY_WINDOW - 1)))
        /\ Cardinality(Recent(Counting', x, clock' - (DAILY_WINDOW - 1))) \in Nat
        /\ Cardinality(Recent(Counting, x, clock - (DAILY_WINDOW - 1))) \in Nat
    BY <1>1, <1>2, <1>3, RecentShrinks
  <2>2. Cardinality(Recent(Counting, x, clock - (DAILY_WINDOW - 1))) <= DAILY_LIMIT - 1 + Cardinality(Calls)
    BY <1>1 DEF DayBounded
  <2> QED
    BY <1>2, <2>1, <2>2
<1> QED
  BY <1>4, <1>5

\* The fields of a call after each of its commands.
LEMMA CallFields ==
  ASSUME NEW r \in CallStates, NEW n \in Nat
  PROVE  /\ [r EXCEPT !.next = "zcard", !.burst = n] \in CallStates
         /\ [r EXCEPT !.next = "zcard", !.burst = n].at = r.at
         /\ [r EXCEPT !.next = "zcard", !.burst = n].next = "zcard"
         /\ [r EXCEPT !.next = "zcard", !.burst = n].burst = n
         /\ [r EXCEPT !.next = "zadd"] \in CallStates
         /\ [r EXCEPT !.next = "zadd"].at = r.at
         /\ [r EXCEPT !.next = "zadd"].burst = r.burst
         /\ [r EXCEPT !.next = "zadd"].next = "zadd"
         /\ [r EXCEPT !.next = "zcount"] \in CallStates
         /\ [r EXCEPT !.next = "zcount"].at = r.at
         /\ Idle \in CallStates
  BY DEF CallStates, Idle

\* Types are kept by each command.
LEMMA LimitTypesStep == LimitTypes /\ [LimitNext]_limitVars => LimitTypes'
<1> SUFFICES ASSUME LimitTypes, [LimitNext]_limitVars PROVE LimitTypes'
  OBVIOUS
\* A step of a call that leaves the clock alone.
<1>c. ASSUME NEW c \in Calls, NEW r \in CallStates, r.at \in {0, calls[c].at},
             calls' = [calls EXCEPT ![c] = r], clock' = clock,
             window' \subseteq admitted', admitted' \subseteq 0..clock
      PROVE  LimitTypes'
  <2>1. calls' \in [Calls -> CallStates] /\ \A d \in Calls : calls'[d].at <= clock
    BY <1>c DEF LimitTypes
  <2> QED
    BY <1>c, <2>1 DEF LimitTypes
<1>1. ASSUME NEW c \in Calls, Request(c) PROVE LimitTypes'
  <2>1. PICK wait \in 1..(BURST_WINDOW + 1) :
          /\ clock' = clock + wait
          /\ calls' = [calls EXCEPT ![c] = [next |-> "zremrangebyscore", at |-> clock + wait, burst |-> 0]]
    BY <1>1 DEF Request
  <2>2. clock' \in Nat /\ clock' > clock
    BY <2>1, LimitsAssumption DEF LimitTypes
  <2>3. admitted' = admitted /\ window' = window
    BY <1>1 DEF Request
  <2>4. [next |-> "zremrangebyscore", at |-> clock + wait, burst |-> 0] \in CallStates
    BY <2>1, <2>2 DEF CallStates
  <2>5. calls' \in [Calls -> CallStates] /\ \A d \in Calls : calls'[d].at <= clock'
    BY <2>1, <2>2, <2>4 DEF LimitTypes, CallStates
  <2> QED
    BY <2>2, <2>3, <2>5 DEF LimitTypes
<1>2. ASSUME NEW c \in Calls, Prune(c) PROVE LimitTypes'
  <2>1. /\ calls' = [calls EXCEPT ![c] = [calls[c] EXCEPT !.next = "zcount"]]
        /\ window' \subseteq admitted' /\ admitted' = admitted /\ clock' = clock
    BY <1>2 DEF Prune, LimitTypes
  <2> QED
    BY <2>1, <1>c, CallFields DEF LimitTypes
<1>3. ASSUME NEW c \in Calls, CountBurst(c) PROVE LimitTypes'
  <2>1. Cardinality(BurstOf(c)) \in Nat
    <3>1. IsFiniteSet(0..clock)
      BY FS_Interval DEF LimitTypes
    <3>2. BurstOf(c) \in SUBSET (0..clock)
      BY DEF LimitTypes, BurstOf
    <3> QED
      BY <3>1, <3>2, FS_Subset, FS_CardinalityType
  <2> DEFINE r == [calls[c] EXCEPT !.next = "zcard", !.burst = Cardinality(BurstOf(c))]
  <2>2. r \in CallStates /\ r.at = calls[c].at
    BY <2>1, CallFields DEF LimitTypes
  <2>3. calls' = [calls EXCEPT ![c] = r]
    BY <1>3 DEF CountBurst
  <2> HIDE DEF r
  <2> QED
    BY <1>3, <1>c, <2>2, <2>3 DEF CountBurst, LimitTypes
<1>4. ASSUME NEW c \in Calls, CountDaily(c) PROVE LimitTypes'
  <2>1. PICK r \in {Idle, [calls[c] EXCEPT !.next = "zadd"]} : calls' = [calls EXCEPT ![c] = r]
    BY <1>4 DEF CountDaily
  <2>2. r \in CallStates /\ r.at \in {0, calls[c].at}
    <3>1. calls[c] \in CallStates /\ Idle.at = 0
      BY DEF LimitTypes, Idle
    <3>2. [calls[c] EXCEPT !.next = "zadd"] \in CallStates
          /\ [calls[c] EXCEPT !.next = "zadd"].at = calls[c].at
      BY <3>1, CallFields
    <3> QED
      BY <2>1, <3>1, <3>2, CallFields
  <2> QED
    BY <1>4, <1>c, <2>1, <2>2 DEF CountDaily, LimitTypes
<1>5. ASSUME NEW c \in Calls, Admit(c) PROVE LimitTypes'
  <2>1. Idle.at = 0 /\ calls[c].at \in 0..clock
    BY DEF Idle, LimitTypes, CallStates
  <2> QED
    BY <1>5, <1>c, <2>1, CallFields DEF Admit, LimitTypes
<1>6. CASE UNCHANGED limitVars
  BY <1>6 DEF limitVars, LimitTypes
<1> QED
  BY <1>1, <1>2, <1>3, <1>4, <1>5, <1>6 DEF LimitNext

\* Nothing was let in at the start.
LEMMA LimitInvariantInit == LimitInit => LimitInvariant
<1> SUFFICES ASSUME LimitInit PROVE LimitInvariant
  OBVIOUS
<1>1. LimitTypes /\ WindowKeeps /\ HasLatest
  BY DEF LimitInit, LimitTypes, CallStates, WindowKeeps, HasLatest, Idle
<1>2. PassedDay = {} /\ PassedBurst = {} /\ admitted = {}
  BY DEF LimitInit, PassedDay, PassedBurst, Idle
<1>3. BurstBounded /\ DayBounded
  BY <1>2 DEF BurstBounded, DayBounded, BurstTimes, DayTimes
<1> QED
  BY <1>1, <1>2, <1>3 DEF LimitInvariant

\* What the bounds need of a step that makes call c into r.
StepOf(c, r) ==
  /\ calls' = [calls EXCEPT ![c] = r] /\ clock' \in Int /\ clock' >= clock
  /\ admitted' = admitted \/ (admitted' = admitted \cup {calls[c].at} /\ c \in PassedDay)
  /\ \/ r.next = "idle"
     \/ r.at = calls[c].at /\ calls[c].next # "idle"
     \/ r.at > clock /\ r.next \notin {"zcard", "zadd"}
  /\ r.next = "zcard" =>
       \/ r.burst >= BURST_LIMIT
       \/ Cardinality(Recent(Counting', r.at, clock' - BURST_WINDOW)) <= BURST_LIMIT - 1 + Cardinality(Calls)
  /\ r.next = "zadd" =>
       /\ c \in PassedBurst /\ r.burst = calls[c].burst /\ r.at = calls[c].at
       /\ Cardinality(Recent(Counting', r.at, clock' - (DAILY_WINDOW - 1))) <= DAILY_LIMIT - 1 + Cardinality(Calls)

\* Such a step keeps the bounds.
LEMMA BoundsStep ==
  ASSUME LimitInvariant, LimitTypes', NEW c \in Calls, NEW r \in CallStates, StepOf(c, r)
  PROVE  BurstBounded' /\ DayBounded' /\ PassedDay' \subseteq PassedBurst'
<1>t. LimitTypes /\ LimitTypes' /\ PassedDay \subseteq PassedBurst
  BY DEF LimitInvariant
<1>1. /\ \A d \in Calls : calls'[d] = IF d = c THEN r ELSE calls[d]
      /\ calls' \in [Calls -> CallStates] /\ calls[c] \in CallStates
  BY <1>t DEF LimitTypes, StepOf
<1>2. \A d \in Calls : calls'[d].burst \in Nat /\ calls[d].burst \in Nat /\ calls'[d].at \in Nat
  BY <1>1, <1>t DEF LimitTypes, CallStates
<1>3. BURST_LIMIT \in Nat
  BY LimitsAssumption
<1>4. \A s \in Counting' : s \in Counting \/ (s \in Int /\ s > clock)
  BY <1>1, <1>2 DEF StepOf, Counting, Pending, Going, PassedDay
<1>5. PassedDay' \subseteq PassedBurst'
  BY <1>t, <1>1 DEF StepOf, PassedBurst, PassedDay
<1>6. \A x \in admitted' : x \in BurstTimes /\ x \in DayTimes
  BY <1>t DEF StepOf, BurstTimes, DayTimes
<1>7. \A x \in BurstTimes' :
          \/ x \in BurstTimes
          \/ Cardinality(Recent(Counting', x, clock' - BURST_WINDOW)) <= BURST_LIMIT - 1 + Cardinality(Calls)
  <2> SUFFICES ASSUME NEW d \in PassedBurst'
               PROVE  \/ calls'[d].at \in BurstTimes
                      \/ Cardinality(Recent(Counting', calls'[d].at, clock' - BURST_WINDOW))
                           <= BURST_LIMIT - 1 + Cardinality(Calls)
    <3>1. \A x \in BurstTimes' : x \in admitted' \/ \E d \in PassedBurst' : x = calls'[d].at
      BY DEF BurstTimes, DayTimes
    <3> QED
      BY <1>6, <3>1
  <2>1. CASE d # c
    <3>1. d \in PassedBurst /\ calls'[d] = calls[d]
      BY <1>1, <2>1 DEF PassedBurst
    <3> QED
      BY <3>1 DEF BurstTimes, DayTimes
  <2>2. CASE d = c
    <3>1. r.next \in {"zcard", "zadd"} /\ r.burst < BURST_LIMIT /\ calls'[d] = r
      BY <1>1, <2>2 DEF PassedBurst
    <3>2. CASE r.next = "zcard"
      BY <1>2, <1>3, <2>2, <3>1, <3>2 DEF StepOf
    <3>3. CASE r.next = "zadd"
      BY <3>1, <3>3 DEF StepOf, BurstTimes
    <3> QED
      BY <3>1, <3>2, <3>3
  <2> QED
    BY <2>1, <2>2
<1>8. \A x \in DayTimes' :
          \/ x \in DayTimes
          \/ Cardinality(Recent(Counting', x, clock' - (DAILY_WINDOW - 1))) <= DAILY_LIMIT - 1 + Cardinality(Calls)
  <2> SUFFICES ASSUME NEW d \in PassedDay'
               PROVE  \/ calls'[d].at \in DayTimes
                      \/ Cardinality(Recent(Counting', calls'[d].at, clock' - (DAILY_WINDOW - 1)))
                           <= DAILY_LIMIT - 1 + Cardinality(Calls)
    <3>1. \A x \in DayTimes' : x \in admitted' \/ \E d \in PassedDay' : x = calls'[d].at
      BY DEF BurstTimes, DayTimes
    <3> QED
      BY <1>6, <3>1
  <2>1. CASE d # c
    <3>1. d \in PassedDay /\ calls'[d] = calls[d]
      BY <1>1, <2>1 DEF PassedDay
    <3> QED
      BY <3>1 DEF BurstTimes, DayTimes
  <2>2. CASE d = c
    <3>1. r.next = "zadd" /\ calls'[d] = r
      BY <1>1, <2>2 DEF PassedDay
    <3> QED
      BY <3>1 DEF StepOf
  <2> QED
    BY <2>1, <2>2
<1> QED
  BY <1>4, <1>5, <1>7, <1>8, BoundsKept DEF StepOf

\* One command of one call, or a new request.
LEMMA LimitInvariantStep == LimitInvariant /\ [LimitNext]_limitVars => LimitInvariant'
<1> SUFFICES ASSUME LimitInvariant, [LimitNext]_limitVars PROVE LimitInvariant'
  OBVIOUS
<1>t. LimitTypes /\ LimitTypes' /\ WindowKeeps /\ HasLatest /\ PassedDay \subseteq PassedBurst
  BY LimitTypesStep DEF LimitInvariant
<1>w. BURST_WINDOW \in Nat /\ DAILY_WINDOW \in Nat /\ BURST_WINDOW < DAILY_WINDOW /\ clock \in Nat
  BY <1>t, LimitsAssumption DEF LimitTypes
<1>1. ASSUME NEW c \in Calls, Request(c) PROVE LimitInvariant'
  <2>1. PICK wait \in 1..(BURST_WINDOW + 1) :
          /\ clock' = clock + wait
          /\ calls' = [calls EXCEPT ![c] = [next |-> "zremrangebyscore", at |-> clock + wait, burst |-> 0]]
    BY <1>1 DEF Request
  <2>2. clock' \in Nat /\ clock' > clock /\ clock \in Nat
    BY <2>1, <1>w, <1>t DEF LimitTypes
  <2> DEFINE r == [next |-> "zremrangebyscore", at |-> clock + wait, burst |-> 0]
  <2>3. /\ r \in CallStates /\ r.at > clock /\ r.next = "zremrangebyscore"
        /\ calls' = [calls EXCEPT ![c] = r]
    BY <2>1, <2>2 DEF CallStates
  <2>4. admitted' = admitted /\ window' = window
    BY <1>1 DEF Request
  <2> HIDE DEF r
  <2>5. BurstBounded' /\ DayBounded' /\ PassedDay' \subseteq PassedBurst'
    <3>1. StepOf(c, r)
      BY <2>2, <2>3, <2>4 DEF StepOf
    <3> QED
      BY <1>t, <2>3, <3>1, BoundsStep
  <2>6. HasLatest'
    BY <1>t, <2>4 DEF HasLatest
  <2>7. WindowKeeps'
    <3>1. \A s \in admitted : s \in Nat
      BY <1>t DEF LimitTypes
    <3> QED
      BY <1>t, <1>w, <2>2, <2>4, <3>1 DEF WindowKeeps
  <2> QED
    BY <1>t, <2>5, <2>6, <2>7 DEF LimitInvariant
<1>2. ASSUME NEW c \in Calls, Prune(c) PROVE LimitInvariant'
  <2> DEFINE r == [calls[c] EXCEPT !.next = "zcount"]
  <2>1. /\ calls' = [calls EXCEPT ![c] = r] /\ calls[c].next # "idle"
        /\ window' = {t \in window : t > calls[c].at - DAILY_WINDOW}
        /\ admitted' = admitted /\ clock' = clock
    BY <1>2 DEF Prune
  <2>2. r \in CallStates /\ r.at = calls[c].at /\ r.next = "zcount"
    <3>1. calls[c] \in CallStates /\ 0 \in Nat
      BY <1>t DEF LimitTypes
    <3> HIDE DEF r
    <3>2. r = [calls[c] EXCEPT !.next = "zcount"]
      BY DEF r
    <3> QED
      BY <3>1, <3>2 DEF CallStates
  <2> HIDE DEF r
  <2>3. BurstBounded' /\ DayBounded' /\ PassedDay' \subseteq PassedBurst'
    <3>1. /\ calls' = [calls EXCEPT ![c] = r] /\ calls[c].next # "idle"
          /\ admitted' = admitted /\ clock' = clock
      BY <2>1
    <3>2. StepOf(c, r)
      BY <1>w, <2>2, <3>1 DEF StepOf
    <3> QED
      BY <1>t, <2>2, <3>2, BoundsStep
  <2>4. \A s \in admitted : s \in Nat /\ clock \in Nat /\ calls[c].at \in Nat /\ calls[c].at <= clock
    BY <1>t DEF LimitTypes, CallStates
  <2>5. WindowKeeps'
    BY <1>t, <1>w, <2>1, <2>4 DEF WindowKeeps
  <2>6. HasLatest'
    BY <1>t, <2>1 DEF HasLatest
  <2> QED
    BY <1>t, <2>3, <2>5, <2>6 DEF LimitInvariant
<1>3. ASSUME NEW c \in Calls, CountBurst(c) PROVE LimitInvariant'
  <2> DEFINE r == [calls[c] EXCEPT !.next = "zcard", !.burst = Cardinality(BurstOf(c))]
  <2>1. /\ calls' = [calls EXCEPT ![c] = r] /\ calls[c].next = "zcount"
        /\ window' = window /\ admitted' = admitted /\ clock' = clock
    BY <1>3 DEF CountBurst
  <2>2. Cardinality(BurstOf(c)) \in Nat
    <3>1. IsFiniteSet(0..clock)
      BY <1>t, FS_Interval DEF LimitTypes
    <3>2. BurstOf(c) \in SUBSET (0..clock)
      BY <1>t DEF LimitTypes, BurstOf
    <3> QED
      BY <3>1, <3>2, FS_Subset, FS_CardinalityType
  <2>3. /\ r \in CallStates /\ r.at = calls[c].at /\ r.next = "zcard"
        /\ r.burst = Cardinality(BurstOf(c)) /\ calls[c].at \in Nat /\ calls[c].at <= clock
    <3>1. /\ calls[c] \in CallStates /\ calls[c].at \in Nat /\ calls[c].at <= clock
      BY <1>t DEF LimitTypes, CallStates
    <3> QED
      BY <2>2, <3>1, CallFields
  <2> HIDE DEF r
  <2>4. Counting' = Counting
    BY <1>t, <2>1, <2>3 DEF Counting, Pending, Going, LimitTypes
  <2>5. \A s \in admitted : clock - BURST_WINDOW <= s /\ s <= calls[c].at => s \in BurstOf(c)
    BY <1>t, <1>w, <2>3 DEF BurstOf, WindowKeeps, LimitTypes
  <2>6. \/ r.burst >= BURST_LIMIT
        \/ Cardinality(Recent(Counting', r.at, clock' - BURST_WINDOW)) <= BURST_LIMIT - 1 + Cardinality(Calls)
    <3>1. BURST_LIMIT \in Nat \ {0} /\ BurstOf(c) \subseteq window
      BY LimitsAssumption DEF BurstOf
    <3>2. CASE Cardinality(BurstOf(c)) < BURST_LIMIT
      BY <1>t, <2>1, <2>3, <2>4, <2>5, <3>1, <3>2, CountedBound
    <3> QED
      BY <2>2, <2>3, <3>1, <3>2
  <2>7. BurstBounded' /\ DayBounded' /\ PassedDay' \subseteq PassedBurst'
    <3>1. StepOf(c, r)
      BY <1>w, <2>1, <2>3, <2>6 DEF StepOf
    <3> QED
      BY <1>t, <2>3, <3>1, BoundsStep
  <2>8. WindowKeeps' /\ HasLatest'
    BY <1>t, <2>1 DEF WindowKeeps, HasLatest
  <2> QED
    BY <1>t, <2>7, <2>8 DEF LimitInvariant
<1>4. ASSUME NEW c \in Calls, CountDaily(c) PROVE LimitInvariant'
  <2> DEFINE turned == calls[c].burst >= BURST_LIMIT \/ Cardinality(window) >= DAILY_LIMIT
  <2> DEFINE r == [calls[c] EXCEPT !.next = "zadd"]
  <2>1. /\ calls' = [calls EXCEPT ![c] = IF turned THEN Idle ELSE r]
        /\ calls[c].next = "zcard"
        /\ window' = window /\ admitted' = admitted /\ clock' = clock
    BY <1>4 DEF CountDaily
  <2>2. /\ r \in CallStates /\ r.at = calls[c].at /\ r.next = "zadd" /\ r.burst = calls[c].burst
        /\ Idle \in CallStates /\ Idle.next = "idle"
        /\ calls[c].at \in Nat /\ calls[c].at <= clock /\ calls[c].burst \in Nat
    <3>1. /\ calls[c] \in CallStates /\ 0 \in Nat /\ Idle.next = "idle"
          /\ calls[c].at \in Nat /\ calls[c].at <= clock /\ calls[c].burst \in Nat
      BY <1>t DEF LimitTypes, CallStates, Idle
    <3> QED
      BY <3>1, CallFields
  <2>3. Cardinality(window) \in Nat
    <3>1. IsFiniteSet(0..clock)
      BY <1>t, FS_Interval DEF LimitTypes
    <3>2. window \in SUBSET (0..clock)
      BY <1>t DEF LimitTypes
    <3> QED
      BY <3>1, <3>2, FS_Subset, FS_CardinalityType
  <2>4. BURST_LIMIT \in Nat \ {0} /\ DAILY_LIMIT \in Nat \ {0}
    BY LimitsAssumption
  <2> HIDE DEF r
  <2>5. BurstBounded' /\ DayBounded' /\ PassedDay' \subseteq PassedBurst'
    <3>1. CASE turned
      <4>1. calls' = [calls EXCEPT ![c] = Idle]
        BY <2>1, <3>1
      <4>2. /\ Idle.next = "idle" /\ admitted' = admitted /\ clock' = clock
        BY <2>1, <2>2
      <4>3. StepOf(c, Idle)
        BY <1>w, <4>1, <4>2 DEF StepOf
      <4> QED
        BY <1>t, <2>2, <4>3, BoundsStep
    <3>2. CASE ~turned
      <4>1. /\ calls' = [calls EXCEPT ![c] = r]
            /\ calls[c].burst < BURST_LIMIT /\ Cardinality(window) < DAILY_LIMIT
        BY <2>1, <2>2, <2>3, <2>4, <3>2
      <4>2. c \in PassedBurst
        BY <2>1, <4>1 DEF PassedBurst
      <4>3. Counting' = Counting
        BY <1>t, <2>1, <2>2, <4>1 DEF Counting, Pending, Going, LimitTypes
      <4>4. \A s \in admitted :
              clock - (DAILY_WINDOW - 1) <= s /\ s <= calls[c].at => s \in window
        BY <1>t, <1>w DEF WindowKeeps, LimitTypes
      <4>5. Cardinality(Recent(Counting', r.at, clock' - (DAILY_WINDOW - 1))) <= DAILY_LIMIT - 1 + Cardinality(Calls)
        BY <1>t, <2>1, <2>2, <2>4, <4>1, <4>3, <4>4, CountedBound
      <4>6. /\ admitted' = admitted /\ clock' = clock /\ calls[c].next # "idle"
            /\ r.next = "zadd" /\ r.at = calls[c].at /\ r.burst = calls[c].burst
        BY <2>1, <2>2
      <4>7. StepOf(c, r)
        BY <1>w, <4>1, <4>2, <4>5, <4>6 DEF StepOf
      <4> QED
        BY <1>t, <2>2, <4>7, BoundsStep
    <3> QED
      BY <3>1, <3>2
  <2>6. WindowKeeps' /\ HasLatest'
    BY <1>t, <2>1 DEF WindowKeeps, HasLatest
  <2> QED
    BY <1>t, <2>5, <2>6 DEF LimitInvariant
<1>5. ASSUME NEW c \in Calls, Admit(c) PROVE LimitInvariant'
  <2>1. /\ calls' = [calls EXCEPT ![c] = Idle] /\ calls[c].next = "zadd" /\ clock' = clock
        /\ window' = window \cup {calls[c].at} /\ admitted' = admitted \cup {calls[c].at}
    BY <1>5 DEF Admit
  <2>2. /\ Idle \in CallStates /\ Idle.next = "idle" /\ c \in PassedDay
        /\ calls[c].at \in Nat /\ calls[c].at <= clock /\ clock \in Nat
    BY <1>t, <2>1, CallFields DEF LimitTypes, CallStates, Idle, PassedDay
  <2>3. BurstBounded' /\ DayBounded' /\ PassedDay' \subseteq PassedBurst'
    <3>1. StepOf(c, Idle)
      BY <2>1, <2>2 DEF StepOf
    <3> QED
      BY <1>t, <2>2, <3>1, BoundsStep
  <2>4. WindowKeeps'
    BY <1>t, <2>1 DEF WindowKeeps
  <2>5. HasLatest'
    <3>1. CASE admitted = {}
      BY <2>1, <2>2, <3>1 DEF HasLatest
    <3>2. CASE admitted # {}
      <4>1. PICK last \in admitted : \A s \in admitted : s <= last
        BY <1>t, <3>2 DEF HasLatest
      <4>2. last \in Nat
        BY <1>t DEF LimitTypes
      <4>3. CASE last <= calls[c].at
        <5>1. \A s \in admitted' : s <= calls[c].at
          BY <1>t, <2>1, <2>2, <4>1, <4>2, <4>3 DEF LimitTypes
        <5> QED
          BY <2>1, <5>1 DEF HasLatest
      <4>4. CASE last > calls[c].at
        <5>1. \A s \in admitted' : s <= last
          BY <2>1, <2>2, <4>1, <4>2, <4>4
        <5> QED
          BY <2>1, <5>1 DEF HasLatest
      <4> QED
        BY <2>2, <4>2, <4>3, <4>4
    <3> QED
      BY <3>1, <3>2
  <2> QED
    BY <1>t, <2>3, <2>4, <2>5 DEF LimitInvariant
<1>6. CASE UNCHANGED limitVars
  <2>1. /\ BurstBounded' /\ DayBounded' /\ WindowKeeps' /\ HasLatest' /\ PassedDay' \subseteq PassedBurst'
    BY <1>6 DEF limitVars, LimitInvariant, BurstBounded, DayBounded, BurstTimes, DayTimes, Counting,
       Pending, Going, WindowKeeps, HasLatest, PassedBurst, PassedDay
  <2> QED
    BY <1>t, <2>1 DEF LimitInvariant
<1> QED
  BY <1>1, <1>2, <1>3, <1>4, <1>5, <1>6 DEF LimitNext

\* The invariant of the calls of check on one key.
THEOREM LimitInvariantHolds == LimitSpec => []LimitInvariant
<1> QED
  BY LimitInvariantInit, LimitInvariantStep, PTL DEF LimitSpec

\* The requests from a time on are among those that the last one saw.
LEMMA SinceIsRecent ==
  ASSUME LimitTypes, HasLatest, NEW times, admitted \subseteq times, NEW from, NEW bound \in Nat,
         \A x \in times : Cardinality(Recent(Counting, x, from)) <= bound
  PROVE  Cardinality({s \in admitted : s >= from}) <= bound
<1> DEFINE since == {s \in admitted : s >= from}
<1>1. CASE since = {}
  BY <1>1, FS_EmptySet
<1>2. CASE since # {}
  <2>1. PICK last \in admitted : \A s \in admitted : s <= last
    BY <1>2 DEF HasLatest
  <2>2. since \in SUBSET Recent(Counting, last, from)
    BY <2>1 DEF Recent, Counting
  <2>3. /\ IsFiniteSet(Recent(Counting, last, from))
        /\ Cardinality(Recent(Counting, last, from)) \in Nat
    BY RecentIsFinite
  <2> HIDE DEF since
  <2>4. /\ IsFiniteSet(since) /\ Cardinality(since) <= Cardinality(Recent(Counting, last, from))
        /\ Cardinality(since) \in Nat
    BY <2>2, <2>3, FS_Subset, FS_CardinalityType
  <2>5. Cardinality(Recent(Counting, last, from)) <= bound
    BY <2>1
  <2>6. Cardinality(since) <= bound
    BY <2>3, <2>4, <2>5
  <2> QED
    BY <2>6 DEF since
<1> QED
  BY <1>1, <1>2

\* However many calls of check go on at a time, and with whatever limits and
\* windows: what the windows let in exceeds a limit by the overlapping calls at
\* most.
THEOREM LimitsHold == LimitSpec => []LimitsAreBounded
<1>1. LimitInvariant => LimitsAreBounded
  <2> SUFFICES ASSUME LimitInvariant PROVE LimitsAreBounded
    OBVIOUS
  <2>1. /\ BURST_LIMIT \in Nat \ {0} /\ DAILY_LIMIT \in Nat \ {0} /\ Cardinality(Calls) \in Nat
        /\ BURST_WINDOW \in Nat /\ DAILY_WINDOW \in Nat /\ clock \in Nat
    BY LimitsAssumption, PendingIsSmall DEF LimitInvariant, LimitTypes
  <2>2. BURST_LIMIT - 1 + Cardinality(Calls) \in Nat /\ DAILY_LIMIT - 1 + Cardinality(Calls) \in Nat
    BY <2>1
  <2>3. Cardinality({s \in admitted : s >= clock - BURST_WINDOW}) <= BURST_LIMIT - 1 + Cardinality(Calls)
    <3>1. admitted \subseteq BurstTimes
      BY DEF BurstTimes
    <3> QED
      BY <2>2, <3>1, SinceIsRecent DEF LimitInvariant, BurstBounded
  <2>4. Cardinality({s \in admitted : s >= clock - (DAILY_WINDOW - 1)}) <= DAILY_LIMIT - 1 + Cardinality(Calls)
    <3>1. admitted \subseteq DayTimes
      BY DEF DayTimes
    <3> QED
      BY <2>2, <3>1, SinceIsRecent DEF LimitInvariant, DayBounded
  <2>5. clock - (DAILY_WINDOW - 1) = clock - DAILY_WINDOW + 1
    BY <2>1
  <2>6. /\ BURST_LIMIT - 1 + Cardinality(Calls) = BURST_LIMIT + (Cardinality(Calls) - 1)
        /\ DAILY_LIMIT - 1 + Cardinality(Calls) = DAILY_LIMIT + (Cardinality(Calls) - 1)
    BY <2>1
  <2> QED
    BY <2>3, <2>4, <2>5, <2>6 DEF LimitsAreBounded
<1> QED
  BY <1>1, LimitInvariantHolds, PTL

(***************************************************************************)
(* Proposals of the repair engine                                          *)
(***************************************************************************)

FailureClasses == {CLASSIFICATION_RULES[r][1] : r \in 1..11} \cup {"ambiguous"}

Proposals == [failure_class : FailureClasses, confidence : Nat, proposed_patch : PatchSizes,
              validation_results : Validations, risk_level : {"low", "medium", "high"},
              auto_apply_eligible : BOOLEAN, affected_files : {0, 1},
              is_approved : BOOLEAN, is_rejected : BOOLEAN, is_applied : BOOLEAN]

\* What is true of a proposal from the day it is built.
Earned(p) == /\ p.confidence >= CONFIDENCE_SUGGESTION => Passed(p.validation_results)
             /\ p.risk_level = RiskOf(p.failure_class)
             /\ p.auto_apply_eligible => p.risk_level = "low" /\ Passed(p.validation_results)
             /\ p.is_applied /\ engine.mode = "auto_apply" => p.auto_apply_eligible

RepairInvariant ==
  /\ todo \in Seq(Failures)
  /\ \A w \in work : w.failure \in Failures /\ w.patch \in PatchSizes
  /\ proposals \in Seq(Proposals)
  /\ \A i \in DOMAIN proposals : Earned(proposals[i])

\* A rule of the highest confidence, and the first of those, is there.
LEMMA ClassifyType ==
  ASSUME NEW failure \in Failures
  PROVE  Classify(failure)[1] \in FailureClasses /\ Classify(failure)[2] \in Nat
<1> DEFINE rules == failure.rules
           best  == {r \in rules : \A s \in rules : CLASSIFICATION_RULES[s][2] <= CLASSIFICATION_RULES[r][2]}
           rank  == [r \in 1..11 |-> CLASSIFICATION_RULES[r][2]]
<1>1. rules \subseteq 1..11
  BY DEF Failures
<1>2. CASE rules = {}
  BY <1>2 DEF Classify, FailureClasses
<1>3. CASE rules # {}
  <2>1. /\ rank[1] = 95 /\ rank[2] = 92 /\ rank[3] = 90 /\ rank[4] = 95 /\ rank[5] = 88 /\ rank[6] = 85
        /\ rank[7] = 88 /\ rank[8] = 75 /\ rank[9] = 85 /\ rank[10] = 95 /\ rank[11] = 90
    BY DEF CLASSIFICATION_RULES
  <2>2. \A r \in 1..11 : rank[r] = CLASSIFICATION_RULES[r][2] /\ rank[r] \in Nat
    <3>1. \A r \in 1..11 : rank[r] = CLASSIFICATION_RULES[r][2]
      OBVIOUS
    <3>2. \A r \in 1..11 : r \in {1, 2, 3, 4, 5, 6, 7, 8, 9, 10, 11}
      OBVIOUS
    <3> HIDE DEF rank
    <3> QED
      BY <2>1, <3>1, <3>2
  <2>3. \E r \in rules : \A s \in rules : rank[s] <= rank[r]
    <3> HIDE DEF rank
    <3>1. \A r \in rules : r \in {1, 2, 3, 4, 5, 6, 7, 8, 9, 10, 11}
      BY <1>1
    <3>2. \A r \in rules : rank[r] <= 95
      BY <2>1, <3>1
    <3> QED
      BY <1>3, <2>1, <3>1
  <2>4. best # {}
    BY <1>1, <2>2, <2>3
  <2>5. \E r \in best : \A s \in best : r <= s
    <3>1. \A r \in best : r \in {1, 2, 3, 4, 5, 6, 7, 8, 9, 10, 11}
      BY <1>1
    <3> HIDE DEF best
    <3> QED
      BY <2>4, <3>1
  <2>6. PICK r \in best : Classify(failure) = CLASSIFICATION_RULES[r]
    BY <1>3, <2>5 DEF Classify
  <2>7. r \in 1..11
    BY <1>1
  <2> QED
    BY <2>2, <2>6, <2>7 DEF FailureClasses
<1> QED
  BY <1>2, <1>3

\* The proposals that were there, and the new one.
LEMMA InsertEntries ==
  ASSUME NEW S, NEW list \in Seq(S), NEW p \in S
  PROVE  /\ Insert(list, p) \in Seq(S)
         /\ \A i \in DOMAIN Insert(list, p) : \/ Insert(list, p)[i] = p
                                              \/ \E j \in DOMAIN list : Insert(list, p)[i] = list[j]
<1> DEFINE before == Cardinality({i \in DOMAIN list : list[i].confidence >= p.confidence})
<1>1. before \in 0..Len(list)
  <2>1. DOMAIN list = 1..Len(list) /\ Len(list) \in Nat
    OBVIOUS
  <2>2. IsFiniteSet(1..Len(list)) /\ Cardinality(1..Len(list)) = Len(list)
    BY <2>1, FS_Interval
  <2>3. {i \in DOMAIN list : list[i].confidence >= p.confidence} \in SUBSET (1..Len(list))
    BY <2>1
  <2> QED
    BY <2>1, <2>2, <2>3, FS_Subset, FS_CardinalityType
<1> HIDE DEF before
<1>2. Insert(list, p) = SubSeq(list, 1, before) \o <<p>> \o SubSeq(list, before + 1, Len(list))
  BY DEF Insert, before
<1> DEFINE head == SubSeq(list, 1, before)
           tail == SubSeq(list, before + 1, Len(list))
<1>3. /\ head \in Seq(S) /\ Len(head) = before
      /\ \A i \in DOMAIN head : head[i] = list[i] /\ i \in DOMAIN list
  BY <1>1
<1>4. /\ tail \in Seq(S) /\ Len(tail) = Len(list) - before
      /\ \A i \in DOMAIN tail : tail[i] = list[before + i] /\ before + i \in DOMAIN list
  BY <1>1
<1> HIDE DEF head, tail
<1>5. Insert(list, p) = head \o <<p>> \o tail
  BY <1>2 DEF head, tail
<1>6. /\ head \o <<p>> \o tail \in Seq(S)
      /\ \A i \in DOMAIN (head \o <<p>> \o tail) :
            \/ i \in DOMAIN head /\ (head \o <<p>> \o tail)[i] = head[i]
            \/ (head \o <<p>> \o tail)[i] = p
            \/ \E j \in DOMAIN tail : (head \o <<p>> \o tail)[i] = tail[j]
  BY <1>3, <1>4
<1> QED
  BY <1>3, <1>4, <1>5, <1>6

\* Nothing is proposed at the start.
LEMMA RepairInvariantInit == RepairInit => RepairInvariant
<1> SUFFICES ASSUME RepairInit PROVE RepairInvariant
  OBVIOUS
<1>1. PICK failures \in FailureLists :
        todo = SubSeq(failures, 1, IF Len(failures) < MaxProposals THEN Len(failures) ELSE MaxProposals)
  BY DEF RepairInit
<1>2. failures \in Seq(Failures) /\ MaxProposals \in Nat
  BY RepairAssumption
<1>3. todo \in Seq(Failures)
  BY <1>1, <1>2
<1> QED
  BY <1>3 DEF RepairInit, RepairInvariant

\* A patch of which analyze makes a proposal is within the scope of its class.
LEMMA GenerateKeeps == RepairInvariant /\ Generate => RepairInvariant'
<1> SUFFICES ASSUME RepairInvariant, Generate PROVE RepairInvariant'
  OBVIOUS
<1>1. PICK patch \in Patches(Classify(Head(todo))[1], Classify(Head(todo))[2]) :
        \/ proposals' = <<>> /\ UNCHANGED <<todo, work>>
        \/ /\ patch # NoPatch
           /\ work' = {[failure |-> Head(todo), patch |-> patch]}
           /\ todo' = Tail(todo) /\ proposals' = proposals
  BY DEF Generate
<1>2. todo \in Seq(Failures) /\ todo # <<>> /\ engine' = engine
  BY DEF RepairInvariant, Generate
<1>3. Head(todo) \in Failures /\ Tail(todo) \in Seq(Failures)
  BY <1>2
<1>4. CASE proposals' = <<>> /\ UNCHANGED <<todo, work>>
  BY <1>4 DEF RepairInvariant
<1>5. CASE /\ patch # NoPatch
           /\ work' = {[failure |-> Head(todo), patch |-> patch]}
           /\ todo' = Tail(todo) /\ proposals' = proposals
  <2>1. patch \in PatchSizes
    BY <1>5 DEF Patches
  <2>2. \A w \in work' : w.failure = Head(todo) /\ w.patch = patch
    BY <1>5
  <2>3. \A w \in work' : w.failure \in Failures /\ w.patch \in PatchSizes
    BY <1>3, <2>1, <2>2
  <2>4. \A i \in DOMAIN proposals' : Earned(proposals[i])'
    BY <1>2, <1>5 DEF RepairInvariant, Earned
  <2> QED
    BY <1>3, <1>5, <2>3, <2>4 DEF RepairInvariant
<1> QED
  BY <1>1, <1>4, <1>5

\* A class of low risk may be patched.
LEMMA LowRiskMayBePatched ==
  ASSUME NEW class, RiskOf(class) = "low"
  PROVE  class \notin NEVER_AUTO_PATCH
  BY DEF RiskOf, LOW_RISK, MEDIUM_RISK, NEVER_AUTO_PATCH

\* What _build_proposal builds is as trustworthy as it says.
LEMMA ProposalIsEarned ==
  ASSUME NEW failure \in Failures, NEW patch \in PatchSizes, NEW v \in Validations
  PROVE  Proposal(failure, patch, v) \in Proposals /\ Earned(Proposal(failure, patch, v))
<1> DEFINE class == Classify(failure)[1]
           confidence == CappedConfidence(Classify(failure)[2], v)
<1>1. class \in FailureClasses /\ Classify(failure)[2] \in Nat
  BY ClassifyType
<1>2. confidence \in Nat /\ (confidence >= CONFIDENCE_SUGGESTION => Passed(v))
  BY <1>1 DEF CappedConfidence, CONFIDENCE_SUGGESTION
<1>3. AutoEligible(class, confidence, v) => RiskOf(class) = "low" /\ Passed(v)
  BY DEF AutoEligible
<1>4. RiskOf(class) \in {"low", "medium", "high"} /\ AutoEligible(class, confidence, v) \in BOOLEAN
  BY DEF RiskOf, AutoEligible
<1> HIDE DEF class, confidence
<1>5. Proposal(failure, patch, v) =
        [failure_class |-> class, confidence |-> confidence, proposed_patch |-> patch,
         validation_results |-> v, risk_level |-> RiskOf(class),
         auto_apply_eligible |-> AutoEligible(class, confidence, v),
         affected_files |-> IF failure.has_file THEN 1 ELSE 0,
         is_approved |-> FALSE, is_rejected |-> FALSE, is_applied |-> FALSE]
  BY DEF Proposal, class, confidence
<1> QED
  BY <1>1, <1>2, <1>3, <1>4, <1>5 DEF Proposals, Earned

\* A proposal joins the list when its patch was validated.
LEMMA ValidateKeeps == RepairInvariant /\ Validate => RepairInvariant'
<1> SUFFICES ASSUME RepairInvariant, Validate PROVE RepairInvariant'
  OBVIOUS
<1>1. PICK w \in work : \E v \in Validations : proposals' = Insert(proposals, Proposal(w.failure, w.patch, v))
  BY DEF Validate
<1>2. PICK v \in Validations : proposals' = Insert(proposals, Proposal(w.failure, w.patch, v))
  BY <1>1
<1>3. PICK p : p = Proposal(w.failure, w.patch, v)
  OBVIOUS
<1>4. p \in Proposals /\ Earned(p)
  BY <1>3, ProposalIsEarned DEF RepairInvariant
<1>5. proposals \in Seq(Proposals) /\ \A i \in DOMAIN proposals : Earned(proposals[i])
  BY DEF RepairInvariant
<1>6. /\ proposals' \in Seq(Proposals)
      /\ \A i \in DOMAIN proposals' : proposals'[i] = p \/ \E j \in DOMAIN proposals : proposals'[i] = proposals[j]
  BY <1>2, <1>3, <1>4, <1>5, InsertEntries
<1>7. \A i \in DOMAIN proposals' : Earned(proposals'[i])
  BY <1>4, <1>5, <1>6
<1>8. \A i \in DOMAIN proposals' : Earned(proposals[i])'
  <2>1. engine' = engine
    BY DEF Validate
  <2> QED
    BY <1>7, <2>1 DEF Earned
<1>9. work' = {} /\ todo' = todo
  BY DEF Validate
<1> QED
  BY <1>6, <1>8, <1>9 DEF RepairInvariant

\* A decision, and an application of what was decided.
LEMMA DecisionKeeps ==
  ASSUME RepairInvariant, NEW i \in DOMAIN proposals,
         \/ Decide(i, "is_approved") \/ Decide(i, "is_rejected") \/ Apply(i)
  PROVE  RepairInvariant'
<1>1. /\ proposals \in Seq(Proposals) /\ proposals[i] \in Proposals /\ Earned(proposals[i])
      /\ \A j \in DOMAIN proposals : Earned(proposals[j])
  BY DEF RepairInvariant
<1>2. PICK p : /\ p \in Proposals /\ Earned(p)
               /\ proposals' = [proposals EXCEPT ![i] = p]
  <2>1. CASE Decide(i, "is_approved")
    <3>1. [proposals[i] EXCEPT !.is_approved = TRUE] \in Proposals
          /\ Earned([proposals[i] EXCEPT !.is_approved = TRUE])
      BY <1>1 DEF Proposals, Earned
    <3>2. proposals' = [proposals EXCEPT ![i] = [proposals[i] EXCEPT !.is_approved = TRUE]]
      BY <2>1 DEF Decide
    <3> QED
      BY <3>1, <3>2
  <2>2. CASE Decide(i, "is_rejected")
    <3>1. [proposals[i] EXCEPT !.is_rejected = TRUE] \in Proposals
          /\ Earned([proposals[i] EXCEPT !.is_rejected = TRUE])
      BY <1>1 DEF Proposals, Earned
    <3>2. proposals' = [proposals EXCEPT ![i] = [proposals[i] EXCEPT !.is_rejected = TRUE]]
      BY <2>2 DEF Decide
    <3> QED
      BY <3>1, <3>2
  <2>3. CASE Apply(i)
    <3>1. engine.mode = "auto_apply" => proposals[i].auto_apply_eligible
      BY <2>3 DEF Apply
    <3>2. [proposals[i] EXCEPT !.is_applied = TRUE] \in Proposals
          /\ Earned([proposals[i] EXCEPT !.is_applied = TRUE])
      BY <1>1, <3>1 DEF Proposals, Earned
    <3>3. proposals' = [proposals EXCEPT ![i] = [proposals[i] EXCEPT !.is_applied = TRUE]]
      BY <2>3 DEF Apply
    <3> QED
      BY <3>2, <3>3
  <2> QED
    BY <2>1, <2>2, <2>3
<1>3. proposals' \in Seq(Proposals) /\ \A j \in DOMAIN proposals' : Earned(proposals'[j])
  BY <1>1, <1>2
<1>4. engine' = engine /\ todo' = todo /\ work' = work
  BY DEF Decide, Apply
<1>5. \A j \in DOMAIN proposals' : Earned(proposals[j])'
  BY <1>3, <1>4 DEF Earned
<1> QED
  BY <1>3, <1>4, <1>5 DEF RepairInvariant

\* The invariant of what the engine proposes.
THEOREM RepairInvariantHolds == RepairSpec => []RepairInvariant
<1>1. RepairInvariant /\ [RepairNext]_repairVars => RepairInvariant'
  <2> SUFFICES ASSUME RepairInvariant, [RepairNext]_repairVars PROVE RepairInvariant'
    OBVIOUS
  <2>1. CASE Skip
    <3>1. Tail(todo) \in Seq(Failures)
      BY <2>1 DEF Skip, RepairInvariant
    <3> QED
      BY <2>1, <3>1 DEF Skip, RepairInvariant, Earned
  <2>2. CASE Advise
    BY <2>2 DEF Advise, RepairInvariant
  <2>3. CASE Return \/ UNCHANGED repairVars
    BY <2>3 DEF Return, repairVars, RepairInvariant, Earned
  <2> QED
    BY <2>1, <2>2, <2>3, GenerateKeeps, ValidateKeeps, DecisionKeeps DEF RepairNext
<1> QED
  BY <1>1, RepairInvariantInit, PTL DEF RepairSpec

\* Whatever failures come and whatever the engine may apply by itself, it has
\* applied nothing by itself but validated patches of low risk.
THEOREM AutoAppliedPatchesAreSafe == RepairSpec => []AutoAppliedIsSafe
<1>1. RepairInvariant => AutoAppliedIsSafe
  <2> SUFFICES ASSUME RepairInvariant, NEW i \in DOMAIN proposals,
                      proposals[i].is_applied, engine.mode = "auto_apply"
               PROVE  /\ proposals[i].failure_class \notin NEVER_AUTO_PATCH
                      /\ proposals[i].risk_level = "low"
                      /\ Passed(proposals[i].validation_results)
    BY DEF AutoAppliedIsSafe
  <2>1. Earned(proposals[i])
    BY DEF RepairInvariant
  <2> QED
    BY <2>1, LowRiskMayBePatched DEF Earned
<1> QED
  BY <1>1, RepairInvariantHolds, PTL

\* What the panel labels better than LOW passed all checks.
THEOREM ConfidentProposalsAreEarned == RepairSpec => []ConfidenceIsEarned
<1>1. RepairInvariant => ConfidenceIsEarned
  <2> SUFFICES ASSUME RepairInvariant, NEW i \in DOMAIN proposals
               PROVE  Summary(proposals[i]).confidence_label # "LOW" => Summary(proposals[i]).validation_passed
    BY DEF ConfidenceIsEarned
  <2>1. Earned(proposals[i]) /\ proposals[i] \in Proposals
    BY DEF RepairInvariant
  <2>2. proposals[i].confidence \in Nat
    BY <2>1 DEF Proposals
  <2> QED
    BY <2>1, <2>2 DEF Earned, Summary, CONFIDENCE_SUGGESTION
<1> QED
  BY <1>1, RepairInvariantHolds, PTL
=============================================================================
