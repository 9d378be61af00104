# A specification of the AI Architecture Explainer

TLA+ models of the parts of this repository where several actors share state
(job queues, background tasks, pages that poll, versioned rows with an audit
trail, heartbeats, a shared rate window) and of its analyses, where many small
rules have to agree (the reviewer, the deep scan, the onboarding tabs, the repair
engine). TLC checks them on small instances; TLAPS proves the main safety
properties of seven of them for every value of their constants.

Paths below are relative to the repository; `backend/` stands for
`src/backend/app/`, `frontend/` for `src/frontend/`, and the file names of a
section are unique in those directories.

## 1. The system

FastAPI serves the API, one or more worker processes execute jobs taken from
two tables, and a Next.js site submits jobs and polls for them. Postgres is the
only thing they share: there is no message broker, a job row is the message.

    page --submit/poll--> API --insert/select--> atlas_jobs, review_jobs
                           |  guard: fail what queued too long
    GitHub --webhook-----> API                        ^
                                                      | claim, commit
                          worker processes (lanes) ---+--> results, tabs, scans,
                           | recovery: fail what ran       reviews
                           |  too long                +--> heartbeats
                           +--> GitHub, scanners, LLM, pull request comments
    operator --summary---> API --select--> job tables, heartbeats

| Part | State it keeps | Operations | What is hard | What makes it correct |
|---|---|---|---|---|
| Atlas queue: `services/atlas_worker.py`, `worker_runtime.py`, `queue_guardian.py`, `job_recovery.py`, `api/routes_analysis.py` | job rows (status, error, cached result, timestamps), result rows, a lane's locals across its commits | submit, claim by conditional UPDATE, execute in up to four commits, recover, guard, poll | no lease and no lock: claims, recovery and the guard race; a worker dies between any two commits; a failed diagnostic write rolls the session back in the middle | one lane per job, outcome and result together, final outcomes, every job ends |
| Review queue: `services/review_worker.py`, `pr_comment_service.py`, `api/routes_review.py`, `routes_webhook.py` | review jobs, review rows, pull request comments | submit by route or webhook, claim, deduplicate, review, comment, recover, guard, poll | the same, and three places (job, review, comment) that must tell one story | at most one review per job, which agrees with the job and the comment |
| Reviewer engine: `services/reviewer/` | none: one pass from facts to report | collect, scan, run rules, deduplicate, score, judge, explain, trace | thresholds stated in four places; sentences and trace built apart; scanners missing | the explanation matches the verdict and the evidence, practices pay |
| Review page: `frontend/app/review/page.tsx` | tracked job, status, report, a timer, a link being loaded | submit, poll, fetch, give up | every `await` lets another callback change the state the next line assumes | a tracked job is awaited, the wait ends |
| Agent runs: `services/agent_service.py`, `api/routes/intelligence.py`, `frontend/components/AgentAnalysisSection.tsx` | run rows, in-memory tasks, what a section shows | trigger, run, latest run, poll on an interval | overlapping answers; a task lives in one process's memory | what is shown happened, polling ends |
| Devcontainer versions: `api/routes/devcontainer.py`, `services/audit_service.py` | versions, audit entries, open transactions | generate, update, download | the next number is read and inserted apart; policies hide rows that the unique constraint still counts; the audit's errors are swallowed | versions 1..n, each audited |
| Onboarding tabs: `services/analyzers/`, `pipeline/onboarding_assembler_async.py` | three columns of a result row, a session's copy of them | clone, analyse, flush three times, mark, commit | a failed flush takes the transaction and the attributes with it, until a later flush loads them again; two lanes fill one row | all tabs or none; tabs of one clone agree; low risk rests on evidence |
| Repository intelligence: `deep_scanner.py`, `context_reviewer.py`, `scorecard.py`, `intelligence_pipeline.py`, `intelligence_persistence.py` | a scan in progress, five tables | fetch in batches, resolve imports, review, score, store, load | files arrive in any order or never; stages time out; suffixes of paths collide | imports lead where they say, rows tell one scan, resolving a finding never costs points |
| Repair engine: `repair_engine.py` | proposals and the decisions on them | classify, patch, validate, propose, decide, apply | a model may answer anything; what applies by itself is configuration | nothing unsafe applies itself, confidence is earned |
| Heartbeats, operations summary: `worker_heartbeat.py`, `worker.py`, `routes_ops.py` | heartbeat rows | beat, stop, crash, summarise | beats that race the stop; a summary of several queries over rows that crashes leave stale | fresh workers are there, unserved jobs are noticed |
| Rate limits: `core/security.py`, `middleware/rate_limit.py` | windows of time stamps | prune, count twice, add | separate commands per request | a limit is exceeded by no more than the calls under way |
| Atlas pages, plans, claim enforcer, RepoScout, cache | | | | not modelled, see 6 |
| Authentication, LLM providers, embeddings, rendering | rows written once | | external services | not modelled |

`PROJECT.json` lists every part with its files and status, and under "hazards"
the places where this code is exposed to something a test hardly reaches.
Further ones of the same kinds, which no property is about:

* a webhook that GitHub delivers twice inserts two jobs, as a delivery has no key
  (`routes_webhook.py:75`);
* two first submissions of a repository both insert it, and one fails on the
  unique constraint (`routes_analysis.py:82`);
* two of the paths that fail a review job write no review row
  (`queue_guardian.py:112`);
* a file of the cache may vanish between `exists`, `stat` and `open`
  (`utils/cache.py:30`);
* a `PUT` of any version but the latest takes a number that is taken
  (`devcontainer.py:363`);
* rounding and caps at the edges of the reviewer's scores (`depth_weight.py:74`,
  `facts/builder.py:56`, `scoring/engine.py:43`, `engine/confidence.py:54`).

Numbers of the deployment (`core/config.py`): the guard fails jobs queued for
180 s, recovery those running for 1800 s and runs every 60 s; a worker has two
Atlas lanes and one review lane; a heartbeat is written every 15 s and is stale
after 90 s; the summary's alert comes after 120 s of waiting.

## 2. Modules

| Module | Models | Checked by | Proved in |
|---|---|---|---|
| `JobLifecycle` | what a job table promises, abstractly | as PROPERTY of both queues | |
| `AtlasQueue` | the Atlas queue end to end | `MCAtlasQueue` | `AtlasQueueProofs` |
| `ReviewQueue` | the review queue end to end | `MCReviewQueue` | `ReviewQueueProofs` |
| `ReviewRules`, `ReviewEngine` | the rules; everything made of their findings | `MCReviewEngine` | `ReviewEngineProofs` |
| `ReviewPage` | the review page's callbacks | itself | `ReviewPageProofs` |
| `AgentRuns` | agent runs and the sections showing them | `MCAgentRuns` | `AgentRunsProofs` |
| `DevcontainerVersions` | the devcontainer routes | `MCDevcontainerVersions` | `DevcontainerVersionsProofs` |
| `OnboardingContracts` | files and records the three analyzers share | | |
| `SetupRisk`, `DebugReadiness`, `ChangeRisk` | the analyzers | | `AnalysisProofs` |
| `Onboarding` | the lanes that fill the tabs of a result | `MCOnboarding`, `MCAnalysis` | `AnalysisProofs` |
| `RepoFiles`, `RepoGraph` | what a scan makes of a file; imports and the graph | | |
| `CodeFindings`, `Scorecard` | review and score of a scan | | |
| `Intelligence` | the scan's stages, its rows and its readers | `MCIntelligence`, `MCAnalysis` | `AnalysisProofs` |
| `RepairEngine` | repair from failure to application | `MCServices` | `ServicesProofs` |
| `Operations` | heartbeats and the operations summary | `MCServices` | `ServicesProofs` |
| `RateLimits` | the Redis window of one key | `MCServices` | `ServicesProofs` |

`MCAnalysis` and `MCServices` put parts that share no state side by side: a
behaviour chooses one of them at its start and takes only its steps.

Definitions whose comment begins "Mutant of" are broken variants of the
definition after them; no module uses them. They record, for each property, a
plausible bug that the property catches.

### AtlasQueue and ReviewQueue

An action is one transaction, or one read whose value is used after another
process may have committed. So a claim is two actions (`SelectCandidate`, then
the conditional UPDATE as `ClaimWon` or `ClaimLost`, retried three times as in
`_claim_with_update`), a poll is up to three (the guard's reads, its UPDATE, the
job row, the result row), and executing a job is one action per commit. `pc[l]`
is where a lane stands in `execute_analysis_job` or `process_review_job`, and
`local[l]` what it remembers from before. Timestamps are ages that saturate one
past the largest limit (`OldestAge`).

In AtlasQueue, `Raise` stands for what an exception does at that point of the
function: it reaches the outer handler (`atlas_worker.py:307-318`), which does not
roll back; it sets the job to failed on the session as it is and commits (`fail`,
then `CommitFailure`). `expired` says that the session was rolled back
under objects the function still holds: SQLAlchemy then reloads an attribute on
access, which raises in async code. `LoseCommit` is a commit the database did
not take, `Crash` the end of a process at any point, or an exception outside the
guarded part of the loop, which ends all its lanes.

In ReviewQueue, a review's outcome is any of what the engine can do: a report
for the commit it checked out, or an error. The URL is kept in the three forms in
which it is stored (webhook clone URL, canonical, canonical with an abbreviated
commit), as deduplication compares them.

Both implement `JobLifecycle` with `held` mapped to the jobs lanes are
executing. It says precisely how far an outcome may still change: recovery looks
at the clock only, so it may fail a job whose lane is healthy, and that lane (no
other) may write its own outcome over the mark.

### ReviewPage and AgentRuns

The browser is modelled callback by callback: a fetch that was sent, its answer
or its failure, a timer that fires. React state is a variable, a closure's
captured job is the index of its loop. `AgentRuns` joins the server's side (the
row, the task, its lost commits and its death with the process) with sections
that poll every few seconds without waiting for the last answer, so that answers
overtake each other.

### DevcontainerVersions

A request reads the latest version its user may see, inserts the next (which the
unique constraint of migration 0024 may refuse, once the other transaction
commits), writes its audit entry, commits or rolls back. The same migration
(`src/backend/alembic/versions/0024_add_devcontainer_audit_embeddings.py:101-113`)
forces row level security by `app.current_org_id`, which `get_rls_db` sets to the
login of the user (`core/database.py:35-49`): a user reads the versions of that
organisation only, while the constraint counts those of all. Policies do not bind
a superuser, which the role of `docker-compose.yml` is, and SQLite has none, so
`RowSecurity` is a constant; the run has it TRUE, the proofs hold for both. The
model takes it that the database accepts `SET LOCAL` with a bind parameter
(`database.py:42`), without which no request would come as far as its first read.

### ReviewRules and ReviewEngine

`ReviewRules` has one definition for every registered rule that can apply, from
the facts to a set of findings; `ReviewEngine` follows `_run_review_impl`: which
adapters ran, what the builder kept of their issues, deduplication, scores,
depth caps, the verdict, its reasons and fixes, the anti-gaming block, the
confidence, the summary's sentences and the trace that accounts for them. A
sentence is a tuple of its wording and what was filled in, so that two sentences
are equal exactly if the two functions that build them print the same text. The
state machine is a repository that changes by commits (`Commit`) and scanners
that come, go and fail (`Rescan`), each followed by a review: properties of a
single report are invariants, and what a commit does to the scores is an action
property. Penalties are integers in units of 1/200 point, exact where the code
adds doubles.

Left out: the coverage block, per-domain wording, cloning and subprocesses, the
LLM's own summaries (any of which that fails validation is replaced by the
sentences modelled here), and rules for a detected web framework, because no
collector fills `atlas_context.frameworks`.

### Onboarding and the analyzers

A repository is a set of files, each with a place (the analyzers' walks differ in
what they skip) and the names of the detector rules it matches. What a regular
expression looks at is left out; which rule looks at which files, and what evidence,
score, level and confidence follow, is kept. `Onboarding` is
`onboarding_assembler_async.py` flush by flush: `clone` is what a lane has on disk,
`mem` its instance of the row, `expired` whether a rollback has expired that
instance, `written` the columns its open transaction has updated. The flush that
follows a rollback needs the primary key for its UPDATE, and asking for it loads the
whole row again (`Reload`); until then the check for missing tabs, which reads
attributes outside a flush, would raise (`Marks`). A commit changes the written
columns only. A row that another transaction has updated is locked (`MayWrite`). The
synchronous `onboarding_assembler.py` has no caller in the backend and is not
modelled.

### Intelligence

`RepoFiles` takes a file from its place in the priority queue to its
`FileIntelligence`; `RepoGraph` builds the index of import keys in the order of
arrival, resolves Python and TypeScript imports, and finds the critical path;
`CodeFindings` combines deterministic patterns with any answer of the model;
`Scorecard` deducts, caps, weights and compares. `Intelligence` runs them as the
worker does: batches of fetches that arrive in any order or fail, stages that raise
or time out, one transaction for the five tables, a page that reads. `Read` stands
for every route that begins with `load_intelligence`, which raises on any stored
scan (section 4); so the reports of `report_builder.py` are never built of one, and
are not modelled. Paths are tuples of names, since resolution splits and joins them;
text is left out (a file has its imports and its matches). Rates are in thousandths.

### RepairEngine, Operations, RateLimits

In `RepairEngine` a failure is the set of classification rules its text matches and
whether it names a file (the one affected file of its proposal), a patch the number
of lines it changes, so that the limits of each class decide. The model may return
any diff or none, the validation any result, the human any decision in any order.

In `Operations` a heartbeat has the time taken when the write began, and writes
of one worker commit in either order or fail. The job tables are abstract here:
the guard is one step, which AtlasQueue takes apart. A summary is three: the guard
and the Atlas table, one by one, then the review table with the heartbeats, read
last. A job is in one table; each worker serves both queues.

`RateLimits` has one action per Redis command of `check`.

## 3. Runs

| Run | States | Shows |
|---|---|---|
| `atlas_safety` | 1.1 M | two workers of one lane, two jobs, a polling client, crashes, recovery, guard: all safety properties, and the refinement of JobLifecycle |
| `atlas_live` | 101 k | one worker, two jobs: `QueuedEnds`, `EveryJobEnds` |
| `atlas_erased` | violation | a committed, completed job becomes failed (finding 1) |
| `review_lanes` | 847 k | two workers, two jobs of every kind of request, two commits: job, review and comment agree; the refinement |
| `review_polled` | 360 k | the guard and a polling client against one worker |
| `review_engine` | 75 k | three changes from four repositories: the report's parts agree, practices pay |
| `page_loops` | 22 k | two submissions and a link; every request may fail: safety, and the waits end |
| `page_overtaken` | violation | a submission that waits for ever (finding 2) |
| `agent_polling` | 131 k | one section, two polls in flight, three runs: what is shown happened; polling ends |
| `devcontainer_routes` | 25 k | three requests of two users under row level security: numbering, audit, one organisation; failures are races or hidden numbers |
| `analysis_results` | 371 k | tabs: two lanes at one row while the repository changes, writes fail and instances are loaded again; all tabs or none, tabs of one clone agree, practices never raise a risk. Scans: five repositories in any order of arrival; imports, critical path, rows, score |
| `services_parts` | 2.4 M | repairs that apply by themselves are safe and trusted ones validated; the summary tells of fresh workers and unserved jobs; the rate window is exceeded by one per other call at most |

All runs together take less than ten minutes. `tlc -config AtlasQueue_safety.cfg
MCAtlasQueue.tla` runs one, the configuration's prefix being the specification.

### Bounds, and why they are enough

* Two lanes are enough for every race between lanes, because a lane interacts
  with another only through one row; two workers, because recovery and a crash
  concern the other worker. Two jobs make one the original and the other its
  duplicate. The proofs of AtlasQueue hold for any number of each.
* `GuardAfter = StaleAfter = 0` makes the guard and recovery possible at any
  time, a superset of the behaviours with real limits: safety does not depend on
  either clock. In `atlas_live` they are one tick, so that waiting is necessary.
* Two commits in `review_lanes` tell a reused review from one of another commit.
  Job ids are random UUIDs, hence symmetric. Runs with liveness use no symmetry.
* `MaxPolls = 3` instead of 120 in `ReviewPage`: first, middle and last poll.
* `MaxCalls = 2` polls in flight can overtake each other; three runs make an
  older, a current and a newer one.
* Three versions and three requests give two racing requests a third to win
  against both.
* `MCReviewEngine` starts from four repositories at the edges of the rules
  (sound, bare script, polished facade, neglected) with all scanners present, missing
  or failing, and makes up to three changes to them, so any three facts that
  interact in one rule or in one score are varied together. Counts (lint issues,
  files) are taken on both sides of each threshold a rule has.
* `MCOnboarding`: two lanes at one row, one change of the repository between any
  two of their steps, from nothing, any single file, or three services; the files
  match every group of detector rules. The proof holds for any number of lanes.
* `MCIntelligence`: trees of at most five files, so that `BatchSize = 2` and
  `MaxFiles = 4` split a tree and leave one file out: a service whose imports take
  every form, a diamond (a file reached by a long and a short way), paths that end
  alike, two languages, and a repository in good order.
* `MCServices`: failure lists of three, with every outcome of classification,
  and patch sizes inside the limit of one class and beyond that of another. One
  worker (heartbeats of several do not meet: the proof is for any number), two
  jobs in either table, thresholds of 1, 1, 1 and 2 and times up to 3, so that
  each threshold is met, missed and passed; `FailureAlert = 2` can be reached with
  the two jobs. Two calls under way, limits of two in a burst and three in a day,
  and six requests that leave a window and come back.

CHECK_DEADLOCK is off where the system does come to rest: every page has done
what it can, the bound on changes is reached, a result has its tabs, a repair
is decided. An operations behaviour of `services_parts` ends when its summary is
shown, because nothing in the state depends on an earlier one.

### Fairness

* `atlas_live`: `QueuedEnds` assumes only the clock and a client that keeps
  polling (the analysis page does); workers may all be dead. `EveryJobEnds` says
  in its statement what it needs besides: platforms restart dead workers and a
  live worker's recovery loop keeps running (`worker_runtime.py:98`). Lanes need
  no fairness: they may hang, crash or lose every commit.
* `agent_polling`: a living process runs its tasks, an interval keeps firing, and
  requests made again and again do not fail for ever (strong fairness of a latest
  run read and shown). A task lost with its process is an escape in the property,
  for nothing in the code recovers it.
* `page_loops`: requests are answered or fail and timers fire (weak fairness of
  `Follow`). The job itself need not proceed.

## 4. What the code does otherwise than it says

Two of these are runs that end in a violation.

1. `CommittedStaysCompleted`. `atlas_worker.py:241` says that a corrupted
   session "cannot erase this commit". A failed diagnostic write is rolled back,
   which expires `result`; line 274 then reads `result.id`, which raises, and the
   outer handler sets the job, completed and committed, to failed.
2. `EverySubmissionEnds`. `page.tsx:184` clears the tracked job after an await
   without asking whose it is; a submission made meanwhile is never followed.

Seen while modelling and not run on their own.

Queues and pages:

* `repo_snapshot_sha` is not unique: two lanes that both miss the lookup write
  two rows, and `scalar_one_or_none` (`atlas_worker.py:168`) raises for every later
  job of the snapshot, where the comment promises reuse.
* `PUT` numbers the new version `version_number + 1` (`devcontainer.py:363`); for
  any version but the latest that number is taken, and the update fails without a
  rival.
* A late answer about an older agent run replaces a newer one in the section
  and, if it is failed, stops the interval although the newer one is running
  (`AgentAnalysisSection.tsx:28`; its comment says "Poll while running").
  `ShownHappened` still holds: what is shown is true, only old.
* Recovery needs no lease and may fail a job that is still running; its lane then
  overwrites the failure. JobLifecycle allows exactly this.
* A review job failed by guard or recovery has no review row, which
  `models/review.py:8` expects; a webhook's clone URL and the canonical URL of a
  stored review differ, so webhook jobs miss reusable reviews
  (`review_worker.py:54`).
* Versions of a job are numbered in one sequence (`uq_devcontainer_job_version`)
  while the policies show each organisation its own. The first to generate has the
  job: every other organisation reads nothing, tries 1, and is refused each time
  (`OneOrganisation`, `GenerateFailsToARace`).
* The audit of a download may fail silently (`audit_service.py:10`).

Reviewer engine:

* `readiness.py:24` says reasons are `[]` if a repository passes; a critical
  finding gives a reason though the gate does not look at severities (a leaked
  secret in a sound repository is enough).
* The domain caps make a score fall when a light finding is fixed
  (`depth_weight.py:74`), so `PracticePays` is stated for the full toolchain; a
  repository judged `surface_polish` may be judged production suitable as well;
  the bound of twenty points a rule keeps the testing score at 60 or more, so the
  gate of 50 on it never decides.
* `anti_gaming.py` says "likely honest" with one severe finding; `large_files.py:36`
  takes at least twenty points where at most twenty seems meant.

Onboarding tabs:

* `onboarding_assembler_async.py:56` says that one failing section leaves the
  others. A failed flush rolls the transaction back, with what earlier sections
  wrote and with the sentinel for this one. A later section's flush loads the row
  again, and what is missing then is marked as failed, though its analysis may have
  succeeded. If the flush of change risk is the one that fails, nothing loads the
  row, the check raises, and the result keeps no tab at all (`AllTabsOrNone`).
* Loading the row again may bring another lane's committed tabs into the instance;
  the lane then adds a section of its own clone to them, so that a row may join tabs
  of two clones. `TabsTellOfTests` is about lanes that wrote the whole row. Or
  the row is loaded before the other lane commits, and the marks overwrite its tabs.
* `risks` carry evidence lists that are empty for some rules
  (`change_risk_models.py:17`).
* `.gitlab-ci.yaml` is never looked at, because the loop over both names ends
  after the first.

Repository intelligence:

* `intelligence_persistence.py:318` rebuilds `ScanMetadata` and `RepoIntelligence`
  without fields that have no default (`schemas/intelligence.py`), so reading a
  stored scan raises, and the route turns that into a 404 (`Rebuilds`, `Read`).
  The route that triggers an agent run loads first too (`routes/intelligence.py:480`);
  `AgentRuns` models what follows once a run is queued.
* A failed review gives findings a confidence of 1.0, as no findings do;
  `files_scanned` counts files a scan that stopped early never asked for.
* The alias `@/` is stripped to `@` and swallows every import that begins so;
  `from . import x` is looked up as `..x`; a match of a suffix is labelled
  confirmed; an import of the standard library can match a file of the repository.
* Edges depend on the order of arrival where suffixes collide; only imports that
  spell out a path do not (`ExactImportsResolve`).
* SEMANTICS section 5 and LIMITATIONS L-003 say that dynamic imports do not count
  against confidence; `report_builder.py:318-321` counts them, and would show it if
  a stored scan could be loaded. `dead_code` deducts from no dimension; contents are
  fetched at the branch, not at the commit of the tree.

Repair engine:

* `MAX_FILES_PER_REPAIR` is called a hard limit (`repair_engine.py:101`, `:132-135`).
  What is compared with it is the list of affected files, which holds the one file
  the failure names or none (`:712`); of a diff only the changed lines are counted
  (`:465-474`), never the files it touches.
* Its comment says that advisory failures "Still surface as advisory"; the
  schema refuses a proposal without validation results, so `analyze` raises and
  returns nothing for a list with an advisory, unpatched or unvalidated failure.
* `branch_patch` applies an approved patch whose validation failed, also one
  that was rejected afterwards; `suggest_only` reports success without applying.
* `renamed_symbol` (0.75) is patched though the docstring calls what is below
  0.80 ambiguous; a lint failure that mentions auth is patched as lint; the
  validation copies only the named file.

Operations:

* `incident-runbook.md` expects status watch together with a message; with three
  failures of a day, or GitHub not configured, the status is watch and the
  message null.
* `PRODUCTION_ROLLOUT.md:232` has the alert for waiting jobs checked after "at
  least" 120 s; the summary's own guard fails them after 180 s, so it shows only
  in between. Afterwards the cleared jobs and their root cause tell
  (`UnservedIsNoticed`). A crashed worker's running row makes that cause capacity,
  and hides the alert until the row is old.

## 5. What is proved

`tlapm AtlasQueueProofs.tla` and the seven others prove, without bounds:

* **AtlasQueue** for any numbers of jobs, workers, lanes, requests, SHAs and any
  limits, from the four assumptions on its constants (a lane has a worker, the
  limits are naturals, `NoSha` is not a SHA, the job bound is natural).
  `InvariantHolds`: `QueueInvariant` is inductive. The safety properties are not
  so by themselves; what is added is what a lane may rely on wherever it stands
  (`LanesSound`): the job it executes is neither absent nor queued any more, so
  no claim can succeed; before its commit the job has neither a row nor a cached
  result; the row it is about to point at exists, and rows are never deleted. A
  poll between its two reads relies on results only being added
  (`RequestsSound`). `Exclusive`, `TimedOutJobsNeverRan`,
  `CompletedJobsHaveResults` and `TypeCorrect` follow. `OutcomeIsFinal` and
  `ImplementsLifecycleHolds` are proved step by step from the invariant.
* **ReviewQueue**, likewise, with any commits. `ReviewInvariant` is inductive
  because of what a lane knows from its claim to its commit (`LaneSound`): the job
  is neither absent nor queued, nobody else has written its review, so the commit
  writes the only one and overwrites whatever recovery made of the status; after
  the commit, while the comment is posted, the status is the one of the review.
  From it follow `JobsAgreeWithReviews`, `ReviewsAreSingle`, `ReusedReviewsFit`,
  `CommentsAreTrue`, `TimedOutUnclaimed`, `AnswersHaveReports`, and, step by step,
  that this queue too implements JobLifecycle (`ImplementsLifecycleHolds`).
* **DevcontainerVersions**: a number inserted but not committed is nobody
  else's and follows a committed one, because the unique index makes the second
  insert wait for, or fail on, the first. So committing extends 1..n
  (`VersionsAreNumbered`), in whichever order transactions end
  (`VersionsAreAudited`). With row level security, whoever cannot read version 1
  inserts 1 and meets the constraint, so all versions are of one organisation
  (`VersionsAreOfOne`). `GenerationsFailToRaces`: with or without it, a generation
  is refused only for a version committed since it looked or hidden from it.
* **AgentRuns**: an outcome is written once, by the only task of the run, so an
  answer that was true when it was read stays true while it travels
  (`ShownOutcomesHappened`).
* **ReviewPage**: a tracked job is awaited by its own loop
  (`TrackedJobsAreAwaited`), so a page that says completed shows a report or is
  fetching one (`CompletedPagesShowReports`).
* **Onboarding**, for any number of lanes, any files and whatever the analyzers
  find. `AllTabsOrNone` needs what a lane knows on its way to the commit
  (`TabsInvariant`): the stored row is whole or empty; a tab of the instance was
  written by the open transaction or is in the stored row, which never loses one;
  so that marking what is missing leaves no hole, and a transaction about to commit
  completes the row whatever has become of it (`AllTabsOrNoneHolds`). A
  rollback undoes all that was written, and a written tab is of the lane's
  clone or a failure. Hence `TabsAgreeOnTests`: where one lane wrote the whole row,
  two analyzers with rules of their own looked at one set of files, and are shown to
  agree on it, whatever it is; a failed tab says nothing.
* **The analyzers**, for any finite set of files. A report is a sum of rule
  scores and a sum of section confidences; a section that was found counts at
  least 25 hundredths, and an analyzer none of whose sections was found makes
  enough rules fire to leave the low band (`LowRisksAreEvidenced`).
* **The deep scan**, for any trees, answers, batch sizes and words. Edges join
  files of the tree, findings are of fetched files, the score counts the findings
  it was made of, and each stage leaves alone what the earlier ones made
  (`ScanInvariant`); so what is stored, together or not at all, tells of one scan
  (`TablesTellOneScan`).
* **The scan's score**, for any findings. The composite score is a weighted mean of
  six dimensions: four start at a full score to which their findings are added,
  down to a floor, and all are pulled to the middle as far as confidence lacks.
  Every detector and every rule of the reviewer makes findings that only take
  points, and a sum is monotone in its terms (`SumMonotone`), so without a finding
  no dimension loses (`ResolvingHurtsNobody`).
  That needs the counts of the scan, because the metadata enter the score: what was
  fetched, is in flight and waits in the queue is never more than what the scan
  attempts, which is no more than the tree has (`CountInvariant`), and the queue is
  a list of files of the tree although it is sorted by rank (`RanksFill`).
* **The critical path**, for any finite graph. The search runs a fixed number of
  turns, one for each edge and one more. `BreadthFirst` says of each turn that the
  queue is ordered by depth, spans two depths at most, and that whatever is near and
  not visited is in the queue or behind something in it. Each edge is queued once,
  so the turns run out after the queue does (`TurnsRunOut`), and what was visited is
  what two confirmed edges reach (`SearchReaches`, from which
  `CriticalPathIsReachable`). That the graph is that of the scanned files and finite
  is an invariant of its own (`GraphInvariant`, `GraphFinite`). `SetToSeq` may list
  the edges of a file in any order.
* **The index of modules**, for files in any order. Two folds, over the files and over
  the entries of each; a key tells the module path and the notation apart
  (`KeysDiffer`), only a file's own entry overwrites, so once it is there, or as soon
  as it comes, it stays (`OwnIsIndexed`). The whole path is the first suffix that
  the resolver tries (`ExactFinds`): `ExactImportsAreResolved`.
* **The reviewer's engine**, for any facts, scanners and number of changes.
  `EverySentenceTraced` compares the two functions that write the paragraphs and
  their trace; what the model is shown has the same critical and high findings.
  `ReasonsExplainVerdict` needs that scores are numbers, which takes the sums
  apart; `ReasonsComeWithFixes` needs how large they can be. A high or critical
  finding always yields a fix: `SevereHaveFixes`, where the CHOOSE of up to three
  rules has something to choose from (`SubsetOfSize`). Without one, five findings
  can charge security or testing, each alone in its rule, ten points at most and
  seven tenths of them counted; both scores are at least 79 (`MildPasses`), no
  gate is failed, and there is no reason either.
* **Operations**, for any number of workers and jobs and any thresholds, a
  positive one for heartbeats. A write that overtakes the one that says stopping
  may bring back "running", but never with a time at which its worker was gone
  already (`OpsInvariantHolds`); so a worker called fresh was there less than the
  threshold before the request (`FreshWorkersAreRecent`). The converse,
  `UnservedQueuesAreNoticed`: as long as no worker comes, a job that had waited
  when the guard ran is queued in every later reading of its table, or the guard
  failed it and gave the reason (`NoticedInvariantHolds`).
* **Rate limits**, for any finite number of calls, any limits, and windows of
  which the burst's is the shorter. What was let in up to a counted call's time is
  what it counted and what the calls under way have let in since, one each
  (`LimitInvariantHolds`); the last call let in therefore leaves no more than the
  limit and one for each other call (`LimitsHold`), although a later call may
  prune what an earlier one has yet to count.
* **Repair**, for any failures and any patches that change a line. What is true of
  a proposal when it is built is kept by the sorting, by decisions and by applying
  (`RepairInvariantHolds`): `AutoAppliedPatchesAreSafe`, `ConfidentProposalsAreEarned`.

Folds. The folds of the models are recursive functions on the subsets of a set.
That such a function exists, that the order in which a sum takes its terms does
not matter, that a sum is monotone, and that it is at most its number of terms
times their bound are lemmas (`FoldExists`, `SumTakesAny`, `SumMonotone`,
`SumBounded`), by induction on the size of the set; a fold over a list takes its
places in turn (`WalkSteps`). The library's induction theorems take a predicate as
parameter, which no installed prover can instantiate; `SetInduction` states the
same of a set of numbers and follows from the well-foundedness of < on the
naturals.

Assumptions on constants are named in the module that declares them and
evaluated by every run: besides those above, that the origins of a repository
are finite sets of files (`FilesAssumption`), that the value for a missing
section is no level (`AbsentAssumption`), that what is counted of a repository is
a number and what is listed ends (`FactsAssumption`), that failures are records
of failures and a patch changes a line (`RepairAssumption`), that a tree, a
directory and what is found in a file are lists and a path is not None
(`TreesAssumption`), that the model answers with a list (`AnswersAssumption`), and
that row level security binds the connection or does not (`RowSecurityAssumption`).

The conjuncts of `QueueInvariant` and `ReviewInvariant` (a result means an ended
job, an answer has its result, a cached row is an original, one review per job, a
reused review fits the commit) are checked through those two. The other inductive
invariants (`VersionsInvariant`, `RunsInvariant`, `PageInvariant`, `TabsInvariant`,
`ScanInvariant`, `CountInvariant`, `GraphInvariant`, `TypedReview` and those of
`ServicesProofs`) are proved, and the runs check the properties they imply.

Only model-checked:

* all liveness (`QueuedEnds`, `EveryJobEnds`, `PollingEnds`, `SubmissionEnds`):
  fairness and ENABLED are beyond this prover;
* `PracticePays` and `PracticeNeverHurts`: each practice turns several rules on
  and off at once, and the scores before and after are two different sums with
  caps and diminishing rates, which would have to be compared practice by practice.

The violations are counterexamples found by TLC.

## 6. Plan

Done, in this order: JobLifecycle, AtlasQueue, ReviewQueue,
DevcontainerVersions, AgentRuns and ReviewPage with proofs, the reviewer's
engine, the onboarding tabs with proofs, the deep scan from files to rows, the
repair engine, operations with proofs, the shared rate window; then the proofs of
the reviewer's engine, the analyzers, the scan's tables, repair and rate limits,
and of the scan's score, critical path and index.

What would come next: a proof that practices pay, term by term; the analysis page
with its limit of three minutes against the guard's 180 seconds.

Not modelled, and why:

* the analysis page: it polls as the review page does, which is modelled; its own
  hazards are listed (`analyze/page.tsx:33` and `:78`);
* the tier policy, a table of limits; the quota counters of `deps.py`, which no
  route uses; the claim enforcer and the onboarding plan, which rewrite or
  rearrange text; the synchronous assembler, which nothing calls;
* the in-memory rate limits: one list under one lock;
* RepoScout and route extraction: scores of search results and matching of text,
  without state;
* the file cache: readers treat what they cannot parse as missing;
* the builder of intelligence reports: no stored scan can be loaded for it;
* authentication and encryption, LLM calls and prompts,
  embeddings: external services and cryptography;
* rendering, and the copy of the reviewer under `src/Tools/`, of which the
  backend's is the one in use.
