---------------------------- MODULE Intelligence ----------------------------
(* The deep analysis of one result: services/intelligence_pipeline.py runs    *)
(* the scanner, the reviewer and the scorecard, the worker stores what they   *)
(* found (intelligence_persistence.py) in a session of its own once the       *)
(* result is committed, and pages read it back (routes/intelligence.py).      *)
(*                                                                            *)
(* Files are fetched in batches and arrive in any order, or not at all. A     *)
(* stage may run into its time limit at any await, a scan may stop between    *)
(* batches, the database may refuse, and the worker may die.                  *)
EXTENDS Scorecard

CONSTANTS
    Trees,       \* the trees of repositories, each a sequence of files
    Answers,     \* what the language model may answer: sets of items
    BatchSize,
    MaxFiles

ASSUME BatchAssumption == /\ BatchSize \in Nat \ {0}
                          /\ MaxFiles \in Nat \ {0}

\* A tree is a list, and so are a directory and what a file contains; no path is None.
ASSUME TreesAssumption ==
  \A t \in Trees :
    /\ t \in Seq(Range(t))
    /\ \A f \in Range(t) : /\ PathOf(f) # Nowhere
                           /\ f.dir \in Seq(Range(f.dir))
                           /\ f.size \in Nat
                           /\ IsFiniteSet(f.matches)
                           /\ IsFiniteSet(f.imports) /\ \A s \in f.imports : IsFiniteSet(s.names)

\* The model answers with a list.
ASSUME AnswersAssumption == \A a \in Answers : IsFiniteSet(a)

VARIABLES
    tree,       \* the tree of the snapshot
    stage,      \* the stage of the run: scan, review, score, persist, done
    queue,      \* files that are still to be fetched, by priority
    batch,      \* files in flight
    files,      \* FileIntelligence in the order of arrival
    graph,      \* the graph, once the scan has ended
    findings,
    score,      \* a set that holds the scorecard, or nothing
    errors,     \* the stages that failed
    rows,       \* the five tables, of this result
    answer      \* what a page that asked was told last

scanVars == <<tree, stage, queue, batch, files, graph, findings, score, errors, rows, answer>>

NoGraph == [edges |-> {}, graph_confidence |-> 0, critical |-> {}]
NoRows == [files |-> {}, edges |-> {}, findings |-> {}, score |-> {}]

Scanned == Range(files)
Attempted == Chosen(tree, MaxFiles)

\* files_scanned is what was attempted and did not fail: a scan that stopped
\* early counts the files it never asked for.
Metadata ==
  LET failed == Cardinality({f \in Scanned : ~f.fetched})
  IN  ScanMetadata(Len(tree), Attempted - failed, failed)

\* Without findings their confidence is full, whether or not they were sought.
Breakdown ==
  IF "deep_scan" \in errors THEN ConfidenceBreakdown(0, 0, 0)
  ELSE ConfidenceBreakdown(IF files = <<>> THEN 0 ELSE Average(Scanned), graph.graph_confidence,
                           IF findings = {} THEN 1000 ELSE Average(findings))

\* Matches in the files that were fetched and are not empty.
Content == LET fetched == {f \in Range(tree) : /\ "empty" \notin f.traits
                                               /\ \E g \in Scanned : g.path = PathOf(f) /\ g.fetched}
           IN  [p \in {PathOf(f) : f \in fetched} |-> (CHOOSE f \in fetched : PathOf(f) = p).matches]

ScanInit == /\ tree \in Trees
            /\ stage = "scan"
            /\ queue = PrioritizeFiles(tree, MaxFiles)
            /\ batch = {}
            /\ files = <<>>
            /\ graph = NoGraph
            /\ findings = {}
            /\ score = {}
            /\ errors = {}
            /\ rows = NoRows
            /\ answer = "none"

StartBatch == /\ stage = "scan"
              /\ batch = {}
              /\ queue # <<>>
              /\ LET n == IF Len(queue) < BatchSize THEN Len(queue) ELSE BatchSize
                 IN  /\ batch' = Range(SubSeq(queue, 1, n))
                     /\ queue' = SubSeq(queue, n + 1, Len(queue))
              /\ UNCHANGED <<tree, stage, files, graph, findings, score, errors, rows, answer>>

\* fetch_batch yields a file as soon as it is there, or has failed.
Arrive(f) == /\ f \in batch
             /\ batch' = batch \ {f}
             /\ \E record \in {FileIntelligence(f), NotFetched(f)} : files' = Append(files, record)
             /\ UNCHANGED <<tree, stage, queue, graph, findings, score, errors, rows, answer>>

\* Between batches the scan may find that it is out of time or bytes.
StopEarly == /\ stage = "scan"
             /\ batch = {}
             /\ files # <<>>
             /\ queue # <<>>
             /\ queue' = <<>>
             /\ UNCHANGED <<tree, stage, batch, files, graph, findings, score, errors, rows, answer>>

FinishScan == /\ stage = "scan"
              /\ batch = {}
              /\ queue = <<>>
              /\ graph' = Graph(files)
              /\ stage' = "review"
              /\ UNCHANGED <<tree, queue, batch, files, findings, score, errors, rows, answer>>

\* A scan that runs into the pipeline's limit, or raises, leaves nothing.
ScanFails == /\ stage = "scan"
             /\ errors' = errors \cup {"deep_scan"}
             /\ queue' = <<>>
             /\ batch' = {}
             /\ files' = <<>>
             /\ stage' = "persist"
             /\ UNCHANGED <<tree, graph, findings, score, rows, answer>>

\* review_repo, with any answer of the model for each file it is asked about.
Review == /\ stage = "review"
          /\ LET asked == {f.path : f \in {g \in Scanned : ShouldInvokeLLM(g, graph)}}
             IN  \E said \in [asked -> Answers] :
                   findings' = ReviewRepo(files, graph, Content,
                                 [p \in {f.path : f \in Scanned} |-> IF p \in asked THEN said[p] ELSE {}])
          /\ stage' = "score"
          /\ UNCHANGED <<tree, queue, batch, files, graph, score, errors, rows, answer>>

ReviewFails == /\ stage = "review"
               /\ errors' = errors \cup {"review"}
               /\ stage' = "score"
               /\ UNCHANGED <<tree, queue, batch, files, graph, findings, score, rows, answer>>

Score == /\ stage = "score"
         /\ score' = {BuildScorecard(findings, Scanned, Metadata)}
         /\ stage' = "persist"
         /\ UNCHANGED <<tree, queue, batch, files, graph, findings, errors, rows, answer>>

ScoreFails == /\ stage = "score"
              /\ errors' = errors \cup {"scorecard"}
              /\ stage' = "persist"
              /\ UNCHANGED <<tree, queue, batch, files, graph, findings, score, rows, answer>>

\* Mutant of RowsOf: edges that lead nowhere are not worth a row.
RowsOfConfirmed ==
  [files    |-> {[file |-> f, critical |-> f.path \in graph.critical] : f \in Scanned},
   edges    |-> Confirmed(graph.edges),
   findings |-> findings,
   score    |-> {[scorecard |-> s, confidence |-> Breakdown,
                  confirmed_edge_count  |-> Cardinality(Confirmed(graph.edges)),
                  unresolved_edge_count |-> Cardinality(Unresolved(graph.edges))] : s \in score}]

\* The rows of a run.
RowsOf ==
  [files    |-> {[file |-> f, critical |-> f.path \in graph.critical] : f \in Scanned},
   edges    |-> graph.edges,
   findings |-> findings,
   score    |-> {[scorecard |-> s, confidence |-> Breakdown,
                  confirmed_edge_count  |-> Cardinality(Confirmed(graph.edges)),
                  unresolved_edge_count |-> Cardinality(Unresolved(graph.edges))] : s \in score}]

\* One transaction; an error rolls it back and is logged, nothing else.
Persist == /\ stage = "persist"
           /\ rows' \in {RowsOf, rows}
           /\ stage' = "done"
           /\ UNCHANGED <<tree, queue, batch, files, graph, findings, score, errors, answer>>

\* The worker dies, and nobody runs the rest.
WorkerDies == /\ stage # "done"
              /\ stage' = "done"
              /\ queue' = <<>>
              /\ batch' = {}
              /\ UNCHANGED <<tree, files, graph, findings, score, errors, rows, answer>>

\* The fields load_intelligence gives the records it rebuilds, and those that
\* have no default.
Given == [ScanMetadata     |-> {"total_files", "files_scanned", "parse_success_rate",
                                "languages_detected", "scan_duration_seconds"},
          RepoIntelligence |-> {"repo_url", "repo_owner", "repo_name"}]
Required == [ScanMetadata     |-> {"total_files", "files_scanned", "files_skipped", "files_failed",
                                   "parse_success_rate", "scan_duration_seconds"},
             RepoIntelligence |-> {"repo_url", "repo_owner", "repo_name", "default_branch"}]
Rebuilds == \A record \in DOMAIN Required : Required[record] \subseteq Given[record]

\* A page asks; a ValueError becomes a 404, and pydantic's error is one.
Read == /\ answer' = CASE rows.files = {}                 -> "no_data"
                       [] rows.files # {} /\ Rebuilds     -> "report"
                       [] rows.files # {} /\ ~Rebuilds    -> "refused"
        /\ UNCHANGED <<tree, stage, queue, batch, files, graph, findings, score, errors, rows>>

ScanNext == \/ StartBatch \/ (\E f \in batch : Arrive(f)) \/ StopEarly \/ FinishScan \/ ScanFails
            \/ Review \/ ReviewFails \/ Score \/ ScoreFails \/ Persist \/ WorkerDies \/ Read

ScanSpec == ScanInit /\ [][ScanNext]_scanVars

(***************************************************************************)
(* Properties                                                              *)
(***************************************************************************)

GraphBuilt == stage \notin {"scan", "done"} /\ "deep_scan" \notin errors

ModulePath(f) == f.path[1] \o <<f.path[2]>>

\* An import that spells out the module path of a scanned file leads to that
\* file, whatever order the files arrived in and whichever of their suffixes
\* collide (except for a file of the same path in another language).
ExactImportsResolve ==
  GraphBuilt =>
    \A f, g \in Scanned : \A i \in f.imports :
      ( /\ i.form = "python" /\ i.dots = 0 /\ i.parts = ModulePath(g)
        /\ g.language = "python" /\ f # g
        /\ \A h \in Scanned \ {g} : ModulePath(h) # ModulePath(g) )
      => Edge(f, i, g.path, Nowhere) \in graph.edges

\* The critical path is exactly what at most two confirmed edges reach from an
\* entrypoint: the search for it misses no file for the order it goes in.
CriticalIsReachable ==
  GraphBuilt =>
    LET start == {f.path : f \in {g \in Scanned : g.is_entrypoint}}
        once  == UNION {Downstream(graph.edges, p) : p \in start}
        twice == UNION {Downstream(graph.edges, p) : p \in once}
    IN  graph.critical = start \cup once \cup twice

\* The tables hold one whole scan or nothing: every edge and finding belongs to
\* a file that is there, findings only to files that were fetched, and the
\* counts of the score are those of the rows.
RowsTellOneScan ==
  LET paths == {r.file.path : r \in rows.files}
  IN  /\ rows.files = {} => rows.edges = {} /\ rows.findings = {}
      /\ \A e \in rows.edges : {e.source_path, e.target_path} \subseteq paths \cup {Nowhere}
      /\ \A f \in rows.findings : \E r \in rows.files : r.file.fetched /\ r.file.path = f.file_path
      /\ \A s \in rows.score :
           /\ s.confirmed_edge_count = Cardinality(Confirmed(rows.edges))
           /\ s.unresolved_edge_count = Cardinality(Unresolved(rows.edges))
           /\ \A sev \in Severities :
                s.scorecard.findings_by_severity[sev] = Cardinality(OfSeverity(rows.findings, sev))

\* Resolving a finding never costs points: the composite score of a scan
\* without it is at least as high.
ResolvingNeverHurts ==
  score # {} =>
    \A f \in findings :
      CompareScores(BuildScorecard(findings, Scanned, Metadata),
                    BuildScorecard(findings \ {f}, Scanned, Metadata)).composite_delta >= 0
=============================================================================
