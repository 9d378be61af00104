----------------------------- MODULE Scorecard -----------------------------
(* services/scorecard.py: the production score of a scan and its findings,    *)
(* and the confidence breakdown of schemas/intelligence.py. Rates are in      *)
(* thousandths, rounded where the code rounds.                                *)
EXTENDS CodeFindings

BASE_SCORE == 100
DIMENSION_FLOOR == 0
DIMENSION_WEIGHTS == [security |-> 30, performance |-> 15, reliability |-> 20,
                      maintainability |-> 15, test_coverage |-> 12, documentation |-> 8]
DIMENSIONS == DOMAIN DIMENSION_WEIGHTS

\* What is known of the scan as a whole.
ScanMetadata(total, scanned, failed) ==
  [total_files |-> total, files_scanned |-> scanned, files_failed |-> failed]

Share(part, whole) == Rate(Cardinality(part), Cardinality(whole))

ScoreTestCoverage(files) ==
  LET sources == {f \in files : f.language \in {"python", "typescript", "javascript"} /\ f.role # "config"}
      tests   == {f \in files : f.is_test}
      atLeast(percent) == 100 * Cardinality(tests) >= percent * Cardinality(sources)
  IN  CASE sources = {} -> 50
        [] tests = {}   -> 10
        [] OTHER        -> IF atLeast(40) THEN 95 ELSE IF atLeast(25) THEN 80
                           ELSE IF atLeast(10) THEN 60 ELSE 40

ScoreDocumentation(files) ==
  LET sources == {f \in files : f.role \notin {"test", "config", "migration", "infra", "unknown"}}
      readme  == \E f \in files : f.path = <<<<>>, "README", ".md">>
      score   == (80 * Cardinality({f \in sources : f.has_docstrings})) \div Cardinality(sources)
                 + IF readme THEN 20 ELSE 0
  IN  IF sources = {} THEN 50 ELSE IF score > 100 THEN 100 ELSE score

\* dead_code belongs to no dimension: its findings deduct from none.
DimensionOf(category) ==
  CASE category = "error_handling" -> "reliability"
    [] category = "type_safety"    -> "maintainability"
    [] OTHER                       -> category

InDimension(findings, dim) == {f \in findings : DimensionOf(f.category) = dim}

\* Mutant of RawScore: a dimension without findings is one nothing is known of.
RawScoreNeutral(findings, files, dim) ==
  LET score == FoldSet(LAMBDA f, sum : sum + f.score_impact, BASE_SCORE, InDimension(findings, dim))
  IN  CASE dim = "test_coverage" -> ScoreTestCoverage(files)
        [] dim = "documentation" -> ScoreDocumentation(files)
        [] OTHER -> IF InDimension(findings, dim) = {} THEN 50
                    ELSE IF score < DIMENSION_FLOOR THEN DIMENSION_FLOOR ELSE score

RawScore(findings, files, dim) ==
  LET score == FoldSet(LAMBDA f, sum : sum + f.score_impact, BASE_SCORE, InDimension(findings, dim))
  IN  CASE dim = "test_coverage" -> ScoreTestCoverage(files)
        [] dim = "documentation" -> ScoreDocumentation(files)
        [] OTHER                 -> IF score < DIMENSION_FLOOR THEN DIMENSION_FLOOR ELSE score

\* Coverage counts what was attempted and did not fail, quality the files that
\* were fetched; a bonus for what a complete repository has.
ComputeConfidence(meta, files) ==
  LET fetched  == {f \in files : f.confidence > 0}
      coverage == IF meta.files_scanned > meta.total_files THEN 1000
                  ELSE Rate(meta.files_scanned, meta.total_files)
      quality  == IF fetched = {} THEN 0
                  ELSE FoldSet(LAMBDA f, sum : sum + f.confidence, 0, fetched) \div Cardinality(fetched)
      bonus    == (IF \E f \in files : f.is_test THEN 40 ELSE 0)
                  + (IF \E f \in files : f.is_entrypoint THEN 40 ELSE 0)
                  + (IF \E f \in files : f.role = "config" THEN 20 ELSE 0)
      total    == (45 * coverage + 40 * quality + 50) \div 100 + bonus
  IN  IF meta.total_files = 0 THEN 0 ELSE IF total > 970 THEN 970 ELSE total

\* Less confidence, nearer to the neutral 50.
Adjusted(raw, confidence) == (raw * confidence + 50 * (1000 - confidence)) \div 1000

CompositeLabel(score) ==
  CASE score >= 90 -> "Production Ready"
    [] score >= 75 /\ score < 90 -> "Near Production Ready"
    [] score >= 60 /\ score < 75 -> "Needs Attention"
    [] score >= 40 /\ score < 60 -> "Significant Issues"
    [] score < 40  -> "Not Production Ready"

OfSeverity(findings, severity) == {f \in findings : f.severity = severity}

BuildScorecard(findings, files, meta) ==
  LET confidence == ComputeConfidence(meta, files)
      adjusted   == [d \in DIMENSIONS |-> Adjusted(RawScore(findings, files, d), confidence)]
      weighed    == FoldSet(LAMBDA d, sum : sum + adjusted[d] * DIMENSION_WEIGHTS[d], 0, DIMENSIONS)
      composite  == (weighed + 50) \div 100
  IN  [composite_score |-> composite, composite_label |-> CompositeLabel(composite),
       dimension_scores |-> adjusted, confidence |-> confidence,
       finding_counts |-> [d \in DIMENSIONS |-> Cardinality(InDimension(findings, d))],
       findings_by_severity |-> [s \in Severities |-> Cardinality(OfSeverity(findings, s))]]

Average(records) == FoldSet(LAMBDA r, sum : sum + r.confidence, 0, records) \div Cardinality(records)

\* ConfidenceBreakdown.compute
ConfidenceBreakdown(extraction, graph, finding) ==
  LET score == (40 * extraction + 35 * graph + 25 * finding + 50) \div 100
  IN  [extraction |-> extraction, graph |-> graph, finding |-> finding,
       score |-> IF score > 970 THEN 970 ELSE score]

\* compare_scores, of the scores before and after an optimization.
CompareScores(before, after) ==
  [composite_delta |-> after.composite_score - before.composite_score,
   dimension_deltas |-> [d \in {e \in DIMENSIONS : after.dimension_scores[e] # before.dimension_scores[e]} |->
                           after.dimension_scores[d] - before.dimension_scores[d]]]
=============================================================================
