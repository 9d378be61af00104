--------------------------- MODULE DebugReadiness ---------------------------
(* services/analyzers/debug_readiness_analyzer.py: how hard a repository is  *)
(* to debug. Five detectors, each with a section of its own, and a scorer.   *)
EXTENDS OnboardingContracts

DebugWalk(repo) == {f \in repo : f.place \in {"root", "src"}}

\* A framework must be imported; print() alone is no structured logging.
DetectLogging(repo) ==
  LET signals == Matches(DebugWalk(repo), {"python_structlog", "python_loguru",
                   "python_stdlib_logging", "ts_pino", "ts_winston"})
  IN  FoundIf(signals # {}, signals)

DetectErrorHandling(repo) ==
  LET signals == Matches(DebugWalk(repo), {"fastapi_exception_handler",
                   "starlette_base_middleware", "fastapi_http_middleware"})
  IN  FoundIf(signals # {}, signals)

DetectHealthChecks(repo) ==
  LET signals == Matches(DebugWalk(repo), {"health_route_decorator", "health_route_express"})
  IN  FoundIf(signals # {}, signals)

DetectTracing(repo) ==
  LET signals == Matches(DebugWalk(repo), {"python_sentry_sdk", "python_opentelemetry",
                                           "ts_sentry", "ts_opentelemetry"})
  IN  FoundIf(signals # {}, signals)

\* Mutant of DetectTestHarness: Playwright's package name is not known.
HarnessWithoutPlaywright(repo) ==
  LET config == AtRoot(repo, {"pytest.ini", "setup.cfg", "tox.ini", "pyproject.toml"}) # {}
      found  == Matches(AtRoot(repo, {"package.json"}), {"jest", "vitest", "mocha", "jasmine"})
                  \cup Matches(DebugWalk(repo), {"pytest_import", "unittest_import", "vitest_import"})
                  \cup Matches(repo, {"test_file_name"})
  IN  FoundIf(config \/ found # {}, found)

\* Configuration at the root and the dependencies of package.json, imports in
\* the files walked, and test file names wherever they are, skipped or not.
DetectTestHarness(repo) ==
  LET config  == AtRoot(repo, {"pytest.ini", "setup.cfg", "tox.ini", "pyproject.toml"}) # {}
      deps    == Matches(AtRoot(repo, {"package.json"}),
                   {"jest", "vitest", "mocha", "jasmine", "@playwright/test", "playwright"})
      imports == Matches(DebugWalk(repo), {"pytest_import", "unittest_import", "vitest_import"})
      named   == Matches(repo, {"test_file_name"})
  IN  FoundIf(config \/ deps # {} \/ imports # {} \/ named # {},
        imports \cup (IF config THEN {"pytest_config_file"}
                      ELSE IF "pytest_import" \in imports THEN {} ELSE named)
                \cup (IF deps # {} THEN {"package_json_test_dep"} ELSE {}))

DebugEvidence(repo) == [logging        |-> DetectLogging(repo),
                        error_handling |-> DetectErrorHandling(repo),
                        health_checks  |-> DetectHealthChecks(repo),
                        tracing        |-> DetectTracing(repo),
                        test_harness   |-> DetectTestHarness(repo)]

DebugRule == [logging |-> "no_structured_logging", test_harness |-> "no_test_harness",
              error_handling |-> "no_error_handling", health_checks |-> "no_health_check",
              tracing |-> "no_tracing"]
DebugWeights == [no_structured_logging |-> 30, no_test_harness |-> 30,
                 no_error_handling |-> 20, no_health_check |-> 15, no_tracing |-> 5]

\* Each found section adds a fifth to a base of a fifth, each failed one costs
\* a tenth (in hundredths).
SectionConfidence(evidence) ==
  LET In(state) == Cardinality({s \in DOMAIN evidence : evidence[s].scan_state = state})
      raw       == Capped(20 * In("found") + 20, 100) - 10 * In("scan_failed")
  IN  IF raw < 0 THEN 0 ELSE raw

\* A section that is not found is a risk, with its signals or its absence as
\* the evidence.
ScoreDebugReadiness(e) ==
  LET lacking == {s \in DOMAIN e : ~Found(e[s])}
      W(r)    == Weighed(DebugWeights, {DebugRule[s] : s \in lacking}, r)
      score   == Capped(W("no_structured_logging") + W("no_test_harness") + W("no_error_handling")
                          + W("no_health_check") + W("no_tracing"), 100)
  IN  [scan_state |-> "found", score |-> score, level |-> Level(score, 25, 55),
       confidence |-> SectionConfidence(e),
       risks |-> {[category |-> s, rule |-> DebugRule[s],
                   evidence |-> OrAbsence(e[s].signals, DebugRule[s])] : s \in lacking}]

AnalyzeDebugReadiness(repo) == ScoreDebugReadiness(DebugEvidence(repo))
=============================================================================
