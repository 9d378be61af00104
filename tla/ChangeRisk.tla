----------------------------- MODULE ChangeRisk -----------------------------
(* services/analyzers/change_risk_analyzer.py: how safe a repository is to   *)
(* change. Five detectors and a scorer, as in DebugReadiness, whose scoring  *)
(* of confidence it shares.                                                  *)
EXTENDS DebugReadiness

\* Hidden directories other than .venv and .git are walked.
ChangeWalk(repo) == {f \in repo : f.place \in {"root", "workflows", "src", "hidden"}}

\* Workflows that parse, and .gitlab-ci.yml; .gitlab-ci.yaml is never looked
\* at, as the loop over the two names stops after the first.
DetectCISignals(repo) ==
  LET workflows == {f \in repo : f.place = "workflows" /\ "parses" \in f.traits}
      gitlab    == {f \in AtRoot(repo, {".gitlab-ci.yml"}) : "parses" \in f.traits}
      signals   == (IF workflows # {} THEN {"github_actions_workflow"} ELSE {})
                     \cup (IF gitlab # {} THEN {"gitlab_ci_config"} ELSE {})
                     \cup Matches(workflows \cup gitlab, {"ci_test_gate"})
                     \cup Matches(workflows, {"ci_lint_gate"})
  IN  FoundIf(workflows \cup gitlab # {}, signals)

HasTestGate(ci) == "ci_test_gate" \in ci.signals

DetectTestGates(repo) ==
  LET config == AtRoot(repo, {"pytest.ini", "setup.cfg", "tox.ini", "pyproject.toml"}) # {}
      named  == Matches(repo, {"test_file_name"})
      deps   == Matches(AtRoot(repo, {"package.json"}),
                        {"jest", "vitest", "mocha", "jasmine", "@playwright/test"})
      cover  == AtRoot(repo, {"coverage.ini", ".coveragerc", "setup.cfg"}) # {}
  IN  FoundIf(config \/ named # {} \/ deps # {},
        (IF config THEN {"pytest_config"} ELSE named)
          \cup (IF cover THEN {"coverage_config"} ELSE {})
          \cup (IF deps # {} THEN {"package_json_test_dep"} ELSE {}))

\* Directories are found anywhere, as are the tests that mention migrations.
DetectMigrationRisk(repo) ==
  LET dirs == Matches(repo, {"migration_directory"})
  IN  FoundIf(dirs # {}, dirs \cup Matches({f \in repo : "test_file_name" \in f.traits},
                                           {"migration_test_file"}))

HasMigrationTests(migration) == "migration_test_file" \in migration.signals

DetectConfigRisk(repo) ==
  LET signals == Matches(ChangeWalk(repo), {"config_filename_pattern", "settings_class_or_env_load"})
  IN  FoundIf(signals # {}, signals)

\* One hotspot per path: authentication code, or else a file outside the tests
\* that registers routers twice or more.
Hotspots(repo) ==
  {f \in ChangeWalk(repo) :
     \/ "auth_pattern_detected" \in f.traits
     \/ "route_hub_detected" \in f.traits /\ "test_file_name" \notin f.traits}

DetectHotspots(repo) ==
  FoundIf(Hotspots(repo) # {},
          Matches(Hotspots(repo), {"auth_pattern_detected", "route_hub_detected"}))

ChangeEvidence(repo) == [ci             |-> DetectCISignals(repo),
                         test_gates     |-> DetectTestGates(repo),
                         migration_risk |-> DetectMigrationRisk(repo),
                         config_risk    |-> DetectConfigRisk(repo),
                         hotspots       |-> DetectHotspots(repo)]

\* Mutant of ChangeWeights: the two rules about CI in the wrong order.
WeightsSwapped == [no_ci |-> 20, ci_no_test_gate |-> 35, no_tests |-> 25,
                   migrations_without_tests |-> 15]

ChangeWeights == [no_ci |-> 35, ci_no_test_gate |-> 20, no_tests |-> 25,
                  migrations_without_tests |-> 15]

ChangeSection == [no_ci |-> "ci", ci_no_test_gate |-> "ci", no_tests |-> "test_gates",
                  migrations_without_tests |-> "migration_risk",
                  blast_radius_hotspots |-> "hotspots"]

\* The rules that apply to the evidence, by the section they are about.
ChangeRules(e) ==
  {r \in DOMAIN ChangeSection :
     \/ r = "no_ci" /\ ~Found(e.ci)
     \/ r = "ci_no_test_gate" /\ Found(e.ci) /\ ~HasTestGate(e.ci)
     \/ r = "no_tests" /\ ~Found(e.test_gates)
     \/ /\ r = "migrations_without_tests"
        /\ Found(e.migration_risk) /\ ~HasMigrationTests(e.migration_risk)
     \/ r = "blast_radius_hotspots" /\ Found(e.hotspots)}

ScoreChangeRisk(e, hotspots) ==
  LET rules == ChangeRules(e)
      W(r)  == Weighed(ChangeWeights, rules, r)
      score == Capped(W("no_ci") + W("ci_no_test_gate") + W("no_tests")
                        + W("migrations_without_tests") + Capped(5 * hotspots, 20), 100)
  IN  [scan_state |-> "found", score |-> score, level |-> Level(score, 25, 55),
       confidence |-> SectionConfidence(e),
       risks |-> {[category |-> ChangeSection[r], rule |-> r,
                   evidence |-> OrAbsence(e[ChangeSection[r]].signals, r)] : r \in rules}]

AnalyzeChangeRisk(repo) ==
  ScoreChangeRisk(ChangeEvidence(repo), Cardinality(Hotspots(repo)))
=============================================================================
