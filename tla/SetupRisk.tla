------------------------------ MODULE SetupRisk ------------------------------
(* services/analyzers/setup_risk_analyzer.py: how hard a repository is to set *)
(* up. Three detectors return evidence, which is merged and then scored.      *)
EXTENDS OnboardingContracts

\* Directories with a dot and node_modules are skipped, venv is not.
SetupWalk(repo) == {f \in repo : f.place \in {"root", "src", "venv"}}

EnvRules == {"python_os_getenv", "python_os_environ_bracket", "ts_process_env"}

SetupEvidence == [missing_env_vars : SUBSET STRING, env_example_present : BOOLEAN,
                  likely_start_commands : SUBSET STRING,
                  required_services : SUBSET STRING,
                  detected_manifests : SUBSET STRING, signals : SUBSET STRING]

NoSetupEvidence == [missing_env_vars |-> {}, env_example_present |-> FALSE,
                    likely_start_commands |-> {}, required_services |-> {},
                    detected_manifests |-> {}, signals |-> {}]

\* A variable stands for the rule that found it. An example file documents
\* the variables, so none counts as missing.
DetectEnvVars(repo) ==
  LET refs    == Matches(SetupWalk(repo), EnvRules)
      example == AtRoot(repo, {".env.example"}) # {}
  IN  [NoSetupEvidence EXCEPT
         !.missing_env_vars    = IF example THEN {} ELSE refs,
         !.env_example_present = example,
         !.signals = refs \cup IF example THEN {"env_example_present"} ELSE {}]

\* package.json is a manifest only if it parses; requirements.txt suggests
\* uvicorn unless a command that mentions it was found before.
DetectStartCommands(repo) ==
  LET manifests == {f \in AtRoot(repo, {"package.json", "Makefile",
                                        "pyproject.toml", "requirements.txt"}) :
                      f.path = "package.json" => "parses" \in f.traits}
      direct    == Matches(manifests, {"npm_script", "makefile_target",
                                       "pyproject_uvicorn"})
      hints     == {r \in Matches(manifests, {"requirements_uvicorn_hint"}) :
                      "pyproject_uvicorn" \notin direct}
  IN  [NoSetupEvidence EXCEPT !.likely_start_commands = direct \cup hints,
                              !.detected_manifests = {f.path : f \in manifests},
                              !.signals = direct \cup hints]

ComposeFiles(repo) == AtRoot(repo, {"docker-compose.yml"})

DetectRequiredServices(repo) ==
  LET services == Matches(ComposeFiles(repo), {"docker_compose_service"})
  IN  [NoSetupEvidence EXCEPT !.required_services = services, !.signals = services]

\* A service whose name YAML does not read as a string cannot be sorted or
\* validated, outside the detector's try.
ServicesRaise(repo) == Matches(ComposeFiles(repo), {"service_name_not_a_string"}) # {}

MergeEvidence(bundles) ==
  [missing_env_vars      |-> UNION {b.missing_env_vars : b \in bundles},
   env_example_present   |-> \E b \in bundles : b.env_example_present,
   likely_start_commands |-> UNION {b.likely_start_commands : b \in bundles},
   required_services     |-> UNION {b.required_services : b \in bundles},
   detected_manifests    |-> UNION {b.detected_manifests : b \in bundles},
   signals               |-> UNION {b.signals : b \in bundles}]

SetupWeights == [missing_env_example |-> 65, no_start_commands |-> 20, no_manifests |-> 15]

\* Mutant of SetupRisks: a repository without a manifest is not a risk.
RisksOfManifests(e) ==
  { r \in { [category |-> "env_vars", rule |-> "missing_env_example",
             evidence |-> e.signals \cap EnvRules],
            [category |-> "start_commands", rule |-> "no_start_commands",
             evidence |-> {"no_start_commands"}] } :
      \/ r.rule = "missing_env_example" /\ e.missing_env_vars # {}
      \/ r.rule = "no_start_commands" /\ e.likely_start_commands = {} }

\* The risks of the evidence; the missing manifest is the one without evidence.
SetupRisks(e) ==
  { r \in { [category |-> "env_vars", rule |-> "missing_env_example",
             evidence |-> e.signals \cap EnvRules],
            [category |-> "start_commands", rule |-> "no_start_commands",
             evidence |-> {"no_start_commands"}],
            [category |-> "manifests", rule |-> "no_manifests", evidence |-> {}] } :
      \/ r.rule = "missing_env_example" /\ e.missing_env_vars # {} /\ ~e.env_example_present
      \/ r.rule = "no_start_commands" /\ e.likely_start_commands = {}
      \/ r.rule = "no_manifests" /\ e.detected_manifests = {} }

\* Score and confidence are computed independently of each other.
ScoreSetupRisk(e) ==
  LET risks   == SetupRisks(e)
      W(r)    == Weighed(SetupWeights, {k.rule : k \in risks}, r)
      score   == Capped(W("missing_env_example") + W("no_start_commands") + W("no_manifests"), 100)
      counted == Capped(25 * Cardinality(e.detected_manifests), 100)
  IN  [scan_state |-> "found", score |-> score, level |-> Level(score, 30, 60),
       confidence |-> IF e.signals # {} /\ counted < 40 THEN 40 ELSE counted,
       risks |-> risks]

AnalyzeSetupRisk(repo) ==
  IF ServicesRaise(repo) THEN ScanFailed
  ELSE ScoreSetupRisk(MergeEvidence({DetectEnvVars(repo), DetectStartCommands(repo),
                                     DetectRequiredServices(repo)}))
=============================================================================
