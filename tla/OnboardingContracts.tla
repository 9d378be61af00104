------------------------ MODULE OnboardingContracts ------------------------
(* What the three onboarding analyzers (services/analyzers) exchange: a      *)
(* cloned repository as they see it, and the records of services/contracts.  *)
(*                                                                           *)
(* A repository is a set of files. A file has a path, a place that the       *)
(* analyzers' walks keep or skip, and traits: the names of the detector rules*)
(* its name or content matches. What a regular expression or a parser looks  *)
(* at is left out; which rule looks at which files, and what follows from a  *)
(* match, is kept. Signals are named by their rule alone.                    *)
EXTENDS Integers, FiniteSets

CONSTANT Absent    \* Python's None

\* "root" is the top directory, "workflows" .github/workflows; "hidden" is any
\* other directory whose name starts with a dot, except .venv and .git, which
\* every walk skips, as it does "node_modules".
Places == {"root", "workflows", "src", "hidden", "venv", "node_modules"}

RepoFile == [path : STRING, place : Places, traits : SUBSET STRING]

\* The rules that some of these files match.
Matches(files, rules) == {r \in rules : \E f \in files : r \in f.traits}

AtRoot(repo, names) == {f \in repo : f.place = "root" /\ f.path \in names}

ScanStates == {"found", "not_found", "scan_failed"}
RiskLevels == {"low", "medium", "high"}

\* A level is None or a string.
ASSUME AbsentAssumption == Absent \notin RiskLevels

RiskItem == [category : STRING, rule : STRING, evidence : SUBSET STRING]

\* A detector's own section: its state and the signals it emitted.
Section == [scan_state : ScanStates, signals : SUBSET STRING]
FoundIf(found, signals) ==
  [scan_state |-> IF found THEN "found" ELSE "not_found", signals |-> signals]
Found(section) == section.scan_state = "found"

\* EvidenceSignal with source_file "<repo_root>": what was looked for in vain.
OrAbsence(signals, rule) == IF signals = {} THEN {rule} ELSE signals

\* The fields every scored report has; confidence is in hundredths.
Report == [scan_state : ScanStates,
           score      : {Absent} \cup 0..100,
           level      : {Absent} \cup RiskLevels,
           confidence : 0..100,
           risks      : SUBSET RiskItem]

\* The report of an analyzer, an assembler or a worker that gave up.
ScanFailed == [scan_state |-> "scan_failed", score |-> Absent, level |-> Absent,
               confidence |-> 0, risks |-> {}]

Capped(n, max) == IF n > max THEN max ELSE n
Level(score, medium, high) ==
  IF score >= high THEN "high" ELSE IF score >= medium THEN "medium" ELSE "low"

\* What a rule adds to a score if it applies.
Weighed(weights, rules, r) == IF r \in rules THEN weights[r] ELSE 0

Rules(report) == {r.rule : r \in report.risks}
=============================================================================
