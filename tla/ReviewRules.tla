----------------------------- MODULE ReviewRules -----------------------------
(***************************************************************************)
(* The rules of the reviewer: what the collectors and adapters recorded of *)
(* a repository, and the findings each registered rule makes of it.        *)
(*                                                                         *)
(* A rule is a set of findings, empty when it does not apply or is         *)
(* satisfied.  The four rules that ask for a web framework are left out:   *)
(* no collector fills atlas_context.frameworks, so they never apply.       *)
(***************************************************************************)
EXTENDS Integers, FiniteSets

Domains == {"security", "reliability", "maintainability", "testing",
            "operational_readiness", "developer_experience"}

\* An issue of an adapter.  Issues at one place share the tool's rule code, the
\* file and the message; entry says that the file is an application entrypoint.
Issue(at, line, severity, entry) ==
    [at |-> at, line |-> line, severity |-> severity, entry |-> entry]

\* What ruff reports, as counts: annotation codes, and issues that count as
\* severe, altogether and in entrypoints.
Lint(issues, annotations, severe, entry) ==
    [issues |-> issues, annotations |-> annotations, severe |-> severe,
     entry |-> entry]
CleanLint == Lint(0, 0, 0, 0)

\* A finding, with what it takes off each score domain.  Findings with one key
\* are duplicates of each other.
Keyed(key, rule, category, severity, impact) ==
    [key |-> key, rule |-> rule, category |-> category, severity |-> severity,
     impact |-> impact]
Finding(rule, category, severity, impact) ==
    Keyed(<<rule>>, rule, category, severity, impact)

When(condition, finding) == IF condition THEN {finding} ELSE {}

Least(m, n) == IF m < n THEN m ELSE n
Most(m, n) == IF m > n THEN m ELSE n
Count(conditions) == Cardinality({c \in DOMAIN conditions : conditions[c]})

Python(f) == "Python" \in f.languages

\* Every file counts: source, what the facts stand for, and others.
TotalFiles(f) ==
    f.size.src + f.size.other
      + Count(<<f.readme, f.license, f.ci # "none", f.manifest, f.lockfile,
                f.env # "unused", f.docker # "none">>)

-----------------------------------------------------------------------------
(* Hygiene and tooling                                                     *)

ReadmeMissing(f) == When(~f.readme,
    Finding("HYGIENE-README-001", "hygiene", "medium",
            [developer_experience |-> 8, maintainability |-> 4]))

LicenseMissing(f) == When(~f.license,
    Finding("HYGIENE-LICENSE-001", "hygiene", "medium",
            [developer_experience |-> 5]))

CIMissing(f) == When(f.ci = "none",
    Finding("HYGIENE-CI-001", "hygiene", "high",
            [reliability |-> 12, operational_readiness |-> 10]))

LockfileMissing(f) == When(f.manifest /\ ~f.lockfile,
    Finding("DEPS-LOCKFILE-001", "dependencies", "high",
            [reliability |-> 8, security |-> 5]))

\* A path that contains .env makes the rule apply; an example satisfies it.
EnvExampleMissing(f) == When(f.env = "undocumented",
    Finding("OPS-ENV-001", "operational_readiness", "medium",
            [operational_readiness |-> 10, developer_experience |-> 5]))

\* min(-4 * n, -20) takes at least 20 off.
LargeFiles(f) == When(f.large > 0,
    Finding("HYGIENE-LARGE-FILES-001", "hygiene", "medium",
            [maintainability |-> Most(4 * f.large, 20)]))

FormatterMissing(f) == When(~f.formatter,
    Finding("DX-FORMAT-001", "developer_experience", "low",
            [developer_experience |-> 5]))

LinterMissing(f) == When(~f.linter,
    Finding("DX-LINT-001", "developer_experience", "medium",
            [developer_experience |-> 7, maintainability |-> 5]))

DockerfileRoot(f) == When(f.docker = "root",
    Finding("DOCKER-SEC-001", "security", "medium", [security |-> 8]))

-----------------------------------------------------------------------------
(* Tests and types                                                         *)

TestsMissing(f) == When(~f.tests,
    Finding("TESTING-001", "testing", "high",
            [testing |-> 25, reliability |-> 8]))

TestsPresentButNoCI(f) == When(f.tests /\ f.ci = "none",
    Finding("TEST-CI-001", "testing", "high",
            [testing |-> 15, reliability |-> 8]))

TestsLowRatio(f) == When(
    /\ f.tests /\ f.size.src >= 5 /\ f.size.tests > 0
    /\ 100 * f.size.tests < 12 * f.size.src,
    Finding("TESTING-RATIO-001", "testing", "medium",
            [testing |-> 8, reliability |-> 4]))

NoTestCIIntegration(f) == When(f.tests /\ f.ci = "other",
    Finding("TESTING-CI-DEPTH-001", "testing", "medium",
            [testing |-> 6, reliability |-> 3]))

PytestMissing(f) == When(Python(f) /\ ~f.pytest /\ ~f.tests,
    Finding("PY-TEST-001", "testing", "high", [testing |-> 20]))

MypyMissing(f) == When(Python(f) /\ ~f.checker,
    Finding("PY-TYPING-001", "type-safety", "medium",
            [maintainability |-> 8, reliability |-> 5]))

TypeConfigMissing(f) == When(Python(f) /\ f.size.src >= 8 /\ ~f.checker,
    Finding("PY-TYPECFG-001", "type-safety", "medium",
            [maintainability |-> 7, reliability |-> 4]))

NoTypeSignal(f, lint) == When(Python(f) /\ ~f.checker /\ lint.annotations >= 5,
    Finding("PY-TYPING-SIGNAL-001", "type-safety", "medium",
            [maintainability |-> 6, reliability |-> 4]))

-----------------------------------------------------------------------------
(* Architecture and presentation                                           *)

\* A long file named like a route, in a repository without router files.
RouteDbCoupling(f) == When(Python(f) /\ f.coupled,
    Finding("ARCH-BOUNDARY-001", "architecture", "medium",
            [maintainability |-> 8, reliability |-> 4]))

HardSignals(f) == Count(<<f.tests, f.ci # "none", f.checker, f.linter>>)

\* Mutant of Facade: it fires on the repositories that have hard signals.
FacadeReversed(f) == When(
    TotalFiles(f) >= 5 /\ f.readme /\ f.license /\ HardSignals(f) >= 2,
    Finding("GAMING-FACADE-001", "architecture", "medium",
            [reliability |-> 5, developer_experience |-> 5]))

Facade(f) == When(
    TotalFiles(f) >= 5 /\ f.readme /\ f.license /\ HardSignals(f) < 2,
    Finding("GAMING-FACADE-001", "architecture", "medium",
            [reliability |-> 5, developer_experience |-> 5]))

\* thin: at least half of the test files are shorter than fifteen lines.
HollowTestSuite(f) == When(
    /\ f.tests /\ f.size.src >= 4 /\ f.size.tests >= 1
    /\ 100 * f.size.tests < 8 * f.size.src
    /\ 100 * f.size.tests < 5 * f.size.src \/ f.size.thin,
    Finding("GAMING-TESTS-001", "testing", "medium",
            [testing |-> 10, reliability |-> 5]))

ReadmeWithoutSubstance(f) == When(
    /\ f.readme /\ TotalFiles(f) >= 5
    /\ Count(<<f.tests, f.ci # "none", f.linter, f.checker,
               f.env = "documented">>) < 2
    /\ Count(<<~f.tests, f.ci = "none", ~f.linter>>) >= 2,
    Finding("GAMING-README-001", "developer_experience", "low",
            [developer_experience |-> 4]))

Presentation == {"GAMING-FACADE-001", "GAMING-TESTS-001", "GAMING-README-001"}

-----------------------------------------------------------------------------
(* Findings of the adapters                                                *)

\* One finding for every secret gitleaks reports, high where it is not critical.
Secrets(secrets) ==
    LET rule == "SEC-SECRETS-SCAN-001"
    IN  {Keyed(<<rule, i.at>>, rule, "security",
               IF i.severity = "critical" THEN "critical" ELSE "high",
               [security |-> 20]) : i \in secrets}

Severe(issues) == {i \in issues : i.severity \in {"critical", "high"}}

\* Severe issues one by one, the others together once there are three.
Bandit(bandit) ==
    LET rule == "SEC-BANDIT-GROUPED-001"
        minor == Cardinality(bandit \ Severe(bandit))
    IN  {Keyed(<<rule, i.at>>, rule, "security", i.severity,
               [security |-> IF i.severity = "critical" THEN 12 ELSE 8]) :
            i \in Severe(bandit)}
        \cup When(minor >= 3,
                  Keyed(<<rule, "minor">>, rule, "security", "medium",
                        [security |-> Least(2 * minor, 10)]))

SecurityDensity(bandit, lint) == When(
    /\ Cardinality(Severe(bandit)) + lint.severe >= 3
    /\ Cardinality({i \in Severe(bandit) : i.entry}) + lint.entry >= 2,
    Finding("SEC-DENSITY-001", "security", "high",
            [security |-> 10, reliability |-> 5]))

LintDensity(lint) == When(lint.issues >= 15,
    Finding("PY-LINT-DENSITY-001", "maintainability",
            IF lint.issues >= 100 THEN "high"
              ELSE IF lint.issues >= 40 THEN "medium" ELSE "low",
            [maintainability |-> Least(lint.issues \div 10, 15),
             developer_experience |-> 5]))

-----------------------------------------------------------------------------

\* Every registered rule, run on the facts and on the issues the builder kept.
Execute(f, kept) ==
    UNION {ReadmeMissing(f), LicenseMissing(f), CIMissing(f), TestsMissing(f),
           LockfileMissing(f), EnvExampleMissing(f), LargeFiles(f),
           FormatterMissing(f), LinterMissing(f), TestsPresentButNoCI(f),
           TestsLowRatio(f), NoTestCIIntegration(f), MypyMissing(f),
           PytestMissing(f), TypeConfigMissing(f), RouteDbCoupling(f),
           Facade(f), HollowTestSuite(f), ReadmeWithoutSubstance(f),
           DockerfileRoot(f), Secrets(kept.secrets),
           SecurityDensity(kept.bandit, kept.lint), LintDensity(kept.lint),
           Bandit(kept.bandit), NoTypeSignal(f, kept.lint)}
=============================================================================
