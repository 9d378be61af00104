--------------------------- MODULE MCReviewEngine ---------------------------
(* Repositories for ReviewEngine, chosen at the edges of the rules.         *)
EXTENDS ReviewEngine

Size(other, src, tests, thin) ==
    [other |-> other, src |-> src, tests |-> tests, thin |-> thin]

Leaks == {Issue("s1", 1, "high", FALSE), Issue("s1", 2, "high", FALSE),
          Issue("s2", 1, "critical", FALSE)}
\* Two issues of a message bandit reports with different severities.
Holes == {Issue("b1", 1, "high", TRUE), Issue("b1", 2, "critical", TRUE),
          Issue("b2", 3, "high", TRUE)}
Smells == {Issue("b3", n, "low", FALSE) : n \in 1 .. 3}

\* A maintained Python service.
Sound == [readme |-> TRUE, license |-> TRUE, ci |-> "actions", tests |-> TRUE,
          linter |-> TRUE, formatter |-> TRUE, checker |-> TRUE,
          manifest |-> TRUE, lockfile |-> TRUE, pytest |-> TRUE,
          env |-> "documented", docker |-> "user", large |-> 0,
          coupled |-> FALSE, languages |-> {"Python"},
          size |-> Size(10, 25, 3, FALSE), lint |-> CleanLint, bandit |-> {},
          secrets |-> {}]

\* Nothing but code: every file is source.
Script == [Sound EXCEPT !.readme = FALSE, !.license = FALSE, !.ci = "none",
             !.tests = FALSE, !.linter = FALSE, !.formatter = FALSE,
             !.checker = FALSE, !.manifest = FALSE, !.lockfile = FALSE,
             !.pytest = FALSE, !.env = "unused", !.docker = "none",
             !.size = Size(0, 5, 0, FALSE)]

\* Presentable, with a thin test suite and nothing behind it.
Polished == [Script EXCEPT !.readme = TRUE, !.license = TRUE, !.tests = TRUE,
               !.manifest = TRUE, !.large = 2, !.size = Size(10, 25, 1, TRUE)]

\* Neglected, and full of severe issues.
Neglected == [Script EXCEPT !.manifest = TRUE, !.env = "undocumented",
                !.docker = "root", !.coupled = TRUE, !.large = 1,
                !.size = Size(10, 25, 1, FALSE), !.lint = Lint(40, 5, 1, 1),
                !.bandit = Holes, !.secrets = Leaks \ {Issue("s2", 1, "critical", FALSE)}]

EdgeRepos == {Sound, Script, Polished, Neglected}

EdgeValues ==
    [readme |-> BOOLEAN, license |-> BOOLEAN, ci |-> {"none", "actions", "other"},
     tests |-> BOOLEAN, linter |-> BOOLEAN, formatter |-> BOOLEAN,
     checker |-> BOOLEAN, lockfile |-> BOOLEAN,
     env |-> {"unused", "undocumented", "documented"},
     docker |-> {"none", "root", "user"}, large |-> {0, 1, 6},
     languages |-> {{}, {"Python"}, {"Go"}},
     lint |-> {CleanLint, Lint(15, 0, 0, 0), Lint(100, 5, 3, 2)},
     bandit |-> {{}, Smells, Holes, Holes \cup Smells,
                 {Issue("b1", 1, "high", TRUE)}},
     secrets |-> {{}, Leaks, {Issue("s1", 1, "high", FALSE)}}]
=============================================================================
