---------------------------- MODULE ReviewEngine ----------------------------
(***************************************************************************)
(* The reviewer as it judges one repository over time: commits change what *)
(* the collectors find, scanners come and go, and every such change is     *)
(* followed by a review, which runs the rules, removes duplicates, scores, *)
(* and writes the verdict, its reasons, the summary sentences and the      *)
(* trace that has to account for every sentence.                           *)
(*                                                                         *)
(* Penalties are kept in units of 1/200 point (severity weights in tenths, *)
(* diminishing returns in twentieths), so that int() is \div.  The code    *)
(* adds doubles: a sum of fractions that is a whole number can fall just   *)
(* short of it and leave a domain one point higher than here.              *)
(***************************************************************************)
EXTENDS ReviewRules, FiniteSetsExt, SequencesExt

CONSTANTS
    Repos,          \* facts of the repositories before the first commit
    Values,         \* values a commit can give each field of the facts
    MaxChanges      \* bound: commits and changes of the scanners together

\* What is counted of a repository is a number, and what is listed ends.
IsFact(field, value) ==
    /\ field = "large" => value \in Nat
    /\ field = "lint" =>
         value \in [issues : Nat, annotations : Nat, severe : Nat, entry : Nat]
    /\ field \in {"bandit", "secrets"} => IsFiniteSet(value)
IsFacts(f) == /\ {"large", "lint", "bandit", "secrets"} \subseteq DOMAIN f
              /\ \A field \in DOMAIN f : IsFact(field, f[field])

ASSUME FactsAssumption ==
    /\ \A f \in Repos : IsFacts(f)
    /\ \A field \in DOMAIN Values : \A value \in Values[field] : IsFact(field, value)

VARIABLES
    facts,          \* RepoFacts, and what each scanner would find
    tools,          \* what became of each adapter: absent, success or failed
    report,         \* the report on these facts
    changes

vars == <<facts, tools, report, changes>>

-----------------------------------------------------------------------------
(* Adapters, depth and confidence                                          *)

Scanners == [ruff |-> "lint", bandit |-> "security", gitleaks |-> "secrets",
             pip_audit |-> "dependency", secret_patterns |-> "secrets"]
ForPython == {"ruff", "bandit", "pip_audit"}

\* The adapters with an entry in the results: available here, and made for a
\* language of the repository.  The built-in secret scan always is.
Ran(f, t) == {a \in DOMAIN Scanners :
                /\ t[a] # "absent"
                /\ a \in ForPython => Python(f)}
Succeeded(f, t) == {a \in Ran(f, t) : t[a] = "success"}

\* The builder keeps the issues of three scanners.
Kept(f, t) ==
    [lint |-> IF "ruff" \in Succeeded(f, t) THEN f.lint ELSE CleanLint,
     bandit |-> IF "bandit" \in Succeeded(f, t) THEN f.bandit ELSE {},
     secrets |-> IF "gitleaks" \in Succeeded(f, t) THEN f.secrets ELSE {}]

Depth(succeeded) ==
    LET has == {Scanners[a] : a \in succeeded}
    IN  IF has \cap {"lint", "security", "secrets"} # {} /\ "dependency" \in has
          THEN "full_toolchain"
        ELSE IF has \cap {"security", "secrets"} # {} THEN "security_augmented"
        ELSE IF "lint" \in has THEN "lint_augmented"
        ELSE "structural_only"

\* The badge is worth at least n quarters: it adds the shares of files that are
\* source, of languages that have rules and of adapters that succeeded, and
\* nothing for frameworks, which are never detected.
ConfidenceReaches(n, f, t) ==
    LET known == f.languages \cap {"Python", "TypeScript", "JavaScript"}
        total == Most(TotalFiles(f), 1)
        files == Least(f.size.src, total)
        ruled == IF f.languages = {} THEN 3 ELSE Cardinality(known)
        all == IF f.languages = {} THEN 10 ELSE Cardinality(f.languages)
        ran == Cardinality(Ran(f, t))
        good == Cardinality(Succeeded(f, t))
    IN  files * all * ran + ruled * total * ran + good * total * all
          >= n * total * all * ran

Confidence(f, t) ==
    IF ConfidenceReaches(3, f, t) THEN "High"
    ELSE IF ConfidenceReaches(2, f, t) THEN "Medium" ELSE "Low"

-----------------------------------------------------------------------------
(* Scores                                                                  *)

Rank == [critical |-> 1, high |-> 2, medium |-> 3, low |-> 4]

\* The first finding of a key stays unless a later one is more severe.
Deduplicate(findings) ==
    LET worst(k) == CHOOSE g \in findings :
                      /\ g.key = k
                      /\ \A h \in findings : h.key = k =>
                            Rank[g.severity] <= Rank[h.severity]
    IN  {worst(g.key) : g \in findings}

Weight == [critical |-> 15, high |-> 10, medium |-> 7, low |-> 4]
Share(i) == <<20, 10, 5, 2>>[Least(i, 4)]
Points(n) == 200 * n

Charged(findings, domain) == {g \in findings : domain \in DOMAIN g.impact}
Charge(g, domain) == g.impact[domain] * Weight[g.severity]

\* The findings of one rule, heaviest first, at diminishing rates; one rule
\* takes at most twenty points.
Cluster(findings, domain) ==
    LET atLeast(c) == Cardinality({g \in findings : Charge(g, domain) >= c})
        above(c) == Cardinality({g \in findings : Charge(g, domain) > c})
        sum == MapThenSumSet(
                 LAMBDA c : c * MapThenSumSet(Share, (above(c) + 1) .. atLeast(c)),
                 {Charge(g, domain) : g \in findings})
    IN  Least(sum, Points(20))

Penalty(findings, domain) ==
    LET charged == Charged(findings, domain)
    IN  MapThenSumSet(LAMBDA r : Cluster({g \in charged : g.rule = r}, domain),
                      {g.rule : g \in charged})

\* What a domain without any finding can reach, by depth.
Caps(depth) ==
    CASE depth = "structural_only" ->
           [testing |-> 85, maintainability |-> 85, reliability |-> 88,
            security |-> 90]
      [] depth = "lint_augmented" ->
           [testing |-> 92, maintainability |-> 92, reliability |-> 93,
            security |-> 88]
      [] depth = "security_augmented" ->
           [testing |-> 93, maintainability |-> 94, reliability |-> 94,
            security |-> 97]
      [] OTHER -> [none |-> 100]

Score(findings, depth, domain) ==
    LET raw == Most(0, 100 - Least(Penalty(findings, domain), Points(100)) \div 200)
        measured == \E g \in findings :
                      domain = g.category \/ domain \in DOMAIN g.impact
    IN  IF domain \in DOMAIN Caps(depth) /\ ~measured
          THEN Least(raw, Caps(depth)[domain]) ELSE raw

Scorecard(findings, depth) == [d \in Domains |-> Score(findings, depth, d)]

Overall(s) ==
    (20 * (s.security + s.reliability + s.maintainability)
       + 15 * (s.testing + s.operational_readiness)
       + 10 * s.developer_experience) \div 100

Band(overall) ==
    IF overall >= 90 THEN "Strong" ELSE IF overall >= 75 THEN "Solid"
    ELSE IF overall >= 60 THEN "Mixed" ELSE IF overall >= 40 THEN "Weak"
    ELSE "Critical concerns"

Suitable(s) ==
    /\ Band(Overall(s)) \in {"Strong", "Solid"}
    /\ s.security >= 65 /\ s.testing >= 50

-----------------------------------------------------------------------------
(* The verdict's reasons, and what would change it                         *)

OfSeverity(findings, severity) == {g \in findings : g.severity = severity}
HasRule(findings, rule) == \E g \in findings : g.rule = rule

\* Mutant of WhyNot: the security threshold has drifted from the verdict's.
WhyNotDrifted(s, findings) ==
    {<<"security">> : d \in {"security"} \cap {e \in Domains : s[e] < 60}}
    \cup {<<"critical", k>> : k \in {g.key : g \in OfSeverity(findings, "critical")}}

\* Two critical findings at most are named, and three reasons given.
WhyNot(s, findings) ==
    LET gates == (IF s.security < 65 THEN {<<"security">>} ELSE {})
                 \cup (IF s.testing < 50 THEN {<<"testing">>} ELSE {})
        critical == {g.key : g \in OfSeverity(findings, "critical")}
        named == CHOOSE some \in SUBSET critical :
                    Cardinality(some) = Least(Least(2, 3 - Cardinality(gates)),
                                              Cardinality(critical))
    IN  gates \cup {<<"critical", k>> : k \in named}

\* Mutant of Flips: only critical findings have fixes worth proposing.
FlipsCriticalOnly(s, findings) ==
    {g.rule : g \in OfSeverity(findings, "critical")}

\* The rules whose fixes are proposed: of a critical finding, of the high one
\* that costs most security, of missing tests or their missing CI, and of other
\* high findings as long as there are fewer than three.
Flips(s, findings) ==
    LET high == OfSeverity(findings, "high")
        costly == IF s.security < 65 THEN Charged(high, "security") ELSE {}
        one(S) == IF S = {} THEN {} ELSE {(CHOOSE g \in S : TRUE).rule}
        lead == one(OfSeverity(findings, "critical"))
                \cup one({g \in costly : \A h \in costly :
                            h.impact.security <= g.impact.security})
                \cup (IF s.testing >= 50 THEN {}
                      ELSE IF HasRule(findings, "TESTING-001") THEN {"TESTING-001"}
                      ELSE {"TEST-CI-001"} \cap {g.rule : g \in findings})
        others == {g.rule : g \in high} \ lead
    IN  lead \cup (CHOOSE some \in SUBSET others :
                      Cardinality(some) =
                        Least(3 - Cardinality(lead), Cardinality(others)))

AntiGaming(findings) ==
    LET polish == Cardinality({g \in findings : g.rule \in Presentation})
        hard == Cardinality({g \in findings : g.rule \notin Presentation
                                /\ g.severity \in {"critical", "high"}})
    IN  IF polish = 0 /\ hard <= 1 THEN "likely_honest"
        ELSE IF polish >= 2 THEN "surface_polish" ELSE "inconclusive"

-----------------------------------------------------------------------------
(* Summary sentences, and the trace built beside them.  A sentence is the  *)
(* tuple of its wording and the words filled in.                           *)

\* The order of the scorecard, in which domains are listed.
Listed == <<"security", "testing", "maintainability", "reliability",
            "operational_readiness", "developer_experience">>
FirstOf(n, domains) == SubSeq(domains, 1, Least(n, Len(domains)))
Weak(s) == SelectSeq(Listed, LAMBDA d : s[d] < 55)
Strong(s) == SelectSeq(Listed, LAMBDA d : s[d] >= 75)

Qualifier(label) ==
    CASE label = "High" -> "demonstrates"
      [] label = "Medium" -> "shows signals of"
      [] OTHER -> "shows structural signals of"

Categories(findings) == {g.category : g \in findings}

\* What the model would be shown: nothing below medium severity.
Shown(findings) == {g \in findings : g.severity # "low"}

\* The developer paragraph, of the findings it is written from.
Developer(s, findings) ==
    LET critical == OfSeverity(findings, "critical")
        high == OfSeverity(findings, "high")
    IN  {IF critical # {} THEN <<"critical findings", Cardinality(critical)>>
         ELSE IF high # {}
           THEN <<"high findings", Cardinality(high), Categories(high)>>
         ELSE <<"no critical issues", Band(Overall(s))>>}
        \cup (IF s.testing < 50 THEN {<<"testing insufficient">>}
              ELSE IF s.security < 65 THEN {<<"security needs attention">>}
              ELSE {})

GapLimits == [testing |-> 50, security |-> 65, reliability |-> 65]
Gaps(s) == {d \in DOMAIN GapLimits : s[d] < GapLimits[d]}

Manager(s) ==
    IF Suitable(s)
      THEN {<<"manageable debt", Band(Overall(s))>>, <<"no blockers">>}
      ELSE {<<"is", Band(Overall(s))>>, <<"hardening sprint">>}
           \cup (IF Gaps(s) = {} THEN {} ELSE {<<"delivery risk", Gaps(s)>>})

Hiring(s, label, ran) ==
    IF Weak(s) # <<>>
      THEN {<<"lacks discipline", Qualifier(label), FirstOf(2, Weak(s))>>}
           \cup (IF s.testing < 40 THEN {<<"absence of testing">>} ELSE {})
    ELSE IF label = "Low"
      THEN {<<"basic hygiene">>}
           \cup (IF ran THEN {} ELSE {<<"no static analysis">>})
    ELSE {<<"solid discipline", Qualifier(label), FirstOf(3, Strong(s))>>}

\* Mutant of TracedManager: the thresholds of the trace have drifted.
TracedManagerDrifted(s) ==
    LET gaps == {d \in DOMAIN GapLimits : s[d] < 60}
    IN  {<<"is", Band(Overall(s))>>, <<"hardening sprint">>,
         <<"manageable debt", Band(Overall(s))>>, <<"no blockers">>}
        \cup {<<"delivery risk", g>> : g \in {gaps} \ {{}}}

\* The trace states its own conditions: the verdict and the gaps are traced
\* whether or not the paragraph mentions them.
TracedManager(s) ==
    {<<"is", Band(Overall(s))>>}
    \cup (IF Gaps(s) = {} THEN {} ELSE {<<"delivery risk", Gaps(s)>>})
    \cup (IF Suitable(s)
            THEN {<<"manageable debt", Band(Overall(s))>>, <<"no blockers">>}
            ELSE {<<"hardening sprint">>})

TracedHiring(s, label, ran) ==
    (IF Weak(s) # <<>>
       THEN {<<"lacks discipline", Qualifier(label), FirstOf(2, Weak(s))>>}
     ELSE IF label = "Low"
       THEN {<<"basic hygiene">>}
            \cup (IF ran THEN {} ELSE {<<"no static analysis">>})
     ELSE {<<"solid discipline", Qualifier(label), FirstOf(3, Strong(s))>>})
    \cup (IF s.testing < 40 THEN {<<"absence of testing">>} ELSE {})

\* The paragraphs are written from what the model is shown, the trace from all
\* findings.
Said(s, findings, label, ran) ==
    Developer(s, Shown(findings)) \cup Manager(s) \cup Hiring(s, label, ran)
Traced(s, findings, label, ran) ==
    Developer(s, findings) \cup TracedManager(s) \cup TracedHiring(s, label, ran)

-----------------------------------------------------------------------------
(* Reviews of a changing repository                                        *)

Review(f, t) ==
    LET findings == Deduplicate(Execute(f, Kept(f, t)))
        depth == Depth(Succeeded(f, t))
        label == Confidence(f, t)
        ran == Succeeded(f, t) # {}
        s == Scorecard(findings, depth)
    IN  [findings |-> findings, depth |-> depth, label |-> label, scores |-> s,
         overall |-> Overall(s), suitable |-> Suitable(s),
         reasons |-> WhyNot(s, findings), fixes |-> Flips(s, findings),
         gaming |-> AntiGaming(findings),
         said |-> Said(s, findings, label, ran),
         traced |-> Traced(s, findings, label, ran)]

Init ==
    /\ facts \in Repos
    /\ \E outcome \in {"absent", "success", "failed"} :
         tools = [a \in DOMAIN Scanners |->
                    IF a = "secret_patterns" THEN "success" ELSE outcome]
    /\ report = Review(facts, tools)
    /\ changes = 0

\* A commit changes one of the facts, and is reviewed.
Commit ==
    /\ changes < MaxChanges
    /\ \E field \in DOMAIN Values : \E value \in Values[field] :
         /\ value # facts[field]
         /\ facts' = [facts EXCEPT ![field] = value]
    /\ report' = Review(facts', tools)
    /\ changes' = changes + 1
    /\ UNCHANGED tools

\* A scanner is installed, is missing or fails in the next review.
Rescan ==
    /\ changes < MaxChanges
    /\ \E a \in DOMAIN Scanners : \E outcome \in {"absent", "success", "failed"} :
         /\ a # "secret_patterns" /\ outcome # tools[a]
         /\ tools' = [tools EXCEPT ![a] = outcome]
    /\ report' = Review(facts, tools')
    /\ changes' = changes + 1
    /\ UNCHANGED facts

Next == Commit \/ Rescan

Spec == Init /\ [][Next]_vars

-----------------------------------------------------------------------------
(* Properties                                                              *)

\* Every sentence of a summary has an entry in its trace, although the two are
\* built by two functions with conditions and thresholds of their own.
SentencesTraced == report.said \subseteq report.traced

\* The reasons explain the verdict: they are derived with thresholds of their
\* own, yet a repository whose band is good enough and that is turned down is
\* given one, and a gate is named only to a repository that failed it.
ReasonsMatchVerdict ==
    /\ ~report.suitable /\ Band(report.overall) \in {"Strong", "Solid"} =>
          report.reasons # {}
    /\ report.suitable => \A r \in report.reasons : r[1] = "critical"

\* Whoever is given a reason is told of something to do about it.
ReasonsHaveFixes == report.reasons # {} => report.fixes # {}

\* An engineering practice that was missing is adopted, or an issue is gone.
Adopted(f, g) ==
    \/ \E k \in {"linter", "formatter", "checker", "lockfile"} :
         ~f[k] /\ g = [f EXCEPT ![k] = TRUE]
    \/ f.ci = "none" /\ g = [f EXCEPT !.ci = g.ci]
    \/ f.env = "undocumented" /\ g = [f EXCEPT !.env = "documented"]
    \/ f.docker = "root" /\ g = [f EXCEPT !.docker = "user"]
    \/ g.large < f.large /\ g = [f EXCEPT !.large = g.large]
    \/ g.secrets \subseteq f.secrets /\ g = [f EXCEPT !.secrets = g.secrets]
    \/ g.bandit \subseteq f.bandit /\ g = [f EXCEPT !.bandit = g.bandit]

\* With the full toolchain, adopting a practice never costs a repository a
\* point in any domain: rules that look at several practices at once, the
\* grouping of findings and the diminishing returns never turn it against it.
PracticePays ==
    [][report.depth = "full_toolchain" /\ report'.depth = "full_toolchain"
       /\ tools' = tools /\ Adopted(facts, facts')
         => \A d \in Domains : report'.scores[d] >= report.scores[d]]_vars
=============================================================================
