------------------------- MODULE ReviewEngineProofs -------------------------
(***************************************************************************)
(* What a review says of itself, for any facts, scanners and history of a  *)
(* repository: its sentences are traced, its reasons explain the verdict,  *)
(* and whoever is given a reason is given something to do.                 *)
(*                                                                         *)
(* The last one needs the scores. Without a severe finding only five       *)
(* findings can charge security or testing, each of a rule of its own and  *)
(* ten points at most; a mild finding counts seven tenths of them, so      *)
(* three of them leave either domain far above its gate.                   *)
(*                                                                         *)
(* The score is a sum over a set of a sum over sets, which is defined by   *)
(* recursion; the first section proves by induction over the size of a set *)
(* that such sums exist and how they are bounded.                          *)
(***************************************************************************)
EXTENDS ReviewEngine, TLAPS, FiniteSetTheorems, WellFoundedInduction

-----------------------------------------------------------------------------
(* Sums                                                                    *)

\* Induction over the natural numbers, of a set instead of a predicate.
LEMMA SetInduction ==
  ASSUME NEW T, 0 \in T, \A n \in Nat : n \in T => n + 1 \in T
  PROVE  Nat \subseteq T
<1> DEFINE out == {n \in Nat : n \notin T}
<1> SUFFICES ASSUME out # {} PROVE FALSE
  OBVIOUS
<1>1. PICK m \in out : \A n \in out : ~(<<n, m>> \in OpToRel(<, Nat))
  <2> HIDE DEF out
  <2>1. out \subseteq Nat
    BY DEF out
  <2> QED
    BY <2>1, NatLessThanWellFounded, WFMin
<1>2. m # 0 /\ m - 1 \in Nat
  OBVIOUS
<1>3. m - 1 \notin out
  <2> SUFFICES ASSUME m - 1 \in out PROVE FALSE
    OBVIOUS
  <2>1. ~(<<m - 1, m>> \in OpToRel(<, Nat))
    BY <1>1
  <2> QED
    BY <2>1, <1>2 DEF OpToRel
<1>4. m - 1 \in T /\ m - 1 + 1 = m
  BY <1>2, <1>3
<1> QED
  BY <1>2, <1>4

\* The element a fold takes next.
Pick(s) == CHOOSE x \in s : TRUE

\* g is the sum of F over each subset of S, as the folds compute it.
Sums(g, F, S) ==
  g = [s \in SUBSET S |-> IF s = {} THEN 0 ELSE F[Pick(s)] + g[s \ {Pick(s)}]]

\* It is an element.
LEMMA PickIn ==
  ASSUME NEW s, s # {}
  PROVE  Pick(s) \in s
  BY DEF Pick

\* What it leaves is smaller by one.
LEMMA PickSmaller ==
  ASSUME NEW s, IsFiniteSet(s), s # {}
  PROVE  /\ IsFiniteSet(s \ {Pick(s)})
         /\ Cardinality(s) \in Nat /\ Cardinality(s \ {Pick(s)}) \in Nat
         /\ Cardinality(s) = Cardinality(s \ {Pick(s)}) + 1
  BY PickIn, FS_RemoveElement, FS_CardinalityType

\* A finite set has sums: they are found for the subsets of at most n elements,
\* for every n.
LEMMA SumExists ==
  ASSUME NEW S, IsFiniteSet(S), NEW F
  PROVE  \E g : Sums(g, F, S)
<1> DEFINE Small(n) == {s \in SUBSET S : Cardinality(s) <= n}
           Total(g, s) == IF s = {} THEN 0 ELSE F[Pick(s)] + g[s \ {Pick(s)}]
           T == {n \in Nat : \E g : g = [s \in Small(n) |-> Total(g, s)]}
<1>1. \A s \in SUBSET S : IsFiniteSet(s) /\ Cardinality(s) \in Nat
  BY FS_Subset, FS_CardinalityType
<1>2. \A n \in Nat : \A s \in Small(n + 1) : s # {} => s \ {Pick(s)} \in Small(n)
  BY <1>1, PickSmaller
<1>3. 0 \in T
  <2> DEFINE g == [s \in Small(0) |-> 0]
  <2>1. \A s \in Small(0) : s = {}
    BY <1>1, FS_EmptySet
  <2>2. g = [s \in Small(0) |-> Total(g, s)]
    BY <2>1
  <2> QED
    BY <2>2
<1>4. ASSUME NEW n \in Nat, n \in T PROVE n + 1 \in T
  <2>1. PICK g : g = [s \in Small(n) |-> Total(g, s)]
    BY <1>4
  <2> DEFINE h == [s \in Small(n + 1) |-> Total(g, s)]
  <2>2. \A s \in Small(n) : s \in Small(n + 1) /\ h[s] = g[s]
    <3>1. \A s \in Small(n) : s \in Small(n + 1)
      BY <1>1
    <3> HIDE DEF Small, Total
    <3> QED
      BY <3>1, <2>1
  <2>3. \A s \in Small(n + 1) : Total(g, s) = Total(h, s)
    <3> HIDE DEF Small, h
    <3> QED
      BY <1>2, <2>2
  <2>4. h = [s \in Small(n + 1) |-> Total(h, s)]
    <3> HIDE DEF Total, Small
    <3> QED
      BY <2>3
  <2> HIDE DEF h, Total, Small
  <2> QED
    BY <2>4
<1>5. Nat \subseteq T
  <2> HIDE DEF T
  <2> QED
    BY <1>3, <1>4, SetInduction
<1>6. Cardinality(S) \in T
  BY <1>1, <1>5
<1>7. Small(Cardinality(S)) = SUBSET S
  BY <1>1, FS_Subset
<1>8. PICK g : g = [s \in SUBSET S |-> Total(g, s)]
  <2> HIDE DEF Small, Total
  <2> QED
    BY <1>6, <1>7
<1> QED
  BY <1>8 DEF Sums

\* A sum of natural numbers is one.
LEMMA SumNat ==
  ASSUME NEW S, IsFiniteSet(S), NEW F, \A x \in S : F[x] \in Nat, NEW g, Sums(g, F, S)
  PROVE  \A s \in SUBSET S : g[s] \in Nat
<1> DEFINE T == {n \in Nat : \A s \in SUBSET S : Cardinality(s) = n => g[s] \in Nat}
<1>1. \A s \in SUBSET S : IsFiniteSet(s) /\ Cardinality(s) \in Nat
  BY FS_Subset, FS_CardinalityType
<1>2. \A s \in SUBSET S : g[s] = IF s = {} THEN 0 ELSE F[Pick(s)] + g[s \ {Pick(s)}]
  BY DEF Sums
<1>3. 0 \in T
  BY <1>1, <1>2, FS_EmptySet
<1>4. ASSUME NEW n \in Nat, n \in T PROVE n + 1 \in T
  <2> SUFFICES ASSUME NEW s \in SUBSET S, Cardinality(s) = n + 1 PROVE g[s] \in Nat
    OBVIOUS
  <2>1. s # {}
    BY FS_EmptySet
  <2>2. Cardinality(s \ {Pick(s)}) = n
    BY <1>1, <2>1, PickSmaller
  <2>3. g[s \ {Pick(s)}] \in Nat
    BY <1>4, <2>2
  <2> QED
    BY <1>2, <2>1, <2>3, PickIn
<1>5. Nat \subseteq T
  <2> HIDE DEF T
  <2> QED
    BY <1>3, <1>4, SetInduction
<1> QED
  BY <1>1, <1>5

\* A sum is at most its number of terms times a bound of them.
LEMMA SumBounded ==
  ASSUME NEW S, IsFiniteSet(S), NEW F, NEW b \in Nat, \A x \in S : F[x] \in Nat /\ F[x] <= b,
         NEW g, Sums(g, F, S)
  PROVE  g[S] \in Nat /\ g[S] <= b * Cardinality(S)
<1> DEFINE T == {n \in Nat : \A s \in SUBSET S : Cardinality(s) = n => g[s] <= b * n}
<1>1. \A s \in SUBSET S : IsFiniteSet(s) /\ Cardinality(s) \in Nat
  BY FS_Subset, FS_CardinalityType
<1>2. \A s \in SUBSET S : g[s] = IF s = {} THEN 0 ELSE F[Pick(s)] + g[s \ {Pick(s)}]
  BY DEF Sums
<1>3. \A s \in SUBSET S : g[s] \in Nat
  BY SumNat
<1>4. 0 \in T
  <2>1. b * 0 = 0
    OBVIOUS
  <2>2. g[{}] = 0
    BY <1>2
  <2> QED
    BY <2>1, <2>2, <1>1, FS_EmptySet
<1>5. ASSUME NEW n \in Nat, n \in T PROVE n + 1 \in T
  <2> SUFFICES ASSUME NEW s \in SUBSET S, Cardinality(s) = n + 1 PROVE g[s] <= b * (n + 1)
    OBVIOUS
  <2>1. s # {}
    BY FS_EmptySet
  <2>2. Cardinality(s \ {Pick(s)}) = n
    BY <1>1, <2>1, PickSmaller
  <2>3. g[s \ {Pick(s)}] <= b * n
    BY <1>5, <2>2
  <2>4. b * (n + 1) = b * n + b /\ b * n \in Nat
    OBVIOUS
  <2>5. F[Pick(s)] \in Nat /\ F[Pick(s)] <= b /\ g[s \ {Pick(s)}] \in Nat
    BY <1>3, <2>1, PickIn
  <2>6. g[s] = F[Pick(s)] + g[s \ {Pick(s)}]
    BY <1>2, <2>1
  <2> QED
    BY <2>3, <2>4, <2>5, <2>6
<1>6. Nat \subseteq T
  <2> HIDE DEF T
  <2> QED
    BY <1>4, <1>5, SetInduction
<1> QED
  BY <1>1, <1>3, <1>6

\* Sets written out are finite.
LEMMA FiveFinite ==
  ASSUME NEW a, NEW b, NEW c, NEW d, NEW e
  PROVE  IsFiniteSet({a, b, c, d, e})
<1>1. IsFiniteSet({} \cup {a})
  BY FS_EmptySet, FS_AddElement, Zenon
<1>2. IsFiniteSet(({} \cup {a}) \cup {b})
  BY <1>1, FS_AddElement, Zenon
<1>3. IsFiniteSet((({} \cup {a}) \cup {b}) \cup {c})
  BY <1>2, FS_AddElement, Zenon
<1>4. IsFiniteSet(((({} \cup {a}) \cup {b}) \cup {c}) \cup {d})
  BY <1>3, FS_AddElement, Zenon
<1>5. IsFiniteSet((((({} \cup {a}) \cup {b}) \cup {c}) \cup {d}) \cup {e})
  BY <1>4, FS_AddElement, Zenon
<1>6. (((({} \cup {a}) \cup {b}) \cup {c}) \cup {d}) \cup {e} = {a, b, c, d, e}
  OBVIOUS
<1> QED
  BY <1>5, <1>6

-----------------------------------------------------------------------------
(* Facts and findings                                                      *)

\* A finding that can be scored.
Proper(g) == /\ g.severity \in {"critical", "high", "medium", "low"}
             /\ \A d \in DOMAIN g.impact : g.impact[d] \in Nat

\* A finding that no reason names and for which no fix is proposed.
Mild(g) == g.severity \in {"medium", "low"}

\* What mild findings can take off the two domains with a gate.
Tame(g, f, kept) ==
  /\ Proper(g)
  /\ Mild(g) /\ "security" \in DOMAIN g.impact
       => g \in DockerfileRoot(f) \cup Bandit(kept.bandit)
  /\ Mild(g) /\ "testing" \in DOMAIN g.impact
       => g \in TestsLowRatio(f) \cup NoTestCIIntegration(f) \cup HollowTestSuite(f)

\* What a review keeps of typed facts.
IsKept(kept) == /\ kept.lint.issues \in Nat
                /\ IsFiniteSet(kept.bandit)
                /\ IsFiniteSet(kept.secrets)

\* The builder keeps the shape of the issues.
LEMMA KeptTyped ==
  ASSUME NEW f, IsFacts(f), NEW t
  PROVE  IsKept(Kept(f, t))
<1>1. f.lint.issues \in Nat /\ IsFiniteSet(f.bandit) /\ IsFiniteSet(f.secrets)
  BY DEF IsFacts, IsFact
<1> QED
  BY <1>1, FS_EmptySet DEF IsKept, Kept, CleanLint, Lint

\* A rule without a list makes one finding at most.
LEMMA WhenOne ==
  ASSUME NEW condition, NEW g
  PROVE  When(condition, g) \subseteq {g} /\ IsFiniteSet(When(condition, g))
<1>1. When(condition, g) \subseteq {g}
  BY DEF When
<1>2. IsFiniteSet({g})
  BY FS_Singleton
<1> QED
  BY <1>1, <1>2, FS_Subset

\* The rules on hygiene, tooling and architecture.
LEMMA PlainRulesTame ==
  ASSUME NEW f, IsFacts(f), NEW kept
  PROVE  /\ \A g \in ReadmeMissing(f) : Tame(g, f, kept)
         /\ \A g \in LicenseMissing(f) : Tame(g, f, kept)
         /\ \A g \in CIMissing(f) : Tame(g, f, kept)
         /\ \A g \in LockfileMissing(f) : Tame(g, f, kept)
         /\ \A g \in EnvExampleMissing(f) : Tame(g, f, kept)
         /\ \A g \in LargeFiles(f) : Tame(g, f, kept)
         /\ \A g \in FormatterMissing(f) : Tame(g, f, kept)
         /\ \A g \in LinterMissing(f) : Tame(g, f, kept)
         /\ \A g \in DockerfileRoot(f) : Tame(g, f, kept)
<1> USE DEF Tame, Proper, Mild, When, Finding, Keyed
<1>1. \A g \in ReadmeMissing(f) : Tame(g, f, kept)
  BY DEF ReadmeMissing
<1>2. \A g \in LicenseMissing(f) : Tame(g, f, kept)
  BY DEF LicenseMissing
<1>3. \A g \in CIMissing(f) : Tame(g, f, kept)
  BY DEF CIMissing
<1>4. \A g \in LockfileMissing(f) : Tame(g, f, kept)
  BY DEF LockfileMissing
<1>5. \A g \in EnvExampleMissing(f) : Tame(g, f, kept)
  BY DEF EnvExampleMissing
<1>6. \A g \in LargeFiles(f) : Tame(g, f, kept)
  <2>1. f.large \in Nat
    BY DEF IsFacts, IsFact
  <2>2. Most(4 * f.large, 20) \in Nat
    BY <2>1 DEF Most
  <2> QED
    BY <2>2 DEF LargeFiles
<1>7. \A g \in FormatterMissing(f) : Tame(g, f, kept)
  BY DEF FormatterMissing
<1>8. \A g \in LinterMissing(f) : Tame(g, f, kept)
  BY DEF LinterMissing
<1>9. \A g \in DockerfileRoot(f) : Tame(g, f, kept)
  BY DEF DockerfileRoot
<1> QED
  BY <1>1, <1>2, <1>3, <1>4, <1>5, <1>6, <1>7, <1>8, <1>9

\* The rules on tests and types.
LEMMA TestRulesTame ==
  ASSUME NEW f, NEW kept
  PROVE  /\ \A g \in TestsMissing(f) : Tame(g, f, kept)
         /\ \A g \in TestsPresentButNoCI(f) : Tame(g, f, kept)
         /\ \A g \in TestsLowRatio(f) : Tame(g, f, kept)
         /\ \A g \in NoTestCIIntegration(f) : Tame(g, f, kept)
         /\ \A g \in PytestMissing(f) : Tame(g, f, kept)
         /\ \A g \in MypyMissing(f) : Tame(g, f, kept)
         /\ \A g \in TypeConfigMissing(f) : Tame(g, f, kept)
         /\ \A g \in NoTypeSignal(f, kept.lint) : Tame(g, f, kept)
<1> USE DEF Tame, Proper, Mild, When, Finding, Keyed
<1>1. \A g \in TestsMissing(f) : Tame(g, f, kept)
  BY DEF TestsMissing
<1>2. \A g \in TestsPresentButNoCI(f) : Tame(g, f, kept)
  BY DEF TestsPresentButNoCI
<1>3. \A g \in TestsLowRatio(f) : Tame(g, f, kept)
  BY DEF TestsLowRatio
<1>4. \A g \in NoTestCIIntegration(f) : Tame(g, f, kept)
  BY DEF NoTestCIIntegration
<1>5. \A g \in PytestMissing(f) : Tame(g, f, kept)
  BY DEF PytestMissing
<1>6. \A g \in MypyMissing(f) : Tame(g, f, kept)
  BY DEF MypyMissing
<1>7. \A g \in TypeConfigMissing(f) : Tame(g, f, kept)
  BY DEF TypeConfigMissing
<1>8. \A g \in NoTypeSignal(f, kept.lint) : Tame(g, f, kept)
  BY DEF NoTypeSignal
<1> QED
  BY <1>1, <1>2, <1>3, <1>4, <1>5, <1>6, <1>7, <1>8

\* The rules on architecture and presentation, and those of the adapters.
LEMMA OtherRulesTame ==
  ASSUME NEW f, NEW kept, IsKept(kept)
  PROVE  /\ \A g \in RouteDbCoupling(f) : Tame(g, f, kept)
         /\ \A g \in Facade(f) : Tame(g, f, kept)
         /\ \A g \in HollowTestSuite(f) : Tame(g, f, kept)
         /\ \A g \in ReadmeWithoutSubstance(f) : Tame(g, f, kept)
         /\ \A g \in Secrets(kept.secrets) : Tame(g, f, kept)
         /\ \A g \in SecurityDensity(kept.bandit, kept.lint) : Tame(g, f, kept)
         /\ \A g \in LintDensity(kept.lint) : Tame(g, f, kept)
         /\ \A g \in Bandit(kept.bandit) : Tame(g, f, kept)
<1> USE DEF Tame, Proper, Mild, When, Finding, Keyed
<1>1. \A g \in RouteDbCoupling(f) : Tame(g, f, kept)
  BY DEF RouteDbCoupling
<1>2. \A g \in Facade(f) : Tame(g, f, kept)
  BY DEF Facade
<1>3. \A g \in HollowTestSuite(f) : Tame(g, f, kept)
  BY DEF HollowTestSuite
<1>4. \A g \in ReadmeWithoutSubstance(f) : Tame(g, f, kept)
  BY DEF ReadmeWithoutSubstance
<1>5. \A g \in Secrets(kept.secrets) : Tame(g, f, kept)
  BY DEF Secrets
<1>6. \A g \in SecurityDensity(kept.bandit, kept.lint) : Tame(g, f, kept)
  BY DEF SecurityDensity
<1>7. \A g \in LintDensity(kept.lint) : Tame(g, f, kept)
  <2>1. Least(kept.lint.issues \div 10, 15) \in Nat
    BY DEF Least, IsKept
  <2> QED
    BY <2>1 DEF LintDensity
<1>8. \A g \in Bandit(kept.bandit) : Tame(g, f, kept)
  <2>1. IsFiniteSet(kept.bandit \ Severe(kept.bandit))
    BY FS_Subset DEF IsKept
  <2>2. Cardinality(kept.bandit \ Severe(kept.bandit)) \in Nat
    BY <2>1, FS_CardinalityType
  <2>3. Least(2 * Cardinality(kept.bandit \ Severe(kept.bandit)), 10) \in Nat
    BY <2>2 DEF Least
  <2> SUFFICES ASSUME NEW g \in Bandit(kept.bandit) PROVE Tame(g, f, kept)
    OBVIOUS
  <2>4. \/ \E i \in Severe(kept.bandit) : /\ g.severity = i.severity
                                         /\ g.impact = [security |-> IF i.severity = "critical" THEN 12 ELSE 8]
        \/ /\ g.severity = "medium"
           /\ g.impact = [security |-> Least(2 * Cardinality(kept.bandit \ Severe(kept.bandit)), 10)]
    BY DEF Bandit
  <2>5. \A i \in Severe(kept.bandit) : i.severity \in {"critical", "high"}
    BY DEF Severe
  <2>6. \E n \in Nat : g.impact = [security |-> n]
    <3>1. \A i : (IF i.severity = "critical" THEN 12 ELSE 8) \in Nat
      OBVIOUS
    <3> QED
      BY <2>3, <2>4, <3>1
  <2>7. g.severity \in {"critical", "high", "medium", "low"}
    BY <2>4, <2>5
  <2> QED
    BY <2>6, <2>7
<1> QED
  BY <1>1, <1>2, <1>3, <1>4, <1>5, <1>6, <1>7, <1>8

\* Every finding of every rule.
LEMMA ExecuteTame ==
  ASSUME NEW f, IsFacts(f), NEW kept, IsKept(kept)
  PROVE  \A g \in Execute(f, kept) : Tame(g, f, kept)
<1> SUFFICES ASSUME NEW g \in Execute(f, kept) PROVE Tame(g, f, kept)
  OBVIOUS
<1>1. \/ g \in ReadmeMissing(f) \/ g \in LicenseMissing(f) \/ g \in CIMissing(f)
      \/ g \in LockfileMissing(f) \/ g \in EnvExampleMissing(f) \/ g \in LargeFiles(f)
      \/ g \in FormatterMissing(f) \/ g \in LinterMissing(f) \/ g \in DockerfileRoot(f)
      \/ g \in TestsMissing(f) \/ g \in TestsPresentButNoCI(f) \/ g \in TestsLowRatio(f)
      \/ g \in NoTestCIIntegration(f) \/ g \in PytestMissing(f) \/ g \in MypyMissing(f)
      \/ g \in TypeConfigMissing(f) \/ g \in NoTypeSignal(f, kept.lint)
      \/ g \in RouteDbCoupling(f) \/ g \in Facade(f) \/ g \in HollowTestSuite(f)
      \/ g \in ReadmeWithoutSubstance(f) \/ g \in Secrets(kept.secrets)
      \/ g \in SecurityDensity(kept.bandit, kept.lint) \/ g \in LintDensity(kept.lint)
      \/ g \in Bandit(kept.bandit)
  BY DEF Execute
<1> QED
  BY <1>1, PlainRulesTame, TestRulesTame, OtherRulesTame

-----------------------------------------------------------------------------
(* Scores are numbers                                                      *)

\* The image of a finite set is finite.
LEMMA ImageFinite ==
  ASSUME NEW S, IsFiniteSet(S), NEW h
  PROVE  IsFiniteSet({h[x] : x \in S})
<1> DEFINE T == {h[x] : x \in S}
           k == [x \in S |-> h[x]]
<1>1. k \in Surjection(S, T)
  BY DEF Surjection
<1>2. IsFiniteSet(T)
  <2> HIDE DEF k, T
  <2> QED
    BY <1>1, FS_Surjection
<1> QED
  BY <1>2

\* There are finitely many findings.
LEMMA ExecuteFinite ==
  ASSUME NEW f, NEW kept, IsKept(kept)
  PROVE  IsFiniteSet(Execute(f, kept))
<1> DEFINE A == {ReadmeMissing(f), LicenseMissing(f), CIMissing(f), TestsMissing(f), LockfileMissing(f)}
           B == {EnvExampleMissing(f), LargeFiles(f), FormatterMissing(f), LinterMissing(f),
                 TestsPresentButNoCI(f)}
           C == {TestsLowRatio(f), NoTestCIIntegration(f), MypyMissing(f), PytestMissing(f),
                 TypeConfigMissing(f)}
           D == {RouteDbCoupling(f), Facade(f), HollowTestSuite(f), ReadmeWithoutSubstance(f),
                 DockerfileRoot(f)}
           E == {Secrets(kept.secrets), SecurityDensity(kept.bandit, kept.lint),
                 LintDensity(kept.lint), Bandit(kept.bandit), NoTypeSignal(f, kept.lint)}
           all == A \cup B \cup C \cup D \cup E
<1>1. Execute(f, kept) = UNION all
  BY SMT DEF Execute
<1>2. IsFiniteSet(Secrets(kept.secrets))
  <2> DEFINE rule == "SEC-SECRETS-SCAN-001"
             h == [i \in kept.secrets |->
                     Keyed(<<rule, i.at>>, rule, "security",
                           IF i.severity = "critical" THEN "critical" ELSE "high",
                           [security |-> 20])]
  <2>1. Secrets(kept.secrets) = {h[i] : i \in kept.secrets}
    BY DEF Secrets
  <2> HIDE DEF h
  <2> QED
    BY <2>1, ImageFinite DEF IsKept
<1>3. IsFiniteSet(Bandit(kept.bandit))
  <2> DEFINE rule == "SEC-BANDIT-GROUPED-001"
             h == [i \in Severe(kept.bandit) |->
                     Keyed(<<rule, i.at>>, rule, "security", i.severity,
                           [security |-> IF i.severity = "critical" THEN 12 ELSE 8])]
             minor == Cardinality(kept.bandit \ Severe(kept.bandit))
             grouped == When(minor >= 3,
                             Keyed(<<rule, "minor">>, rule, "security", "medium",
                                   [security |-> Least(2 * minor, 10)]))
  <2>1. Bandit(kept.bandit) = {h[i] : i \in Severe(kept.bandit)} \cup grouped
    BY DEF Bandit
  <2>2. IsFiniteSet(Severe(kept.bandit))
    <3>1. Severe(kept.bandit) \subseteq kept.bandit
      BY DEF Severe
    <3> QED
      BY <3>1, FS_Subset DEF IsKept
  <2>3. IsFiniteSet({h[i] : i \in Severe(kept.bandit)})
    <3> HIDE DEF h
    <3> QED
      BY <2>2, ImageFinite
  <2>4. IsFiniteSet(grouped)
    BY WhenOne, Zenon
  <2> HIDE DEF h, grouped
  <2> QED
    BY <2>1, <2>3, <2>4, FS_Union
<1>4. \A R \in all : IsFiniteSet(R)
  <2>1. \A R \in A : IsFiniteSet(R)
    <3>1. IsFiniteSet(ReadmeMissing(f))
      BY WhenOne, Zenon DEF ReadmeMissing
    <3>2. IsFiniteSet(LicenseMissing(f))
      BY WhenOne, Zenon DEF LicenseMissing
    <3>3. IsFiniteSet(CIMissing(f))
      BY WhenOne, Zenon DEF CIMissing
    <3>4. IsFiniteSet(TestsMissing(f))
      BY WhenOne, Zenon DEF TestsMissing
    <3>5. IsFiniteSet(LockfileMissing(f))
      BY WhenOne, Zenon DEF LockfileMissing
    <3> QED
      BY <3>1, <3>2, <3>3, <3>4, <3>5, Zenon
  <2>2. \A R \in B : IsFiniteSet(R)
    <3>1. IsFiniteSet(EnvExampleMissing(f))
      BY WhenOne, Zenon DEF EnvExampleMissing
    <3>2. IsFiniteSet(LargeFiles(f))
      BY WhenOne, Zenon DEF LargeFiles
    <3>3. IsFiniteSet(FormatterMissing(f))
      BY WhenOne, Zenon DEF FormatterMissing
    <3>4. IsFiniteSet(LinterMissing(f))
      BY WhenOne, Zenon DEF LinterMissing
    <3>5. IsFiniteSet(TestsPresentButNoCI(f))
      BY WhenOne, Zenon DEF TestsPresentButNoCI
    <3> QED
      BY <3>1, <3>2, <3>3, <3>4, <3>5, Zenon
  <2>3. \A R \in C : IsFiniteSet(R)
    <3>1. IsFiniteSet(TestsLowRatio(f))
      BY WhenOne, Zenon DEF TestsLowRatio
    <3>2. IsFiniteSet(NoTestCIIntegration(f))
      BY WhenOne, Zenon DEF NoTestCIIntegration
    <3>3. IsFiniteSet(MypyMissing(f))
      BY WhenOne, Zenon DEF MypyMissing
    <3>4. IsFiniteSet(PytestMissing(f))
      BY WhenOne, Zenon DEF PytestMissing
    <3>5. IsFiniteSet(TypeConfigMissing(f))
      BY WhenOne, Zenon DEF TypeConfigMissing
    <3> QED
      BY <3>1, <3>2, <3>3, <3>4, <3>5, Zenon
  <2>4. \A R \in D : IsFiniteSet(R)
    <3>1. IsFiniteSet(RouteDbCoupling(f))
      BY WhenOne, Zenon DEF RouteDbCoupling
    <3>2. IsFiniteSet(Facade(f))
      BY WhenOne, Zenon DEF Facade
    <3>3. IsFiniteSet(HollowTestSuite(f))
      BY WhenOne, Zenon DEF HollowTestSuite
    <3>4. IsFiniteSet(ReadmeWithoutSubstance(f))
      BY WhenOne, Zenon DEF ReadmeWithoutSubstance
    <3>5. IsFiniteSet(DockerfileRoot(f))
      BY WhenOne, Zenon DEF DockerfileRoot
    <3> QED
      BY <3>1, <3>2, <3>3, <3>4, <3>5, Zenon
  <2>5. \A R \in E : IsFiniteSet(R)
    <3>1. IsFiniteSet(SecurityDensity(kept.bandit, kept.lint))
      BY WhenOne, Zenon DEF SecurityDensity
    <3>2. IsFiniteSet(LintDensity(kept.lint)) /\ IsFiniteSet(NoTypeSignal(f, kept.lint))
      BY WhenOne, Zenon DEF LintDensity, NoTypeSignal
    <3> QED
      BY <1>2, <1>3, <3>1, <3>2, Zenon
  <2> HIDE DEF A, B, C, D, E
  <2> QED
    BY <2>1, <2>2, <2>3, <2>4, <2>5
<1>5. IsFiniteSet(all)
  <2>1. IsFiniteSet(A) /\ IsFiniteSet(B) /\ IsFiniteSet(C) /\ IsFiniteSet(D) /\ IsFiniteSet(E)
    BY FiveFinite, Zenon
  <2> HIDE DEF A, B, C, D, E
  <2> QED
    BY <2>1, FS_Union
<1> HIDE DEF all
<1> QED
  BY <1>1, <1>4, <1>5, FS_UNION

\* Of the findings of a key a most severe one stays.
LEMMA DeduplicateKeeps ==
  ASSUME NEW findings, \A g \in findings : Proper(g)
  PROVE  Deduplicate(findings) \subseteq findings
<1> SUFFICES ASSUME NEW g \in findings
             PROVE  (CHOOSE w \in findings :
                       /\ w.key = g.key
                       /\ \A h \in findings : h.key = g.key => Rank[w.severity] <= Rank[h.severity])
                    \in findings
  BY DEF Deduplicate
<1> DEFINE Worst(w) == /\ w.key = g.key
                       /\ \A h \in findings : h.key = g.key => Rank[w.severity] <= Rank[h.severity]
           Some(severity) == \E h \in findings : h.key = g.key /\ h.severity = severity
<1>1. \A h \in findings : h.severity \in {"critical", "high", "medium", "low"}
  BY DEF Proper
<1>2. /\ Rank["critical"] = 1 /\ Rank["high"] = 2 /\ Rank["medium"] = 3 /\ Rank["low"] = 4
  BY DEF Rank
<1>3. \E w \in findings : Worst(w)
  <2>1. CASE Some("critical")
    BY <2>1, <1>1, <1>2
  <2>2. CASE ~Some("critical") /\ Some("high")
    BY <2>2, <1>1, <1>2
  <2>3. CASE ~Some("critical") /\ ~Some("high") /\ Some("medium")
    BY <2>3, <1>1, <1>2
  <2>4. CASE ~Some("critical") /\ ~Some("high") /\ ~Some("medium")
    BY <2>4, <1>1, <1>2
  <2> QED
    BY <2>1, <2>2, <2>3, <2>4
<1> HIDE DEF Worst
<1>4. (CHOOSE w \in findings : Worst(w)) \in findings
  BY <1>3, Zenon
<1> QED
  BY <1>4 DEF Worst

\* Findings that all take something off a domain.
CanCharge(G, d) == IsFiniteSet(G) /\ \A g \in G : Proper(g) /\ d \in DOMAIN g.impact

\* What they take.
Charges(G, d) == {Charge(g, d) : g \in G}

\* The rates at which the findings of one charge count.
Rates(G, d, c) ==
  MapThenSumSet(Share, (Cardinality({g \in G : Charge(g, d) > c}) + 1)
                         .. Cardinality({g \in G : Charge(g, d) >= c}))

\* A charge is a number, and of a mild finding seven tenths of its impact.
LEMMA ChargeNat ==
  ASSUME NEW g, Proper(g), NEW d \in DOMAIN g.impact
  PROVE  Charge(g, d) \in Nat /\ (g.severity \in {"medium", "low"} => Charge(g, d) <= 7 * g.impact[d])
<1>1. g.impact[d] \in Nat /\ g.severity \in {"critical", "high", "medium", "low"}
  BY DEF Proper
<1> QED
  BY <1>1 DEF Charge, Weight

\* Finitely many findings make finitely many charges.
LEMMA ChargesFinite ==
  ASSUME NEW G, NEW d, CanCharge(G, d)
  PROVE  IsFiniteSet(Charges(G, d)) /\ Charges(G, d) \subseteq Nat
<1> DEFINE h == [g \in G |-> Charge(g, d)]
<1>1. Charges(G, d) = {h[g] : g \in G}
  BY DEF Charges
<1>2. IsFiniteSet(Charges(G, d))
  <2> HIDE DEF h
  <2> QED
    BY <1>1, ImageFinite DEF CanCharge
<1>3. \A g \in G : Charge(g, d) \in Nat
  BY ChargeNat DEF CanCharge
<1> QED
  BY <1>2, <1>3 DEF Charges

\* Twentieths: no finding counts more than once.
LEMMA SharesBounded ==
  ASSUME NEW S, IsFiniteSet(S), S \subseteq Nat \ {0}
  PROVE  MapThenSumSet(Share, S) \in Nat /\ MapThenSumSet(Share, S) <= 20 * Cardinality(S)
<1> DEFINE F == [x \in S |-> Share(x)]
           Is(g) == g = [s \in SUBSET S |->
                           IF s = {} THEN 0
                           ELSE LET x == CHOOSE x \in s : TRUE IN Share(x) + g[s \ {x}]]
           sum == CHOOSE g : Is(g)
<1>1. MapThenSumSet(Share, S) = sum[S]
  BY DEF MapThenSumSet, MapThenFoldSet
<1>2. ASSUME NEW g PROVE Is(g) <=> Sums(g, F, S)
  <2>1. \A s \in SUBSET S : s # {} => F[Pick(s)] = Share(Pick(s))
    BY PickIn
  <2> QED
    BY <2>1 DEF Sums, Pick
<1>3. \E g : Is(g)
  <2> HIDE DEF Is, F
  <2> QED
    BY <1>2, SumExists
<1>4. Is(sum)
  <2> HIDE DEF Is
  <2> QED
    BY <1>3
<1>5. \A x \in S : F[x] \in Nat /\ F[x] <= 20
  BY DEF Share, Least
<1> HIDE DEF Is, sum, F
<1>6. Sums(sum, F, S)
  BY <1>2, <1>4
<1>7. sum[S] \in Nat /\ sum[S] <= 20 * Cardinality(S)
  BY <1>5, <1>6, SumBounded
<1> QED
  BY <1>1, <1>7

\* The findings of one charge count no more than all findings at the full rate.
LEMMA RatesBounded ==
  ASSUME NEW G, NEW d, CanCharge(G, d), NEW c
  PROVE  Rates(G, d, c) \in Nat /\ Rates(G, d, c) <= 20 * Cardinality(G)
<1> DEFINE a == Cardinality({g \in G : Charge(g, d) > c})
           b == Cardinality({g \in G : Charge(g, d) >= c})
<1>1. a \in Nat /\ b \in Nat /\ b <= Cardinality(G) /\ Cardinality(G) \in Nat
  <2>1. {g \in G : Charge(g, d) > c} \in SUBSET G /\ {g \in G : Charge(g, d) >= c} \in SUBSET G
    OBVIOUS
  <2> QED
    BY <2>1, FS_Subset, FS_CardinalityType DEF CanCharge
<1> HIDE DEF a, b
<1>2. IsFiniteSet((a + 1) .. b) /\ Cardinality((a + 1) .. b) \in Nat /\ Cardinality((a + 1) .. b) <= b
  <2>1. a + 1 \in Int /\ b \in Int
    BY <1>1
  <2>2. /\ IsFiniteSet((a + 1) .. b)
        /\ Cardinality((a + 1) .. b) = IF a + 1 > b THEN 0 ELSE b - (a + 1) + 1
    BY <2>1, FS_Interval
  <2> QED
    BY <1>1, <2>2
<1>3. (a + 1) .. b \subseteq Nat \ {0}
  BY <1>1
<1>4. /\ MapThenSumSet(Share, (a + 1) .. b) \in Nat
      /\ MapThenSumSet(Share, (a + 1) .. b) <= 20 * Cardinality((a + 1) .. b)
  BY <1>2, <1>3, SharesBounded
<1>5. Rates(G, d, c) = MapThenSumSet(Share, (a + 1) .. b)
  BY DEF Rates, a, b
<1> QED
  BY <1>1, <1>2, <1>4, <1>5

\* A cluster is a capped sum.
LEMMA ClusterSums ==
  ASSUME NEW G, NEW d, CanCharge(G, d)
  PROVE  LET F == [c \in Charges(G, d) |-> c * Rates(G, d, c)]
         IN  \E g : /\ Sums(g, F, Charges(G, d))
                    /\ Cluster(G, d) = Least(g[Charges(G, d)], Points(20))
<1> DEFINE S == Charges(G, d)
           F == [c \in S |-> c * Rates(G, d, c)]
           Is(g) == g = [s \in SUBSET S |->
                           IF s = {} THEN 0
                           ELSE LET c == CHOOSE c \in s : TRUE
                                IN  c * Rates(G, d, c) + g[s \ {c}]]
           sum == CHOOSE g : Is(g)
<1>1. Cluster(G, d) = Least(sum[S], Points(20))
  BY DEF Cluster, Rates, Charges, MapThenSumSet, MapThenFoldSet
<1>2. ASSUME NEW g PROVE Is(g) <=> Sums(g, F, S)
  <2>1. \A s \in SUBSET S : s # {} => F[Pick(s)] = Pick(s) * Rates(G, d, Pick(s))
    BY PickIn
  <2> QED
    BY <2>1 DEF Sums, Pick
<1>3. \E g : Is(g)
  <2>1. IsFiniteSet(S)
    BY ChargesFinite
  <2> HIDE DEF Is, F, S
  <2> QED
    BY <1>2, <2>1, SumExists
<1>4. Is(sum)
  <2> HIDE DEF Is
  <2> QED
    BY <1>3
<1>5. Sums(sum, F, S)
  <2> HIDE DEF Is, F, S, sum
  <2> QED
    BY <1>2, <1>4
<1> QED
  BY <1>1, <1>5

\* A cluster costs a number.
LEMMA ClusterNat ==
  ASSUME NEW G, NEW d, CanCharge(G, d)
  PROVE  Cluster(G, d) \in Nat
<1> DEFINE S == Charges(G, d)
           F == [c \in S |-> c * Rates(G, d, c)]
<1>1. PICK g : Sums(g, F, S) /\ Cluster(G, d) = Least(g[S], Points(20))
  BY ClusterSums
<1>2. IsFiniteSet(S) /\ S \subseteq Nat
  BY ChargesFinite
<1>3. \A c \in S : F[c] \in Nat
  BY <1>2, RatesBounded
<1> HIDE DEF S, F
<1>4. g[S] \in Nat
  BY <1>1, <1>2, <1>3, SumNat
<1> QED
  BY <1>1, <1>4 DEF Least, Points

\* A finding that is alone in its cluster counts once.
LEMMA LoneCluster ==
  ASSUME NEW d, NEW h, Proper(h), d \in DOMAIN h.impact, Mild(h), h.impact[d] <= 10
  PROVE  Cluster({h}, d) <= 1400
<1> DEFINE G == {h}
           S == Charges(G, d)
           F == [c \in S |-> c * Rates(G, d, c)]
<1>0. CanCharge(G, d) /\ Cardinality(G) = 1
  BY FS_Singleton DEF CanCharge
<1>1. PICK g : Sums(g, F, S) /\ Cluster(G, d) = Least(g[S], Points(20))
  BY <1>0, ClusterSums
<1>2. IsFiniteSet(S) /\ Cardinality(S) = 1 /\ S = {Charge(h, d)}
  <2>1. S = {Charge(h, d)}
    BY DEF Charges
  <2> HIDE DEF S
  <2> QED
    BY <2>1, FS_Singleton
<1>3. Charge(h, d) \in Nat /\ Charge(h, d) <= 70
  <2>1. Charge(h, d) \in Nat /\ Charge(h, d) <= 7 * h.impact[d]
    BY ChargeNat DEF Mild
  <2>2. h.impact[d] \in Nat
    BY DEF Proper
  <2> QED
    BY <2>1, <2>2
<1>4. \A c \in S : F[c] \in Nat /\ F[c] <= 1400
  <2> SUFFICES ASSUME NEW c \in S PROVE F[c] \in Nat /\ F[c] <= 1400
    OBVIOUS
  <2>1. c \in 0..70
    BY <1>2, <1>3
  <2>2. Rates(G, d, c) \in 0..20
    BY <1>0, RatesBounded
  <2>3. \A m \in 0..70, n \in 0..20 : m * n \in Nat /\ m * n <= 70 * 20
    OBVIOUS
  <2>4. F[c] = c * Rates(G, d, c)
    OBVIOUS
  <2> HIDE DEF F, G, S
  <2> QED
    BY <2>1, <2>2, <2>3, <2>4
<1> HIDE DEF S, F, G
<1>5. g[S] \in Nat /\ g[S] <= 1400 * 1
  BY <1>1, <1>2, <1>4, SumBounded
<1>6. Cluster(G, d) <= 1400
  BY <1>1, <1>5 DEF Least, Points
<1> QED
  BY <1>6 DEF G

\* The findings of one rule, and the rules of findings.
OfRule(G, r) == {g \in G : g.rule = r}
RulesOf(G) == {g.rule : g \in G}

\* Finitely many findings have finitely many rules.
LEMMA RulesFinite ==
  ASSUME NEW G, IsFiniteSet(G)
  PROVE  IsFiniteSet(RulesOf(G))
<1> DEFINE h == [g \in G |-> g.rule]
<1>1. RulesOf(G) = {h[g] : g \in G}
  BY DEF RulesOf
<1> HIDE DEF h
<1> QED
  BY <1>1, ImageFinite

\* The penalty adds the clusters of the rules.
LEMMA PenaltySums ==
  ASSUME NEW findings, NEW d, IsFiniteSet(findings)
  PROVE  LET G == Charged(findings, d)
             F == [r \in RulesOf(G) |-> Cluster(OfRule(G, r), d)]
         IN  \E g : Sums(g, F, RulesOf(G)) /\ Penalty(findings, d) = g[RulesOf(G)]
<1> DEFINE G == Charged(findings, d)
           S == RulesOf(G)
           F == [r \in S |-> Cluster(OfRule(G, r), d)]
           Is(g) == g = [s \in SUBSET S |->
                           IF s = {} THEN 0
                           ELSE LET r == CHOOSE r \in s : TRUE
                                IN  Cluster(OfRule(G, r), d) + g[s \ {r}]]
           sum == CHOOSE g : Is(g)
<1>1. Penalty(findings, d) = sum[S]
  BY DEF Penalty, RulesOf, OfRule, MapThenSumSet, MapThenFoldSet
<1>2. ASSUME NEW g PROVE Is(g) <=> Sums(g, F, S)
  <2>1. \A s \in SUBSET S : s # {} => F[Pick(s)] = Cluster(OfRule(G, Pick(s)), d)
    BY PickIn
  <2> QED
    BY <2>1 DEF Sums, Pick
<1>3. \E g : Is(g)
  <2>1. IsFiniteSet(G)
    BY FS_Subset DEF Charged
  <2>2. IsFiniteSet(S)
    BY <2>1, RulesFinite
  <2> HIDE DEF Is, F, S
  <2> QED
    BY <1>2, <2>2, SumExists
<1>4. Is(sum)
  <2> HIDE DEF Is
  <2> QED
    BY <1>3
<1>5. Sums(sum, F, S)
  <2> HIDE DEF Is, F, S, sum
  <2> QED
    BY <1>2, <1>4
<1> QED
  BY <1>1, <1>5

\* The charged findings of a domain, and those of one rule, can be scored.
LEMMA ChargedCanCharge ==
  ASSUME NEW findings, IsFiniteSet(findings), \A g \in findings : Proper(g), NEW d
  PROVE  /\ CanCharge(Charged(findings, d), d)
         /\ \A r : CanCharge(OfRule(Charged(findings, d), r), d)
<1>1. IsFiniteSet(Charged(findings, d))
  BY FS_Subset DEF Charged
<1>2. \A r : IsFiniteSet(OfRule(Charged(findings, d), r))
  BY <1>1, FS_Subset DEF OfRule
<1> QED
  BY <1>1, <1>2 DEF CanCharge, Charged, OfRule

\* A penalty is a number.
LEMMA PenaltyNat ==
  ASSUME NEW findings, IsFiniteSet(findings), \A g \in findings : Proper(g), NEW d
  PROVE  Penalty(findings, d) \in Nat
<1> DEFINE G == Charged(findings, d)
           S == RulesOf(G)
           F == [r \in S |-> Cluster(OfRule(G, r), d)]
<1>1. PICK g : Sums(g, F, S) /\ Penalty(findings, d) = g[S]
  BY PenaltySums
<1>2. IsFiniteSet(S)
  BY ChargedCanCharge, RulesFinite DEF CanCharge
<1>3. \A r \in S : F[r] \in Nat
  BY ChargedCanCharge, ClusterNat
<1> HIDE DEF S, F
<1> QED
  BY <1>1, <1>2, <1>3, SumNat

\* What a domain with a gate can reach without findings.
LEMMA CapsReach ==
  ASSUME NEW depth, NEW d \in {"security", "testing"}, d \in DOMAIN Caps(depth)
  PROVE  Caps(depth)[d] \in 85..97
  BY DEF Caps

\* Caps are scores.
LEMMA CapsNat ==
  ASSUME NEW depth, NEW d \in Domains, d \in DOMAIN Caps(depth)
  PROVE  Caps(depth)[d] \in 0..100
  BY DEF Caps, Domains

\* Points lost are whole points of the penalty.
LEMMA ScoreIs ==
  ASSUME NEW findings, IsFiniteSet(findings), \A g \in findings : Proper(g),
         NEW depth, NEW d \in Domains
  PROVE  /\ Score(findings, depth, d) \in 0..100
         /\ \A n \in 0..21 : /\ Penalty(findings, d) <= 200 * n
                             /\ d \in {"security", "testing"}
                             => Score(findings, depth, d) >= 79
<1> DEFINE p == Penalty(findings, d)
           lost == Least(p, Points(100)) \div 200
           raw == Most(0, 100 - lost)
           measured == \E g \in findings : d = g.category \/ d \in DOMAIN g.impact
<1>1. Score(findings, depth, d) =
        IF d \in DOMAIN Caps(depth) /\ ~measured THEN Least(raw, Caps(depth)[d]) ELSE raw
  BY DEF Score
<1>2. p \in Nat
  BY PenaltyNat
<1> HIDE DEF p, measured
<1>3. lost \in 0..100 /\ \A n \in 0..21 : p <= 200 * n => lost <= n
  BY <1>2 DEF Least, Points
<1> HIDE DEF lost
<1>4. raw \in 0..100 /\ \A n \in 0..21 : p <= 200 * n => raw >= 79
  BY <1>3 DEF Most
<1> HIDE DEF raw
<1>5. Score(findings, depth, d) \in 0..100
  BY <1>1, <1>4, CapsNat DEF Least
<1>6. ASSUME d \in {"security", "testing"}, NEW n \in 0..21, p <= 200 * n
      PROVE  Score(findings, depth, d) >= 79
  BY <1>1, <1>4, <1>6, CapsReach DEF Least
<1> QED
  BY <1>5, <1>6 DEF p

-----------------------------------------------------------------------------
(* What a repository without severe findings is scored                     *)

\* Three names stand for three rules at most.
LEMMA ThreeAtMost ==
  ASSUME NEW a, NEW b, NEW c, NEW S, S \subseteq {a, b, c}
  PROVE  IsFiniteSet(S) /\ Cardinality(S) \in Nat /\ Cardinality(S) <= 3
<1>1. IsFiniteSet({a}) /\ Cardinality({a}) = 1
  BY FS_Singleton
<1>2. IsFiniteSet({a} \cup {b}) /\ Cardinality({a} \cup {b}) <= 2
  BY <1>1, FS_AddElement, FS_CardinalityType
<1>3. /\ IsFiniteSet(({a} \cup {b}) \cup {c})
      /\ Cardinality(({a} \cup {b}) \cup {c}) <= 3
  <2> DEFINE P == {a} \cup {b}
  <2>1. IsFiniteSet(P) /\ Cardinality(P) \in Nat /\ Cardinality(P) <= 2
    BY <1>2, FS_CardinalityType
  <2> HIDE DEF P
  <2>2. /\ IsFiniteSet(P \cup {c})
        /\ Cardinality(P \cup {c})
             = IF c \in P THEN Cardinality(P) ELSE Cardinality(P) + 1
    BY <2>1, FS_AddElement
  <2>3. IsFiniteSet(P \cup {c}) /\ Cardinality(P \cup {c}) <= 3
    BY <2>1, <2>2
  <2> QED
    BY <2>3 DEF P
<1>4. ({a} \cup {b}) \cup {c} = {a, b, c}
  OBVIOUS
<1> QED
  BY <1>3, <1>4, FS_Subset, FS_CardinalityType

\* Three rules with a single mild finding each take at most 21 points.
LEMMA FewRules ==
  ASSUME NEW findings, IsFiniteSet(findings), \A g \in findings : Proper(g), NEW d,
         \A g \in Charged(findings, d) : Mild(g) /\ g.impact[d] <= 10,
         \A g, h \in Charged(findings, d) : g.rule = h.rule => g = h,
         NEW a, NEW b, NEW c, RulesOf(Charged(findings, d)) \subseteq {a, b, c}
  PROVE  Penalty(findings, d) <= 200 * 21
<1> DEFINE G == Charged(findings, d)
           S == RulesOf(G)
           F == [r \in S |-> Cluster(OfRule(G, r), d)]
<1>1. PICK g : Sums(g, F, S) /\ Penalty(findings, d) = g[S]
  BY PenaltySums
<1>2. IsFiniteSet(S) /\ Cardinality(S) \in Nat /\ Cardinality(S) <= 3
  BY ThreeAtMost
<1>3. ASSUME NEW r \in S PROVE F[r] \in Nat /\ F[r] <= 1400
  <2>1. PICK h \in G : h.rule = r
    BY DEF RulesOf
  <2>2. OfRule(G, r) = {h}
    BY <2>1 DEF OfRule
  <2>3. Proper(h) /\ d \in DOMAIN h.impact /\ Mild(h) /\ h.impact[d] <= 10
    BY DEF Charged
  <2>4. Cluster({h}, d) <= 1400
    BY <2>3, LoneCluster
  <2>5. CanCharge(OfRule(G, r), d)
    BY ChargedCanCharge
  <2>6. Cluster(OfRule(G, r), d) \in Nat
    BY <2>5, ClusterNat
  <2>7. F[r] = Cluster(OfRule(G, r), d)
    OBVIOUS
  <2> HIDE DEF F, S, G
  <2> QED
    BY <2>2, <2>4, <2>6, <2>7
<1> HIDE DEF F, S
<1>4. g[S] \in Nat /\ g[S] <= 1400 * Cardinality(S)
  BY <1>1, <1>2, <1>3, SumBounded
<1> QED
  BY <1>1, <1>2, <1>4

\* What the mild findings of the two domains with a gate are.
LEMMA MildOfSecurity ==
  ASSUME NEW f, NEW kept, IsKept(kept), NEW g,
         g \in DockerfileRoot(f) \cup Bandit(kept.bandit), Mild(g)
  PROVE  LET rule == "SEC-BANDIT-GROUPED-001"
             minor == Cardinality(kept.bandit \ Severe(kept.bandit))
         IN  \/ /\ g = Finding("DOCKER-SEC-001", "security", "medium", [security |-> 8])
             \/ g = Keyed(<<rule, "minor">>, rule, "security", "medium",
                          [security |-> Least(2 * minor, 10)])
<1>1. CASE g \in DockerfileRoot(f)
  BY <1>1 DEF DockerfileRoot, When
<1>2. CASE g \in Bandit(kept.bandit)
  <2>1. \A i \in Severe(kept.bandit) : i.severity \in {"critical", "high"}
    BY DEF Severe
  <2> QED
    BY <1>2, <2>1 DEF Bandit, When, Keyed, Mild
<1> QED
  BY <1>1, <1>2

\* What the mild findings that charge testing are.
LEMMA MildOfTesting ==
  ASSUME NEW f, NEW g,
         g \in TestsLowRatio(f) \cup NoTestCIIntegration(f) \cup HollowTestSuite(f)
  PROVE  \/ g = Finding("TESTING-RATIO-001", "testing", "medium",
                        [testing |-> 8, reliability |-> 4])
         \/ g = Finding("TESTING-CI-DEPTH-001", "testing", "medium",
                        [testing |-> 6, reliability |-> 3])
         \/ g = Finding("GAMING-TESTS-001", "testing", "medium",
                        [testing |-> 10, reliability |-> 5])
BY DEF TestsLowRatio, NoTestCIIntegration, HollowTestSuite, When

\* Without a critical or a high finding both gates are passed.
LEMMA MildPasses ==
  ASSUME NEW f, NEW kept, IsKept(kept), NEW findings, IsFiniteSet(findings),
         \A g \in findings : Tame(g, f, kept) /\ Mild(g), NEW depth
  PROVE  Score(findings, depth, "security") >= 79 /\ Score(findings, depth, "testing") >= 79
<1>0. \A g \in findings : Proper(g)
  BY DEF Tame
<1>1. Penalty(findings, "security") <= 200 * 21
  <2> DEFINE G == Charged(findings, "security")
             rule == "SEC-BANDIT-GROUPED-001"
             docker == Finding("DOCKER-SEC-001", "security", "medium", [security |-> 8])
             n == Least(2 * Cardinality(kept.bandit \ Severe(kept.bandit)), 10)
             minor == Keyed(<<rule, "minor">>, rule, "security", "medium", [security |-> n])
  <2>1. \A g \in G : g = docker \/ g = minor
    BY MildOfSecurity DEF Charged, Tame
  <2>2. n \in Nat /\ n <= 10
    <3>1. IsFiniteSet(kept.bandit \ Severe(kept.bandit))
      BY FS_Subset DEF IsKept
    <3>2. Cardinality(kept.bandit \ Severe(kept.bandit)) \in Nat
      BY <3>1, FS_CardinalityType
    <3> QED
      BY <3>2 DEF Least
  <2>3. docker.rule = "DOCKER-SEC-001" /\ minor.rule = rule
    BY DEF Finding, Keyed
  <2>4. docker.impact["security"] <= 10 /\ minor.impact["security"] <= 10
    BY <2>2 DEF Finding, Keyed
  <2>5. RulesOf(G) \subseteq {"DOCKER-SEC-001", rule, rule}
    BY <2>1, <2>3 DEF RulesOf
  <2>6. \A g \in G : Mild(g)
    BY DEF Charged
  <2> HIDE DEF docker, minor, G, rule
  <2>7. \A g, h \in G : g.rule = h.rule => g = h
    BY <2>1, <2>3 DEF rule
  <2> QED
    BY <1>0, <2>1, <2>4, <2>5, <2>6, <2>7, FewRules DEF G
<1>2. Penalty(findings, "testing") <= 200 * 21
  <2> DEFINE G == Charged(findings, "testing")
             ratio == Finding("TESTING-RATIO-001", "testing", "medium",
                              [testing |-> 8, reliability |-> 4])
             ci == Finding("TESTING-CI-DEPTH-001", "testing", "medium",
                           [testing |-> 6, reliability |-> 3])
             hollow == Finding("GAMING-TESTS-001", "testing", "medium",
                               [testing |-> 10, reliability |-> 5])
  <2>1. \A g \in G : g = ratio \/ g = ci \/ g = hollow
    BY MildOfTesting DEF Charged, Tame
  <2>2. /\ ratio.rule = "TESTING-RATIO-001" /\ ci.rule = "TESTING-CI-DEPTH-001"
        /\ hollow.rule = "GAMING-TESTS-001"
    BY DEF Finding, Keyed
  <2>3. /\ ratio.impact["testing"] <= 10 /\ ci.impact["testing"] <= 10
        /\ hollow.impact["testing"] <= 10
    BY DEF Finding, Keyed
  <2>4. \A g \in G : Mild(g)
    BY DEF Charged
  <2> HIDE DEF ratio, ci, hollow, G
  <2>5. RulesOf(G) \subseteq {"TESTING-RATIO-001", "TESTING-CI-DEPTH-001", "GAMING-TESTS-001"}
    BY <2>1, <2>2 DEF RulesOf
  <2>6. \A g, h \in G : g.rule = h.rule => g = h
    BY <2>1, <2>2
  <2> QED
    BY <1>0, <2>1, <2>3, <2>4, <2>5, <2>6, FewRules DEF G
<1> QED
  BY <1>0, <1>1, <1>2, ScoreIs DEF Domains

-----------------------------------------------------------------------------
(* Reasons and fixes                                                       *)

\* A finite set has subsets of every smaller size.
LEMMA SubsetOfSize ==
  ASSUME NEW S, IsFiniteSet(S), NEW n \in Nat, n <= Cardinality(S)
  PROVE  \E s \in SUBSET S : Cardinality(s) = n
<1> DEFINE T == {m \in Nat : m <= Cardinality(S) => \E s \in SUBSET S : Cardinality(s) = m}
<1>1. Cardinality(S) \in Nat
  BY FS_CardinalityType
<1>2. 0 \in T
  BY FS_EmptySet
<1>3. ASSUME NEW m \in Nat, m \in T PROVE m + 1 \in T
  <2> SUFFICES ASSUME m + 1 <= Cardinality(S)
               PROVE  \E s \in SUBSET S : Cardinality(s) = m + 1
    OBVIOUS
  <2>1. PICK s \in SUBSET S : Cardinality(s) = m
    BY <1>1, <1>3
  <2>2. PICK x \in S : x \notin s
    BY <1>1, <2>1
  <2>3. IsFiniteSet(s)
    BY FS_Subset
  <2>4. Cardinality(s \cup {x}) = m + 1
    BY <2>1, <2>2, <2>3, FS_AddElement
  <2> QED
    BY <2>4
<1>4. Nat \subseteq T
  <2> HIDE DEF T
  <2> QED
    BY <1>2, <1>3, SetInduction
<1> QED
  BY <1>4

\* A severe finding has a fix proposed.
LEMMA SevereHaveFixes ==
  ASSUME NEW s, NEW findings, IsFiniteSet(findings), Flips(s, findings) = {}
  PROVE  OfSeverity(findings, "critical") = {} /\ OfSeverity(findings, "high") = {}
<1> DEFINE high == OfSeverity(findings, "high")
           critical == OfSeverity(findings, "critical")
           costly == IF s.security < 65 THEN Charged(high, "security") ELSE {}
           one(S) == IF S = {} THEN {} ELSE {(CHOOSE g \in S : TRUE).rule}
           lead == one(critical)
                   \cup one({g \in costly : \A h \in costly :
                               h.impact.security <= g.impact.security})
                   \cup (IF s.testing >= 50 THEN {}
                         ELSE IF HasRule(findings, "TESTING-001") THEN {"TESTING-001"}
                         ELSE {"TEST-CI-001"} \cap {g.rule : g \in findings})
           others == RulesOf(high) \ lead
           Size(some) == Cardinality(some) =
                           Least(3 - Cardinality(lead), Cardinality(others))
           more == CHOOSE some \in SUBSET others : Size(some)
<1>1. Flips(s, findings) = lead \cup more
  BY DEF Flips, RulesOf
<1>2. lead = {} /\ more = {}
  <2> HIDE DEF lead, more
  <2> QED
    BY <1>1
<1>3. critical = {}
  <2>1. one(critical) = {}
    BY <1>2
  <2> QED
    BY <2>1
<1>4. others = RulesOf(high)
  BY <1>2
<1>5. IsFiniteSet(others)
  <2>1. IsFiniteSet(high)
    BY FS_Subset DEF OfSeverity
  <2>2. IsFiniteSet(RulesOf(high))
    BY <2>1, RulesFinite
  <2> QED
    BY <1>4, <2>2
<1>6. high = {}
  <2> SUFFICES ASSUME high # {} PROVE FALSE
    OBVIOUS
  <2>1. others # {}
    <3>1. RulesOf(high) # {}
      BY DEF RulesOf
    <3> HIDE DEF others, high
    <3> QED
      BY <1>4, <3>1
  <2>2. Cardinality(lead) = 0
    BY <1>2, FS_EmptySet
  <2> DEFINE n == Least(3 - Cardinality(lead), Cardinality(others))
  <2>3. Cardinality(others) \in Nat /\ Cardinality(others) # 0
    <3> HIDE DEF others
    <3> QED
      BY <1>5, <2>1, FS_CardinalityType, FS_EmptySet
  <2>4. n \in Nat /\ n # 0 /\ n <= Cardinality(others)
    <3> HIDE DEF others, lead
    <3> QED
      BY <2>2, <2>3 DEF Least
  <2>5. \E some \in SUBSET others : Size(some)
    <3> HIDE DEF others, lead, n
    <3>1. \E some \in SUBSET others : Cardinality(some) = n
      BY <1>5, <2>4, SubsetOfSize
    <3> QED
      BY <3>1 DEF n
  <2>6. Size(more)
    <3> HIDE DEF others, Size
    <3> QED
      BY <2>5
  <2>7. Cardinality(more) = n
    BY <2>6
  <2> HIDE DEF more, n
  <2> QED
    BY <1>2, <2>4, <2>7, FS_EmptySet
<1> QED
  BY <1>3, <1>6

\* Without a critical finding and a failed gate there is no reason.
LEMMA NoReasons ==
  ASSUME NEW s, NEW findings, OfSeverity(findings, "critical") = {},
         ~(s.security < 65), ~(s.testing < 50)
  PROVE  WhyNot(s, findings) = {}
<1> DEFINE gates == (IF s.security < 65 THEN {<<"security">>} ELSE {})
                    \cup (IF s.testing < 50 THEN {<<"testing">>} ELSE {})
           critical == {g.key : g \in OfSeverity(findings, "critical")}
           Named(some) == Cardinality(some) = Least(Least(2, 3 - Cardinality(gates)),
                                                    Cardinality(critical))
           named == CHOOSE some \in SUBSET critical : Named(some)
<1>1. WhyNot(s, findings) = gates \cup {<<"critical", k>> : k \in named}
  BY DEF WhyNot
<1>2. gates = {} /\ critical = {}
  OBVIOUS
<1>3. Named({})
  <2> HIDE DEF gates, critical
  <2> QED
    BY <1>2, FS_EmptySet DEF Least
<1>4. named \in SUBSET critical
  <2> HIDE DEF Named, critical
  <2> QED
    BY <1>2, <1>3
<1> QED
  <2> HIDE DEF gates, critical, named
  <2> QED
    BY <1>1, <1>2, <1>4

\* A gate is named to who failed it, and to every one who did.
LEMMA GatesNamed ==
  ASSUME NEW s, NEW findings
  PROVE  /\ s.security < 65 \/ s.testing < 50 => WhyNot(s, findings) # {}
         /\ ~(s.security < 65) /\ ~(s.testing < 50)
              => \A r \in WhyNot(s, findings) : r[1] = "critical"
<1> DEFINE gates == (IF s.security < 65 THEN {<<"security">>} ELSE {})
                    \cup (IF s.testing < 50 THEN {<<"testing">>} ELSE {})
           critical == {g.key : g \in OfSeverity(findings, "critical")}
           named == CHOOSE some \in SUBSET critical :
                      Cardinality(some) = Least(Least(2, 3 - Cardinality(gates)),
                                                Cardinality(critical))
<1>1. WhyNot(s, findings) = gates \cup {<<"critical", k>> : k \in named}
  BY DEF WhyNot
<1>2. s.security < 65 \/ s.testing < 50 => gates # {}
  OBVIOUS
<1>3. ~(s.security < 65) /\ ~(s.testing < 50) => gates = {}
  OBVIOUS
<1>4. \A k : <<"critical", k>>[1] = "critical"
  OBVIOUS
<1> HIDE DEF gates, critical, named
<1> QED
  BY <1>1, <1>2, <1>3, <1>4

-----------------------------------------------------------------------------
(* Sentences and their trace                                               *)

\* The developer paragraph is the same of what the model is shown.
LEMMA ShownIsSevere ==
  ASSUME NEW findings
  PROVE  /\ OfSeverity(Shown(findings), "critical") = OfSeverity(findings, "critical")
         /\ OfSeverity(Shown(findings), "high") = OfSeverity(findings, "high")
  BY DEF Shown, OfSeverity

\* The developer paragraph has the sentences of its trace.
LEMMA DeveloperTraced ==
  ASSUME NEW s, NEW findings
  PROVE  Developer(s, Shown(findings)) = Developer(s, findings)
  BY ShownIsSevere, Zenon DEF Developer

\* Every sentence of the manager paragraph is traced.
LEMMA ManagerTraced ==
  ASSUME NEW s
  PROVE  Manager(s) \subseteq TracedManager(s)
<1>1. CASE Suitable(s)
  BY <1>1 DEF Manager, TracedManager
<1>2. CASE ~Suitable(s)
  BY <1>2 DEF Manager, TracedManager
<1> QED
  BY <1>1, <1>2

\* Every sentence of the hiring paragraph is traced.
LEMMA HiringTraced ==
  ASSUME NEW s, NEW label, NEW ran
  PROVE  Hiring(s, label, ran) \subseteq TracedHiring(s, label, ran)
<1> DEFINE lacks == {<<"lacks discipline", Qualifier(label), FirstOf(2, Weak(s))>>}
           basic == {<<"basic hygiene">>} \cup (IF ran THEN {} ELSE {<<"no static analysis">>})
           solid == {<<"solid discipline", Qualifier(label), FirstOf(3, Strong(s))>>}
           absent == IF s.testing < 40 THEN {<<"absence of testing">>} ELSE {}
<1>1. Hiring(s, label, ran) = IF Weak(s) # <<>> THEN lacks \cup absent
                              ELSE IF label = "Low" THEN basic ELSE solid
  BY DEF Hiring
<1>2. TracedHiring(s, label, ran) = (IF Weak(s) # <<>> THEN lacks
                                     ELSE IF label = "Low" THEN basic ELSE solid) \cup absent
  BY DEF TracedHiring
<1> HIDE DEF lacks, basic, solid, absent
<1> QED
  BY <1>1, <1>2

-----------------------------------------------------------------------------
(* Every review of every repository                                        *)

\* What is counted of the repository is a number, and what is listed ends.
FactsTyped == IsFacts(facts)
\* The report in store is the review of what is there now.
TypedReview == FactsTyped /\ report = Review(facts, tools)

\* Every commit and every change of a scanner is reviewed.
LEMMA TypedReviewHolds == Spec => []TypedReview
<1>1. Init => TypedReview
  BY FactsAssumption DEF Init, TypedReview, FactsTyped
<1>2. TypedReview /\ [Next]_vars => TypedReview'
  <2> SUFFICES ASSUME TypedReview, [Next]_vars PROVE TypedReview'
    OBVIOUS
  <2>1. CASE Commit
    <3>1. PICK field \in DOMAIN Values : \E value \in Values[field] :
            facts' = [facts EXCEPT ![field] = value]
      BY <2>1 DEF Commit
    <3>2. PICK value \in Values[field] : facts' = [facts EXCEPT ![field] = value]
      BY <3>1
    <3>3. IsFact(field, value)
      BY FactsAssumption
    <3>4. DOMAIN facts' = DOMAIN facts
      BY <3>2
    <3>5. \A other \in DOMAIN facts : facts'[other] = IF other = field THEN value ELSE facts[other]
      BY <3>2
    <3>6. \A other \in DOMAIN facts : IsFact(other, facts'[other])
      BY <3>3, <3>5, Zenon DEF TypedReview, FactsTyped, IsFacts
    <3>7. IsFacts(facts')
      BY <3>4, <3>6 DEF TypedReview, FactsTyped, IsFacts
    <3>8. report' = Review(facts', tools')
      BY <2>1 DEF Commit
    <3> QED
      BY <3>7, <3>8 DEF TypedReview, FactsTyped
  <2>2. CASE Rescan
    BY <2>2 DEF Rescan, TypedReview, FactsTyped
  <2>3. CASE UNCHANGED vars
    BY <2>3 DEF vars, TypedReview, FactsTyped
  <2> QED
    BY <2>1, <2>2, <2>3 DEF Next
<1> QED
  BY <1>1, <1>2, PTL DEF Spec

\* What a review works with.
LEMMA ReviewedFindings ==
  ASSUME NEW f, IsFacts(f), NEW t
  PROVE  LET findings == Deduplicate(Execute(f, Kept(f, t)))
         IN  /\ IsKept(Kept(f, t))
             /\ IsFiniteSet(findings)
             /\ \A g \in findings : Tame(g, f, Kept(f, t)) /\ Proper(g)
<1> DEFINE kept == Kept(f, t)
<1>1. IsKept(kept)
  BY KeptTyped
<1>2. IsFiniteSet(Execute(f, kept)) /\ \A g \in Execute(f, kept) : Tame(g, f, kept)
  BY <1>1, ExecuteFinite, ExecuteTame
<1>3. Deduplicate(Execute(f, kept)) \subseteq Execute(f, kept)
  BY <1>2, DeduplicateKeeps DEF Tame
<1>4. IsFiniteSet(Deduplicate(Execute(f, kept)))
  BY <1>2, <1>3, FS_Subset
<1> QED
  BY <1>1, <1>2, <1>3, <1>4 DEF Tame

\* The reasons explain the verdict, in every review of every repository.
THEOREM ReasonsExplainVerdict == Spec => []ReasonsMatchVerdict
<1>1. TypedReview => ReasonsMatchVerdict
  <2> SUFFICES ASSUME TypedReview PROVE ReasonsMatchVerdict
    OBVIOUS
  <2> DEFINE findings == Deduplicate(Execute(facts, Kept(facts, tools)))
             s == Scorecard(findings, Depth(Succeeded(facts, tools)))
  <2>1. /\ report.reasons = WhyNot(s, findings) /\ report.suitable = Suitable(s)
        /\ report.overall = Overall(s)
    BY DEF TypedReview, Review
  <2>2. s.security \in 0..100 /\ s.testing \in 0..100
    <3>1. IsFiniteSet(findings) /\ \A g \in findings : Proper(g)
      BY ReviewedFindings DEF TypedReview, FactsTyped
    <3> HIDE DEF findings
    <3> QED
      BY <3>1, ScoreIs DEF Scorecard, Domains
  <2> HIDE DEF s, findings
  <2>3. ASSUME ~Suitable(s), Band(Overall(s)) \in {"Strong", "Solid"}
        PROVE  WhyNot(s, findings) # {}
    BY <2>2, <2>3, GatesNamed DEF Suitable
  <2>4. ASSUME Suitable(s)
        PROVE  \A r \in WhyNot(s, findings) : r[1] = "critical"
    BY <2>2, <2>4, GatesNamed DEF Suitable
  <2> QED
    BY <2>1, <2>3, <2>4 DEF ReasonsMatchVerdict
<1> QED
  BY <1>1, TypedReviewHolds, PTL

\* Who is turned down is told of something to do.
THEOREM ReasonsComeWithFixes == Spec => []ReasonsHaveFixes
<1>1. TypedReview => ReasonsHaveFixes
  <2> SUFFICES ASSUME TypedReview PROVE ReasonsHaveFixes
    OBVIOUS
  <2> DEFINE kept == Kept(facts, tools)
             findings == Deduplicate(Execute(facts, kept))
             depth == Depth(Succeeded(facts, tools))
             s == Scorecard(findings, depth)
  <2>1. report.reasons = WhyNot(s, findings) /\ report.fixes = Flips(s, findings)
    BY DEF TypedReview, Review
  <2>2. /\ IsKept(kept) /\ IsFiniteSet(findings)
        /\ \A g \in findings : Tame(g, facts, kept) /\ Proper(g)
    BY ReviewedFindings DEF TypedReview, FactsTyped
  <2>3. /\ s.security = Score(findings, depth, "security")
        /\ s.testing = Score(findings, depth, "testing")
    BY DEF Scorecard, Domains
  <2> HIDE DEF s, findings, kept, depth
  <2>4. ASSUME Flips(s, findings) = {} PROVE WhyNot(s, findings) = {}
    <3>1. OfSeverity(findings, "critical") = {} /\ OfSeverity(findings, "high") = {}
      BY <2>2, <2>4, SevereHaveFixes
    <3>2. \A g \in findings : Mild(g)
      BY <2>2, <3>1 DEF OfSeverity, Proper, Mild
    <3>3. s.security >= 79 /\ s.testing >= 79
      BY <2>2, <2>3, <3>2, MildPasses
    <3>4. s.security \in Int /\ s.testing \in Int
      BY <2>2, <2>3, ScoreIs DEF Domains
    <3> QED
      BY <3>1, <3>3, <3>4, NoReasons
  <2> QED
    BY <2>1, <2>4 DEF ReasonsHaveFixes
<1> QED
  BY <1>1, TypedReviewHolds, PTL

\* build_summary and build_trace: every sentence is traced.
THEOREM EverySentenceTraced == Spec => []SentencesTraced
<1>1. ASSUME NEW s, NEW findings, NEW label, NEW ran
      PROVE  Said(s, findings, label, ran) \subseteq Traced(s, findings, label, ran)
  BY DeveloperTraced, ManagerTraced, HiringTraced DEF Said, Traced
<1>2. TypedReview => SentencesTraced
  <2> SUFFICES ASSUME NEW f, NEW t, report = Review(f, t) PROVE SentencesTraced
    BY DEF TypedReview
  <2> DEFINE findings == Deduplicate(Execute(f, Kept(f, t)))
             depth == Depth(Succeeded(f, t))
             label == Confidence(f, t)
             ran == Succeeded(f, t) # {}
             s == Scorecard(findings, depth)
  <2>1. report.said = Said(s, findings, label, ran) /\ report.traced = Traced(s, findings, label, ran)
    BY DEF Review
  <2> QED
    BY <1>1, <2>1 DEF SentencesTraced
<1> QED
  BY <1>2, TypedReviewHolds, PTL
=============================================================================
