--------------------------- MODULE AnalysisProofs ---------------------------
(***************************************************************************)
(* The two halves of an analysis, the onboarding tabs and the repository   *)
(* intelligence scan, for any repositories, files and number of lanes.     *)
(*                                                                         *)
(* A result has all its diagnostic tabs or none. What AllTabsOrNone needs  *)
(* besides itself is what a lane knows on its way to the commit: a tab of  *)
(* its instance is one that it wrote or one that is stored, a rollback has *)
(* undone what it wrote with the instance, and nobody commits a row with a *)
(* hole.                                                                   *)
(*                                                                         *)
(* A lane that wrote the whole row tells the same of the tests in two of   *)
(* its tabs, because its reports are all of the files it cloned, and what  *)
(* one analyzer takes for tests the other takes for a harness. A low risk  *)
(* is evidenced, because an analyzer that finds nothing it can be          *)
(* confident of adds the rules for what it misses.                         *)
(*                                                                         *)
(* The tables tell one scan: the graph, the findings and the scores are of *)
(* the same files from the scan to the commit.                             *)
(*                                                                         *)
(* No finding is worth keeping: a score is a weighted average of sums, and *)
(* without a finding no term of any sum is less.                           *)
(*                                                                         *)
(* The critical path is what two confirmed edges reach. The search goes by *)
(* breadth: its queue is in the order of depth, and what is near and not   *)
(* yet visited is behind something that waits in it.                       *)
(*                                                                         *)
(* An exact import finds its file, because only a file's own entry may     *)
(* overwrite, and no other file has one with that key.                     *)
(***************************************************************************)
EXTENDS Onboarding, Intelligence, TLAPS, FiniteSetTheorems, SequenceTheorems, WellFoundedInduction

-----------------------------------------------------------------------------
(* All tabs or none                                                        *)

\* What the variables of the lanes range over.
Shapes == /\ pc \in [Lanes -> Tabs \cup {"idle", "clone", "mark", "commit"}]
          /\ written \in [Lanes -> SUBSET Tabs]
          /\ DOMAIN mem = Lanes /\ DOMAIN expired = Lanes /\ DOMAIN clone = Lanes
          /\ DOMAIN row = Tabs

\* What a lane knows at each step of its way to the commit: a tab in its instance
\* is one that it has written or one that is stored; what it has written is of
\* its clone, or a failure; a commit completes the row.
OnTheWay(l) == /\ DOMAIN mem[l] = Tabs
               /\ \A t \in Tabs : mem[l][t] # {} => t \in written[l] \/ row[t] # {}
               /\ \A t \in written[l] : mem[l][t] \in {{Analyze(t, clone[l])}, {ScanFailed}}
               /\ expired[l] \/ pc[l] \in {"idle", "clone"} => written[l] = {}
               /\ pc[l] = "commit" => HasAllTabs(mem[l])

\* The inductive invariant of AllTabsOrNone and TabsTellOfTests.
TabsInvariant == Shapes /\ AllTabsOrNone /\ \A l \in Lanes : OnTheWay(l)

\* Nothing is stored and nobody works at the start.
LEMMA TabsInit == Init => TabsInvariant
  BY DEF Init, TabsInvariant, Shapes, AllTabsOrNone, OnTheWay, NoTabs, Tabs, HasAllTabs

\* What a lane knows does not depend on the steps of others, who take no tab out
\* of the row.
LEMMA OthersKeep ==
  ASSUME NEW l \in Lanes, \A m \in Lanes : OnTheWay(m), OnTheWay(l)',
         \A t \in Tabs : row[t] # {} => row'[t] # {},
         \A m \in Lanes \ {l} : /\ pc'[m] = pc[m] /\ mem'[m] = mem[m] /\ clone'[m] = clone[m]
                                /\ expired'[m] = expired[m] /\ written'[m] = written[m]
  PROVE  \A m \in Lanes : OnTheWay(m)'
  BY DEF OnTheWay, HasAllTabs

\* A lane that leaves makes no claims.
LEMMA LeftLane ==
  ASSUME Shapes, NEW l \in Lanes, Leave(l), DOMAIN row' = Tabs
  PROVE  /\ Shapes' /\ OnTheWay(l)'
         /\ \A m \in Lanes \ {l} : /\ pc'[m] = pc[m] /\ mem'[m] = mem[m] /\ clone'[m] = clone[m]
                                   /\ expired'[m] = expired[m] /\ written'[m] = written[m]
  BY DEF Shapes, Leave, OnTheWay, NoTabs, HasAllTabs

\* A commit completes the row.
LEMMA CommitCompletes ==
  ASSUME TabsInvariant, NEW l \in Lanes, Commit(l)
  PROVE  DOMAIN row' = Tabs /\ HasAllTabs(row')
<1>1. row' = Updated(l) /\ HasAllTabs(mem[l]) /\ OnTheWay(l)
  BY DEF Commit, TabsInvariant, OnTheWay
<1>2. ASSUME NEW t \in Tabs PROVE row'[t] # {}
  BY <1>1, <1>2 DEF Updated, HasAllTabs, OnTheWay
<1> QED
  BY <1>1, <1>2 DEF Updated, HasAllTabs

\* Every step of a lane keeps the invariant.
LEMMA TabsStep ==
  ASSUME TabsInvariant, NEW l \in Lanes, Step(l)
  PROVE  TabsInvariant'
<1> USE DEF TabsInvariant
<1> DEFINE Apart == \A m \in Lanes \ {l} :
                      /\ pc'[m] = pc[m] /\ mem'[m] = mem[m] /\ clone'[m] = clone[m]
                      /\ expired'[m] = expired[m] /\ written'[m] = written[m]
<1>0. Shapes /\ AllTabsOrNone /\ OnTheWay(l)
  OBVIOUS
<1>1. ASSUME row' = row, Shapes', Apart, OnTheWay(l)'
      PROVE  TabsInvariant'
  <2>1. AllTabsOrNone'
    BY <1>1 DEF AllTabsOrNone, HasAllTabs
  <2>2. \A m \in Lanes : OnTheWay(m)'
    BY <1>1, OthersKeep
  <2> QED
    BY <1>1, <2>1, <2>2
<1>2. CASE Begin(l)
  <2>1. row' = row /\ Shapes' /\ Apart
    BY <1>0, <1>2 DEF Begin, Shapes
  <2>2. OnTheWay(l)'
    BY <1>0, <1>2 DEF Begin, Shapes, OnTheWay
  <2> QED
    BY <1>1, <2>1, <2>2
<1>3. CASE Clone(l)
  <2>1. row' = row /\ Shapes' /\ Apart
    BY <1>0, <1>3 DEF Clone, Shapes, Tabs
  <2>2. OnTheWay(l)'
    BY <1>0, <1>3 DEF Clone, Shapes, OnTheWay
  <2> QED
    BY <1>1, <2>1, <2>2
<1>4. CASE CloneFails(l)
  <2>1. row' = row /\ Shapes' /\ Apart
    BY <1>0, <1>4 DEF CloneFails, Shapes
  <2>2. OnTheWay(l)'
    BY <1>0, <1>4 DEF CloneFails, Shapes, OnTheWay
  <2> QED
    BY <1>1, <2>1, <2>2
<1>5. ASSUME NEW tab \in Tabs, RunSection(l, tab)
      PROVE  TabsInvariant'
  <2>1. NextTab[tab] \in Tabs \cup {"mark"} /\ NextTab[tab] # "commit" /\ NextTab[tab] \notin {"idle", "clone"}
    BY DEF NextTab, Tabs
  <2>2. row' = row /\ Shapes' /\ Apart
    BY <1>0, <1>5, <2>1 DEF RunSection, Shapes
  <2>3. /\ mem'[l] = [mem[l] EXCEPT ![tab] = {Analyze(tab, clone[l])}]
        /\ written'[l] = written[l] \cup {tab} /\ clone'[l] = clone[l]
        /\ ~expired'[l] /\ pc'[l] = NextTab[tab]
    BY <1>0, <1>5 DEF RunSection, Shapes
  <2>4. \A t \in Tabs : mem'[l][t] = IF t = tab THEN {Analyze(tab, clone[l])} ELSE mem[l][t]
    BY <1>0, <2>3 DEF OnTheWay
  <2>5. \A t \in Tabs : mem'[l][t] # {} => t \in written'[l] \/ row[t] # {}
    BY <1>0, <2>3, <2>4 DEF OnTheWay
  <2>6. \A t \in written'[l] : mem'[l][t] \in {{Analyze(t, clone'[l])}, {ScanFailed}}
    BY <1>0, <2>3, <2>4 DEF OnTheWay, Shapes
  <2>7. OnTheWay(l)'
    BY <1>0, <2>1, <2>2, <2>3, <2>5, <2>6 DEF OnTheWay
  <2> QED
    BY <1>1, <2>2, <2>7
<1>6. ASSUME NEW tab \in Tabs, SectionWriteFails(l, tab)
      PROVE  TabsInvariant'
  <2>1. NextTab[tab] \in Tabs \cup {"mark"} /\ NextTab[tab] # "commit"
    BY DEF NextTab, Tabs
  <2>2. row' = row /\ Shapes' /\ Apart
    BY <1>0, <1>6, <2>1 DEF SectionWriteFails, Shapes
  <2>3. OnTheWay(l)'
    BY <1>0, <1>6, <2>1 DEF SectionWriteFails, Shapes, OnTheWay, NoTabs
  <2> QED
    BY <1>1, <2>2, <2>3
<1>7. CASE Reload(l)
  <2>1. row' = row /\ Shapes' /\ Apart
    BY <1>0, <1>7 DEF Reload, Shapes
  <2>2. mem'[l] = row /\ written'[l] = {} /\ pc'[l] # "commit"
    BY <1>0, <1>7 DEF Reload, Shapes, OnTheWay, Tabs
  <2>3. OnTheWay(l)'
    BY <1>0, <2>1, <2>2 DEF OnTheWay, Shapes
  <2> QED
    BY <1>1, <2>1, <2>3
<1>8. CASE MarkMissing(l)
  <2> DEFINE missing == {t \in Tabs : mem[l][t] = {}}
  <2>1. row' = row /\ Shapes' /\ Apart
    BY <1>0, <1>8 DEF MarkMissing, Shapes
  <2>2. /\ mem'[l] = [t \in Tabs |-> IF t \in missing THEN {ScanFailed} ELSE mem[l][t]]
        /\ written'[l] = written[l] \cup missing /\ clone'[l] = clone[l]
        /\ ~expired'[l] /\ pc'[l] = "commit"
    BY <1>0, <1>8 DEF MarkMissing, Marks, Shapes
  <2>3. DOMAIN mem'[l] = Tabs /\ HasAllTabs(mem'[l])
    BY <2>2 DEF HasAllTabs
  <2>4. \A t \in Tabs : mem'[l][t] # {} => t \in written'[l] \/ row[t] # {}
    BY <1>0, <2>2 DEF OnTheWay
  <2>5. \A t \in written'[l] : mem'[l][t] \in {{Analyze(t, clone'[l])}, {ScanFailed}}
    BY <1>0, <2>2 DEF OnTheWay, Shapes
  <2>6. OnTheWay(l)'
    BY <2>1, <2>2, <2>3, <2>4, <2>5 DEF OnTheWay, HasAllTabs
  <2> QED
    BY <1>1, <2>1, <2>6
<1>9. CASE Commit(l)
  <2>1. DOMAIN row' = Tabs /\ HasAllTabs(row') /\ Leave(l)
    BY <1>9, CommitCompletes DEF Commit
  <2>2. Shapes' /\ OnTheWay(l)' /\ Apart
    BY <1>0, <2>1, LeftLane
  <2>3. AllTabsOrNone' /\ \A t \in Tabs : row[t] # {} => row'[t] # {}
    BY <2>1 DEF AllTabsOrNone, HasAllTabs
  <2>4. \A m \in Lanes : OnTheWay(m)'
    BY <2>2, <2>3, OthersKeep
  <2> QED
    BY <2>2, <2>3, <2>4
<1>10. ASSUME Abort(l) \/ Die(l)
       PROVE  TabsInvariant'
  <2>1. Leave(l) /\ row' = row /\ DOMAIN row' = Tabs
    BY <1>0, <1>10 DEF Abort, Die, Shapes
  <2>2. Shapes' /\ OnTheWay(l)' /\ Apart
    BY <1>0, <2>1, LeftLane
  <2> QED
    BY <1>1, <2>1, <2>2
<1> QED
  BY <1>2, <1>3, <1>4, <1>5, <1>6, <1>7, <1>8, <1>9, <1>10 DEF Step

\* The inductive invariant holds in every reachable state.
THEOREM TabsInvariantHolds == Spec => []TabsInvariant
<1>1. TabsInvariant /\ [Next]_vars => TabsInvariant'
  <2> SUFFICES ASSUME TabsInvariant, [Next]_vars PROVE TabsInvariant'
    OBVIOUS
  <2>1. CASE Edit
    BY <2>1 DEF Edit, TabsInvariant, Shapes, AllTabsOrNone, OnTheWay
  <2>2. CASE \E l \in Lanes : Step(l)
    BY <2>2, TabsStep
  <2>3. CASE UNCHANGED vars
    BY <2>3 DEF vars, TabsInvariant, Shapes, AllTabsOrNone, OnTheWay
  <2> QED
    BY <2>1, <2>2, <2>3 DEF Next
<1> QED
  BY TabsInit, <1>1, PTL DEF Spec

\* _populate_diagnostic_tabs: a result row has all three diagnostic tabs or
\* none, whatever fails, dies or overlaps.
THEOREM AllTabsOrNoneHolds == Spec => []AllTabsOrNone
  BY TabsInvariantHolds, PTL DEF TabsInvariant

-----------------------------------------------------------------------------
(* The tabs agree about tests                                              *)

\* A change risk without the rule has found tests.
LEMMA ChangeTellsOfTests ==
  ASSUME NEW fs, "no_tests" \notin Rules(AnalyzeChangeRisk(fs))
  PROVE  Found(DetectTestGates(fs))
<1> DEFINE e == ChangeEvidence(fs)
           report == AnalyzeChangeRisk(fs)
<1> SUFFICES ASSUME ~Found(e.test_gates) PROVE FALSE
  BY DEF ChangeEvidence
<1>1. "no_tests" \in ChangeRules(e)
  BY DEF ChangeRules, ChangeSection
<1>2. report.risks = {[category |-> ChangeSection[r], rule |-> r,
                       evidence |-> OrAbsence(e[ChangeSection[r]].signals, r)] : r \in ChangeRules(e)}
  BY DEF AnalyzeChangeRisk, ScoreChangeRisk
<1>3. \E k \in report.risks : k.rule = "no_tests"
  <2> DEFINE k == [category |-> ChangeSection["no_tests"], rule |-> "no_tests",
                   evidence |-> OrAbsence(e[ChangeSection["no_tests"]].signals, "no_tests")]
  <2>1. k \in report.risks
    BY <1>1, <1>2, Zenon
  <2>2. k.rule = "no_tests"
    OBVIOUS
  <2> QED
    BY <2>1, <2>2, Zenon
<1> QED
  BY <1>3 DEF Rules

\* What the change risk takes for tests, debug readiness takes for a harness.
LEMMA GatesAreHarness ==
  ASSUME NEW fs, Found(DetectTestGates(fs))
  PROVE  Found(DetectTestHarness(fs))
  BY DEF Found, FoundIf, DetectTestGates, DetectTestHarness, Matches

\* A debug readiness that found the harness does not miss it.
LEMMA DebugTellsOfHarness ==
  ASSUME NEW fs, Found(DetectTestHarness(fs))
  PROVE  "no_test_harness" \notin Rules(AnalyzeDebugReadiness(fs))
<1> DEFINE e == DebugEvidence(fs)
           report == AnalyzeDebugReadiness(fs)
           lacking == {s \in DOMAIN e : ~Found(e[s])}
<1>1. report.risks = {[category |-> s, rule |-> DebugRule[s],
                       evidence |-> OrAbsence(e[s].signals, DebugRule[s])] : s \in lacking}
  BY DEF AnalyzeDebugReadiness, ScoreDebugReadiness
<1>2. "test_harness" \notin lacking
  BY DEF DebugEvidence
<1>3. \A s \in lacking : DebugRule[s] # "no_test_harness"
  BY <1>2 DEF DebugEvidence, DebugRule
<1>4. \A k \in report.risks : k.rule # "no_test_harness"
  <2> HIDE DEF e, report, lacking
  <2> QED
    BY <1>1, <1>3
<1> QED
  BY <1>4 DEF Rules

\* The two analyzers, run on the same files.
LEMMA AnalyzersTellOfTests ==
  ASSUME NEW fs, "no_tests" \notin Rules(AnalyzeChangeRisk(fs))
  PROVE  "no_test_harness" \notin Rules(AnalyzeDebugReadiness(fs))
  BY ChangeTellsOfTests, GatesAreHarness, DebugTellsOfHarness

\* A lane that has written the whole row stores reports of one clone, or failures.
LEMMA WholeRowsTell ==
  ASSUME TabsInvariant, NEW l \in Lanes, Commit(l), written[l] = Tabs
  PROVE  TellsOfTests(row')
<1>1. \A t \in Tabs : row'[t] \in {{Analyze(t, clone[l])}, {ScanFailed}}
  BY DEF TabsInvariant, OnTheWay, Commit, Updated
<1> SUFFICES ASSUME NEW change \in row'["change_risk"], NEW debug \in row'["debug_readiness"],
                    Found(change), Found(debug), "no_tests" \notin Rules(change)
             PROVE  "no_test_harness" \notin Rules(debug)
  BY DEF TellsOfTests
<1>2. ~Found(ScanFailed)
  BY DEF Found, ScanFailed
<1>3. change = Analyze("change_risk", clone[l]) /\ debug = Analyze("debug_readiness", clone[l])
  BY <1>1, <1>2 DEF Tabs
<1>4. change = AnalyzeChangeRisk(clone[l]) /\ debug = AnalyzeDebugReadiness(clone[l])
  BY <1>3 DEF Analyze
<1> QED
  BY <1>4, AnalyzersTellOfTests

\* The two analyzers that look for tests: where a lane wrote the whole row, its
\* debug readiness sees the tests that its change risk saw, whatever the files.
THEOREM TabsAgreeOnTests == Spec => TabsTellOfTests
<1>1. TabsInvariant /\ [Next]_vars =>
        [\A l \in Lanes : Commit(l) /\ written[l] = Tabs => TellsOfTests(row')]_vars
  BY WholeRowsTell
<1> QED
  BY <1>1, TabsInvariantHolds, PTL DEF Spec, TabsTellOfTests

-----------------------------------------------------------------------------
(* A low risk rests on evidence                                            *)

\* Five sections of which one is found and none has failed: confidence is forty
\* hundredths at least.
LEMMA FoundSectionCounts ==
  ASSUME NEW e, IsFiniteSet(DOMAIN e), NEW s \in DOMAIN e, Found(e[s]),
         \A d \in DOMAIN e : e[d].scan_state # "scan_failed"
  PROVE  SectionConfidence(e) \in Nat /\ SectionConfidence(e) >= 40
<1> DEFINE In(state) == Cardinality({d \in DOMAIN e : e[d].scan_state = state})
           found == {d \in DOMAIN e : e[d].scan_state = "found"}
<1>1. In("scan_failed") = 0
  <2>1. {d \in DOMAIN e : e[d].scan_state = "scan_failed"} = {}
    OBVIOUS
  <2> QED
    BY <2>1, FS_EmptySet, Zenon
<1>2. In("found") \in Nat /\ In("found") >= 1
  <2>1. IsFiniteSet(found) /\ s \in found
    BY FS_Subset DEF Found
  <2>2. Cardinality(found) \in Nat /\ Cardinality(found) # 0
    BY <2>1, FS_CardinalityType, FS_EmptySet
  <2> QED
    BY <2>2
<1>3. SectionConfidence(e) = LET raw == Capped(20 * In("found") + 20, 100) - 10 * In("scan_failed")
                             IN  IF raw < 0 THEN 0 ELSE raw
  BY DEF SectionConfidence
<1> HIDE DEF In
<1>4. 20 * In("found") + 20 \in Nat /\ 20 * In("found") + 20 >= 40
  BY <1>2
<1> QED
  BY <1>1, <1>3, <1>4 DEF Capped

\* Sets written out are finite.
LEMMA FiveFinite ==
  ASSUME NEW a, NEW b, NEW c, NEW d, NEW e
  PROVE  IsFiniteSet({a, b, c, d, e})
<1>1. IsFiniteSet({} \cup {a})
  BY FS_EmptySet, FS_AddElement, Zenon
<1>2. IsFiniteSet(({} \cup {a}) \cup {b})
  BY <1>1, FS_AddElement, Zenon
<1>3. IsFiniteSet((({} \cup {a}) \cup {b}) \cup {c})
  BY <1>2, FS_AddElement, Zenon
<1>4. IsFiniteSet(((({} \cup {a}) \cup {b}) \cup {c}) \cup {d})
  BY <1>3, FS_AddElement, Zenon
<1>5. IsFiniteSet((((({} \cup {a}) \cup {b}) \cup {c}) \cup {d}) \cup {e})
  BY <1>4, FS_AddElement, Zenon
<1>6. (((({} \cup {a}) \cup {b}) \cup {c}) \cup {d}) \cup {e} = {a, b, c, d, e}
  OBVIOUS
<1> QED
  BY <1>5, <1>6

\* Debug readiness is a low risk only where logging was found.
LEMMA DebugLowIsEvidenced ==
  ASSUME NEW fs, AnalyzeDebugReadiness(fs).level = "low"
  PROVE  AnalyzeDebugReadiness(fs).confidence >= 25
<1> DEFINE e == DebugEvidence(fs)
           lacking == {s \in DOMAIN e : ~Found(e[s])}
           rules == {DebugRule[s] : s \in lacking}
           W(r) == Weighed(DebugWeights, rules, r)
           sum == W("no_structured_logging") + W("no_test_harness") + W("no_error_handling")
                    + W("no_health_check") + W("no_tracing")
<1>1. /\ AnalyzeDebugReadiness(fs).level = Level(Capped(sum, 100), 25, 55)
      /\ AnalyzeDebugReadiness(fs).confidence = SectionConfidence(e)
  BY DEF AnalyzeDebugReadiness, ScoreDebugReadiness
<1>2. DOMAIN e = {"logging", "error_handling", "health_checks", "tracing", "test_harness"}
  BY DEF DebugEvidence
<1>3. \A d \in DOMAIN e : e[d].scan_state # "scan_failed"
  <2>1. DetectLogging(fs).scan_state # "scan_failed"
    BY DEF DetectLogging, FoundIf
  <2>2. DetectErrorHandling(fs).scan_state # "scan_failed"
    BY DEF DetectErrorHandling, FoundIf
  <2>3. DetectHealthChecks(fs).scan_state # "scan_failed"
    BY DEF DetectHealthChecks, FoundIf
  <2>4. DetectTracing(fs).scan_state # "scan_failed"
    BY DEF DetectTracing, FoundIf
  <2>5. DetectTestHarness(fs).scan_state # "scan_failed"
    BY DEF DetectTestHarness, FoundIf
  <2> QED
    BY <1>2, <2>1, <2>2, <2>3, <2>4, <2>5 DEF DebugEvidence
<1>4. IsFiniteSet(DOMAIN e)
  <2>1. IsFiniteSet({"logging", "error_handling", "health_checks", "tracing", "test_harness"})
    BY FiveFinite, Zenon
  <2> HIDE DEF e
  <2> QED
    BY <1>2, <2>1
<1>5. "logging" \notin lacking
  <2> SUFFICES ASSUME "logging" \in lacking PROVE FALSE
    OBVIOUS
  <2>1. "no_structured_logging" \in rules
    BY DEF DebugRule
  <2> HIDE DEF rules, lacking, e
  <2>2. /\ W("no_structured_logging") = 30
        /\ W("no_test_harness") \in Nat /\ W("no_error_handling") \in Nat
        /\ W("no_health_check") \in Nat /\ W("no_tracing") \in Nat
    BY <2>1 DEF Weighed, DebugWeights
  <2> HIDE DEF W
  <2>3. sum \in Nat /\ sum >= 30
    BY <2>2
  <2> HIDE DEF sum
  <2> QED
    BY <1>1, <2>3 DEF Level, Capped
<1>6. Found(e["logging"])
  BY <1>2, <1>5
<1> HIDE DEF e
<1> QED
  BY <1>1, <1>2, <1>3, <1>4, <1>6, FoundSectionCounts

\* Change risk is a low risk only where a build that tests was found, if the
\* hotspots can be counted.
LEMMA ChangeLowIsEvidenced ==
  ASSUME NEW fs, IsFiniteSet(fs), AnalyzeChangeRisk(fs).level = "low"
  PROVE  AnalyzeChangeRisk(fs).confidence >= 25
<1> DEFINE e == ChangeEvidence(fs)
           hot == Cardinality(Hotspots(fs))
           rules == ChangeRules(e)
           W(r) == Weighed(ChangeWeights, rules, r)
           sum == W("no_ci") + W("ci_no_test_gate") + W("no_tests")
                    + W("migrations_without_tests") + Capped(5 * hot, 20)
<1>1. /\ AnalyzeChangeRisk(fs).level = Level(Capped(sum, 100), 25, 55)
      /\ AnalyzeChangeRisk(fs).confidence = SectionConfidence(e)
  BY DEF AnalyzeChangeRisk, ScoreChangeRisk
<1>2. DOMAIN e = {"ci", "test_gates", "migration_risk", "config_risk", "hotspots"}
  BY DEF ChangeEvidence
<1>3. \A d \in DOMAIN e : e[d].scan_state # "scan_failed"
  <2>1. DetectCISignals(fs).scan_state # "scan_failed"
    BY DEF DetectCISignals, FoundIf
  <2>2. DetectTestGates(fs).scan_state # "scan_failed"
    BY DEF DetectTestGates, FoundIf
  <2>3. DetectMigrationRisk(fs).scan_state # "scan_failed"
    BY DEF DetectMigrationRisk, FoundIf
  <2>4. DetectConfigRisk(fs).scan_state # "scan_failed"
    BY DEF DetectConfigRisk, FoundIf
  <2>5. DetectHotspots(fs).scan_state # "scan_failed"
    BY DEF DetectHotspots, FoundIf
  <2> QED
    BY <1>2, <2>1, <2>2, <2>3, <2>4, <2>5 DEF ChangeEvidence
<1>4. IsFiniteSet(DOMAIN e)
  <2>1. IsFiniteSet({"ci", "test_gates", "migration_risk", "config_risk", "hotspots"})
    BY FiveFinite, Zenon
  <2> HIDE DEF e
  <2> QED
    BY <1>2, <2>1
<1>5. hot \in Nat
  <2>1. IsFiniteSet(Hotspots(fs))
    BY FS_Subset DEF Hotspots, ChangeWalk
  <2> QED
    BY <2>1, FS_CardinalityType
<1>6. Found(e["ci"])
  <2> SUFFICES ASSUME ~Found(e["ci"]) PROVE FALSE
    OBVIOUS
  <2>1. "no_ci" \in rules
    BY DEF ChangeRules, ChangeSection
  <2> HIDE DEF rules, e, hot
  <2>2. /\ W("no_ci") = 35
        /\ W("ci_no_test_gate") \in Nat /\ W("no_tests") \in Nat
        /\ W("migrations_without_tests") \in Nat
    BY <2>1 DEF Weighed, ChangeWeights
  <2>3. Capped(5 * hot, 20) \in Nat
    BY <1>5 DEF Capped
  <2> HIDE DEF W
  <2>4. sum \in Nat /\ sum >= 35
    BY <2>2, <2>3
  <2> HIDE DEF sum
  <2> QED
    BY <1>1, <2>4 DEF Level, Capped
<1> HIDE DEF e
<1> QED
  BY <1>1, <1>2, <1>3, <1>4, <1>6, FoundSectionCounts

\* Setup is a low risk only where a command or a manifest was found.
LEMMA SetupLowIsEvidenced ==
  ASSUME NEW fs, AnalyzeSetupRisk(fs).level = "low"
  PROVE  AnalyzeSetupRisk(fs).confidence >= 25
<1> DEFINE commands == DetectStartCommands(fs)
           bundles == {DetectEnvVars(fs), commands, DetectRequiredServices(fs)}
           e == MergeEvidence(bundles)
           rules == {k.rule : k \in SetupRisks(e)}
           W(r) == Weighed(SetupWeights, rules, r)
           sum == W("missing_env_example") + W("no_start_commands") + W("no_manifests")
           counted == Capped(25 * Cardinality(e.detected_manifests), 100)
<1>1. AnalyzeSetupRisk(fs) = ScoreSetupRisk(e)
  <2>1. ScanFailed.level # "low"
    BY AbsentAssumption DEF ScanFailed, RiskLevels
  <2> QED
    BY <2>1 DEF AnalyzeSetupRisk
<1>2. /\ AnalyzeSetupRisk(fs).level = Level(Capped(sum, 100), 30, 60)
      /\ AnalyzeSetupRisk(fs).confidence =
           IF e.signals # {} /\ counted < 40 THEN 40 ELSE counted
  BY <1>1 DEF ScoreSetupRisk
<1>3. /\ commands \in bundles
      /\ commands.likely_start_commands = commands.signals
  BY DEF DetectStartCommands, NoSetupEvidence
<1>4. /\ e.signals = UNION {b.signals : b \in bundles}
      /\ e.likely_start_commands = UNION {b.likely_start_commands : b \in bundles}
      /\ e.detected_manifests = UNION {b.detected_manifests : b \in bundles}
  BY DEF MergeEvidence
<1>5. /\ DetectEnvVars(fs).likely_start_commands = {}
      /\ DetectRequiredServices(fs).likely_start_commands = {}
      /\ DetectEnvVars(fs).detected_manifests = {}
      /\ DetectRequiredServices(fs).detected_manifests = {}
  BY DEF DetectEnvVars, DetectRequiredServices, NoSetupEvidence
<1>6. e.likely_start_commands \subseteq e.signals
  <2> HIDE DEF commands
  <2> QED
    BY <1>3, <1>4, <1>5
<1>7. IsFiniteSet(e.detected_manifests)
  <2> DEFINE names == {"package.json", "Makefile", "pyproject.toml", "requirements.txt"}
  <2>1. commands.detected_manifests \subseteq names
    BY DEF DetectStartCommands, NoSetupEvidence, AtRoot
  <2>2. IsFiniteSet(names)
    <3>1. IsFiniteSet({"package.json", "Makefile", "pyproject.toml", "requirements.txt", "package.json"})
      BY FiveFinite, Zenon
    <3> QED
      BY <3>1
  <2> HIDE DEF names, commands
  <2>3. e.detected_manifests \subseteq names
    BY <1>4, <1>5, <2>1
  <2> QED
    BY <2>2, <2>3, FS_Subset, Zenon
<1>8. e.likely_start_commands # {} \/ e.detected_manifests # {}
  <2> SUFFICES ASSUME e.likely_start_commands = {}, e.detected_manifests = {} PROVE FALSE
    OBVIOUS
  <2>1. "no_start_commands" \in rules /\ "no_manifests" \in rules
    <3> DEFINE command == [category |-> "start_commands", rule |-> "no_start_commands",
                           evidence |-> {"no_start_commands"}]
               manifest == [category |-> "manifests", rule |-> "no_manifests", evidence |-> {}]
    <3> HIDE DEF e
    <3>1. command \in SetupRisks(e) /\ command.rule = "no_start_commands"
      BY DEF SetupRisks
    <3>2. manifest \in SetupRisks(e) /\ manifest.rule = "no_manifests"
      BY DEF SetupRisks
    <3> QED
      BY <3>1, <3>2
  <2> HIDE DEF rules, e
  <2>2. /\ W("missing_env_example") \in Nat
        /\ W("no_start_commands") = 20 /\ W("no_manifests") = 15
    BY <2>1 DEF Weighed, SetupWeights
  <2> HIDE DEF W
  <2>3. sum \in Nat /\ sum >= 35
    BY <2>2
  <2> HIDE DEF sum
  <2> QED
    BY <1>2, <2>3 DEF Level, Capped
<1>9. counted \in Nat /\ (e.detected_manifests # {} => counted >= 25)
  <2> HIDE DEF e
  <2>1. /\ Cardinality(e.detected_manifests) \in Nat
        /\ e.detected_manifests # {} => Cardinality(e.detected_manifests) # 0
    BY <1>7, FS_CardinalityType, FS_EmptySet
  <2> QED
    BY <2>1 DEF Capped
<1> HIDE DEF e, counted
<1> QED
  BY <1>2, <1>6, <1>8, <1>9

\* A repository stays finite.
FiniteRepo == IsFiniteSet(repo)

\* Every file set a push can leave is finite.
LEMMA RepoIsFinite == Spec => []FiniteRepo
<1> USE DEF FiniteRepo
<1>1. Init => FiniteRepo
  BY FilesAssumption DEF Init
<1>2. FiniteRepo /\ [Next]_vars => FiniteRepo'
  <2> SUFFICES ASSUME FiniteRepo, [Next]_vars PROVE FiniteRepo'
    OBVIOUS
  <2>1. CASE Edit
    BY <2>1, FS_AddElement, FS_RemoveElement DEF Edit
  <2>2. ASSUME NEW l \in Lanes, Step(l) PROVE repo' = repo
    BY <2>2 DEF Step, Begin, Clone, CloneFails, RunSection, SectionWriteFails, Reload,
                MarkMissing, Commit, Abort, Die, Leave
  <2>3. CASE UNCHANGED vars
    BY <2>3 DEF vars
  <2> QED
    BY <2>1, <2>2, <2>3 DEF Next
<1> QED
  BY <1>1, <1>2, PTL DEF Spec

\* score_setup_risk, score_debug_readiness, score_change_risk: no analyzer
\* reports a low risk without evidence it is at least a quarter confident of.
THEOREM LowRisksAreEvidenced == Spec => []LowRiskIsEvidenced
<1>1. FiniteRepo => LowRiskIsEvidenced
  BY SetupLowIsEvidenced, DebugLowIsEvidenced, ChangeLowIsEvidenced
     DEF FiniteRepo, LowRiskIsEvidenced, Analyze, Tabs
<1> QED
  BY <1>1, RepoIsFinite, PTL

-----------------------------------------------------------------------------
(* The tables tell one scan                                                *)

\* The paths of a set of files.
PathsOf(fs) == {f.path : f \in fs}

\* An edge joins two files of the tree.
EdgesInside(edges, fs) ==
  \A e \in edges : /\ e.source_path \in PathsOf(fs)
                   /\ e.target_path \in PathsOf(fs) \cup {Nowhere}

\* A finding is of a file whose content was fetched.
FindingsInside(found, fs) == \A x \in found : \E f \in fs : f.fetched /\ f.path = x.file_path

\* The scores were made of these findings.
CountsFindings(s, found) ==
  \A sev \in Severities : s.findings_by_severity[sev] = Cardinality(OfSeverity(found, sev))

\* What a run knows of one scan.
Consistent == /\ EdgesInside(graph.edges, Scanned)
              /\ FindingsInside(findings, Scanned)
              /\ \A s \in score : CountsFindings(s, findings)

\* What a stage may rely on: nothing was found before the scan ended, no file
\* arrives after it, and no score was built before the review.
ScanInvariant == /\ stage = "scan" => graph = NoGraph /\ findings = {}
                 /\ stage \in {"scan", "review"} => score = {}
                 /\ stage # "scan" => batch = {}
                 /\ Consistent
                 /\ RowsTellOneScan

\* Edges lead from a scanned file to a scanned file or nowhere, whatever the
\* imports resolve to.
LEMMA GraphStaysInside ==
  ASSUME NEW fs
  PROVE  EdgesInside(Graph(fs).edges, Range(fs))
<1> DEFINE index == FileIndex(fs)
           known == PathsOf(Range(fs))
<1>1. Graph(fs).edges = UNION {EdgesOf(f, index, known) : f \in Range(fs)}
  BY DEF Graph, PathsOf
<1>2. ASSUME NEW f \in Range(fs), NEW e \in EdgesOf(f, index, known)
      PROVE  e.source_path = f.path /\ e.target_path \in known \cup {Nowhere}
  <2> HIDE DEF index, known
  <2>1. \E i \in f.imports :
          \/ /\ Resolve(i, f, index) \in known \ {f.path}
             /\ e = Edge(f, i, Resolve(i, f, index), Nowhere)
          \/ e = Edge(f, i, Nowhere, UnresolvedReason(i))
    BY DEF EdgesOf
  <2> QED
    BY <2>1 DEF Edge
<1>3. \A f \in Range(fs) : f.path \in known
  BY DEF PathsOf
<1> HIDE DEF index
<1> QED
  BY <1>1, <1>2, <1>3 DEF EdgesInside

\* A finding of a review is of the file it was found in.
LEMMA FindingsOfFile ==
  ASSUME NEW file, NEW matches, NEW g, NEW items,
         NEW x \in ReviewFile(file, matches, g, items)
  PROVE  x.file_path = file.path
<1> DEFINE found == DeterministicFindings(file, matches)
           new == ValidateLLMFindings(items, file.path)
           ranges == {RangeOf(f) : f \in new} \ {RangeOf(f) : f \in found}
<1>1. \A f \in found : f.file_path = file.path
  BY DEF DeterministicFindings, Finding
<1>2. \A f \in new : f.file_path = file.path
  BY DEF ValidateLLMFindings, Finding
<1>3. x \in found \/ x \in Deduplicate(found, new)
  BY DEF ReviewFile
<1> HIDE DEF found, new
<1>4. ASSUME x \in Deduplicate(found, new) PROVE x \in new
  <2>1. PICK r \in ranges : x = CHOOSE f \in new : RangeOf(f) = r
    BY <1>4 DEF Deduplicate
  <2>2. \E f \in new : RangeOf(f) = r
    BY <2>1
  <2> QED
    BY <2>1, <2>2, Zenon
<1> QED
  BY <1>1, <1>2, <1>3, <1>4

\* Only files with content are reviewed, and only fetched files have content.
LEMMA ReviewStaysInside ==
  ASSUME NEW g, NEW answers
  PROVE  FindingsInside(ReviewRepo(files, g, Content, answers), Scanned)
<1> SUFFICES ASSUME NEW x \in ReviewRepo(files, g, Content, answers)
             PROVE  \E f \in Scanned : f.fetched /\ f.path = x.file_path
  BY DEF FindingsInside
<1>1. PICK f \in Range(files) : /\ f.path \in DOMAIN Content
                                /\ x \in ReviewFile(f, Content[f.path], g, answers[f.path])
  BY DEF ReviewRepo
<1>2. x.file_path = f.path
  BY <1>1, FindingsOfFile
<1>3. DOMAIN Content = {PathOf(h) : h \in {k \in Range(tree) : /\ "empty" \notin k.traits
                                     /\ \E s \in Scanned : s.path = PathOf(k) /\ s.fetched}}
  BY DEF Content
<1>4. \E s \in Scanned : s.path = f.path /\ s.fetched
  <2> HIDE DEF Content
  <2> QED
    BY <1>1, <1>3
<1> QED
  BY <1>2, <1>4

\* The rows of a consistent run are consistent.
LEMMA RowsOfTellOneScan ==
  ASSUME Consistent, rows' = RowsOf
  PROVE  RowsTellOneScan'
<1> DEFINE Row(f) == [file |-> f, critical |-> f.path \in graph.critical]
<1>0. /\ \A f \in Scanned : Row(f) \in rows'.files
      /\ \A r \in rows'.files : \E f \in Scanned : r = Row(f)
      /\ \A f : Row(f).file = f
  BY DEF RowsOf
<1>1. /\ rows'.edges = graph.edges
      /\ rows'.findings = findings
      /\ rows'.score = {[scorecard |-> s, confidence |-> Breakdown,
                  confirmed_edge_count  |-> Cardinality(Confirmed(graph.edges)),
                  unresolved_edge_count |-> Cardinality(Unresolved(graph.edges))] : s \in score}
  BY DEF RowsOf
<1>2. {r.file.path : r \in rows'.files} = PathsOf(Scanned)
  <2> HIDE DEF Row
  <2> QED
    BY <1>0 DEF PathsOf
<1>3. ASSUME rows'.files = {} PROVE rows'.edges = {} /\ rows'.findings = {}
  <2> HIDE DEF Row
  <2>1. Scanned = {}
    BY <1>0, <1>3
  <2> QED
    BY <1>1, <2>1 DEF Consistent, EdgesInside, FindingsInside, PathsOf
<1>4. ASSUME NEW e \in rows'.edges
      PROVE  {e.source_path, e.target_path} \subseteq PathsOf(Scanned) \cup {Nowhere}
  BY <1>1 DEF Consistent, EdgesInside
<1>5. ASSUME NEW x \in rows'.findings
      PROVE  \E r \in rows'.files : r.file.fetched /\ r.file.path = x.file_path
  <2>1. PICK f \in Scanned : f.fetched /\ f.path = x.file_path
    BY <1>1 DEF Consistent, FindingsInside
  <2> HIDE DEF Row
  <2> QED
    BY <2>1, <1>0
<1>6. ASSUME NEW s \in rows'.score
      PROVE  /\ s.confirmed_edge_count = Cardinality(Confirmed(rows'.edges))
             /\ s.unresolved_edge_count = Cardinality(Unresolved(rows'.edges))
             /\ \A sev \in Severities :
                  s.scorecard.findings_by_severity[sev] = Cardinality(OfSeverity(rows'.findings, sev))
  BY <1>1 DEF Consistent, CountsFindings
<1> QED
  BY <1>2, <1>3, <1>4, <1>5, <1>6 DEF RowsTellOneScan

\* Before the scan there is nothing to be consistent.
LEMMA ScanInitially == ScanInit => ScanInvariant
  BY DEF ScanInit, ScanInvariant, Consistent, EdgesInside, FindingsInside, NoGraph, NoRows,
         RowsTellOneScan

\* What was found, and the files it was found in, do not change.
LEMMA ConsistentStays ==
  ASSUME Consistent, UNCHANGED <<files, graph, findings>>, score' \in SUBSET score
  PROVE  Consistent'
  BY DEF Consistent, Scanned

\* Stored rows tell one scan as long as nobody writes them.
LEMMA RowsStay ==
  ASSUME RowsTellOneScan, rows' = rows
  PROVE  RowsTellOneScan'
  BY DEF RowsTellOneScan

\* Nothing found is consistent with any files.
LEMMA NothingIsConsistent ==
  ASSUME graph' = NoGraph, findings' = {}, score' = {}
  PROVE  Consistent'
  BY DEF Consistent, NoGraph, EdgesInside, FindingsInside

\* Every step of the scan and of its commit keeps the invariant.
LEMMA ScanStep ==
  ASSUME ScanInvariant, [ScanNext]_scanVars
  PROVE  ScanInvariant'
<1> USE DEF ScanInvariant
<1>1. CASE StartBatch \/ StopEarly
  BY <1>1, ConsistentStays, RowsStay DEF StartBatch, StopEarly
<1>2. ASSUME NEW f \in batch, Arrive(f) PROVE ScanInvariant'
  BY <1>2, NothingIsConsistent, RowsStay DEF Arrive
<1>3. CASE FinishScan
  <2>1. /\ stage' = "review" /\ score' = {} /\ findings' = {} /\ batch' = {}
        /\ files' = files /\ graph' = Graph(files) /\ rows' = rows
    BY <1>3 DEF FinishScan
  <2>2. EdgesInside(graph'.edges, Scanned')
    BY <2>1, GraphStaysInside DEF Scanned
  <2>3. Consistent'
    BY <2>1, <2>2 DEF Consistent, FindingsInside
  <2> QED
    BY <2>1, <2>3, RowsStay
<1>4. CASE ScanFails
  BY <1>4, NothingIsConsistent, RowsStay DEF ScanFails
<1>5. CASE Review
  <2>1. /\ stage' = "score" /\ score' = {} /\ batch' = {} /\ files' = files /\ graph' = graph
        /\ rows' = rows
        /\ \E answers : findings' = ReviewRepo(files, graph, Content, answers)
    BY <1>5 DEF Review
  <2>2. FindingsInside(findings', Scanned)
    BY <2>1, ReviewStaysInside
  <2>3. Consistent'
    BY <2>1, <2>2 DEF Consistent, Scanned
  <2> QED
    BY <2>1, <2>3, RowsStay
<1>6. CASE ReviewFails
  BY <1>6, ConsistentStays, RowsStay DEF ReviewFails
<1>7. CASE Score
  <2>1. /\ stage' = "persist" /\ batch' = {} /\ rows' = rows
        /\ UNCHANGED <<files, graph, findings>>
        /\ score' = {BuildScorecard(findings, Scanned, Metadata)}
    BY <1>7 DEF Score
  <2>2. CountsFindings(BuildScorecard(findings, Scanned, Metadata), findings)
    BY DEF CountsFindings, BuildScorecard, OfSeverity
  <2>3. Consistent'
    BY <2>1, <2>2 DEF Consistent, Scanned
  <2> QED
    BY <2>1, <2>3, RowsStay
<1>8. CASE ScoreFails
  BY <1>8, ConsistentStays, RowsStay DEF ScoreFails
<1>9. CASE Persist
  <2>1. RowsTellOneScan'
    BY <1>9, RowsOfTellOneScan, RowsStay DEF Persist
  <2> QED
    BY <1>9, <2>1, ConsistentStays DEF Persist
<1>10. CASE WorkerDies
  BY <1>10, ConsistentStays, RowsStay DEF WorkerDies
<1>11. CASE Read \/ UNCHANGED scanVars
  BY <1>11, ConsistentStays, RowsStay DEF Read, scanVars
<1> QED
  BY <1>1, <1>2, <1>3, <1>4, <1>5, <1>6, <1>7, <1>8, <1>9, <1>10, <1>11 DEF ScanNext

\* The inductive invariant of RowsTellOneScan holds in every reachable state.
THEOREM ScanInvariantHolds == ScanSpec => []ScanInvariant
  BY ScanInitially, ScanStep, PTL DEF ScanSpec

\* persist_intelligence: the tables hold one whole scan or nothing, wherever a
\* stage failed, ran out of time or the worker died.
THEOREM TablesTellOneScan == ScanSpec => []RowsTellOneScan
  BY ScanInvariantHolds, PTL DEF ScanInvariant

-----------------------------------------------------------------------------
(* Folds                                                                   *)

\* Induction over the natural numbers, of a set instead of a predicate.
LEMMA SetInduction ==
  ASSUME NEW T, 0 \in T, \A n \in Nat : n \in T => n + 1 \in T
  PROVE  Nat \subseteq T
<1> DEFINE out == {n \in Nat : n \notin T}
<1> SUFFICES ASSUME out # {} PROVE FALSE
  OBVIOUS
<1>1. PICK m \in out : \A n \in out : ~(<<n, m>> \in OpToRel(<, Nat))
  <2> HIDE DEF out
  <2>1. out \subseteq Nat
    BY DEF out
  <2> QED
    BY <2>1, NatLessThanWellFounded, WFMin
<1>2. m # 0 /\ m - 1 \in Nat
  OBVIOUS
<1>3. m - 1 \notin out
  <2> SUFFICES ASSUME m - 1 \in out PROVE FALSE
    OBVIOUS
  <2>1. ~(<<m - 1, m>> \in OpToRel(<, Nat))
    BY <1>1
  <2> QED
    BY <2>1, <1>2 DEF OpToRel
<1>4. m - 1 \in T /\ m - 1 + 1 = m
  BY <1>2, <1>3
<1> QED
  BY <1>2, <1>4

\* Induction over the subsets of a finite set, by their size.
LEMMA SubsetInduction ==
  ASSUME NEW S, IsFiniteSet(S), NEW Good, {} \in Good,
         \A s \in SUBSET S : s # {} /\ (\A x \in s : s \ {x} \in Good) => s \in Good
  PROVE  SUBSET S \subseteq Good
<1> DEFINE T == {n \in Nat : \A s \in SUBSET S : Cardinality(s) = n => s \in Good}
<1>1. \A s \in SUBSET S : IsFiniteSet(s) /\ Cardinality(s) \in Nat
  BY FS_Subset, FS_CardinalityType
<1>2. 0 \in T
  BY <1>1, FS_EmptySet
<1>3. ASSUME NEW n \in Nat, n \in T PROVE n + 1 \in T
  <2> SUFFICES ASSUME NEW s \in SUBSET S, Cardinality(s) = n + 1 PROVE s \in Good
    OBVIOUS
  <2>1. s # {}
    <3>1. n + 1 # 0 /\ Cardinality({}) = 0
      BY FS_EmptySet
    <3> QED
      BY <3>1
  <2>2. ASSUME NEW x \in s PROVE s \ {x} \in Good
    <3>1. s \ {x} \in SUBSET S /\ Cardinality(s \ {x}) = n
      BY <1>1, FS_RemoveElement
    <3> QED
      BY <1>3, <3>1
  <2> QED
    BY <2>1, <2>2
<1>4. Nat \subseteq T
  <2> HIDE DEF T
  <2> QED
    BY <1>2, <1>3, SetInduction
<1> QED
  BY <1>1, <1>4

\* The fold of F over each subset of S, an element at a time: the one that take
\* chooses comes last.
Folds(g, S, base, take, F) ==
  \A s \in SUBSET S : g[s] = IF s = {} THEN base ELSE F[take[s]][g[s \ {take[s]}]]

\* A fold over a finite set exists, and has its values where F has them: it is
\* found for the subsets of at most n elements, for every n.
LEMMA FoldExists ==
  ASSUME NEW S, IsFiniteSet(S), NEW D, NEW base \in D, NEW F \in [S -> [D -> D]],
         NEW take, \A s \in SUBSET S : s # {} => take[s] \in s
  PROVE  \E g \in [SUBSET S -> D] : Folds(g, S, base, take, F)
<1> DEFINE Small(n) == {s \in SUBSET S : Cardinality(s) <= n}
           Total(g, s) == IF s = {} THEN base ELSE F[take[s]][g[s \ {take[s]}]]
           T == {n \in Nat : \E g \in [Small(n) -> D] : \A s \in Small(n) : g[s] = Total(g, s)}
<1>1. \A s \in SUBSET S : IsFiniteSet(s) /\ Cardinality(s) \in Nat
  BY FS_Subset, FS_CardinalityType
<1>2. \A n \in Nat : \A s \in Small(n + 1) : s # {} => s \ {take[s]} \in Small(n)
  <2> SUFFICES ASSUME NEW n \in Nat, NEW s \in Small(n + 1), s # {}
               PROVE  s \ {take[s]} \in Small(n)
    OBVIOUS
  <2>1. take[s] \in s
    OBVIOUS
  <2>2. Cardinality(s \ {take[s]}) = Cardinality(s) - 1
    BY <1>1, <2>1, FS_RemoveElement
  <2> QED
    BY <1>1, <2>2
<1>3. 0 \in T
  <2> DEFINE g == [s \in Small(0) |-> base]
  <2>1. \A s \in Small(0) : s = {}
    BY <1>1, FS_EmptySet
  <2>2. g \in [Small(0) -> D] /\ \A s \in Small(0) : g[s] = Total(g, s)
    BY <2>1
  <2> QED
    BY <2>2
<1>4. ASSUME NEW n \in Nat, n \in T PROVE n + 1 \in T
  <2>1. PICK g \in [Small(n) -> D] : \A s \in Small(n) : g[s] = Total(g, s)
    BY <1>4
  <2> DEFINE h == [s \in Small(n + 1) |-> Total(g, s)]
  <2>2. \A s \in Small(n) : s \in Small(n + 1) /\ h[s] = g[s]
    <3>1. \A s \in Small(n) : s \in Small(n + 1)
      BY <1>1
    <3> HIDE DEF Small, Total
    <3> QED
      BY <3>1, <2>1
  <2>3. \A s \in Small(n + 1) : Total(g, s) = Total(h, s)
    <3> HIDE DEF Small, h
    <3> QED
      BY <1>2, <2>2
  <2>4. \A s \in Small(n + 1) : Total(g, s) \in D
    <3>1. \A s \in Small(n + 1) : s # {} => take[s] \in S
      OBVIOUS
    <3> HIDE DEF Small
    <3> QED
      BY <1>2, <3>1
  <2>5. h \in [Small(n + 1) -> D] /\ \A s \in Small(n + 1) : h[s] = Total(h, s)
    <3> HIDE DEF Total, Small
    <3> QED
      BY <2>3, <2>4
  <2> HIDE DEF h, Total, Small
  <2> QED
    BY <2>5
<1>5. Nat \subseteq T
  <2> HIDE DEF T
  <2> QED
    BY <1>3, <1>4, SetInduction
<1>6. Cardinality(S) \in T
  BY <1>1, <1>5
<1>7. Small(Cardinality(S)) = SUBSET S
  BY <1>1, FS_Subset
<1>8. PICK g \in [SUBSET S -> D] : \A s \in SUBSET S : g[s] = Total(g, s)
  <2> HIDE DEF Small, Total
  <2> QED
    BY <1>6, <1>7
<1> QED
  BY <1>8 DEF Folds

-----------------------------------------------------------------------------
(* Sums                                                                    *)

\* The element a fold over a set takes.
Pick(s) == CHOOSE x \in s : TRUE

\* It is an element.
LEMMA PickIn ==
  ASSUME NEW s, s # {}
  PROVE  Pick(s) \in s
  BY DEF Pick

\* g adds the weights of each subset of S to base, as the folds do.
Sums(g, S, base, w) ==
  g = [s \in SUBSET S |-> IF s = {} THEN base ELSE g[s \ {Pick(s)}] + w[Pick(s)]]

\* Sums over a finite set exist.
LEMMA SumExists ==
  ASSUME NEW S, IsFiniteSet(S), NEW base \in Int, NEW w, \A x \in S : w[x] \in Int
  PROVE  \E g : Sums(g, S, base, w)
<1> DEFINE take == [s \in SUBSET S |-> Pick(s)]
           F == [x \in S |-> [a \in Int |-> a + w[x]]]
           Whole == Int
<1>1. F \in [S -> [Whole -> Whole]] /\ base \in Whole
  OBVIOUS
<1>2. \A s \in SUBSET S : s # {} => take[s] \in s
  BY PickIn
<1>3. PICK g \in [SUBSET S -> Whole] : Folds(g, S, base, take, F)
  <2> HIDE DEF F, take, Whole
  <2>1. IsFiniteSet(S) /\ base \in Whole /\ F \in [S -> [Whole -> Whole]]
    BY <1>1
  <2> QED
    BY <1>2, <2>1, FoldExists, Zenon
<1>4. ASSUME NEW s \in SUBSET S
      PROVE  g[s] = IF s = {} THEN base ELSE g[s \ {Pick(s)}] + w[Pick(s)]
  <2>1. g[s] = IF s = {} THEN base ELSE F[take[s]][g[s \ {take[s]}]]
    BY <1>3 DEF Folds
  <2>2. CASE s # {}
    <3>1. take[s] = Pick(s) /\ Pick(s) \in S /\ g[s \ {Pick(s)}] \in Int
      BY <1>2, <2>2
    <3> QED
      BY <2>1, <2>2, <3>1
  <2> QED
    BY <2>1, <2>2
<1>5. g = [s \in SUBSET S |-> IF s = {} THEN base ELSE g[s \ {Pick(s)}] + w[Pick(s)]]
  BY <1>4
<1> QED
  BY <1>5 DEF Sums

\* Whatever element a sum takes first, it comes to the same.
LEMMA SumTakesAny ==
  ASSUME NEW S, IsFiniteSet(S), NEW base \in Int, NEW w, \A x \in S : w[x] \in Int,
         NEW g, Sums(g, S, base, w)
  PROVE  /\ g[{}] = base
         /\ \A s \in SUBSET S : g[s] \in Int
         /\ \A s \in SUBSET S : \A x \in s : g[s] = g[s \ {x}] + w[x]
<1> DEFINE Whole == {s \in SUBSET S : g[s] \in Int}
           Good == {s \in SUBSET S : \A x \in s : g[s] = g[s \ {x}] + w[x]}
<1>1. \A s \in SUBSET S : g[s] = IF s = {} THEN base ELSE g[s \ {Pick(s)}] + w[Pick(s)]
  BY DEF Sums
<1>2. SUBSET S \subseteq Whole
  <2>1. {} \in Whole
    BY <1>1
  <2>2. ASSUME NEW s \in SUBSET S, s # {}, \A x \in s : s \ {x} \in Whole
        PROVE  s \in Whole
    <3>1. Pick(s) \in s
      BY <2>2, PickIn
    <3>2. g[s \ {Pick(s)}] \in Int /\ w[Pick(s)] \in Int
      BY <2>2, <3>1
    <3>3. g[s] = g[s \ {Pick(s)}] + w[Pick(s)]
      BY <1>1, <2>2
    <3> QED
      BY <3>2, <3>3
  <2> HIDE DEF Whole
  <2> QED
    BY <2>1, <2>2, SubsetInduction
<1>3. ASSUME NEW s \in SUBSET S, s # {}, \A x \in s : s \ {x} \in Good
      PROVE  s \in Good
  <2> DEFINE p == Pick(s)
  <2>1. p \in s
    BY <1>3, PickIn
  <2>2. g[s] = g[s \ {p}] + w[p]
    BY <1>1, <1>3
  <2> HIDE DEF p
  <2>3. ASSUME NEW x \in s, x # p PROVE g[s] = g[s \ {x}] + w[x]
    <3>1. x \in s \ {p} /\ p \in s \ {x}
      BY <2>1, <2>3
    <3>2. g[s \ {p}] = g[(s \ {p}) \ {x}] + w[x]
      BY <1>3, <2>1, <3>1
    <3>3. g[s \ {x}] = g[(s \ {x}) \ {p}] + w[p]
      BY <1>3, <3>1
    <3>4. (s \ {p}) \ {x} = (s \ {x}) \ {p}
      OBVIOUS
    <3>5. (s \ {x}) \ {p} \in SUBSET S /\ x \in S /\ p \in S
      BY <2>1
    <3>6. g[(s \ {x}) \ {p}] \in Int /\ w[x] \in Int /\ w[p] \in Int
      BY <1>2, <3>5
    <3> DEFINE rest == g[(s \ {x}) \ {p}]
    <3>7. g[s] = (rest + w[x]) + w[p] /\ g[s \ {x}] = rest + w[p] /\ rest \in Int
      BY <2>2, <3>2, <3>3, <3>4, <3>6
    <3> HIDE DEF rest
    <3> QED
      BY <3>6, <3>7
  <2> QED
    BY <2>2, <2>3
<1>4. SUBSET S \subseteq Good
  <2>1. {} \in Good
    OBVIOUS
  <2> HIDE DEF Good
  <2> QED
    BY <1>3, <2>1, SubsetInduction
<1> QED
  BY <1>1, <1>2, <1>4

\* A sum of smaller weights is smaller.
LEMMA SumMonotone ==
  ASSUME NEW S, IsFiniteSet(S), NEW T \in SUBSET S, NEW base \in Int,
         NEW w, \A x \in S : w[x] \in Int, NEW v, \A x \in T : v[x] \in Int,
         \A x \in T : w[x] <= v[x],
         NEW g, Sums(g, S, base, w), NEW h, Sums(h, T, base, v)
  PROVE  g[T] \in Int /\ h[T] \in Int /\ g[T] <= h[T]
<1> DEFINE Good == {s \in SUBSET T : g[s] <= h[s]}
<1>0. IsFiniteSet(T)
  BY FS_Subset
<1>1. /\ g[{}] = base
      /\ \A s \in SUBSET S : g[s] \in Int
      /\ \A s \in SUBSET S : \A x \in s : g[s] = g[s \ {x}] + w[x]
  BY SumTakesAny
<1>2. /\ h[{}] = base
      /\ \A s \in SUBSET T : h[s] \in Int
      /\ \A s \in SUBSET T : \A x \in s : h[s] = h[s \ {x}] + v[x]
  BY <1>0, SumTakesAny
<1>3. {} \in Good
  BY <1>1, <1>2
<1>4. ASSUME NEW s \in SUBSET T, s # {}, \A x \in s : s \ {x} \in Good
      PROVE  s \in Good
  <2>1. PICK x \in s : TRUE
    BY <1>4
  <2>2. g[s] = g[s \ {x}] + w[x] /\ h[s] = h[s \ {x}] + v[x]
    BY <1>1, <1>2
  <2>3. g[s \ {x}] \in Int /\ h[s \ {x}] \in Int /\ g[s \ {x}] <= h[s \ {x}]
    BY <1>1, <1>2, <1>4
  <2>4. w[x] \in Int /\ v[x] \in Int /\ w[x] <= v[x]
    OBVIOUS
  <2>5. g[s] <= h[s]
    BY <2>2, <2>3, <2>4
  <2> QED
    BY <2>5
<1>5. SUBSET T \subseteq Good
  <2> HIDE DEF Good
  <2> QED
    BY <1>0, <1>3, <1>4, SubsetInduction
<1> QED
  BY <1>1, <1>2, <1>5

\* A sum of natural numbers is one.
LEMMA SumNat ==
  ASSUME NEW S, IsFiniteSet(S), NEW base \in Nat, NEW w, \A x \in S : w[x] \in Nat,
         NEW g, Sums(g, S, base, w)
  PROVE  g[S] \in Nat
<1> DEFINE Good == {s \in SUBSET S : g[s] \in Nat}
<1>1. /\ g[{}] = base
      /\ \A s \in SUBSET S : \A x \in s : g[s] = g[s \ {x}] + w[x]
  <2>1. base \in Int /\ \A x \in S : w[x] \in Int
    OBVIOUS
  <2> QED
    BY <2>1, SumTakesAny
<1>2. {} \in Good
  BY <1>1
<1>3. ASSUME NEW s \in SUBSET S, s # {}, \A x \in s : s \ {x} \in Good
      PROVE  s \in Good
  <2>1. PICK x \in s : TRUE
    BY <1>3
  <2>2. g[s] = g[s \ {x}] + w[x]
    BY <1>1
  <2>3. g[s \ {x}] \in Nat /\ w[x] \in Nat
    BY <1>3
  <2> QED
    BY <2>2, <2>3
<1>4. SUBSET S \subseteq Good
  <2> HIDE DEF Good
  <2> QED
    BY <1>2, <1>3, SubsetInduction
<1> QED
  BY <1>4

-----------------------------------------------------------------------------
(* Resolving a finding never costs points                                  *)

\* Findings that only take points.
Deducting(found) == IsFiniteSet(found) /\ \A f \in found : f.score_impact \in Int /\ f.score_impact <= 0

\* The impacts of findings.
Impacts(found) == [f \in found |-> f.score_impact]

\* The score of a dimension adds the impacts of its findings.
LEMMA RawScoreSums ==
  ASSUME NEW found, Deducting(found), NEW fs, NEW dim, dim \notin {"test_coverage", "documentation"}
  PROVE  LET S == InDimension(found, dim)
         IN  \E g : /\ Sums(g, S, BASE_SCORE, Impacts(S))
                    /\ RawScore(found, fs, dim) = IF g[S] < DIMENSION_FLOOR THEN DIMENSION_FLOOR ELSE g[S]
<1> DEFINE S == InDimension(found, dim)
           w == Impacts(S)
           Is(g) == g = [s \in SUBSET S |->
                           IF s = {} THEN BASE_SCORE
                           ELSE LET x == CHOOSE x \in s : TRUE IN g[s \ {x}] + x.score_impact]
           sum == CHOOSE g : Is(g)
<1>1. RawScore(found, fs, dim) = IF sum[S] < DIMENSION_FLOOR THEN DIMENSION_FLOOR ELSE sum[S]
  BY DEF RawScore, FoldSet, MapThenFoldSet
<1>2. ASSUME NEW g PROVE Is(g) <=> Sums(g, S, BASE_SCORE, w)
  <2>1. \A s \in SUBSET S : s # {} => w[Pick(s)] = Pick(s).score_impact
    BY PickIn DEF Impacts
  <2> HIDE DEF S, w
  <2> QED
    BY <2>1 DEF Sums, Pick
<1>3. \E g : Is(g)
  <2>1. IsFiniteSet(S)
    BY FS_Subset DEF Deducting, InDimension
  <2>2. BASE_SCORE \in Int /\ \A f \in S : w[f] \in Int
    BY DEF BASE_SCORE, Deducting, Impacts, InDimension
  <2> HIDE DEF Is, w, S
  <2> QED
    BY <1>2, <2>1, <2>2, SumExists
<1>4. Is(sum)
  <2> HIDE DEF Is
  <2> QED
    BY <1>3
<1>5. Sums(sum, S, BASE_SCORE, w)
  <2> HIDE DEF Is, w, sum, S
  <2> QED
    BY <1>2, <1>4
<1> QED
  BY <1>1, <1>5

\* Without one of its findings a dimension is scored no lower.
LEMMA RawScoreGrows ==
  ASSUME NEW found, Deducting(found), NEW x \in found, NEW fs, NEW dim,
         dim \notin {"test_coverage", "documentation"}
  PROVE  /\ RawScore(found, fs, dim) \in Int
         /\ RawScore(found \ {x}, fs, dim) \in Int
         /\ RawScore(found, fs, dim) <= RawScore(found \ {x}, fs, dim)
<1> DEFINE S == InDimension(found, dim)
           T == InDimension(found \ {x}, dim)
<1>1. Deducting(found \ {x}) /\ T \subseteq S /\ (T = S \/ T = S \ {x}) /\ IsFiniteSet(S)
  <2>1. IsFiniteSet(found \ {x}) /\ IsFiniteSet(S)
    BY FS_Subset DEF Deducting, InDimension
  <2> QED
    BY <2>1 DEF Deducting, InDimension
<1>2. PICK g : /\ Sums(g, S, BASE_SCORE, Impacts(S))
               /\ RawScore(found, fs, dim) = IF g[S] < DIMENSION_FLOOR THEN DIMENSION_FLOOR ELSE g[S]
  BY RawScoreSums
<1>3. PICK h : /\ Sums(h, T, BASE_SCORE, Impacts(T))
               /\ RawScore(found \ {x}, fs, dim) = IF h[T] < DIMENSION_FLOOR THEN DIMENSION_FLOOR ELSE h[T]
  BY <1>1, RawScoreSums
<1>4. /\ BASE_SCORE \in Int
      /\ \A f \in S : Impacts(S)[f] \in Int /\ Impacts(S)[f] <= 0
      /\ \A f \in T : Impacts(T)[f] \in Int /\ Impacts(S)[f] <= Impacts(T)[f]
  BY <1>1 DEF BASE_SCORE, Deducting, Impacts, InDimension
<1> HIDE DEF S, T
<1>5. g[T] \in Int /\ h[T] \in Int /\ g[T] <= h[T]
  BY <1>1, <1>2, <1>3, <1>4, SumMonotone
<1>6. g[S] \in Int /\ g[S] <= g[T]
  <2>1. /\ \A s \in SUBSET S : g[s] \in Int
        /\ \A s \in SUBSET S : \A f \in s : g[s] = g[s \ {f}] + Impacts(S)[f]
    BY <1>1, <1>2, <1>4, SumTakesAny
  <2>2. CASE x \notin S
    <3>1. T = S
      BY <1>1, <2>2
    <3> QED
      BY <2>1, <3>1
  <2>3. CASE x \in S
    <3>1. g[S] = g[S \ {x}] + Impacts(S)[x] /\ g[S \ {x}] \in Int /\ g[S] \in Int
      BY <2>1, <2>3
    <3>2. g[S] <= g[S \ {x}]
      BY <1>4, <2>3, <3>1
    <3> QED
      BY <1>1, <3>1, <3>2
  <2> QED
    BY <2>2, <2>3
<1> QED
  BY <1>2, <1>3, <1>5, <1>6 DEF DIMENSION_FLOOR

\* What is scored without findings is a number.
LEMMA FilesScoreInt ==
  ASSUME NEW fs, IsFiniteSet(fs)
  PROVE  ScoreTestCoverage(fs) \in Int /\ ScoreDocumentation(fs) \in Int
<1>1. ScoreTestCoverage(fs) \in Int
  BY DEF ScoreTestCoverage
<1>2. ScoreDocumentation(fs) \in Int
  <2> DEFINE sources == {f \in fs : f.role \notin {"test", "config", "migration", "infra", "unknown"}}
             n == Cardinality(sources)
             k == Cardinality({f \in sources : f.has_docstrings})
             readme == IF \E f \in fs : f.path = <<<<>>, "README", ".md">> THEN 20 ELSE 0
             points == (80 * k) \div n + readme
  <2>1. ScoreDocumentation(fs) = IF sources = {} THEN 50 ELSE IF points > 100 THEN 100 ELSE points
    BY DEF ScoreDocumentation
  <2>2. n \in Nat /\ k \in Nat /\ (sources # {} => n # 0)
    BY FS_Subset, FS_CardinalityType, FS_EmptySet
  <2>3. readme \in Int
    OBVIOUS
  <2> HIDE DEF sources, n, k, readme
  <2>4. sources # {} => (80 * k) \div n \in Int
    BY <2>2
  <2>5. sources # {} => points \in Int
    BY <2>3, <2>4
  <2> QED
    BY <2>1, <2>5
<1> QED
  BY <1>1, <1>2

\* What a scan is known by.
Measured(fs) == IsFiniteSet(fs) /\ \A f \in fs : f.confidence \in Nat

\* A share is a number.
LEMMA RateNat ==
  ASSUME NEW a \in Nat, NEW b \in Nat \ {0}
  PROVE  Rate(a, b) \in Nat
  BY DEF Rate

\* The confidences of files add up to a number.
LEMMA ConfidencesNat ==
  ASSUME NEW S, Measured(S)
  PROVE  FoldSet(LAMBDA f, sum : sum + f.confidence, 0, S) \in Nat
<1> DEFINE w == [f \in S |-> f.confidence]
           Is(g) == g = [s \in SUBSET S |->
                           IF s = {} THEN 0
                           ELSE LET x == CHOOSE x \in s : TRUE IN g[s \ {x}] + x.confidence]
           sum == CHOOSE g : Is(g)
<1>1. FoldSet(LAMBDA f, total : total + f.confidence, 0, S) = sum[S]
  BY DEF FoldSet, MapThenFoldSet
<1>2. ASSUME NEW g PROVE Is(g) <=> Sums(g, S, 0, w)
  <2>1. \A s \in SUBSET S : s # {} => w[Pick(s)] = Pick(s).confidence
    BY PickIn
  <2> HIDE DEF w
  <2> QED
    BY <2>1 DEF Sums, Pick
<1>3. IsFiniteSet(S) /\ 0 \in Nat /\ 0 \in Int /\ \A f \in S : w[f] \in Nat /\ w[f] \in Int
  BY DEF Measured
<1>4. \E g : Is(g)
  <2> HIDE DEF Is, w
  <2> QED
    BY <1>2, <1>3, SumExists
<1>5. Is(sum)
  <2> HIDE DEF Is
  <2> QED
    BY <1>4
<1>6. sum[S] \in Nat
  <2> HIDE DEF Is, w, sum
  <2> QED
    BY <1>2, <1>3, <1>5, SumNat
<1> QED
  BY <1>1, <1>6

\* The confidence in a scan is a number.
LEMMA ConfidenceNat ==
  ASSUME NEW meta, meta.files_scanned \in Nat, meta.total_files \in Nat, NEW fs, Measured(fs)
  PROVE  ComputeConfidence(meta, fs) \in Nat
<1> DEFINE fetched  == {f \in fs : f.confidence > 0}
           coverage == IF meta.files_scanned > meta.total_files THEN 1000
                       ELSE Rate(meta.files_scanned, meta.total_files)
           total    == FoldSet(LAMBDA f, sum : sum + f.confidence, 0, fetched)
           quality  == IF fetched = {} THEN 0 ELSE total \div Cardinality(fetched)
           bonus    == (IF \E f \in fs : f.is_test THEN 40 ELSE 0)
                       + (IF \E f \in fs : f.is_entrypoint THEN 40 ELSE 0)
                       + (IF \E f \in fs : f.role = "config" THEN 20 ELSE 0)
           points   == (45 * coverage + 40 * quality + 50) \div 100 + bonus
<1> SUFFICES ASSUME meta.total_files # 0 PROVE ComputeConfidence(meta, fs) \in Nat
  BY DEF ComputeConfidence
<1>1. ComputeConfidence(meta, fs) = IF points > 970 THEN 970 ELSE points
  BY DEF ComputeConfidence
<1>2. coverage \in Nat
  BY RateNat
<1>3. quality \in Nat
  <2>1. Measured(fetched)
    BY FS_Subset DEF Measured
  <2>2. total \in Nat
    BY <2>1, ConfidencesNat
  <2>3. Cardinality(fetched) \in Nat /\ (fetched # {} => Cardinality(fetched) # 0)
    BY <2>1, FS_CardinalityType, FS_EmptySet DEF Measured
  <2> HIDE DEF total, fetched
  <2> QED
    BY <2>2, <2>3
<1>4. bonus \in Nat
  OBVIOUS
<1> HIDE DEF coverage, quality, bonus
<1> QED
  BY <1>1, <1>2, <1>3, <1>4

\* What a dimension is worth after the adjustment.
Worth(found, fs, meta) ==
  [d \in DIMENSIONS |->
     Adjusted(RawScore(found, fs, d), ComputeConfidence(meta, fs)) * DIMENSION_WEIGHTS[d]]

\* The composite score adds what the dimensions are worth.
LEMMA CompositeSums ==
  ASSUME NEW found, NEW fs, NEW meta, IsFiniteSet(DIMENSIONS),
         \A d \in DIMENSIONS : Worth(found, fs, meta)[d] \in Int
  PROVE  \E g : /\ Sums(g, DIMENSIONS, 0, Worth(found, fs, meta))
                /\ BuildScorecard(found, fs, meta).composite_score = (g[DIMENSIONS] + 50) \div 100
<1> DEFINE S == DIMENSIONS
           w == Worth(found, fs, meta)
           adjusted == [d \in DIMENSIONS |-> Adjusted(RawScore(found, fs, d), ComputeConfidence(meta, fs))]
           Is(g) == g = [s \in SUBSET S |->
                           IF s = {} THEN 0
                           ELSE LET x == CHOOSE x \in s : TRUE
                                IN  g[s \ {x}] + adjusted[x] * DIMENSION_WEIGHTS[x]]
           sum == CHOOSE g : Is(g)
<1>1. BuildScorecard(found, fs, meta).composite_score = (sum[S] + 50) \div 100
  BY DEF BuildScorecard, FoldSet, MapThenFoldSet
<1>2. ASSUME NEW g PROVE Is(g) <=> Sums(g, S, 0, w)
  <2>1. \A s \in SUBSET S : s # {} => w[Pick(s)] = adjusted[Pick(s)] * DIMENSION_WEIGHTS[Pick(s)]
    BY PickIn DEF Worth
  <2> HIDE DEF w, adjusted, S
  <2> QED
    BY <2>1 DEF Sums, Pick
<1>3. \E g : Is(g)
  <2>1. 0 \in Int /\ IsFiniteSet(S) /\ \A d \in S : w[d] \in Int
    OBVIOUS
  <2> HIDE DEF Is, w, S
  <2> QED
    BY <1>2, <2>1, SumExists
<1>4. Is(sum)
  <2> HIDE DEF Is
  <2> QED
    BY <1>3
<1>5. Sums(sum, S, 0, w)
  <2> HIDE DEF Is, w, sum, S
  <2> QED
    BY <1>2, <1>4
<1> QED
  BY <1>1, <1>5

\* There are six dimensions.
LEMMA DimensionsFinite == IsFiniteSet(DIMENSIONS)
<1>1. DIMENSIONS = ({"security", "performance", "reliability", "maintainability", "test_coverage"}
                    \cup {"documentation"})
  BY DEF DIMENSIONS, DIMENSION_WEIGHTS
<1>2. IsFiniteSet({"security", "performance", "reliability", "maintainability", "test_coverage"})
  BY FiveFinite, Zenon
<1> QED
  BY <1>1, <1>2, FS_AddElement

\* A higher score stays higher when it is adjusted by the same confidence.
LEMMA AdjustedGrows ==
  ASSUME NEW raw \in Int, NEW more \in Int, raw <= more, NEW confidence \in Nat
  PROVE  /\ Adjusted(raw, confidence) \in Int
         /\ Adjusted(more, confidence) \in Int
         /\ Adjusted(raw, confidence) <= Adjusted(more, confidence)
<1>1. more - raw \in Nat
  OBVIOUS
<1>2. (more - raw) * confidence \in Nat
  BY <1>1
<1>3. (more - raw) * confidence = more * confidence - raw * confidence
  OBVIOUS
<1>4. raw * confidence \in Int /\ more * confidence \in Int
  OBVIOUS
<1> DEFINE a == raw * confidence
           b == more * confidence
           rest == 50 * (1000 - confidence)
<1>5. a \in Int /\ b \in Int /\ a <= b /\ rest \in Int
  BY <1>2, <1>3, <1>4
<1>6. /\ Adjusted(raw, confidence) = (a + rest) \div 1000
      /\ Adjusted(more, confidence) = (b + rest) \div 1000
  BY DEF Adjusted
<1> HIDE DEF a, b, rest
<1> QED
  BY <1>5, <1>6

\* A scan without one of its findings is scored no lower.
LEMMA ResolvingHelps ==
  ASSUME NEW found, Deducting(found), NEW x \in found, NEW fs, Measured(fs),
         NEW meta, meta.files_scanned \in Nat, meta.total_files \in Nat
  PROVE  CompareScores(BuildScorecard(found, fs, meta),
                       BuildScorecard(found \ {x}, fs, meta)).composite_delta >= 0
<1> DEFINE rest == found \ {x}
           confidence == ComputeConfidence(meta, fs)
           w == Worth(found, fs, meta)
           v == Worth(rest, fs, meta)
<1>1. confidence \in Nat
  BY ConfidenceNat
<1>2. \A d \in DIMENSIONS : /\ RawScore(found, fs, d) \in Int /\ RawScore(rest, fs, d) \in Int
                            /\ RawScore(found, fs, d) <= RawScore(rest, fs, d)
  <2> SUFFICES ASSUME NEW d \in DIMENSIONS
               PROVE  /\ RawScore(found, fs, d) \in Int /\ RawScore(rest, fs, d) \in Int
                      /\ RawScore(found, fs, d) <= RawScore(rest, fs, d)
    OBVIOUS
  <2>1. CASE d \notin {"test_coverage", "documentation"}
    BY <2>1, RawScoreGrows
  <2>2. CASE d = "test_coverage"
    <3>1. RawScore(found, fs, d) = ScoreTestCoverage(fs) /\ RawScore(rest, fs, d) = ScoreTestCoverage(fs)
      BY <2>2 DEF RawScore
    <3> QED
      BY <3>1, FilesScoreInt DEF Measured
  <2>3. CASE d = "documentation"
    <3>1. RawScore(found, fs, d) = ScoreDocumentation(fs) /\ RawScore(rest, fs, d) = ScoreDocumentation(fs)
      BY <2>3 DEF RawScore
    <3> QED
      BY <3>1, FilesScoreInt DEF Measured
  <2> QED
    BY <2>1, <2>2, <2>3
<1>3. \A d \in DIMENSIONS : w[d] \in Int /\ v[d] \in Int /\ w[d] <= v[d]
  <2> SUFFICES ASSUME NEW d \in DIMENSIONS PROVE w[d] \in Int /\ v[d] \in Int /\ w[d] <= v[d]
    OBVIOUS
  <2> DEFINE a == Adjusted(RawScore(found, fs, d), confidence)
             b == Adjusted(RawScore(rest, fs, d), confidence)
             weight == DIMENSION_WEIGHTS[d]
  <2>1. a \in Int /\ b \in Int /\ a <= b
    <3> HIDE DEF confidence
    <3> QED
      BY <1>1, <1>2, AdjustedGrows
  <2>2. weight \in Nat
    BY DEF DIMENSIONS, DIMENSION_WEIGHTS
  <2>3. w[d] = a * weight /\ v[d] = b * weight
    BY DEF Worth
  <2> HIDE DEF a, b, weight
  <2>4. (b - a) * weight \in Nat /\ (b - a) * weight = b * weight - a * weight
    BY <2>1, <2>2
  <2>5. a * weight \in Int /\ b * weight \in Int
    BY <2>1, <2>2
  <2> HIDE DEF w, v
  <2> QED
    BY <2>3, <2>4, <2>5
<1>4. PICK g : /\ Sums(g, DIMENSIONS, 0, w)
               /\ BuildScorecard(found, fs, meta).composite_score = (g[DIMENSIONS] + 50) \div 100
  BY <1>3, DimensionsFinite, CompositeSums
<1>5. PICK h : /\ Sums(h, DIMENSIONS, 0, v)
               /\ BuildScorecard(rest, fs, meta).composite_score = (h[DIMENSIONS] + 50) \div 100
  <2> HIDE DEF rest, w
  <2>1. \A d \in DIMENSIONS : Worth(rest, fs, meta)[d] \in Int
    BY <1>3
  <2> QED
    BY <2>1, DimensionsFinite, CompositeSums
<1>6. g[DIMENSIONS] \in Int /\ h[DIMENSIONS] \in Int /\ g[DIMENSIONS] <= h[DIMENSIONS]
  <2> HIDE DEF w, v
  <2> DEFINE S == DIMENSIONS
  <2>1. S \in SUBSET S /\ 0 \in Int /\ IsFiniteSet(S)
    BY DimensionsFinite
  <2> HIDE DEF S
  <2>2. g[S] \in Int /\ h[S] \in Int /\ g[S] <= h[S]
    BY <1>3, <1>4, <1>5, <2>1, SumMonotone DEF S
  <2> QED
    BY <2>2 DEF S
<1>7. CompareScores(BuildScorecard(found, fs, meta), BuildScorecard(rest, fs, meta)).composite_delta
        = (h[DIMENSIONS] + 50) \div 100 - (g[DIMENSIONS] + 50) \div 100
  BY <1>4, <1>5 DEF CompareScores
<1> QED
  BY <1>6, <1>7

\* The image of a finite set is finite.
LEMMA ImageFinite ==
  ASSUME NEW S, IsFiniteSet(S), NEW h
  PROVE  IsFiniteSet({h[x] : x \in S})
<1> DEFINE T == {h[x] : x \in S}
           k == [x \in S |-> h[x]]
<1>1. k \in Surjection(S, T)
  BY DEF Surjection
<1>2. IsFiniteSet(T)
  <2> HIDE DEF k, T
  <2> QED
    BY <1>1, FS_Surjection
<1> QED
  BY <1>2

\* A sequence has finitely many elements, and one less without its first ones.
LEMMA RangeFinite ==
  ASSUME NEW S, NEW s \in Seq(S)
  PROVE  /\ IsFiniteSet(Range(s)) /\ Cardinality(Range(s)) \in Nat
         /\ Cardinality(Range(s)) <= Len(s)
<1> DEFINE k == [i \in 1..Len(s) |-> s[i]]
<1>1. k \in Surjection(1..Len(s), Range(s))
  BY DEF Surjection, Range
<1>2. Len(s) \in Nat /\ IsFiniteSet(1..Len(s)) /\ Cardinality(1..Len(s)) = Len(s)
  <2>1. Len(s) \in Nat /\ 1 \in Int /\ Len(s) \in Int
    OBVIOUS
  <2>2. IsFiniteSet(1..Len(s)) /\ Cardinality(1..Len(s)) = IF 1 > Len(s) THEN 0 ELSE Len(s) - 1 + 1
    BY <2>1, FS_Interval
  <2> QED
    BY <2>1, <2>2
<1> HIDE DEF k
<1>3. IsFiniteSet(Range(s)) /\ Cardinality(Range(s)) <= Cardinality(1..Len(s))
  BY <1>1, <1>2, FS_Surjection
<1> QED
  BY <1>2, <1>3, FS_CardinalityType

-----------------------------------------------------------------------------
(* What a finding takes                                                    *)

\* A finding of a pattern only takes points.
LEMMA PatternsDeduct ==
  ASSUME NEW file, NEW matches, IsFiniteSet(matches)
  PROVE  Deducting(DeterministicFindings(file, matches))
<1> DEFINE seen == {n \in matches : n.op \in file.sensitive \cap DOMAIN PATTERN_META /\ n.line > 0}
           h == [m \in seen |-> Finding(file.path, m.op, PATTERN_META[m.op][1], PATTERN_META[m.op][2],
                  "deterministic", m.line, m.line, -DETERMINISTIC_DEDUCTIONS[m.op], 1000)]
<1>1. DeterministicFindings(file, matches) = {h[m] : m \in seen}
  <2>1. \A m \in seen :
          h[m] = Finding(file.path, m.op, PATTERN_META[m.op][1], PATTERN_META[m.op][2],
                         "deterministic", m.line, m.line, -DETERMINISTIC_DEDUCTIONS[m.op], 1000)
    OBVIOUS
  <2>2. DeterministicFindings(file, matches) =
          {Finding(file.path, m.op, PATTERN_META[m.op][1], PATTERN_META[m.op][2],
                   "deterministic", m.line, m.line, -DETERMINISTIC_DEDUCTIONS[m.op], 1000) : m \in seen}
    BY DEF DeterministicFindings
  <2> HIDE DEF h, seen
  <2> QED
    BY <2>1, <2>2
<1>2. IsFiniteSet(seen)
  BY FS_Subset
<1>3. ASSUME NEW m \in seen PROVE h[m].score_impact \in Int /\ h[m].score_impact <= 0
  <2>1. h[m].score_impact = -DETERMINISTIC_DEDUCTIONS[m.op]
    BY DEF Finding
  <2>2. m.op \in DOMAIN PATTERN_META
    OBVIOUS
  <2>3. DETERMINISTIC_DEDUCTIONS[m.op] \in Nat
    BY <2>2 DEF PATTERN_META, DETERMINISTIC_DEDUCTIONS
  <2> HIDE DEF h
  <2> QED
    BY <2>1, <2>3
<1> HIDE DEF seen, h
<1>4. IsFiniteSet({h[m] : m \in seen})
  BY <1>2, ImageFinite
<1> QED
  BY <1>1, <1>3, <1>4 DEF Deducting

\* What the model may deduct for a finding.
LEMMA DeductionNat ==
  ASSUME NEW c \in Categories, NEW s \in Severities
  PROVE  SCORE_DEDUCTIONS[c][s] \in Nat
<1>1. SCORE_DEDUCTIONS[c] \in [{"critical", "high", "medium", "low"} -> Nat]
  BY DEF Categories, SCORE_DEDUCTIONS
<1> QED
  BY <1>1 DEF Severities

\* So does a finding of the model.
LEMMA ItemsDeduct ==
  ASSUME NEW items, IsFiniteSet(items), NEW path
  PROVE  Deducting(ValidateLLMFindings(items, path))
<1> DEFINE valid == {j \in items : ValidItem(j)}
           h == [i \in valid |-> Finding(path, "llm", i.category, i.severity, "llm_assisted", i.line_start,
                                         i.line_end, -SCORE_DEDUCTIONS[i.category][i.severity], 750)]
<1>1. ValidateLLMFindings(items, path) = {h[i] : i \in valid}
  BY DEF ValidateLLMFindings
<1>2. IsFiniteSet(valid)
  BY FS_Subset
<1>3. ASSUME NEW i \in valid PROVE h[i].score_impact \in Int /\ h[i].score_impact <= 0
  <2>1. h[i].score_impact = -SCORE_DEDUCTIONS[i.category][i.severity]
    BY DEF Finding
  <2>2. i.category \in Categories /\ i.severity \in Severities
    BY DEF ValidItem
  <2> HIDE DEF h
  <2> QED
    BY <2>1, <2>2, DeductionNat
<1> HIDE DEF valid, h
<1>4. IsFiniteSet({h[i] : i \in valid})
  BY <1>2, ImageFinite
<1> QED
  BY <1>1, <1>3, <1>4 DEF Deducting

\* What is new of a set is part of it.
LEMMA DeduplicatePart ==
  ASSUME NEW existing, NEW new
  PROVE  Deduplicate(existing, new) \subseteq new
<1> DEFINE ranges == {RangeOf(f) : f \in new} \ {RangeOf(f) : f \in existing}
<1> SUFFICES ASSUME NEW x \in Deduplicate(existing, new) PROVE x \in new
  OBVIOUS
<1>1. PICK r \in ranges : x = CHOOSE f \in new : RangeOf(f) = r
  BY DEF Deduplicate
<1>2. \E f \in new : RangeOf(f) = r
  BY <1>1
<1> QED
  BY <1>1, <1>2, Zenon

\* And every finding of a review.
LEMMA FileDeducts ==
  ASSUME NEW file, NEW matches, IsFiniteSet(matches), NEW g, NEW items, IsFiniteSet(items)
  PROVE  Deducting(ReviewFile(file, matches, g, items))
<1> DEFINE found == DeterministicFindings(file, matches)
           new == Deduplicate(found, ValidateLLMFindings(items, file.path))
<1>1. Deducting(found)
  BY PatternsDeduct
<1>2. Deducting(new)
  <2>1. new \subseteq ValidateLLMFindings(items, file.path)
    BY DeduplicatePart
  <2>2. Deducting(ValidateLLMFindings(items, file.path))
    BY ItemsDeduct
  <2> HIDE DEF new
  <2> QED
    BY <2>1, <2>2, FS_Subset DEF Deducting
<1>3. ReviewFile(file, matches, g, items) = found \/ ReviewFile(file, matches, g, items) = found \cup new
  BY DEF ReviewFile
<1> HIDE DEF found, new
<1>4. Deducting(found \cup new)
  BY <1>1, <1>2, FS_Union DEF Deducting
<1> QED
  BY <1>1, <1>3, <1>4

\* A review of the whole repository finds what only takes points.
LEMMA RepoDeducts ==
  ASSUME NEW fs, IsFiniteSet(Range(fs)), NEW g, NEW content, NEW answers,
         \A p \in DOMAIN content : IsFiniteSet(content[p]),
         \A f \in Range(fs) : IsFiniteSet(answers[f.path])
  PROVE  Deducting(ReviewRepo(fs, g, content, answers))
<1> DEFINE reviewed == {f \in Range(fs) : f.path \in DOMAIN content}
           h == [f \in reviewed |-> ReviewFile(f, content[f.path], g, answers[f.path])]
<1>1. ReviewRepo(fs, g, content, answers) = UNION {h[f] : f \in reviewed}
  BY DEF ReviewRepo
<1>2. \A f \in reviewed : Deducting(h[f])
  BY FileDeducts
<1>3. IsFiniteSet(reviewed)
  BY FS_Subset
<1> HIDE DEF reviewed, h
<1>4. IsFiniteSet({h[f] : f \in reviewed})
  BY <1>3, ImageFinite
<1>5. IsFiniteSet(UNION {h[f] : f \in reviewed})
  BY <1>2, <1>4, FS_UNION DEF Deducting
<1> QED
  BY <1>1, <1>2, <1>5 DEF Deducting

-----------------------------------------------------------------------------
(* What a scan counts                                                      *)

\* The files a scan fetches, and the records it makes of files.
Fetchable == Range(PrioritizeFiles(tree, MaxFiles))
Records(fs) == {FileIntelligence(f) : f \in fs} \cup {NotFetched(f) : f \in fs}

\* A file that was attempted is still wanted, on its way or recorded, and what
\* was found of it only takes points.
CountInvariant == /\ tree \in Trees
                  /\ queue \in Seq(Fetchable)
                  /\ batch \subseteq Fetchable /\ IsFiniteSet(batch)
                  /\ files \in Seq(Records(Fetchable))
                  /\ Len(files) + Cardinality(batch) + Len(queue) <= Attempted
                  /\ Deducting(findings)

\* A tree has finitely many files, and a scan attempts some of them.
LEMMA TreeCounts ==
  ASSUME NEW t \in Trees
  PROVE  /\ IsFiniteSet(Scannable(t)) /\ Len(t) \in Nat
         /\ Chosen(t, MaxFiles) \in Nat /\ Chosen(t, MaxFiles) <= Cardinality(Scannable(t))
<1>1. t \in Seq(Range(t))
  BY TreesAssumption
<1>2. Len(t) \in Nat /\ DOMAIN t = 1..Len(t)
  BY <1>1
<1>3. IsFiniteSet(1..Len(t))
  BY <1>2, FS_Interval
<1>4. IsFiniteSet(Scannable(t))
  BY <1>2, <1>3, FS_Subset DEF Scannable
<1> QED
  BY <1>2, <1>4, FS_CardinalityType, BatchAssumption DEF Chosen

\* The queue is a list of what the scan attempts.
LEMMA QueueCounts ==
  ASSUME NEW t \in Trees
  PROVE  LET q == PrioritizeFiles(t, MaxFiles)
         IN  q \in Seq(Range(q)) /\ Len(q) = Chosen(t, MaxFiles)
<1> DEFINE q == PrioritizeFiles(t, MaxFiles)
           n == Chosen(t, MaxFiles)
<1>1. n \in Nat
  BY TreeCounts
<1>2. DOMAIN q = 1..n /\ q = [i \in 1..n |-> q[i]]
  BY DEF PrioritizeFiles
<1> HIDE DEF q, n
<1>3. \A i \in 1..n : q[i] \in Range(q)
  BY <1>2 DEF Range
<1>4. q \in [1..n -> Range(q)]
  BY <1>2, <1>3
<1>5. q \in Seq(Range(q)) /\ Len(q) = n
  BY <1>1, <1>4
<1> QED
  BY <1>5 DEF q, n

\* Everything is still wanted at first.
LEMMA CountInit == ScanInit => CountInvariant
<1> SUFFICES ASSUME ScanInit PROVE CountInvariant
  OBVIOUS
<1>1. /\ tree \in Trees /\ queue = PrioritizeFiles(tree, MaxFiles)
      /\ batch = {} /\ files = <<>> /\ findings = {}
  BY DEF ScanInit
<1>2. queue \in Seq(Fetchable) /\ Len(queue) = Attempted /\ Attempted \in Nat
  BY <1>1, QueueCounts, TreeCounts DEF Fetchable, Attempted
<1>3. IsFiniteSet(batch) /\ Cardinality(batch) = 0
  BY <1>1, FS_EmptySet
<1>4. files \in Seq(Records(Fetchable)) /\ Len(files) = 0
  BY <1>1
<1>5. Deducting(findings)
  BY <1>1, FS_EmptySet DEF Deducting
<1> QED
  BY <1>1, <1>2, <1>3, <1>4, <1>5 DEF CountInvariant

\* The content of a file is a finite set of matches.
LEMMA ContentFinite ==
  ASSUME tree \in Trees, NEW p \in DOMAIN Content
  PROVE  IsFiniteSet(Content[p])
<1> DEFINE fetched == {f \in Range(tree) : /\ "empty" \notin f.traits
                                           /\ \E g \in Scanned : g.path = PathOf(f) /\ g.fetched}
           c == CHOOSE f \in fetched : PathOf(f) = p
<1>1. Content = [r \in {PathOf(f) : f \in fetched} |-> (CHOOSE f \in fetched : PathOf(f) = r).matches]
  BY DEF Content
<1>2. Content[p] = c.matches /\ \E f \in fetched : PathOf(f) = p
  <2> HIDE DEF fetched
  <2> QED
    BY <1>1
<1>3. c \in fetched
  <2> HIDE DEF fetched
  <2> QED
    BY <1>2
<1>4. c \in Range(tree)
  BY <1>3
<1> HIDE DEF c
<1> QED
  BY <1>2, <1>4, TreesAssumption

\* A review takes points for finitely many findings.
LEMMA ReviewDeducts ==
  ASSUME CountInvariant, Review
  PROVE  Deducting(findings')
<1> DEFINE asked == {f.path : f \in {g \in Scanned : ShouldInvokeLLM(g, graph)}}
           answers(said) == [p \in {f.path : f \in Scanned} |-> IF p \in asked THEN said[p] ELSE {}]
<1>1. PICK said \in [asked -> Answers] :
        findings' = ReviewRepo(files, graph, Content, answers(said))
  BY DEF Review
<1>2. IsFiniteSet(Range(files))
  BY RangeFinite DEF CountInvariant
<1>3. ASSUME NEW f \in Range(files) PROVE IsFiniteSet(answers(said)[f.path])
  <2>1. answers(said)[f.path] = IF f.path \in asked THEN said[f.path] ELSE {}
    BY DEF Scanned
  <2> HIDE DEF answers, asked
  <2> QED
    BY <2>1, AnswersAssumption, FS_EmptySet
<1>4. \A p \in DOMAIN Content : IsFiniteSet(Content[p])
  BY ContentFinite DEF CountInvariant
<1> HIDE DEF answers, asked
<1>5. Deducting(ReviewRepo(files, graph, Content, answers(said)))
  BY <1>2, <1>3, <1>4, RepoDeducts
<1> QED
  BY <1>1, <1>5

\* Every step of the scan keeps the counts.
LEMMA CountStep ==
  ASSUME CountInvariant, [ScanNext]_scanVars
  PROVE  CountInvariant'
<1>0. /\ tree \in Trees /\ queue \in Seq(Fetchable) /\ batch \subseteq Fetchable
      /\ IsFiniteSet(batch) /\ Cardinality(batch) \in Nat
      /\ files \in Seq(Records(Fetchable)) /\ Len(files) \in Nat /\ Len(queue) \in Nat
      /\ Len(files) + Cardinality(batch) + Len(queue) <= Attempted
      /\ Attempted \in Nat
      /\ Deducting(findings)
  BY FS_CardinalityType, TreeCounts DEF CountInvariant, Attempted
<1>1. tree' = tree
  BY DEF ScanNext, scanVars, StartBatch, Arrive, StopEarly, FinishScan, ScanFails, Review, ReviewFails,
         Score, ScoreFails, Persist, WorkerDies, Read
<1>2. Fetchable' = Fetchable /\ Attempted' = Attempted
  BY <1>1 DEF Fetchable, Attempted
<1> SUFFICES /\ queue' \in Seq(Fetchable) /\ batch' \subseteq Fetchable /\ IsFiniteSet(batch')
             /\ files' \in Seq(Records(Fetchable)) /\ Deducting(findings')
             /\ Len(files') + Cardinality(batch') + Len(queue') <= Attempted
  BY <1>0, <1>1, <1>2 DEF CountInvariant
<1>3. CASE StartBatch
  <2> DEFINE n == IF Len(queue) < BatchSize THEN Len(queue) ELSE BatchSize
             now == SubSeq(queue, 1, n)
             later == SubSeq(queue, n + 1, Len(queue))
  <2>1. /\ batch = {} /\ batch' = Range(now) /\ queue' = later
        /\ files' = files /\ findings' = findings
    BY <1>3 DEF StartBatch
  <2>2. n \in Nat /\ n <= Len(queue)
    BY <1>0, BatchAssumption
  <2> HIDE DEF n
  <2>3. now \in Seq(Fetchable) /\ Len(now) = n
    BY <1>0, <2>2
  <2>4. later \in Seq(Fetchable) /\ Len(later) = Len(queue) - n
    BY <1>0, <2>2
  <2> HIDE DEF now, later
  <2>5. IsFiniteSet(Range(now)) /\ Cardinality(Range(now)) \in Nat /\ Cardinality(Range(now)) <= n
    BY <2>3, RangeFinite
  <2>6. Range(now) \subseteq Fetchable
    BY <2>3 DEF Range
  <2>7. Cardinality(batch) = 0
    BY <2>1, FS_EmptySet
  <2> QED
    BY <1>0, <2>1, <2>2, <2>4, <2>5, <2>6, <2>7
<1>4. ASSUME NEW f \in batch, Arrive(f)
      PROVE  /\ queue' \in Seq(Fetchable) /\ batch' \subseteq Fetchable /\ IsFiniteSet(batch')
             /\ files' \in Seq(Records(Fetchable)) /\ Deducting(findings')
             /\ Len(files') + Cardinality(batch') + Len(queue') <= Attempted
  <2>1. PICK record \in {FileIntelligence(f), NotFetched(f)} :
          /\ batch' = batch \ {f} /\ files' = Append(files, record)
          /\ queue' = queue /\ findings' = findings
    BY <1>4 DEF Arrive
  <2>2. record \in Records(Fetchable)
    BY <1>0 DEF Records
  <2>3. files' \in Seq(Records(Fetchable)) /\ Len(files') = Len(files) + 1
    BY <1>0, <2>1, <2>2
  <2>4. IsFiniteSet(batch') /\ Cardinality(batch') = Cardinality(batch) - 1
    BY <1>0, <2>1, FS_RemoveElement
  <2> QED
    BY <1>0, <2>1, <2>3, <2>4
<1>5. CASE StopEarly \/ WorkerDies
  <2>1. /\ queue' = <<>> /\ (batch' = batch \/ batch' = {}) /\ files' = files /\ findings' = findings
    BY <1>5 DEF StopEarly, WorkerDies
  <2>2. IsFiniteSet({}) /\ Cardinality({}) = 0 /\ queue' \in Seq(Fetchable) /\ Len(queue') = 0
    BY <2>1, FS_EmptySet
  <2>3. /\ batch' \subseteq Fetchable /\ IsFiniteSet(batch')
        /\ Cardinality(batch') \in Nat /\ Cardinality(batch') <= Cardinality(batch)
    <3>1. CASE batch' = batch
      BY <1>0, <3>1
    <3>2. CASE batch' = {}
      <4>1. IsFiniteSet(batch') /\ Cardinality(batch') = 0
        BY <2>2, <3>2
      <4> QED
        BY <1>0, <3>2, <4>1
    <3> QED
      BY <2>1, <3>1, <3>2
  <2> QED
    BY <1>0, <2>1, <2>2, <2>3
<1>6. CASE ScanFails
  <2>1. /\ queue' = <<>> /\ batch' = {} /\ files' = <<>> /\ findings' = findings
    BY <1>6 DEF ScanFails
  <2>2. IsFiniteSet({}) /\ Cardinality({}) = 0 /\ queue' \in Seq(Fetchable) /\ Len(queue') = 0
    BY <2>1, FS_EmptySet
  <2>3. files' \in Seq(Records(Fetchable)) /\ Len(files') = 0
    BY <2>1
  <2> QED
    BY <1>0, <2>1, <2>2, <2>3
<1>7. CASE Review
  <2>1. queue' = queue /\ batch' = batch /\ files' = files
    BY <1>7 DEF Review
  <2>2. Deducting(findings')
    BY <1>7, ReviewDeducts
  <2> QED
    BY <1>0, <2>1, <2>2
<1>8. CASE FinishScan \/ ReviewFails \/ Score \/ ScoreFails \/ Persist \/ Read \/ UNCHANGED scanVars
  <2>1. queue' = queue /\ batch' = batch /\ files' = files /\ findings' = findings
    BY <1>8 DEF FinishScan, ReviewFails, Score, ScoreFails, Persist, Read, scanVars
  <2> QED
    BY <1>0, <2>1
<1> QED
  BY <1>3, <1>4, <1>5, <1>6, <1>7, <1>8 DEF ScanNext

\* The inductive invariant of ResolvingNeverHurts holds in every reachable state.
THEOREM CountInvariantHolds == ScanSpec => []CountInvariant
  BY CountInit, CountStep, PTL DEF ScanSpec

\* The scan's own numbers are numbers.
LEMMA ScanMeasured ==
  ASSUME CountInvariant
  PROVE  Measured(Scanned) /\ Metadata.files_scanned \in Nat /\ Metadata.total_files \in Nat
<1> DEFINE failed == {f \in Scanned : ~f.fetched}
<1>1. IsFiniteSet(Scanned) /\ Cardinality(Scanned) \in Nat /\ Cardinality(Scanned) <= Len(files)
  BY RangeFinite DEF Scanned, CountInvariant
<1>2. ASSUME NEW f \in Scanned PROVE f.confidence \in Nat
  <2>1. f \in Records(Fetchable)
    BY DEF Scanned, CountInvariant, Range
  <2>2. PICK h : f = FileIntelligence(h) \/ f = NotFetched(h)
    BY <2>1 DEF Records
  <2>3. FileIntelligence(h).confidence \in Nat /\ NotFetched(h).confidence \in Nat
    BY DEF FileIntelligence, NotFetched
  <2> QED
    BY <2>2, <2>3
<1>3. Cardinality(failed) \in Nat /\ Cardinality(failed) <= Cardinality(Scanned)
  BY <1>1, FS_Subset, FS_CardinalityType
<1>4. /\ Metadata.files_scanned = Attempted - Cardinality(failed)
      /\ Metadata.total_files = Len(tree)
  BY DEF Metadata, ScanMetadata
<1>5. Attempted \in Nat /\ Len(tree) \in Nat /\ Len(files) <= Attempted /\ Len(files) \in Nat
  <2>1. Attempted \in Nat /\ Len(tree) \in Nat
    BY TreeCounts DEF CountInvariant, Attempted
  <2>2. Len(files) \in Nat /\ Len(queue) \in Nat /\ Cardinality(batch) \in Nat
    BY FS_CardinalityType DEF CountInvariant
  <2> QED
    BY <2>1, <2>2 DEF CountInvariant
<1> HIDE DEF failed
<1> QED
  BY <1>1, <1>2, <1>3, <1>4, <1>5 DEF Measured

\* build_scorecard: whatever the findings of a scan, the score without one of
\* them is at least as high.
THEOREM ResolvingHurtsNobody == ScanSpec => []ResolvingNeverHurts
<1>1. CountInvariant => ResolvingNeverHurts
  <2> SUFFICES ASSUME CountInvariant, NEW f \in findings
               PROVE  CompareScores(BuildScorecard(findings, Scanned, Metadata),
                        BuildScorecard(findings \ {f}, Scanned, Metadata)).composite_delta >= 0
    BY DEF ResolvingNeverHurts
  <2> QED
    BY ScanMeasured, ResolvingHelps DEF CountInvariant
<1> QED
  BY <1>1, CountInvariantHolds, PTL

-----------------------------------------------------------------------------
(* What is fetched is of the tree                                          *)

\* Ranks fill the numbers up to the size of a set: if of two elements one is
\* below the other, each is preceded by a different number of elements.
LEMMA RanksFill ==
  ASSUME NEW S, IsFiniteSet(S), NEW below,
         \A i \in S : below[i] \subseteq S \ {i},
         \A i, j \in S : i # j => \/ i \in below[j] /\ below[i] \subseteq below[j]
                                  \/ j \in below[i] /\ below[j] \subseteq below[i]
  PROVE  \A n \in 1..Cardinality(S) : \E i \in S : 1 + Cardinality(below[i]) = n
<1> DEFINE k == [i \in S |-> 1 + Cardinality(below[i])]
           T == 1..Cardinality(S)
<1>1. \A i \in S : IsFiniteSet(below[i]) /\ Cardinality(below[i]) \in Nat
  BY FS_Subset, FS_CardinalityType
<1>2. Cardinality(S) \in Nat
  BY FS_CardinalityType
<1>3. ASSUME NEW i \in S PROVE k[i] \in T
  <2>1. Cardinality(below[i]) <= Cardinality(S \ {i})
    <3>1. IsFiniteSet(S \ {i}) /\ below[i] \in SUBSET (S \ {i})
      BY FS_RemoveElement
    <3> QED
      BY <3>1, FS_Subset
  <2>2. Cardinality(S \ {i}) = Cardinality(S) - 1
    BY FS_RemoveElement
  <2> QED
    BY <1>1, <1>2, <2>1, <2>2
<1>4. ASSUME NEW i \in S, NEW j \in S, i \in below[j], below[i] \subseteq below[j]
      PROVE  Cardinality(below[i]) < Cardinality(below[j])
  <2>1. below[i] \in SUBSET below[j] /\ below[i] # below[j]
    BY <1>4
  <2>2. /\ Cardinality(below[i]) <= Cardinality(below[j])
        /\ Cardinality(below[j]) # Cardinality(below[i])
    BY <1>1, <2>1, FS_Subset
  <2> QED
    BY <1>1, <2>2
<1>5. k \in Injection(S, T)
  <2>1. k \in [S -> T]
    <3> HIDE DEF T
    <3> QED
      BY <1>3
  <2>2. ASSUME NEW i \in S, NEW j \in S, k[i] = k[j] PROVE i = j
    <3> SUFFICES ASSUME i # j PROVE FALSE
      OBVIOUS
    <3>1. Cardinality(below[i]) = Cardinality(below[j])
      BY <1>1, <2>2
    <3>2. \/ Cardinality(below[i]) < Cardinality(below[j])
          \/ Cardinality(below[j]) < Cardinality(below[i])
      BY <1>4
    <3> QED
      BY <1>1, <3>1, <3>2
  <2> HIDE DEF k, T
  <2> QED
    BY <2>1, <2>2 DEF Injection, IsInjective
<1>6. IsFiniteSet(T) /\ Cardinality(T) = Cardinality(S)
  <2>1. 1 \in Int /\ Cardinality(S) \in Int
    BY <1>2
  <2>2. IsFiniteSet(T) /\ Cardinality(T) = IF 1 > Cardinality(S) THEN 0 ELSE Cardinality(S) - 1 + 1
    BY <2>1, FS_Interval
  <2> QED
    BY <1>2, <2>2
<1>7. k \in Surjection(S, T)
  <2> HIDE DEF k, T
  <2> QED
    BY <1>5, <1>6, FS_Injection
<1>8. ASSUME NEW n \in T PROVE \E i \in S : k[i] = n
  <2> HIDE DEF k, T
  <2> QED
    BY <1>7 DEF Surjection
<1> QED
  BY <1>8

\* Every file has a role, and a priority.
LEMMA PriorityNat ==
  ASSUME NEW f, NEW signals
  PROVE  FILE_PRIORITY[ClassifyRole(f, signals)] \in Nat
<1> DEFINE rules == RoleRules(f, signals)
           hits == {i \in 1..10 : rules[i][2]}
           first == CHOOSE i \in DOMAIN rules : rules[i][2] /\ \A j \in 1..(i - 1) : ~rules[j][2]
<1>1. DOMAIN rules = 1..10
  BY DEF RoleRules
<1>2. rules[10][2]
  BY DEF RoleRules
<1>3. \A i \in 1..10 : rules[i][1] \in DOMAIN FILE_PRIORITY
  <2>1. /\ rules[1][1] = "test" /\ rules[2][1] = "infra" /\ rules[3][1] = "config"
        /\ rules[4][1] = "migration" /\ rules[5][1] = "schema" /\ rules[6][1] = "entrypoint"
        /\ rules[7][1] = "service" /\ rules[8][1] = "utility" /\ rules[9][1] = "module"
        /\ rules[10][1] = "unknown"
    BY DEF RoleRules
  <2>2. DOMAIN FILE_PRIORITY = {"test", "infra", "config", "migration", "schema", "entrypoint",
                                "service", "utility", "module", "unknown"}
    BY DEF FILE_PRIORITY
  <2> HIDE DEF rules
  <2>3. \A i \in 1..10 : i = 1 \/ i = 2 \/ i = 3 \/ i = 4 \/ i = 5 \/ i = 6 \/ i = 7 \/ i = 8
                         \/ i = 9 \/ i = 10
    OBVIOUS
  <2> QED
    BY <2>1, <2>2, <2>3
<1> HIDE DEF rules
<1>4. \E i \in 1..10 : rules[i][2] /\ \A j \in 1..(i - 1) : ~rules[j][2]
  BY <1>2
<1>5. first \in 1..10
  BY <1>1, <1>4
<1>6. ClassifyRole(f, signals) = rules[first][1]
  BY DEF ClassifyRole, rules
<1> HIDE DEF first
<1>7. \A role \in DOMAIN FILE_PRIORITY : FILE_PRIORITY[role] \in Nat
  BY DEF FILE_PRIORITY
<1> QED
  BY <1>3, <1>5, <1>6, <1>7

\* What is fetched is in the tree.
LEMMA FetchableInTree ==
  ASSUME NEW t \in Trees
  PROVE  Range(PrioritizeFiles(t, MaxFiles)) \subseteq Range(t)
<1> DEFINE kept == Scannable(t)
           priority == [i \in kept |-> IF t[i].ext = ".lock" THEN 997
                                       ELSE FILE_PRIORITY[ClassifyRole(t[i], {})]]
           penalty(i) == IF t[i].size > 5 THEN 5 ELSE t[i].size
           less(i, j) == \/ priority[i] < priority[j]
                         \/ /\ priority[i] = priority[j]
                            /\ penalty(i) < penalty(j) \/ (penalty(i) = penalty(j) /\ i < j)
           below == [i \in kept |-> {j \in kept : less(j, i)}]
           q == PrioritizeFiles(t, MaxFiles)
<1>1. /\ IsFiniteSet(kept) /\ Cardinality(kept) \in Nat
      /\ Chosen(t, MaxFiles) \in Nat /\ Chosen(t, MaxFiles) <= Cardinality(kept)
  BY TreeCounts, FS_CardinalityType
<1>2. \A i \in kept : i \in Nat /\ i \in DOMAIN t /\ priority[i] \in Nat /\ penalty(i) \in Nat
  <2>1. t \in Seq(Range(t))
    BY TreesAssumption
  <2>2. \A i \in kept : i \in Nat /\ i \in DOMAIN t
    BY <2>1 DEF Scannable
  <2>3. \A i \in kept : t[i].size \in Nat
    BY <2>2, TreesAssumption DEF Range
  <2> QED
    BY <2>2, <2>3, PriorityNat
<1> HIDE DEF kept, priority, penalty
<1>3. \A i \in kept : ~less(i, i)
  BY <1>2
<1>4. \A i, j \in kept : i # j => less(i, j) \/ less(j, i)
  BY <1>2
<1>5. \A h, i, j \in kept : less(h, i) /\ less(i, j) => less(h, j)
  BY <1>2
<1> HIDE DEF less
<1>6. \A i \in kept : below[i] \subseteq kept \ {i}
  BY <1>3
<1>7. \A i, j \in kept : i # j => \/ i \in below[j] /\ below[i] \subseteq below[j]
                                  \/ j \in below[i] /\ below[j] \subseteq below[i]
  BY <1>4, <1>5
<1>8. \A i \in kept : below[i] = {j \in kept : less(j, i)}
  OBVIOUS
<1> HIDE DEF below
<1>9. \A n \in 1..Cardinality(kept) : \E i \in kept : 1 + Cardinality(below[i]) = n
  BY <1>1, <1>6, <1>7, RanksFill
<1>10. q = [n \in 1..Chosen(t, MaxFiles) |->
              t[CHOOSE i \in kept : 1 + Cardinality({j \in kept : less(j, i)}) = n]]
  BY DEF PrioritizeFiles, kept, priority, penalty, less
<1>11. ASSUME NEW n \in 1..Chosen(t, MaxFiles) PROVE q[n] \in Range(t)
  <2>1. n \in 1..Cardinality(kept)
    BY <1>1
  <2>2. \E i \in kept : 1 + Cardinality({j \in kept : less(j, i)}) = n
    BY <1>8, <1>9, <2>1
  <2> DEFINE i == CHOOSE i \in kept : 1 + Cardinality({j \in kept : less(j, i)}) = n
  <2>3. i \in kept
    BY <2>2
  <2>4. q[n] = t[i]
    BY <1>10
  <2> HIDE DEF i, q
  <2> QED
    BY <1>2, <2>3, <2>4 DEF Range
<1>12. DOMAIN q = 1..Chosen(t, MaxFiles)
  BY <1>10
<1> HIDE DEF q
<1> QED
  BY <1>11, <1>12 DEF Range, q

-----------------------------------------------------------------------------
(* The search for the critical path                                        *)


\* A finite set is put in a list, each element once.
LEMMA ListOfSet ==
  ASSUME NEW S, IsFiniteSet(S)
  PROVE  LET s == SetToSeq(S)
         IN  /\ Len(s) \in Nat /\ Len(s) = Cardinality(S)
             /\ DOMAIN s = 1..Len(s)
             /\ \A i \in 1..Len(s) : s[i] \in S
             /\ \A x \in S : \E i \in 1..Len(s) : s[i] = x
<1> DEFINE n == Cardinality(S)
           s == SetToSeq(S)
<1>1. n \in Nat
  BY FS_CardinalityType
<1>5. IsFiniteSet(1..n) /\ Cardinality(1..n) = n
  <2>1. 1 \in Int /\ n \in Int
    BY <1>1
  <2>2. IsFiniteSet(1..n) /\ Cardinality(1..n) = IF 1 > n THEN 0 ELSE n - 1 + 1
    BY <2>1, FS_Interval
  <2> QED
    BY <1>1, <2>2
<1>2. ExistsBijection(1..n, S)
  <2> HIDE DEF s
  <2> QED
    BY <1>5, FS_SameCardinalityBij
<1>3. \E f \in [1..n -> S] : IsInjective(f)
  BY <1>2 DEF ExistsBijection, Bijection, Injection
<1>4. s \in [1..n -> S] /\ IsInjective(s)
  BY <1>3 DEF SetToSeq
<1> HIDE DEF s, n
<1>6. s \in Surjection(1..n, S)
  <2>1. s \in Injection(1..n, S)
    BY <1>4 DEF Injection
  <2>2. Cardinality(S) = n
    BY DEF n
  <2> QED
    BY <1>5, <2>1, <2>2, FS_Injection
<1>7. \A x \in S : \E i \in 1..n : s[i] = x
  BY <1>6 DEF Surjection
<1>8. Len(s) = n /\ DOMAIN s = 1..n
  BY <1>1, <1>4
<1> QED
  BY <1>1, <1>4, <1>7, <1>8 DEF s, n

\* The files a search may meet, what it queues, and its states.
Met(edges, p) == {p} \cup {e.target_path : e \in Confirmed(edges)}
Queued(edges, p) == Met(edges, p) \X (0..2)
Searches(edges, p) == [visited : SUBSET Met(edges, p), queue : Seq(Queued(edges, p))]

\* What one edge leads to is finite, and met.
LEMMA DownstreamFinite ==
  ASSUME NEW edges, IsFiniteSet(edges), NEW path
  PROVE  /\ IsFiniteSet(Downstream(edges, path))
         /\ \A p : Downstream(edges, path) \subseteq Met(edges, p)
         /\ LET out == {d \in Confirmed(edges) : d.source_path = path}
            IN  IsFiniteSet(out) /\ Cardinality(Downstream(edges, path)) <= Cardinality(out)
<1> DEFINE out == {d \in Confirmed(edges) : d.source_path = path}
           k == [e \in out |-> e.target_path]
<1>1. IsFiniteSet(out)
  BY FS_Subset DEF Confirmed
<1>2. k \in Surjection(out, Downstream(edges, path))
  BY DEF Surjection, Downstream
<1>3. \A p : Downstream(edges, path) \subseteq Met(edges, p)
  BY DEF Downstream, Met
<1> HIDE DEF k, out
<1>4. /\ IsFiniteSet(Downstream(edges, path))
      /\ Cardinality(Downstream(edges, path)) <= Cardinality(out)
  BY <1>1, <1>2, FS_Surjection
<1> QED
  BY <1>1, <1>3, <1>4 DEF out

\* What is new at the head of the queue.
Unseen(edges, s) ==
  IF s.queue[1][2] < 2 THEN Downstream(edges, s.queue[1][1]) \ s.visited ELSE {}

\* Visit marks the head and queues what is new there, each file once.
Expands(edges, s, more) ==
  /\ Visit(edges, s) = [visited |-> s.visited \cup {s.queue[1][1]}, queue |-> Tail(s.queue) \o more]
  /\ Len(more) = Cardinality(Unseen(edges, s))
  /\ \A i \in 1..Len(more) : more[i][1] \in Unseen(edges, s) /\ more[i][2] = s.queue[1][2] + 1
  /\ \A x \in Unseen(edges, s) : \E i \in 1..Len(more) : more[i][1] = x

\* What Visit does with the head of the queue.
LEMMA VisitTakesHead ==
  ASSUME NEW edges, IsFiniteSet(edges), NEW p, NEW s \in Searches(edges, p),
         s.queue # <<>>
  PROVE  /\ s.queue[1][1] \in s.visited =>
              Visit(edges, s) = [visited |-> s.visited, queue |-> Tail(s.queue)]
         /\ s.queue[1][1] \notin s.visited =>
              \E more \in Seq(Queued(edges, p)) : Expands(edges, s, more)
<1> DEFINE path == s.queue[1][1]
           depth == s.queue[1][2]
           unseen == Unseen(edges, s)
           next == IF depth < 2 THEN SetToSeq(Downstream(edges, path) \ s.visited) ELSE <<>>
           more == [i \in DOMAIN next |-> <<next[i], depth + 1>>]
<1>1. s = [visited |-> s.visited, queue |-> s.queue] /\ s.queue \in Seq(Queued(edges, p))
  BY DEF Searches
<1>2. path \in Met(edges, p) /\ depth \in 0..2
  <2>1. s.queue[1] \in Queued(edges, p)
    BY <1>1
  <2> QED
    BY <2>1 DEF Queued
<1>3. CASE path \in s.visited
  <2>1. Visit(edges, s) = [s EXCEPT !.queue = Tail(@)]
    BY <1>3 DEF Visit
  <2>2. [s EXCEPT !.queue = Tail(@)] = [visited |-> s.visited, queue |-> Tail(s.queue)]
    BY <1>1
  <2> QED
    BY <1>3, <2>1, <2>2
<1>4. CASE path \notin s.visited
  <2>1. Visit(edges, s) = [visited |-> s.visited \cup {path}, queue |-> Tail(s.queue) \o more]
    BY <1>4 DEF Visit
  <2>2. IsFiniteSet(unseen)
    <3>1. IsFiniteSet(Downstream(edges, path) \ s.visited)
      BY DownstreamFinite, FS_Subset
    <3> QED
      BY <3>1, FS_EmptySet DEF Unseen
  <2>3. /\ Len(next) \in Nat /\ Len(next) = Cardinality(unseen) /\ DOMAIN next = 1..Len(next)
        /\ \A i \in 1..Len(next) : next[i] \in unseen
        /\ \A x \in unseen : \E i \in 1..Len(next) : next[i] = x
    <3>1. CASE depth < 2
      <4>1. unseen = Downstream(edges, path) \ s.visited /\ next = SetToSeq(unseen)
        BY <3>1 DEF Unseen
      <4> HIDE DEF unseen, next, path, depth
      <4>2. /\ Len(SetToSeq(unseen)) \in Nat /\ Len(SetToSeq(unseen)) = Cardinality(unseen)
            /\ DOMAIN SetToSeq(unseen) = 1..Len(SetToSeq(unseen))
            /\ \A i \in 1..Len(SetToSeq(unseen)) : SetToSeq(unseen)[i] \in unseen
            /\ \A x \in unseen : \E i \in 1..Len(SetToSeq(unseen)) : SetToSeq(unseen)[i] = x
        BY <2>2, ListOfSet
      <4> QED
        BY <4>1, <4>2
    <3>2. CASE ~(depth < 2)
      <4>1. unseen = {} /\ next = <<>>
        BY <3>2 DEF Unseen
      <4>2. Len(<<>>) = 0 /\ DOMAIN <<>> = {} /\ Cardinality({}) = 0
        BY FS_EmptySet
      <4>3. \A i \in 1..0 : FALSE
        OBVIOUS
      <4>4. 1..0 = {}
        BY <4>3
      <4> HIDE DEF unseen, next, depth
      <4> QED
        BY <4>1, <4>2, <4>3, <4>4
    <3> QED
      BY <3>1, <3>2
  <2>4. unseen \subseteq Met(edges, p) /\ (unseen # {} => depth + 1 \in 0..2)
    <3>1. Downstream(edges, path) \subseteq Met(edges, p)
      BY DownstreamFinite
    <3>2. unseen \subseteq Downstream(edges, path) /\ (unseen # {} => depth < 2)
      BY DEF Unseen
    <3> HIDE DEF unseen, path, depth
    <3> QED
      BY <1>2, <3>1, <3>2
  <2> HIDE DEF unseen, next
  <2>5. ASSUME NEW i \in 1..Len(next) PROVE more[i] \in Queued(edges, p)
    <3>1. next[i] \in Met(edges, p) /\ depth + 1 \in 0..2
      <4> HIDE DEF depth, path
      <4> QED
        BY <2>3, <2>4
    <3>2. more[i] = <<next[i], depth + 1>>
      BY <2>3
    <3> HIDE DEF more, depth, path
    <3>3. <<next[i], depth + 1>> \in Met(edges, p) \X (0..2)
      BY <3>1
    <3> QED
      BY <3>2, <3>3 DEF Queued
  <2>6. DOMAIN more = 1..Len(next) /\ more = [i \in 1..Len(next) |-> more[i]]
    BY <2>3
  <2>7. more \in Seq(Queued(edges, p)) /\ Len(more) = Len(next)
    <3> HIDE DEF more
    <3>1. more \in [1..Len(next) -> Queued(edges, p)]
      BY <2>5, <2>6
    <3> QED
      BY <2>3, <3>1
  <2>8. \A i \in 1..Len(more) : more[i][1] = next[i] /\ more[i][2] = depth + 1
    <3>1. \A i \in 1..Len(next) : more[i] = <<next[i], depth + 1>>
      BY <2>3
    <3> HIDE DEF more
    <3> QED
      BY <3>1, <2>7
  <2> HIDE DEF more
  <2>9. /\ \A i \in 1..Len(more) : more[i][1] \in unseen /\ more[i][2] = depth + 1
        /\ \A x \in unseen : \E i \in 1..Len(more) : more[i][1] = x
    BY <2>3, <2>7, <2>8
  <2>10. Len(more) = Cardinality(unseen)
    BY <2>3, <2>7
  <2>11. Expands(edges, s, more)
    BY <2>1, <2>9, <2>10 DEF Expands, path, depth, unseen
  <2> QED
    BY <1>4, <2>7, <2>11
<1> QED
  BY <1>3, <1>4

\* A turn of the loop leaves a search of the same files.
LEMMA VisitStays ==
  ASSUME NEW edges, IsFiniteSet(edges), NEW p, NEW s \in Searches(edges, p)
  PROVE  Visit(edges, s) \in Searches(edges, p)
<1> DEFINE path == s.queue[1][1]
<1>1. s.visited \in SUBSET Met(edges, p) /\ s.queue \in Seq(Queued(edges, p))
  BY DEF Searches
<1>2. CASE s.queue = <<>>
  BY <1>2 DEF Visit
<1>3. CASE s.queue # <<>>
  <2>1. path \in Met(edges, p)
    <3>1. s.queue[1] \in Queued(edges, p)
      BY <1>1, <1>3
    <3> QED
      BY <3>1 DEF Queued
  <2>2. Tail(s.queue) \in Seq(Queued(edges, p))
    BY <1>1, <1>3
  <2>3. \E v \in SUBSET Met(edges, p) : \E q \in Seq(Queued(edges, p)) :
          Visit(edges, s) = [visited |-> v, queue |-> q]
    <3>1. CASE path \in s.visited
      <4>1. Visit(edges, s) = [visited |-> s.visited, queue |-> Tail(s.queue)]
        BY <1>3, <3>1, VisitTakesHead
      <4> QED
        BY <1>1, <2>2, <4>1
    <3>2. CASE path \notin s.visited
      <4>1. PICK more \in Seq(Queued(edges, p)) : Expands(edges, s, more)
        BY <1>3, <3>2, VisitTakesHead
      <4>3. Visit(edges, s) = [visited |-> s.visited \cup {path}, queue |-> Tail(s.queue) \o more]
        BY <4>1 DEF Expands
      <4>2. Tail(s.queue) \o more \in Seq(Queued(edges, p))
        BY <2>2
      <4> QED
        BY <1>1, <2>1, <4>2, <4>3
    <3> QED
      BY <3>1, <3>2
  <2> QED
    BY <2>3 DEF Searches
<1> QED
  BY <1>2, <1>3

\* A set of numbers up to some number has a greatest.
LEMMA GreatestOf ==
  ASSUME NEW n \in Nat, NEW t \in SUBSET (1..n), t # {}
  PROVE  Max(t) \in t /\ \A y \in t : y <= Max(t)
<1> DEFINE Good == {k \in Nat : \A u \in SUBSET (1..k) : u # {} => \E x \in u : \A y \in u : x >= y}
<1>1. 0 \in Good
  <2>1. \A i : i \notin 1..0
    OBVIOUS
  <2> QED
    BY <2>1
<1>2. ASSUME NEW k \in Nat, k \in Good PROVE k + 1 \in Good
  <2> SUFFICES ASSUME NEW u \in SUBSET (1..(k + 1)), u # {}
               PROVE  \E x \in u : \A y \in u : x >= y
    BY <1>2
  <2>1. CASE k + 1 \in u
    BY <2>1
  <2>2. CASE k + 1 \notin u
    <3>1. u \in SUBSET (1..k)
      BY <2>2
    <3> QED
      BY <1>2, <3>1
  <2> QED
    BY <2>1, <2>2
<1>3. n \in Good
  <2> HIDE DEF Good
  <2> QED
    BY <1>1, <1>2, SetInduction
<1>4. \E x \in t : \A y \in t : x >= y
  BY <1>3
<1> QED
  BY <1>4 DEF Max

\* A search is a sequence of turns.
LEMMA SearchTurns ==
  ASSUME NEW edges, IsFiniteSet(edges), NEW p
  PROVE  LET n == 1 + Cardinality(Confirmed(edges))
         IN  \E h : /\ \A k \in 0..n : h[k] \in Searches(edges, p)
                    /\ h[0] = [visited |-> {}, queue |-> <<<<p, 0>>>>]
                    /\ \A k \in 0..(n - 1) : h[k + 1] = Visit(edges, h[k])
                    /\ CriticalFrom(edges, p) = h[n].visited
<1> DEFINE n == 1 + Cardinality(Confirmed(edges))
           turns == [turn \in 1..(1 + Cardinality(Confirmed(edges))) |-> turn]
           start == [visited |-> {}, queue |-> <<<<p, 0>>>>]
           Is(g) == g = [t \in SUBSET DOMAIN turns |->
                           IF t = {} THEN start ELSE LET x == Max(t) IN Visit(edges, g[t \ {x}])]
           done == CHOOSE g : Is(g)
           S == DOMAIN turns
           D == Searches(edges, p)
           take == [t \in SUBSET S |-> Max(t)]
           F == [x \in S |-> [a \in D |-> Visit(edges, a)]]
<1>1. CriticalFrom(edges, p) = done[S].visited
  BY DEF CriticalFrom, FoldLeft, MapThenFoldSet
<1>2. n \in Nat /\ S = 1..n
  <2>1. IsFiniteSet(Confirmed(edges))
    BY FS_Subset DEF Confirmed
  <2> QED
    BY <2>1, FS_CardinalityType
<1>3. IsFiniteSet(S)
  <2>1. 1 \in Int /\ n \in Int
    BY <1>2
  <2>2. IsFiniteSet(1..n)
    BY <2>1, FS_Interval
  <2> QED
    BY <1>2, <2>2
<1>4. ASSUME NEW t \in SUBSET S, t # {} PROVE Max(t) \in t
  <2> HIDE DEF S, n
  <2> QED
    BY <1>2, <1>4, GreatestOf
<1>5. PICK g \in [SUBSET S -> D] : Folds(g, S, start, take, F)
  <2>1. F \in [S -> [D -> D]]
    BY VisitStays
  <2>2. start \in D
    <3>1. {} \in SUBSET Met(edges, p) /\ <<p, 0>> \in Queued(edges, p)
      BY DEF Met, Queued
    <3>2. <<<<p, 0>>>> \in Seq(Queued(edges, p))
      BY <3>1
    <3> QED
      BY <3>1, <3>2 DEF Searches
  <2>3. \A t \in SUBSET S : t # {} => take[t] \in t
    <3> HIDE DEF S
    <3> QED
      BY <1>4
  <2>4. IsFiniteSet(S) /\ start \in D /\ F \in [S -> [D -> D]]
    BY <1>3, <2>1, <2>2
  <2> HIDE DEF S, D, start, take, F, n, turns, Is, done
  <2> QED
    BY <2>3, <2>4, FoldExists, Zenon
<1>6. \A t \in SUBSET S : g[t] = IF t = {} THEN start ELSE Visit(edges, g[t \ {Max(t)}])
  <2> SUFFICES ASSUME NEW t \in SUBSET S
               PROVE  g[t] = IF t = {} THEN start ELSE Visit(edges, g[t \ {Max(t)}])
    OBVIOUS
  <2>1. g[t] = IF t = {} THEN start ELSE F[take[t]][g[t \ {take[t]}]]
    BY <1>5 DEF Folds
  <2>2. CASE t # {}
    <3>1. Max(t) \in S /\ take[t] = Max(t) /\ g[t \ {Max(t)}] \in D
      <4> HIDE DEF S, D
      <4> QED
        BY <1>4, <1>5, <2>2
    <3>2. F[Max(t)][g[t \ {Max(t)}]] = Visit(edges, g[t \ {Max(t)}])
      <4> HIDE DEF S, D
      <4> QED
        BY <3>1
    <3> HIDE DEF F, take, S, D, start
    <3> QED
      BY <2>1, <2>2, <3>1, <3>2
  <2>3. CASE t = {}
    <3> HIDE DEF F, take, S, D, start
    <3> QED
      BY <2>1, <2>3
  <2> QED
    BY <2>2, <2>3
<1>7. Is(g)
  <2> HIDE DEF S, start, D
  <2>1. g = [t \in SUBSET S |-> g[t]]
    BY <1>5
  <2>2. g = [t \in SUBSET S |-> IF t = {} THEN start ELSE Visit(edges, g[t \ {Max(t)}])]
    BY <1>6, <2>1
  <2> QED
    BY <2>2 DEF S
<1>8. Is(done)
  <2> HIDE DEF Is
  <2> QED
    BY <1>7
<1> DEFINE h == [k \in 0..n |-> done[1..k]]
<1>9. \A t \in SUBSET (1..n) : done[t] = IF t = {} THEN start ELSE Visit(edges, done[t \ {Max(t)}])
  <2>1. done = [t \in SUBSET S |-> IF t = {} THEN start ELSE Visit(edges, done[t \ {Max(t)}])]
    <3> HIDE DEF done, start
    <3> QED
      BY <1>8
  <2> HIDE DEF S, n, done, start
  <2> QED
    BY <1>2, <2>1
<1> HIDE DEF done, S, D, start, n
<1>10. h[0] = start /\ 1..0 = {}
  <2>1. 1..0 = {} /\ {} \in SUBSET (1..n)
    <3>1. \A i : i \notin 1..0
      OBVIOUS
    <3> QED
      BY <3>1
  <2>2. done[{}] = start
    BY <1>9, <2>1
  <2>3. h[0] = done[1..0]
    BY <1>2
  <2> HIDE DEF h
  <2> QED
    BY <2>1, <2>2, <2>3
<1>11. ASSUME NEW k \in 0..(n - 1) PROVE h[k + 1] = Visit(edges, h[k])
  <2> DEFINE t == 1..(k + 1)
  <2>1. k \in Nat /\ k + 1 \in 1..n /\ k \in 0..n /\ k + 1 \in 0..n
    BY <1>2
  <2>2. t \in SUBSET (1..n) /\ k + 1 \in t /\ \A y \in t : y <= k + 1
    BY <1>2, <2>1
  <2>3. Max(t) \in t /\ \A y \in t : y <= Max(t)
    <3>1. k + 1 \in Nat /\ t \in SUBSET (1..(k + 1)) /\ t # {}
      BY <2>1, <2>2
    <3> HIDE DEF t
    <3> QED
      BY <3>1, GreatestOf
  <2>4. Max(t) = k + 1
    <3>1. Max(t) \in Int /\ k + 1 <= Max(t) /\ Max(t) <= k + 1
      BY <2>1, <2>2, <2>3
    <3> HIDE DEF t
    <3> QED
      BY <2>1, <3>1
  <2>5. t \ {k + 1} = 1..k
    BY <2>1
  <2>6. h[k + 1] = done[t] /\ h[k] = done[1..k]
    BY <2>1
  <2> HIDE DEF t, h
  <2> QED
    BY <1>9, <2>2, <2>4, <2>5, <2>6
<1>12. ASSUME NEW k \in 0..n PROVE h[k] \in D
  <2> DEFINE Good == {i \in Nat : i <= n => h[i] \in D}
  <2>1. 0 \in Good
    BY <1>5, <1>6, <1>10
  <2>2. ASSUME NEW i \in Nat, i \in Good PROVE i + 1 \in Good
    <3> SUFFICES ASSUME i + 1 <= n PROVE h[i + 1] \in D
      OBVIOUS
    <3>1. i \in 0..(n - 1) /\ i <= n
      BY <1>2
    <3>2. h[i + 1] = Visit(edges, h[i]) /\ h[i] \in D
      BY <1>11, <2>2, <3>1
    <3> HIDE DEF h
    <3> QED
      BY <3>2, VisitStays DEF D
  <2>3. k \in Good
    <3> HIDE DEF Good
    <3> QED
      BY <1>2, <2>1, <2>2, SetInduction
  <2> QED
    BY <1>2, <2>3
<1>13. CriticalFrom(edges, p) = h[n].visited
  <2>1. h[n] = done[1..n]
    BY <1>2
  <2> HIDE DEF h
  <2> QED
    BY <1>1, <1>2, <2>1
<1> HIDE DEF h
<1> QED
  BY <1>10, <1>11, <1>12, <1>13 DEF n, D, start

\* What one confirmed edge reaches from a file, and what two reach.
Once(edges, p) == Downstream(edges, p)
Twice(edges, p) == UNION {Downstream(edges, q) : q \in Once(edges, p)}

\* The files at each distance.
At0(edges, p, depth) ==
  IF depth = 0 THEN {p} ELSE IF depth = 1 THEN Once(edges, p) ELSE Twice(edges, p)

\* A file is in the queue, at a depth or at any.
Waits(s, path, depth) == \E i \in 1..Len(s.queue) : s.queue[i][1] = path /\ s.queue[i][2] = depth
IsQueued(s, path) == \E i \in 1..Len(s.queue) : s.queue[i][1] = path

\* What is queued is as far away as it says, and in the order of distance.
Ordered(edges, p, s) ==
  /\ \A i \in 1..Len(s.queue) : s.queue[i][1] \in At0(edges, p, s.queue[i][2])
  /\ \A i, j \in 1..Len(s.queue) : i < j => /\ s.queue[i][2] <= s.queue[j][2]
                                            /\ s.queue[j][2] <= s.queue[i][2] + 1

\* Nothing was forgotten: what is near was visited or is queued while it still
\* can be expanded, and so is what follows it.
Covered(edges, p, s) ==
  /\ p \in s.visited
  /\ \A q \in Once(edges, p) : q \in s.visited \/ Waits(s, q, 1)
  /\ \A q \in s.visited \cap ({p} \cup Once(edges, p)) :
       \A x \in Downstream(edges, q) : x \in s.visited \/ IsQueued(s, x)

\* What holds after every turn of a search from p.
BreadthFirst(edges, p, s) ==
  /\ Ordered(edges, p, s)
  /\ s.visited \subseteq {p} \cup Once(edges, p) \cup Twice(edges, p)
  /\ \/ s = [visited |-> {}, queue |-> <<<<p, 0>>>>]
     \/ Covered(edges, p, s)

\* Dropping the head, which was visited.
LEMMA DropKeepsBreadth ==
  ASSUME NEW edges, IsFiniteSet(edges), NEW p, NEW s \in Searches(edges, p),
         s.queue # <<>>, s.queue[1][1] \in s.visited, BreadthFirst(edges, p, s)
  PROVE  BreadthFirst(edges, p, Visit(edges, s))
<1> DEFINE t == Visit(edges, s)
           Q == s.queue
           T == Tail(s.queue)
<1>1. t = [visited |-> s.visited, queue |-> T]
  BY VisitTakesHead
<1>2. Q \in Seq(Queued(edges, p))
  BY DEF Searches
<1>3. /\ Len(Q) \in Nat \ {0} /\ Len(T) = Len(Q) - 1
      /\ \A i \in 1..Len(T) : T[i] = Q[i + 1] /\ i + 1 \in 1..Len(Q)
      /\ \A i \in 1..Len(Q) : i # 1 => i - 1 \in 1..Len(T) /\ T[i - 1] = Q[i]
  BY <1>2
<1>4. t.visited = s.visited /\ t.queue = T
  <2> HIDE DEF t, T
  <2> QED
    BY <1>1
<1> HIDE DEF t, T
<1>5. Ordered(edges, p, t)
  <2>1. \A i \in 1..Len(T) : T[i][1] \in At0(edges, p, T[i][2])
    BY <1>3 DEF BreadthFirst, Ordered
  <2>2. ASSUME NEW i \in 1..Len(T), NEW j \in 1..Len(T), i < j
        PROVE  T[i][2] <= T[j][2] /\ T[j][2] <= T[i][2] + 1
    <3>1. i + 1 \in 1..Len(Q) /\ j + 1 \in 1..Len(Q) /\ i + 1 < j + 1
      BY <1>3, <2>2
    <3> QED
      BY <1>3, <3>1 DEF BreadthFirst, Ordered
  <2> QED
    BY <1>4, <2>1, <2>2 DEF Ordered
<1>6. Covered(edges, p, s)
  BY DEF BreadthFirst
<1>7. ASSUME NEW x, IsQueued(s, x) PROVE x \in t.visited \/ IsQueued(t, x)
  BY <1>3, <1>4, <1>7 DEF IsQueued
<1>8. ASSUME NEW x, NEW d, Waits(s, x, d) PROVE x \in t.visited \/ Waits(t, x, d)
  BY <1>3, <1>4, <1>8 DEF Waits
<1>9. Covered(edges, p, t)
  BY <1>4, <1>6, <1>7, <1>8 DEF Covered
<1> QED
  BY <1>4, <1>5, <1>9 DEF BreadthFirst, t

\* A queue n has the entries of q but the first, and more at its end.
Moved(q, more, n) ==
  /\ \A i \in 1..Len(n) :
       \/ i < Len(q) /\ i + 1 \in 1..Len(q) /\ n[i] = q[i + 1]
       \/ i >= Len(q) /\ \E j \in 1..Len(more) : n[i] = more[j]
  /\ \A i \in 1..Len(q) : i # 1 => \E j \in 1..Len(n) : n[j] = q[i]
  /\ \A i \in 1..Len(more) : \E j \in 1..Len(n) : n[j] = more[i]

\* That is what Visit makes of it.
LEMMA QueueMoves ==
  ASSUME NEW S, NEW q \in Seq(S), q # <<>>, NEW more \in Seq(S)
  PROVE  Moved(q, more, Tail(q) \o more)
<1> DEFINE n == Tail(q) \o more
<1> DEFINE T == Tail(q)
<1>1. /\ Len(q) \in Nat /\ Len(q) > 0 /\ Len(more) \in Nat
      /\ T \in Seq(S) /\ Len(T) = Len(q) - 1
      /\ \A i \in 1..Len(T) : T[i] = q[i + 1]
  BY EmptySeq
<1>2. /\ Len(n) = Len(T) + Len(more)
      /\ \A i \in 1..(Len(T) + Len(more)) : n[i] = IF i <= Len(T) THEN T[i] ELSE more[i - Len(T)]
  <2> HIDE DEF T
  <2> QED
    BY <1>1, ConcatProperties DEF T
<1> HIDE DEF T, n
<1>3. ASSUME NEW i \in 1..Len(n)
      PROVE  \/ i < Len(q) /\ i + 1 \in 1..Len(q) /\ n[i] = q[i + 1]
             \/ i >= Len(q) /\ \E j \in 1..Len(more) : n[i] = more[j]
  <2>1. CASE i <= Len(T)
    BY <1>1, <1>2, <2>1
  <2>2. CASE i > Len(T)
    <3>1. i - Len(T) \in 1..Len(more) /\ n[i] = more[i - Len(T)]
      BY <1>1, <1>2, <2>2
    <3> QED
      BY <1>1, <2>2, <3>1
  <2> QED
    BY <1>1, <1>2, <2>1, <2>2
<1>4. \A i \in 1..Len(q) : i # 1 => i - 1 \in 1..Len(n) /\ n[i - 1] = q[i]
  BY <1>1, <1>2
<1>5. ASSUME NEW i \in 1..Len(more) PROVE \E j \in 1..Len(n) : n[j] = more[i]
  <2>1. Len(T) \in Nat /\ i \in Int
    BY <1>1
  <2>2. i + Len(T) \in 1..Len(n) /\ ~(i + Len(T) <= Len(T)) /\ (i + Len(T)) - Len(T) = i
    BY <1>1, <1>2, <2>1
  <2>3. n[i + Len(T)] = more[i]
    BY <1>2, <2>2
  <2> QED
    BY <2>2, <2>3
<1>6. /\ \A i \in 1..Len(q) : i # 1 => \E j \in 1..Len(n) : n[j] = q[i]
      /\ \A i \in 1..Len(more) : \E j \in 1..Len(n) : n[j] = more[i]
  BY <1>4, <1>5
<1> QED
  BY <1>3, <1>6 DEF Moved, n

\* Visiting the head, and queueing what is new there.
LEMMA ExpandKeepsBreadth ==
  ASSUME NEW edges, IsFiniteSet(edges), NEW p, NEW s \in Searches(edges, p),
         s.queue # <<>>, s.queue[1][1] \notin s.visited, BreadthFirst(edges, p, s)
  PROVE  BreadthFirst(edges, p, Visit(edges, s))
<1> DEFINE t == Visit(edges, s)
           Q == s.queue
           T == Tail(s.queue)
           path == Q[1][1]
           depth == Q[1][2]
           unseen == Unseen(edges, s)
<1>1. PICK more \in Seq(Queued(edges, p)) : Expands(edges, s, more)
  BY VisitTakesHead
<1> DEFINE N == T \o more
<1>2. Q \in Seq(Queued(edges, p))
  BY DEF Searches
<1>3. /\ Len(Q) \in Nat /\ Len(Q) > 0
      /\ \A i \in 1..Len(N) :
           \/ i < Len(Q) /\ i + 1 \in 1..Len(Q) /\ N[i] = Q[i + 1]
           \/ i >= Len(Q) /\ \E j \in 1..Len(more) : N[i] = more[j]
      /\ \A i \in 1..Len(Q) : i # 1 => \E j \in 1..Len(N) : N[j] = Q[i]
      /\ \A i \in 1..Len(more) : \E j \in 1..Len(N) : N[j] = more[i]
  <2>1. Len(Q) \in Nat /\ Len(Q) > 0
    BY <1>2, EmptySeq
  <2>2. Moved(Q, more, N)
    BY <1>2, QueueMoves
  <2> HIDE DEF Q, N
  <2> QED
    BY <2>1, <2>2 DEF Moved
<1>5. t.visited = s.visited \cup {path} /\ t.queue = N
  <2>1. t = [visited |-> s.visited \cup {path}, queue |-> N]
    BY <1>1 DEF Expands
  <2> HIDE DEF t, N, path
  <2> QED
    BY <2>1
<1>6. /\ \A i \in 1..Len(more) : more[i][1] \in unseen /\ more[i][2] = depth + 1
      /\ \A x \in unseen : \E i \in 1..Len(more) : more[i][1] = x
  BY <1>1 DEF Expands
<1>7. path \in At0(edges, p, depth) /\ depth \in 0..2
  <2>1. Q[1] \in Queued(edges, p) /\ 1 \in 1..Len(Q)
    BY <1>2, <1>3
  <2> QED
    BY <2>1 DEF BreadthFirst, Ordered, Queued
<1>8. unseen = IF depth < 2 THEN Downstream(edges, path) \ s.visited ELSE {}
  BY DEF Unseen
<1> HIDE DEF t, N, T, unseen
\* Each place of the new queue was one of the old, or is new.
<1>9. ASSUME NEW i \in 1..Len(N)
      PROVE  \/ i < Len(Q) /\ i + 1 \in 1..Len(Q) /\ N[i] = Q[i + 1]
             \/ i >= Len(Q) /\ N[i][1] \in unseen /\ N[i][2] = depth + 1
  BY <1>3, <1>6
<1>10. \A i \in 1..Len(Q) : i # 1 => \E j \in 1..Len(N) : N[j] = Q[i]
  BY <1>3
<1>11. ASSUME NEW x \in unseen PROVE \E i \in 1..Len(N) : N[i][1] = x /\ N[i][2] = depth + 1
  <2>1. PICK i \in 1..Len(more) : more[i][1] = x /\ more[i][2] = depth + 1
    BY <1>6
  <2>2. PICK j \in 1..Len(N) : N[j] = more[i]
    BY <1>3
  <2> QED
    BY <2>1, <2>2
<1>12. ASSUME NEW i \in 1..Len(N)
       PROVE  /\ N[i][1] \in At0(edges, p, N[i][2])
              /\ N[i][2] \in Int /\ depth <= N[i][2] /\ N[i][2] <= depth + 1
  <2>1. CASE i < Len(Q) /\ i + 1 \in 1..Len(Q) /\ N[i] = Q[i + 1]
    <3>1. 1 \in 1..Len(Q) /\ 1 < i + 1
      BY <1>3
    <3>2. Q[i + 1] \in Queued(edges, p)
      BY <1>2, <2>1
    <3> QED
      BY <2>1, <3>1, <3>2 DEF BreadthFirst, Ordered, Queued
  <2>2. CASE i >= Len(Q) /\ N[i][1] \in unseen /\ N[i][2] = depth + 1
    <3>1. N[i][1] \in unseen /\ N[i][2] = depth + 1
      BY <2>2
    <3>2. depth < 2 /\ N[i][1] \in Downstream(edges, path)
      BY <1>8, <3>1
    <3>3. depth = 0 \/ depth = 1
      BY <1>7, <3>2
    <3> QED
      BY <1>7, <3>1, <3>2, <3>3 DEF At0, Once, Twice
  <2> QED
    BY <1>9, <2>1, <2>2
<1>13. Ordered(edges, p, t)
  <2>1. ASSUME NEW i \in 1..Len(N), NEW j \in 1..Len(N), i < j
        PROVE  N[i][2] <= N[j][2]
    <3>1. CASE j < Len(Q)
      <4>1. i < Len(Q)
        BY <1>3, <2>1, <3>1
      <4>2. i + 1 \in 1..Len(Q) /\ j + 1 \in 1..Len(Q) /\ i + 1 < j + 1
        BY <1>3, <2>1, <3>1, <4>1
      <4>3. N[i] = Q[i + 1] /\ N[j] = Q[j + 1]
        BY <1>3, <1>9, <3>1, <4>1
      <4> QED
        BY <4>2, <4>3 DEF BreadthFirst, Ordered
    <3>2. CASE ~(j < Len(Q))
      <4>1. N[j][2] = depth + 1
        BY <1>3, <1>9, <3>2
      <4> QED
        BY <1>12, <4>1
    <3> QED
      BY <3>1, <3>2
  <2>2. ASSUME NEW i \in 1..Len(N), NEW j \in 1..Len(N) PROVE N[j][2] <= N[i][2] + 1
    <3> DEFINE x == N[i][2]
               y == N[j][2]
    <3>1. x \in Int /\ depth <= x
      BY <1>12
    <3>2. y \in Int /\ y <= depth + 1
      BY <1>12
    <3>3. depth \in Int
      BY <1>7
    <3> HIDE DEF x, y, depth
    <3>4. y <= x + 1
      BY <3>1, <3>2, <3>3
    <3> QED
      BY <3>4 DEF x, y
  <2> QED
    BY <1>5, <1>12, <2>1, <2>2 DEF Ordered
<1>14. t.visited \subseteq {p} \cup Once(edges, p) \cup Twice(edges, p)
  BY <1>5, <1>7 DEF BreadthFirst, At0
<1>15. Covered(edges, p, t)
  <2>1. CASE s = [visited |-> {}, queue |-> <<<<p, 0>>>>]
    <3>1. s.visited = {} /\ path = p /\ depth = 0
      BY <2>1
    <3>2. unseen = Once(edges, p) /\ t.visited = {p}
      BY <1>5, <1>8, <3>1 DEF Once
    <3>3. \A x \in Once(edges, p) : Waits(t, x, 1)
      BY <1>5, <1>11, <3>1, <3>2 DEF Waits
    <3>4. \A x \in Once(edges, p) : IsQueued(t, x)
      BY <3>3 DEF Waits, IsQueued
    <3> QED
      BY <3>2, <3>3, <3>4 DEF Covered, Once
  <2>2. CASE Covered(edges, p, s)
    <3>1. ASSUME NEW x, IsQueued(s, x) PROVE x \in t.visited \/ IsQueued(t, x)
      BY <1>5, <1>10, <3>1 DEF IsQueued
    <3>2. ASSUME NEW x, NEW d, Waits(s, x, d) PROVE x \in t.visited \/ Waits(t, x, d)
      BY <1>5, <1>10, <3>2 DEF Waits
    <3>3. ASSUME path \in {p} \cup Once(edges, p), NEW x \in Downstream(edges, path)
          PROVE  x \in t.visited \/ IsQueued(t, x)
      <4>1. path \in Once(edges, p) /\ Waits(s, path, 1)
        BY <2>2, <3>3 DEF Covered
      <4>2. PICK i \in 1..Len(Q) : Q[i][2] = 1
        BY <4>1 DEF Waits
      <4>3. depth <= 1
        <5>1. CASE i = 1
          BY <4>2, <5>1
        <5>2. CASE i # 1
          <6>1. 1 \in 1..Len(Q) /\ 1 < i
            BY <1>3, <5>2
          <6> QED
            BY <4>2, <6>1 DEF BreadthFirst, Ordered
        <5> QED
          BY <5>1, <5>2
      <4>4. x \in s.visited \/ x \in unseen
        BY <1>7, <1>8, <4>3
      <4> QED
        BY <1>5, <1>11, <4>4 DEF IsQueued
    <3>4. p \in t.visited /\ s.visited \subseteq t.visited
      BY <1>5, <2>2 DEF Covered
    <3>5. \A q \in Once(edges, p) : q \in t.visited \/ Waits(t, q, 1)
      BY <2>2, <3>2, <3>4 DEF Covered
    <3>6. ASSUME NEW q \in t.visited \cap ({p} \cup Once(edges, p)), NEW x \in Downstream(edges, q)
          PROVE  x \in t.visited \/ IsQueued(t, x)
      <4>1. CASE q = path
        BY <3>3, <3>6, <4>1
      <4>2. CASE q # path
        <5>1. q \in s.visited
          BY <1>5, <4>2
        <5>2. x \in s.visited \/ IsQueued(s, x)
          BY <2>2, <5>1 DEF Covered
        <5> QED
          BY <3>1, <3>4, <5>2
      <4> QED
        BY <4>1, <4>2
    <3> QED
      BY <3>4, <3>5, <3>6 DEF Covered
  <2> QED
    BY <2>1, <2>2 DEF BreadthFirst
<1> QED
  BY <1>13, <1>14, <1>15 DEF BreadthFirst, t

\* The confirmed edges out of files that were not visited.
Left(edges, s) == {e \in Confirmed(edges) : e.source_path \notin s.visited}

\* Every turn takes an entry or uses up the edges that pay for the new ones.
LEMMA TurnsRunOut ==
  ASSUME NEW edges, IsFiniteSet(edges), NEW p, NEW s \in Searches(edges, p), s.queue # <<>>
  PROVE  LET t == Visit(edges, s)
         IN  Len(t.queue) + Cardinality(Left(edges, t)) < Len(s.queue) + Cardinality(Left(edges, s))
<1> DEFINE t == Visit(edges, s)
           path == s.queue[1][1]
           out == {d \in Confirmed(edges) : d.source_path = path}
<1>0. \A r : IsFiniteSet(Left(edges, r)) /\ Cardinality(Left(edges, r)) \in Nat
  BY FS_Subset, FS_CardinalityType DEF Left, Confirmed
<1>1. /\ s.queue \in Seq(Queued(edges, p)) /\ Len(s.queue) \in Nat \ {0}
      /\ Tail(s.queue) \in Seq(Queued(edges, p)) /\ Len(Tail(s.queue)) = Len(s.queue) - 1
  <2>1. s.queue \in Seq(Queued(edges, p))
    BY DEF Searches
  <2> QED
    BY <2>1
<1>2. CASE path \in s.visited
  <2>1. t = [visited |-> s.visited, queue |-> Tail(s.queue)]
    BY <1>2, VisitTakesHead
  <2>2. t.visited = s.visited /\ t.queue = Tail(s.queue)
    <3> HIDE DEF t
    <3> QED
      BY <2>1
  <2>3. Left(edges, t) = Left(edges, s)
    BY <2>2 DEF Left
  <2> HIDE DEF t
  <2>4. Len(t.queue) + Cardinality(Left(edges, t)) < Len(s.queue) + Cardinality(Left(edges, s))
    BY <1>0, <1>1, <2>2, <2>3
  <2> QED
    BY <2>4 DEF t
<1>3. CASE path \notin s.visited
  <2>1. PICK more \in Seq(Queued(edges, p)) : Expands(edges, s, more)
    BY <1>3, VisitTakesHead
  <2>2. t = [visited |-> s.visited \cup {path}, queue |-> Tail(s.queue) \o more]
    BY <2>1 DEF Expands
  <2>3. t.visited = s.visited \cup {path} /\ t.queue = Tail(s.queue) \o more
    <3> HIDE DEF t
    <3> QED
      BY <2>2
  <2>4. Len(t.queue) = Len(s.queue) - 1 + Len(more) /\ Len(more) \in Nat
    <3> HIDE DEF t
    <3> QED
      BY <1>1, <2>3
  <2>5. IsFiniteSet(out) /\ Cardinality(out) \in Nat /\ Len(more) <= Cardinality(out)
    <3>1. IsFiniteSet(out) /\ Cardinality(Downstream(edges, path)) <= Cardinality(out)
          /\ IsFiniteSet(Downstream(edges, path))
      BY DownstreamFinite
    <3>2. Unseen(edges, s) \in SUBSET Downstream(edges, path)
      BY DEF Unseen
    <3>3. /\ Cardinality(Unseen(edges, s)) <= Cardinality(Downstream(edges, path))
          /\ IsFiniteSet(Unseen(edges, s))
      BY <3>1, <3>2, FS_Subset
    <3>4. /\ Cardinality(out) \in Nat /\ Cardinality(Unseen(edges, s)) \in Nat
          /\ Cardinality(Downstream(edges, path)) \in Nat
      BY <3>1, <3>3, FS_CardinalityType
    <3>5. Len(more) = Cardinality(Unseen(edges, s))
      BY <2>1 DEF Expands
    <3> HIDE DEF out, path
    <3> QED
      BY <3>1, <3>3, <3>4, <3>5
  <2>6. Cardinality(Left(edges, s)) = Cardinality(Left(edges, t)) + Cardinality(out)
    <3>1. Left(edges, s) = Left(edges, t) \cup out /\ Left(edges, t) \cap out = {}
      BY <1>3, <2>3 DEF Left
    <3> HIDE DEF out, t, path
    <3>2. Cardinality(Left(edges, t) \cup out)
            = Cardinality(Left(edges, t)) + Cardinality(out) - Cardinality(Left(edges, t) \cap out)
      BY <1>0, <2>5, FS_Union
    <3>3. Cardinality({}) = 0
      BY FS_EmptySet
    <3>4. Cardinality(Left(edges, s))
            = Cardinality(Left(edges, t)) + Cardinality(out) - Cardinality({})
      BY <3>1, <3>2, Zenon
    <3>5. Cardinality(Left(edges, t)) \in Nat /\ Cardinality(out) \in Nat
      BY <1>0, <2>5
    <3> QED
      BY <3>3, <3>4, <3>5
  <2> HIDE DEF t, out
  <2>7. Len(t.queue) + Cardinality(Left(edges, t)) < Len(s.queue) + Cardinality(Left(edges, s))
    BY <1>0, <1>1, <2>4, <2>5, <2>6
  <2> QED
    BY <2>7 DEF t
<1> QED
  BY <1>2, <1>3

\* The search ends with an empty queue, and has then visited exactly what two
\* confirmed edges reach.
LEMMA SearchReaches ==
  ASSUME NEW edges, IsFiniteSet(edges), NEW p
  PROVE  CriticalFrom(edges, p) = {p} \cup Once(edges, p) \cup Twice(edges, p)
<1> DEFINE n == 1 + Cardinality(Confirmed(edges))
           Spent(s, k) == s.queue = <<>> \/ Len(s.queue) + Cardinality(Left(edges, s)) + k <= n
<1>1. PICK h : /\ \A k \in 0..n : h[k] \in Searches(edges, p)
               /\ h[0] = [visited |-> {}, queue |-> <<<<p, 0>>>>]
               /\ \A k \in 0..(n - 1) : h[k + 1] = Visit(edges, h[k])
               /\ CriticalFrom(edges, p) = h[n].visited
  BY SearchTurns
<1>2. \A s : Cardinality(Left(edges, s)) \in Nat
  BY FS_Subset, FS_CardinalityType DEF Left, Confirmed
<1>3. n \in Nat
  BY FS_Subset, FS_CardinalityType DEF Confirmed
<1> DEFINE Good == {k \in Nat : k <= n => BreadthFirst(edges, p, h[k]) /\ Spent(h[k], k)}
<1>4. 0 \in Good
  <2>1. h[0].visited = {} /\ h[0].queue = <<<<p, 0>>>>
    BY <1>1
  <2>2. Ordered(edges, p, h[0])
    BY <2>1 DEF Ordered, At0
  <2>3. BreadthFirst(edges, p, h[0])
    BY <1>1, <2>1, <2>2 DEF BreadthFirst
  <2>4. Left(edges, h[0]) = Confirmed(edges)
    BY <2>1 DEF Left
  <2>5. Spent(h[0], 0)
    <3>1. Len(<<<<p, 0>>>>) = 1
      OBVIOUS
    <3> QED
      BY <1>2, <2>1, <2>4, <3>1
  <2> QED
    BY <2>3, <2>5
<1>5. ASSUME NEW k \in Nat, k \in Good PROVE k + 1 \in Good
  <2> SUFFICES ASSUME k + 1 <= n
               PROVE  BreadthFirst(edges, p, h[k + 1]) /\ Spent(h[k + 1], k + 1)
    BY <1>5
  <2>1. k \in 0..(n - 1) /\ k \in 0..n /\ k <= n
    BY <1>3
  <2>2. /\ h[k] \in Searches(edges, p) /\ h[k + 1] = Visit(edges, h[k])
        /\ BreadthFirst(edges, p, h[k]) /\ Spent(h[k], k)
    BY <1>1, <1>5, <2>1
  <2> HIDE DEF n, Spent
  <2>3. CASE h[k].queue = <<>>
    <3>1. h[k + 1] = h[k]
      BY <2>2, <2>3 DEF Visit
    <3> QED
      BY <2>2, <2>3, <3>1 DEF Spent
  <2>4. CASE h[k].queue # <<>>
    <3>1. BreadthFirst(edges, p, h[k + 1])
      BY <2>2, <2>4, DropKeepsBreadth, ExpandKeepsBreadth
    <3>2. Len(h[k + 1].queue) + Cardinality(Left(edges, h[k + 1]))
            < Len(h[k].queue) + Cardinality(Left(edges, h[k]))
      BY <2>2, <2>4, TurnsRunOut
    <3>3. h[k + 1] \in Searches(edges, p)
      BY <2>2, VisitStays
    <3>4. Len(h[k].queue) \in Nat /\ Len(h[k + 1].queue) \in Nat
      BY <2>2, <3>3 DEF Searches
    <3>5. Len(h[k].queue) + Cardinality(Left(edges, h[k])) + k <= n
      BY <2>2, <2>4 DEF Spent
    <3>6. Spent(h[k + 1], k + 1)
      <4> DEFINE a == Cardinality(Left(edges, h[k + 1]))
                 b == Cardinality(Left(edges, h[k]))
                 c == Len(h[k + 1].queue)
                 d == Len(h[k].queue)
      <4>1. a \in Nat /\ b \in Nat /\ c \in Nat /\ d \in Nat
        BY <1>2, <3>4
      <4>2. c + a < d + b /\ d + b + k <= n
        BY <3>2, <3>5
      <4> HIDE DEF a, b, c, d
      <4>3. c + a + (k + 1) <= n
        BY <1>3, <4>1, <4>2
      <4> QED
        BY <4>3 DEF Spent, a, c
    <3> QED
      BY <3>1, <3>6
  <2> QED
    BY <2>3, <2>4
<1>6. BreadthFirst(edges, p, h[n]) /\ Spent(h[n], n)
  <2>1. n \in Good
    <3> HIDE DEF Good
    <3> QED
      BY <1>3, <1>4, <1>5, SetInduction
  <2> QED
    BY <1>3, <2>1
<1> HIDE DEF n
<1>7. h[n].queue = <<>>
  <2>1. h[n] \in Searches(edges, p)
    BY <1>1, <1>3
  <2>2. h[n].queue \in Seq(Queued(edges, p)) /\ Len(h[n].queue) \in Nat
    BY <2>1 DEF Searches
  <2> SUFFICES ASSUME h[n].queue # <<>> PROVE FALSE
    OBVIOUS
  <2>3. Len(h[n].queue) > 0
    BY <2>2, EmptySeq
  <2> QED
    BY <1>2, <1>3, <1>6, <2>2, <2>3
<1>8. Covered(edges, p, h[n])
  <2>1. Len(<<<<p, 0>>>>) = 1 /\ Len(<<>>) = 0
    OBVIOUS
  <2>2. h[n] # [visited |-> {}, queue |-> <<<<p, 0>>>>]
    BY <1>7, <2>1
  <2> QED
    BY <1>6, <2>2 DEF BreadthFirst
<1>9. \A x : ~IsQueued(h[n], x) /\ ~Waits(h[n], x, 1)
  BY <1>7 DEF IsQueued, Waits
<1>10. {p} \cup Once(edges, p) \subseteq h[n].visited
  BY <1>8, <1>9 DEF Covered
<1>11. Twice(edges, p) \subseteq h[n].visited
  BY <1>8, <1>9, <1>10 DEF Covered, Twice
<1> QED
  BY <1>1, <1>6, <1>10, <1>11 DEF BreadthFirst

-----------------------------------------------------------------------------
(* The graph of a scan                                                     *)

\* A file has finitely many imports.
LEMMA ImportsFinite ==
  ASSUME NEW t \in Trees, NEW f \in Range(t)
  PROVE  IsFiniteSet(FileIntelligence(f).imports) /\ IsFiniteSet(NotFetched(f).imports)
<1> DEFINE plain == [s \in f.imports |-> Import(s.form, s.dots, s.parts)]
<1>1. IsFiniteSet(f.imports) /\ \A s \in f.imports : IsFiniteSet(s.names)
  BY TreesAssumption
<1>2. ASSUME NEW s \in f.imports PROVE IsFiniteSet(PythonImports(s))
  <2> DEFINE base == Import("python", s.dots, s.parts)
             dots == IF s.parts = <<>> THEN s.dots + 1 ELSE s.dots
             names == s.names \ Capitalised
             h == [n \in names |-> Import("python", dots, s.parts \o <<n>>)]
  <2>1. PythonImports(s) = {h[n] : n \in names} \cup {base}
    BY DEF PythonImports
  <2>2. IsFiniteSet(names)
    BY <1>1, FS_Subset
  <2> HIDE DEF names, base, h
  <2>3. IsFiniteSet({h[n] : n \in names})
    BY <2>2, ImageFinite
  <2> QED
    BY <2>1, <2>3, FS_AddElement
<1>3. IsFiniteSet(UNION {PythonImports(s) : s \in f.imports})
  <2> DEFINE k == [s \in f.imports |-> PythonImports(s)]
  <2>1. {PythonImports(s) : s \in f.imports} = {k[s] : s \in f.imports}
    OBVIOUS
  <2>2. \A s \in f.imports : IsFiniteSet(k[s])
    BY <1>2
  <2> HIDE DEF k
  <2>3. IsFiniteSet({k[s] : s \in f.imports})
    BY <1>1, ImageFinite
  <2>4. IsFiniteSet(UNION {k[s] : s \in f.imports})
    BY <2>2, <2>3, FS_UNION
  <2> QED
    BY <2>1, <2>4
<1>4. IsFiniteSet({Import(s.form, s.dots, s.parts) : s \in f.imports})
  <2>1. {Import(s.form, s.dots, s.parts) : s \in f.imports} = {plain[s] : s \in f.imports}
    OBVIOUS
  <2>2. IsFiniteSet({plain[s] : s \in f.imports})
    <3> HIDE DEF plain
    <3> QED
      BY <1>1, ImageFinite
  <2> QED
    BY <2>1, <2>2
<1>5. ASSUME NEW language PROVE IsFiniteSet(ParsedImports(f, language))
  BY <1>3, <1>4, FS_EmptySet DEF ParsedImports
<1>6. /\ FileIntelligence(f).imports =
           IF Parses(f) THEN ParsedImports(f, LanguageOf(f, TRUE)) ELSE {}
      /\ NotFetched(f).imports = {}
  BY DEF FileIntelligence, NotFetched
<1> QED
  BY <1>5, <1>6, FS_EmptySet

\* The edges of one file.
LEMMA EdgesFinite ==
  ASSUME NEW f, IsFiniteSet(f.imports), NEW index, NEW known
  PROVE  IsFiniteSet(EdgesOf(f, index, known))
<1> DEFINE kept == { j \in f.imports :
                       LET target == Resolve(j, f, index)
                       IN  /\ ~(target = Nowhere /\ IsMember(j, f, index))
                           /\ target \in known \ {f.path} \/ ~IsExternal(j) }
           h == [i \in kept |-> IF Resolve(i, f, index) \in known \ {f.path}
                                THEN Edge(f, i, Resolve(i, f, index), Nowhere)
                                ELSE Edge(f, i, Nowhere, UnresolvedReason(i))]
<1>1. EdgesOf(f, index, known) = {h[i] : i \in kept}
  <2>1. \A i \in kept : h[i] = IF Resolve(i, f, index) \in known \ {f.path}
                               THEN Edge(f, i, Resolve(i, f, index), Nowhere)
                               ELSE Edge(f, i, Nowhere, UnresolvedReason(i))
    OBVIOUS
  <2>2. EdgesOf(f, index, known) =
          {IF Resolve(i, f, index) \in known \ {f.path}
           THEN Edge(f, i, Resolve(i, f, index), Nowhere)
           ELSE Edge(f, i, Nowhere, UnresolvedReason(i)) : i \in kept}
    BY DEF EdgesOf
  <2> HIDE DEF h, kept
  <2> QED
    BY <2>1, <2>2
<1>2. IsFiniteSet(kept)
  BY FS_Subset
<1> HIDE DEF h, kept
<1>3. IsFiniteSet({h[i] : i \in kept})
  BY <1>2, ImageFinite
<1> QED
  BY <1>1, <1>3

\* The edges of a graph, of files with finitely many imports.
LEMMA GraphFinite ==
  ASSUME NEW fs, IsFiniteSet(Range(fs)), \A f \in Range(fs) : IsFiniteSet(f.imports)
  PROVE  IsFiniteSet(Graph(fs).edges)
<1> DEFINE index == FileIndex(fs)
           known == PathsOf(Range(fs))
           k == [f \in Range(fs) |-> EdgesOf(f, index, known)]
<1>1. Graph(fs).edges = UNION {k[f] : f \in Range(fs)}
  <2>1. Graph(fs).edges = UNION {EdgesOf(f, index, known) : f \in Range(fs)}
    BY DEF Graph, PathsOf
  <2>2. \A f \in Range(fs) : k[f] = EdgesOf(f, index, known)
    OBVIOUS
  <2> HIDE DEF k, index, known
  <2> QED
    BY <2>1, <2>2
<1>2. \A f \in Range(fs) : IsFiniteSet(k[f])
  <2> SUFFICES ASSUME NEW f \in Range(fs) PROVE IsFiniteSet(k[f])
    OBVIOUS
  <2>1. IsFiniteSet(EdgesOf(f, index, known))
    <3> HIDE DEF index, known
    <3> QED
      BY EdgesFinite
  <2> QED
    BY <2>1
<1> HIDE DEF k, known
<1>3. IsFiniteSet({k[f] : f \in Range(fs)})
  BY ImageFinite
<1> QED
  BY <1>1, <1>2, <1>3, FS_UNION

\* The records of a scan make such a graph.
LEMMA ScanFinite ==
  ASSUME CountInvariant
  PROVE  IsFiniteSet(Graph(files).edges)
<1>1. IsFiniteSet(Range(files))
  BY RangeFinite DEF CountInvariant
<1>2. ASSUME NEW f \in Range(files) PROVE IsFiniteSet(f.imports)
  <2>1. f \in Records(Fetchable)
    BY DEF CountInvariant, Range
  <2>2. PICK g \in Fetchable : f = FileIntelligence(g) \/ f = NotFetched(g)
    BY <2>1 DEF Records
  <2>3. tree \in Trees /\ g \in Range(tree)
    BY FetchableInTree DEF CountInvariant, Fetchable
  <2> QED
    BY <2>2, <2>3, ImportsFinite
<1> QED
  BY <1>1, <1>2, GraphFinite

\* The graph is that of the files, once there is one.
GraphInvariant == GraphBuilt => graph = Graph(files)

\* It is throughout: files arrive only while the scan runs.
LEMMA GraphInvariantHolds == ScanSpec => []GraphInvariant
<1>1. ScanInit => GraphInvariant
  BY DEF ScanInit, GraphInvariant, GraphBuilt
<1>2. ScanInvariant /\ GraphInvariant /\ [ScanNext]_scanVars => GraphInvariant'
  BY DEF ScanNext, scanVars, StartBatch, Arrive, StopEarly, FinishScan, ScanFails, Review, ReviewFails,
         Score, ScoreFails, Persist, WorkerDies, Read, GraphInvariant, GraphBuilt, ScanInvariant
<1> QED
  BY <1>1, <1>2, ScanInvariantHolds, PTL DEF ScanSpec

\* The critical path of a graph is what two confirmed edges reach.
LEMMA GraphReaches ==
  ASSUME NEW fs, IsFiniteSet(Graph(fs).edges)
  PROVE  LET g == Graph(fs)
             start == {f.path : f \in {h \in Range(fs) : h.is_entrypoint}}
             once  == UNION {Downstream(g.edges, p) : p \in start}
             twice == UNION {Downstream(g.edges, p) : p \in once}
         IN  g.critical = start \cup once \cup twice
<1> DEFINE E == Graph(fs).edges
           entry == {h \in Range(fs) : h.is_entrypoint}
           start == {f.path : f \in entry}
           once  == UNION {Downstream(E, p) : p \in start}
           twice == UNION {Downstream(E, p) : p \in once}
<1>1. Graph(fs).critical = UNION {CriticalFrom(E, f.path) : f \in entry}
  BY DEF Graph
<1> HIDE DEF E, entry
<1>2. \A p : CriticalFrom(E, p) = {p} \cup Once(E, p) \cup Twice(E, p)
  BY SearchReaches DEF E
<1>3. UNION {CriticalFrom(E, f.path) : f \in entry} = start \cup once \cup twice
  BY <1>2 DEF Once, Twice
<1> QED
  BY <1>1, <1>3 DEF E, entry

\* The critical path is exactly what at most two confirmed edges reach from an
\* entrypoint, in whatever order the search takes the edges of a file.
THEOREM CriticalPathIsReachable == ScanSpec => []CriticalIsReachable
<1>1. CountInvariant /\ GraphInvariant => CriticalIsReachable
  <2> SUFFICES ASSUME CountInvariant, GraphInvariant, GraphBuilt
               PROVE  LET start == {f.path : f \in {g \in Scanned : g.is_entrypoint}}
                          once  == UNION {Downstream(graph.edges, p) : p \in start}
                          twice == UNION {Downstream(graph.edges, p) : p \in once}
                      IN  graph.critical = start \cup once \cup twice
    BY DEF CriticalIsReachable
  <2>1. graph = Graph(files)
    BY DEF GraphInvariant
  <2>2. IsFiniteSet(graph.edges)
    BY <2>1, ScanFinite
  <2> QED
    BY <2>1, <2>2, GraphReaches DEF Scanned
<1> QED
  BY <1>1, CountInvariantHolds, GraphInvariantHolds, PTL

-----------------------------------------------------------------------------
(* Exact imports resolve                                                   *)

\* A fold from the left, over each set of places.
Walks(g, n, start, F) ==
  \A t \in SUBSET (1..n) : g[t] = IF t = {} THEN start ELSE F[Max(t)][g[t \ {Max(t)}]]

\* There is one.
LEMMA WalkExists ==
  ASSUME NEW n \in Nat, NEW D, NEW start \in D, NEW F \in [1..n -> [D -> D]]
  PROVE  \E g \in [SUBSET (1..n) -> D] : Walks(g, n, start, F)
<1> DEFINE S == 1..n
           take == [t \in SUBSET S |-> Max(t)]
<1>1. IsFiniteSet(S)
  <2>1. 1 \in Int /\ n \in Int
    OBVIOUS
  <2> QED
    BY <2>1, FS_Interval
<1>2. \A t \in SUBSET S : t # {} => take[t] \in t
  BY GreatestOf
<1>3. PICK g \in [SUBSET S -> D] : Folds(g, S, start, take, F)
  <2>1. \A t \in SUBSET S : t # {} => take[t] \in t
    <3> HIDE DEF S
    <3> QED
      BY <1>2
  <2>2. IsFiniteSet(S) /\ start \in D /\ F \in [S -> [D -> D]]
    BY <1>1
  <2> HIDE DEF S, take
  <2> QED
    BY <2>1, <2>2, FoldExists, Zenon
<1>4. Walks(g, n, start, F)
  <2>1. \A t \in SUBSET S : take[t] = Max(t)
    OBVIOUS
  <2> HIDE DEF take
  <2> QED
    BY <1>3, <2>1 DEF Folds, Walks
<1> QED
  BY <1>3, <1>4

\* Steps(h, n, start, F): h goes from start through each of F in turn.
Steps(h, n, start, F) == h[0] = start /\ \A k \in 0..(n - 1) : h[k + 1] = F[k + 1][h[k]]

\* Such a fold takes the places in turn.
LEMMA WalkSteps ==
  ASSUME NEW n \in Nat, NEW start, NEW F, NEW g, Walks(g, n, start, F)
  PROVE  Steps([k \in 0..n |-> g[1..k]], n, start, F)
<1> DEFINE h == [k \in 0..n |-> g[1..k]]
<1>1. h[0] = start
  <2>1. 1..0 = {} /\ {} \in SUBSET (1..n)
    <3>1. \A i : i \notin 1..0
      OBVIOUS
    <3> QED
      BY <3>1
  <2>2. g[{}] = start
    BY <2>1 DEF Walks
  <2>3. h[0] = g[1..0]
    OBVIOUS
  <2> HIDE DEF h
  <2> QED
    BY <2>1, <2>2, <2>3
<1>2. ASSUME NEW k \in 0..(n - 1) PROVE h[k + 1] = F[k + 1][h[k]]
  <2> DEFINE t == 1..(k + 1)
  <2>1. k \in Nat /\ k + 1 \in 1..n /\ k \in 0..n /\ k + 1 \in 0..n
    OBVIOUS
  <2>2. t \in SUBSET (1..n) /\ k + 1 \in t /\ \A y \in t : y <= k + 1
    BY <2>1
  <2>3. Max(t) \in t /\ \A y \in t : y <= Max(t)
    <3>1. k + 1 \in Nat /\ t \in SUBSET (1..(k + 1)) /\ t # {}
      BY <2>1, <2>2
    <3> HIDE DEF t
    <3> QED
      BY <3>1, GreatestOf
  <2>4. Max(t) = k + 1
    <3>1. Max(t) \in Int /\ k + 1 <= Max(t) /\ Max(t) <= k + 1
      BY <2>1, <2>2, <2>3
    <3> HIDE DEF t
    <3> QED
      BY <2>1, <3>1
  <2>5. t \ {k + 1} = 1..k
    BY <2>1
  <2>6. h[k + 1] = g[t] /\ h[k] = g[1..k]
    BY <2>1
  <2>7. g[t] = F[Max(t)][g[t \ {Max(t)}]]
    <3> HIDE DEF t
    <3> QED
      BY <2>2 DEF Walks
  <2> HIDE DEF t, h
  <2> QED
    BY <2>4, <2>5, <2>6, <2>7
<1> QED
  BY <1>1, <1>2 DEF Steps

\* Indexes of some keys and paths.
Indexes(keys, paths) == UNION {[k -> paths] : k \in SUBSET keys}

\* An entry keeps an index one.
LEMMA AddEntryStays ==
  ASSUME NEW keys, NEW paths, NEW index \in Indexes(keys, paths), NEW e, e.key \in keys, e.path \in paths
  PROVE  AddEntry(index, e) \in Indexes(keys, paths)
<1> DEFINE dom == DOMAIN index \cup {e.key}
           new == [k \in dom |-> IF k = e.key THEN e.path ELSE index[k]]
<1>1. DOMAIN index \in SUBSET keys /\ \A k \in DOMAIN index : index[k] \in paths
  BY DEF Indexes
<1>2. new \in [dom -> paths] /\ dom \in SUBSET keys
  BY <1>1
<1>3. new \in Indexes(keys, paths)
  <2> HIDE DEF new, dom
  <2> QED
    BY <1>2 DEF Indexes
<1> QED
  BY <1>3 DEF AddEntry

\* What the index has under a key.
Holds(index, key, path) == key \in DOMAIN index /\ index[key] = path

\* An entry that is not another file's own keeps what is there; a file's own
\* entry puts it there.
LEMMA AddEntryHolds ==
  ASSUME NEW index, NEW key, NEW path, NEW e, e.overwrites /\ e.key = key => e.path = path,
         Holds(index, key, path) \/ (e.overwrites /\ e.key = key)
  PROVE  Holds(AddEntry(index, e), key, path)
  BY DEF Holds, AddEntry

\* The entries of a list, one after the other.
Added(index, es) == FoldLeft(AddEntry, index, es)

Adds(index, es, n, D) ==
  \E h : /\ h[0] = index
         /\ \A k \in 0..(n - 1) : h[k + 1] = AddEntry(h[k], es[k + 1])
         /\ \A k \in 0..n : h[k] \in D
         /\ Added(index, es) = h[n]

\* There are such steps, and each makes an index.
LEMMA EntriesStep ==
  ASSUME NEW keys, NEW paths, NEW index \in Indexes(keys, paths),
         NEW n \in Nat, NEW es, DOMAIN es = 1..n,
         \A j \in 1..n : es[j].key \in keys /\ es[j].path \in paths
  PROVE  Adds(index, es, n, Indexes(keys, paths))
<1> DEFINE D == Indexes(keys, paths)
           S == DOMAIN es
           F == [x \in 1..n |-> [a \in D |-> AddEntry(a, es[x])]]
           Is(g) == g = [t \in SUBSET S |->
                           IF t = {} THEN index ELSE LET x == Max(t) IN AddEntry(g[t \ {x}], es[x])]
           done == CHOOSE g : Is(g)
<1>1. Added(index, es) = done[S]
  BY DEF Added, FoldLeft, MapThenFoldSet
<1>2. F \in [1..n -> [D -> D]]
  <2>1. \A x \in 1..n : \A a \in D : AddEntry(a, es[x]) \in D
    BY AddEntryStays
  <2> HIDE DEF D
  <2> QED
    BY <2>1
<1>3. PICK g \in [SUBSET (1..n) -> D] : Walks(g, n, index, F)
  <2>1. n \in Nat /\ index \in D
    OBVIOUS
  <2> HIDE DEF D, F, S, Is, done
  <2> QED
    BY <1>2, <2>1, WalkExists, Zenon
<1>4. \A x \in 1..n : \A a \in D : F[x][a] = AddEntry(a, es[x])
  OBVIOUS
<1>5. \A t \in SUBSET (1..n) : t # {} => Max(t) \in 1..n
  BY GreatestOf
<1> HIDE DEF F, D
<1>6. ASSUME NEW t \in SUBSET (1..n)
      PROVE  g[t] = IF t = {} THEN index ELSE AddEntry(g[t \ {Max(t)}], es[Max(t)])
  <2>1. g[t] = IF t = {} THEN index ELSE F[Max(t)][g[t \ {Max(t)}]]
    BY <1>3 DEF Walks
  <2>2. t \ {Max(t)} \in SUBSET (1..n)
    OBVIOUS
  <2>3. g[t \ {Max(t)}] \in D
    BY <2>2
  <2> QED
    BY <1>4, <1>5, <2>1, <2>3
<1>7. Is(g)
  <2>1. g = [t \in SUBSET (1..n) |-> g[t]]
    OBVIOUS
  <2>2. g = [t \in SUBSET (1..n) |-> IF t = {} THEN index ELSE AddEntry(g[t \ {Max(t)}], es[Max(t)])]
    BY <1>6, <2>1
  <2> QED
    BY <2>2
<1>8. Is(done)
  <2> HIDE DEF Is
  <2> QED
    BY <1>7
<1>9. \A t \in SUBSET (1..n) : done[t] = IF t = {} THEN index ELSE AddEntry(done[t \ {Max(t)}], es[Max(t)])
  <2>1. done = [t \in SUBSET (1..n) |-> IF t = {} THEN index ELSE AddEntry(done[t \ {Max(t)}], es[Max(t)])]
    <3> HIDE DEF done
    <3> QED
      BY <1>8
  <2> HIDE DEF done
  <2> QED
    BY <2>1
<1> DEFINE Good == {t \in SUBSET (1..n) : done[t] = g[t]}
<1>10. {} \in Good
  <2>1. {} \in SUBSET (1..n)
    OBVIOUS
  <2> HIDE DEF done, Is
  <2> QED
    BY <1>6, <1>9, <2>1
<1>11. ASSUME NEW t \in SUBSET (1..n), t # {}, \A x \in t : t \ {x} \in Good
       PROVE  t \in Good
  <2>1. Max(t) \in t
    BY <1>11, GreatestOf
  <2>2. done[t \ {Max(t)}] = g[t \ {Max(t)}]
    BY <1>11, <2>1
  <2> HIDE DEF done, Is
  <2> QED
    BY <1>6, <1>9, <1>11, <2>2
<1>12. done[1..n] = g[1..n]
  <2>1. IsFiniteSet(1..n)
    <3>1. 1 \in Int /\ n \in Int
      OBVIOUS
    <3> QED
      BY <3>1, FS_Interval
  <2> DEFINE P == 1..n
  <2>2. \A t \in SUBSET P : t # {} /\ (\A x \in t : t \ {x} \in Good) => t \in Good
    <3> HIDE DEF Good
    <3> QED
      BY <1>11
  <2>3. SUBSET P \subseteq Good
    <3>1. IsFiniteSet(P)
      BY <2>1
    <3> HIDE DEF Good, P
    <3> QED
      BY <1>10, <2>2, <3>1, SubsetInduction
  <2> HIDE DEF done
  <2> QED
    BY <2>3
<1> DEFINE h == [k \in 0..n |-> g[1..k]]
<1>13. Steps(h, n, index, F)
  BY <1>3, WalkSteps
<1>14. ASSUME NEW k \in 0..n PROVE h[k] \in D
  <2>1. 1..k \in SUBSET (1..n)
    OBVIOUS
  <2> QED
    BY <2>1
<1>15. Added(index, es) = h[n]
  <2> HIDE DEF done
  <2> QED
    BY <1>1, <1>12
<1> HIDE DEF h
<1>16. ASSUME NEW k \in 0..(n - 1) PROVE h[k + 1] = AddEntry(h[k], es[k + 1])
  <2>1. k + 1 \in 1..n /\ k \in 0..n
    OBVIOUS
  <2> QED
    BY <1>4, <1>13, <1>14, <2>1 DEF Steps
<1>17. h[0] = index
  BY <1>13 DEF Steps
<1> QED
  BY <1>14, <1>15, <1>16, <1>17 DEF Adds, D

\* The entries of files, one file after the other.
AddsFiles(fs, m, D) ==
  \E h : /\ h[0] = <<>>
         /\ \A k \in 0..(m - 1) : h[k + 1] = AddFile(h[k], fs[k + 1])
         /\ \A k \in 0..m : h[k] \in D
         /\ FileIndex(fs) = h[m]

\* There are such steps, and each makes an index.
LEMMA FilesStep ==
  ASSUME NEW keys, NEW paths, NEW m \in Nat, NEW fs, DOMAIN fs = 1..m,
         \A a \in Indexes(keys, paths) : \A x \in 1..m : AddFile(a, fs[x]) \in Indexes(keys, paths)
  PROVE  AddsFiles(fs, m, Indexes(keys, paths))
<1> DEFINE D == Indexes(keys, paths)
           S == DOMAIN fs
           F == [x \in 1..m |-> [a \in D |-> AddFile(a, fs[x])]]
           Is(g) == g = [t \in SUBSET S |->
                           IF t = {} THEN <<>> ELSE LET x == Max(t) IN AddFile(g[t \ {x}], fs[x])]
           done == CHOOSE g : Is(g)
<1>1. FileIndex(fs) = done[S]
  BY DEF FileIndex, FoldLeft, MapThenFoldSet
<1>2. F \in [1..m -> [D -> D]]
  <2> HIDE DEF D
  <2> QED
    BY DEF D
<1>3. PICK g \in [SUBSET (1..m) -> D] : Walks(g, m, <<>>, F)
  <2>1. <<>> \in D
    <3>1. <<>> \in [{} -> paths] /\ {} \in SUBSET keys
      OBVIOUS
    <3> QED
      BY <3>1 DEF Indexes
  <2>2. m \in Nat /\ <<>> \in D
    BY <2>1
  <2> HIDE DEF D, F, S, Is, done
  <2> QED
    BY <1>2, <2>2, WalkExists, Zenon
<1>4. \A x \in 1..m : \A a \in D : F[x][a] = AddFile(a, fs[x])
  OBVIOUS
<1>5. \A t \in SUBSET (1..m) : t # {} => Max(t) \in 1..m
  BY GreatestOf
<1> HIDE DEF F, D
<1>6. ASSUME NEW t \in SUBSET (1..m)
      PROVE  g[t] = IF t = {} THEN <<>> ELSE AddFile(g[t \ {Max(t)}], fs[Max(t)])
  <2>1. g[t] = IF t = {} THEN <<>> ELSE F[Max(t)][g[t \ {Max(t)}]]
    BY <1>3 DEF Walks
  <2>2. t \ {Max(t)} \in SUBSET (1..m)
    OBVIOUS
  <2>3. g[t \ {Max(t)}] \in D
    BY <2>2
  <2> QED
    BY <1>4, <1>5, <2>1, <2>3
<1>7. Is(g)
  <2>1. g = [t \in SUBSET (1..m) |-> g[t]]
    OBVIOUS
  <2>2. g = [t \in SUBSET (1..m) |-> IF t = {} THEN <<>> ELSE AddFile(g[t \ {Max(t)}], fs[Max(t)])]
    BY <1>6, <2>1
  <2> QED
    BY <2>2
<1>8. Is(done)
  <2> HIDE DEF Is
  <2> QED
    BY <1>7
<1>9. \A t \in SUBSET (1..m) : done[t] = IF t = {} THEN <<>> ELSE AddFile(done[t \ {Max(t)}], fs[Max(t)])
  <2>1. done = [t \in SUBSET (1..m) |-> IF t = {} THEN <<>> ELSE AddFile(done[t \ {Max(t)}], fs[Max(t)])]
    <3> HIDE DEF done
    <3> QED
      BY <1>8
  <2> HIDE DEF done
  <2> QED
    BY <2>1
<1> DEFINE Good == {t \in SUBSET (1..m) : done[t] = g[t]}
<1>10. {} \in Good
  <2>1. {} \in SUBSET (1..m)
    OBVIOUS
  <2> HIDE DEF done, Is
  <2> QED
    BY <1>6, <1>9, <2>1
<1>11. ASSUME NEW t \in SUBSET (1..m), t # {}, \A x \in t : t \ {x} \in Good
       PROVE  t \in Good
  <2>1. Max(t) \in t
    BY <1>11, GreatestOf
  <2>2. done[t \ {Max(t)}] = g[t \ {Max(t)}]
    BY <1>11, <2>1
  <2> HIDE DEF done, Is
  <2> QED
    BY <1>6, <1>9, <1>11, <2>2
<1>12. done[1..m] = g[1..m]
  <2>1. IsFiniteSet(1..m)
    <3>1. 1 \in Int /\ m \in Int
      OBVIOUS
    <3> QED
      BY <3>1, FS_Interval
  <2> DEFINE P == 1..m
  <2>2. \A t \in SUBSET P : t # {} /\ (\A x \in t : t \ {x} \in Good) => t \in Good
    <3> HIDE DEF Good
    <3> QED
      BY <1>11
  <2>3. SUBSET P \subseteq Good
    <3>1. IsFiniteSet(P)
      BY <2>1
    <3> HIDE DEF Good, P
    <3> QED
      BY <1>10, <2>2, <3>1, SubsetInduction
  <2> HIDE DEF done
  <2> QED
    BY <2>3
<1> DEFINE h == [k \in 0..m |-> g[1..k]]
<1>13. Steps(h, m, <<>>, F)
  BY <1>3, WalkSteps
<1>14. ASSUME NEW k \in 0..m PROVE h[k] \in D
  <2>1. 1..k \in SUBSET (1..m)
    OBVIOUS
  <2> QED
    BY <2>1
<1>15. FileIndex(fs) = h[m]
  <2> HIDE DEF done
  <2> QED
    BY <1>1, <1>12
<1> HIDE DEF h
<1>16. ASSUME NEW k \in 0..(m - 1) PROVE h[k + 1] = AddFile(h[k], fs[k + 1])
  <2>1. k + 1 \in 1..m /\ k \in 0..m
    OBVIOUS
  <2> QED
    BY <1>4, <1>13, <1>14, <2>1 DEF Steps
<1>17. h[0] = <<>>
  BY <1>13 DEF Steps
<1> QED
  BY <1>14, <1>15, <1>16, <1>17 DEF AddsFiles, D

\* A file's own entry under a key.
Own(e, key) == e.overwrites /\ e.key = key

\* Adding the entries of a file keeps the index one, and keeps or puts a path
\* under its key when no other file has that key for its own.
LEMMA AddFileHolds ==
  ASSUME NEW keys, NEW paths, NEW index \in Indexes(keys, paths), NEW file, NEW n \in Nat,
         DOMAIN EntriesOf(file) = 1..n,
         \A j \in 1..n : EntriesOf(file)[j].key \in keys /\ EntriesOf(file)[j].path \in paths,
         NEW key, NEW path,
         \A j \in 1..n : Own(EntriesOf(file)[j], key) => EntriesOf(file)[j].path = path
  PROVE  /\ AddFile(index, file) \in Indexes(keys, paths)
         /\ Holds(index, key, path) \/ (\E j \in 1..n : Own(EntriesOf(file)[j], key))
              => Holds(AddFile(index, file), key, path)
<1> DEFINE es == EntriesOf(file)
           D == Indexes(keys, paths)
<1>1. PICK h : /\ h[0] = index
               /\ \A k \in 0..(n - 1) : h[k + 1] = AddEntry(h[k], es[k + 1])
               /\ \A k \in 0..n : h[k] \in D
               /\ Added(index, es) = h[n]
  <2>1. DOMAIN es = 1..n /\ \A j \in 1..n : es[j].key \in keys /\ es[j].path \in paths
    OBVIOUS
  <2>2. Adds(index, es, n, Indexes(keys, paths))
    <3> HIDE DEF es, D
    <3> QED
      BY <2>1, EntriesStep
  <2> HIDE DEF es
  <2> QED
    BY <2>2 DEF Adds
<1>2. AddFile(index, file) = h[n]
  <2>1. AddFile(index, file) = Added(index, es)
    BY DEF AddFile, Added
  <2> QED
    BY <1>1, <2>1
<1> DEFINE Good == {k \in Nat : k <= n =>
                      (Holds(index, key, path) \/ (\E j \in 1..k : Own(es[j], key))
                         => Holds(h[k], key, path))}
<1> HIDE DEF es, D
<1>3. 0 \in Good
  <2>1. \A j : j \notin 1..0
    OBVIOUS
  <2> QED
    BY <1>1, <2>1
<1>4. ASSUME NEW k \in Nat, k \in Good PROVE k + 1 \in Good
  <2> SUFFICES ASSUME k + 1 <= n, Holds(index, key, path) \/ (\E j \in 1..(k + 1) : Own(es[j], key))
               PROVE  Holds(h[k + 1], key, path)
    OBVIOUS
  <2>1. k \in 0..(n - 1) /\ k + 1 \in 1..n /\ k <= n
    OBVIOUS
  <2>2. h[k + 1] = AddEntry(h[k], es[k + 1])
    BY <1>1, <2>1
  <2>3. es[k + 1].overwrites /\ es[k + 1].key = key => es[k + 1].path = path
    BY <2>1 DEF Own, es
  <2>4. Holds(h[k], key, path) \/ (es[k + 1].overwrites /\ es[k + 1].key = key)
    <3>1. CASE Own(es[k + 1], key)
      BY <3>1 DEF Own
    <3>2. CASE ~Own(es[k + 1], key)
      <4>1. Holds(index, key, path) \/ (\E j \in 1..k : Own(es[j], key))
        BY <3>2
      <4> QED
        BY <1>4, <2>1, <4>1
    <3> QED
      BY <3>1, <3>2
  <2> QED
    BY <2>2, <2>3, <2>4, AddEntryHolds
<1>5. n \in Good
  <2> HIDE DEF Good
  <2> QED
    BY <1>3, <1>4, SetInduction
<1>6. h[n] \in D
  BY <1>1
<1> QED
  BY <1>2, <1>5, <1>6 DEF es, D

\* The parts of a module path.
Parts(file) == file.path[1] \o <<file.path[2]>>

\* Keys tell paths and notations apart, but for a single part.
LEMMA KeysDiffer ==
  ASSUME NEW S, NEW a \in Seq(S), NEW b \in Seq(S), Len(a) > 0, Len(b) > 0,
         NEW sep \in {".", "/"}, Key(sep, a) = Key(".", b)
  PROVE  a = b /\ (sep = "." \/ Len(b) = 1)
<1> DEFINE T == S \cup {".", "/"}
           x == <<sep>>
           y == <<".">>
<1>1. a \in Seq(T) /\ b \in Seq(T) /\ x \in Seq(T) /\ y \in Seq(T) /\ Len(x) = 1 /\ Len(y) = 1
  <2>1. S \subseteq T
    OBVIOUS
  <2> HIDE DEF T
  <2> QED
    BY <2>1 DEF T
<1>2. /\ Len(x \o a) = 1 + Len(a) /\ Len(y \o b) = 1 + Len(b)
      /\ (x \o a)[1] = sep /\ (y \o b)[1] = "."
      /\ \A i \in 1..Len(a) : (x \o a)[i + 1] = a[i]
      /\ \A i \in 1..Len(b) : (y \o b)[i + 1] = b[i]
  BY <1>1
<1>3. CASE Len(a) = 1 /\ Len(b) = 1
  BY <1>3 DEF Key
<1>4. CASE Len(a) = 1 /\ Len(b) # 1
  BY <1>1, <1>2, <1>4 DEF Key
<1>5. CASE Len(a) # 1 /\ Len(b) = 1
  BY <1>1, <1>2, <1>5 DEF Key
<1>6. CASE Len(a) # 1 /\ Len(b) # 1
  <2>1. x \o a = y \o b
    BY <1>6 DEF Key
  <2>2. Len(a) = Len(b) /\ sep = "."
    BY <1>1, <1>2, <2>1
  <2>3. \A i \in 1..Len(a) : a[i] = b[i]
    BY <1>2, <2>1, <2>2
  <2>4. a = b
    BY <2>2, <2>3
  <2> QED
    BY <2>2, <2>4
<1> QED
  BY <1>3, <1>4, <1>5, <1>6

\* A list with one more in front.
LEMMA InFront ==
  ASSUME NEW E, NEW a \in E, NEW k \in Nat, NEW t \in [1..k -> E]
  PROVE  /\ DOMAIN (<<a>> \o t) = 1..(k + 1) /\ (<<a>> \o t)[1] = a
         /\ \A j \in 1..(k + 1) : j # 1 => j - 1 \in 1..k /\ (<<a>> \o t)[j] = t[j - 1]
<1> DEFINE x == <<a>>
<1>1. x \in Seq(E) /\ Len(x) = 1 /\ x[1] = a
  OBVIOUS
<1>2. t \in Seq(E) /\ Len(t) = k
  OBVIOUS
<1> HIDE DEF x
<1>3. x \o t \in Seq(E) /\ Len(x \o t) = k + 1 /\ (x \o t)[1] = a
  <2>1. x \o t \in Seq(E) /\ Len(x \o t) = Len(x) + Len(t)
        /\ \A i \in 1..(Len(x) + Len(t)) : (x \o t)[i] = IF i <= Len(x) THEN x[i] ELSE t[i - Len(x)]
    BY <1>1, <1>2, ConcatProperties
  <2> QED
    BY <1>1, <1>2, <2>1
<1>4. ASSUME NEW j \in 1..(k + 1), j # 1 PROVE j - 1 \in 1..k /\ (x \o t)[j] = t[j - 1]
  <2>1. \A i \in 1..(Len(x) + Len(t)) : (x \o t)[i] = IF i <= Len(x) THEN x[i] ELSE t[i - Len(x)]
    BY <1>1, <1>2, ConcatProperties
  <2>2. j \in 1..(Len(x) + Len(t)) /\ ~(j <= Len(x)) /\ j - 1 \in 1..k
    BY <1>1, <1>2, <1>4
  <2> QED
    BY <1>1, <2>1, <2>2
<1>5. DOMAIN (x \o t) = 1..(k + 1)
  BY <1>3
<1> QED
  BY <1>3, <1>4, <1>5 DEF x

\* The entries of a file are of that file; its own is its whole module path.
EntersItself(file) ==
  \E n \in Nat :
    /\ DOMAIN EntriesOf(file) = 1..n
    /\ \A j \in 1..n :
         /\ EntriesOf(file)[j].path = file.path
         /\ EntriesOf(file)[j].overwrites =>
              \E sep \in {".", "/"} : EntriesOf(file)[j].key = Key(sep, Parts(file))
    /\ file.language = "python" => \E j \in 1..n : Own(EntriesOf(file)[j], Key(".", Parts(file)))

\* Every file does.
LEMMA EntriesAre ==
  ASSUME NEW S, NEW file, file.path[1] \in Seq(S), file.path[2] \in S
  PROVE  EntersItself(file)
<1> DEFINE parts == Parts(file)
           suffixes == [i \in 1..Len(parts) |->
                          Entry(Key(".", SubSeq(parts, i, Len(parts))), file.path, FALSE)]
           stem == Entry(<<file.path[2]>>, file.path, FALSE)
           first == Entry(Key(".", parts), file.path, TRUE)
<1>1. Len(parts) \in Nat /\ parts \in Seq(S)
  BY DEF Parts
<1>2. /\ file.language = "python" => EntriesOf(file) = <<first>> \o suffixes
      /\ file.language \in {"typescript", "javascript"} =>
           EntriesOf(file) = <<Entry(Key("/", parts), file.path, TRUE), stem>>
      /\ file.language \notin {"python", "typescript", "javascript"} => EntriesOf(file) = <<>>
  BY DEF EntriesOf, Parts
<1> HIDE DEF parts
<1>3. CASE file.language = "python"
  <2> DEFINE es == <<first>> \o suffixes
             n == Len(parts) + 1
             E == Range(suffixes) \cup {first}
  <2>1. suffixes \in [1..Len(parts) -> E] /\ first \in E
    BY DEF Range
  <2>2. \A i \in 1..Len(parts) : suffixes[i].path = file.path /\ suffixes[i].overwrites = FALSE
    BY DEF Entry
  <2>3. first.path = file.path /\ first.overwrites /\ first.key = Key(".", parts)
    BY DEF Entry
  <2> HIDE DEF E, suffixes, first
  <2>4. n \in Nat /\ DOMAIN es = 1..n /\ es[1] = first
        /\ \A j \in 1..n : j # 1 => j - 1 \in 1..Len(parts) /\ es[j] = suffixes[j - 1]
    BY <1>1, <2>1, InFront
  <2>5. EntriesOf(file) = es
    BY <1>2, <1>3
  <2> HIDE DEF es, n
  <2>6. \A j \in 1..n : /\ es[j].path = file.path
                        /\ es[j].overwrites => es[j].key = Key(".", parts)
    BY <2>2, <2>3, <2>4
  <2>7. Own(es[1], Key(".", parts)) /\ 1 \in 1..n
    BY <1>1, <2>3, <2>4 DEF Own, n
  <2> QED
    BY <1>3, <2>4, <2>5, <2>6, <2>7 DEF parts, EntersItself
<1>4. CASE file.language \in {"typescript", "javascript"}
  <2> DEFINE es == <<Entry(Key("/", parts), file.path, TRUE), stem>>
  <2>1. DOMAIN es = 1..2
    OBVIOUS
  <2>2. \A j \in 1..2 : /\ es[j].path = file.path
                        /\ es[j].overwrites => es[j].key = Key("/", parts)
    BY DEF Entry
  <2>3. EntriesOf(file) = es /\ 2 \in Nat
    BY <1>2, <1>4
  <2> HIDE DEF es
  <2> QED
    BY <1>4, <2>1, <2>2, <2>3 DEF parts, EntersItself
<1>5. CASE file.language \notin {"python", "typescript", "javascript"}
  <2>1. EntriesOf(file) = <<>> /\ DOMAIN <<>> = 1..0 /\ 0 \in Nat /\ \A j : j \notin 1..0
    BY <1>2, <1>5
  <2> QED
    BY <1>5, <2>1 DEF EntersItself
<1> QED
  BY <1>3, <1>4, <1>5

\* The index leads from the module path of a Python file to that file, when no
\* other has the same one.
LEMMA OwnIsIndexed ==
  ASSUME NEW S, NEW fs, fs \in Seq(Range(fs)),
         \A f \in Range(fs) : f.path[1] \in Seq(S) /\ f.path[2] \in S,
         NEW g \in Range(fs), g.language = "python",
         \A f \in Range(fs) \ {g} : Parts(f) # Parts(g)
  PROVE  Holds(FileIndex(fs), Key(".", Parts(g)), g.path)
<1> DEFINE keys == UNION {{EntriesOf(f)[j].key : j \in DOMAIN EntriesOf(f)} : f \in Range(fs)}
           paths == {f.path : f \in Range(fs)}
           D == Indexes(keys, paths)
           K == Key(".", Parts(g))
           m == Len(fs)
<1>1. ASSUME NEW f \in Range(fs)
      PROVE  EntersItself(f) /\ Parts(f) \in Seq(S) /\ Len(Parts(f)) > 0
  <2>1. f.path[1] \in Seq(S) /\ <<f.path[2]>> \in Seq(S) /\ Len(<<f.path[2]>>) = 1
    OBVIOUS
  <2>2. Parts(f) \in Seq(S) /\ Len(Parts(f)) = Len(f.path[1]) + 1
    BY <2>1, ConcatProperties DEF Parts
  <2> QED
    BY <2>1, <2>2, EntriesAre
<1>2. ASSUME NEW a \in D, NEW f \in Range(fs)
      PROVE  /\ AddFile(a, f) \in D
             /\ Holds(a, K, g.path) \/ f = g => Holds(AddFile(a, f), K, g.path)
  <2>1. PICK n \in Nat :
          /\ DOMAIN EntriesOf(f) = 1..n
          /\ \A j \in 1..n :
               /\ EntriesOf(f)[j].path = f.path
               /\ EntriesOf(f)[j].overwrites =>
                    \E sep \in {".", "/"} : EntriesOf(f)[j].key = Key(sep, Parts(f))
          /\ f.language = "python" => \E j \in 1..n : Own(EntriesOf(f)[j], Key(".", Parts(f)))
    BY <1>1 DEF EntersItself
  <2>2. \A j \in 1..n : EntriesOf(f)[j].key \in keys /\ EntriesOf(f)[j].path \in paths
    BY <2>1
  <2>3. ASSUME NEW j \in 1..n, Own(EntriesOf(f)[j], K) PROVE EntriesOf(f)[j].path = g.path
    <3>1. PICK sep \in {".", "/"} : EntriesOf(f)[j].key = Key(sep, Parts(f))
      BY <2>1, <2>3 DEF Own
    <3>2. Key(sep, Parts(f)) = Key(".", Parts(g))
      BY <2>3, <3>1 DEF Own
    <3>3. Parts(f) = Parts(g)
      BY <1>1, <3>2, KeysDiffer
    <3>4. f = g
      BY <3>3
    <3> QED
      BY <2>1, <3>4
  <2>4. f = g => \E j \in 1..n : Own(EntriesOf(f)[j], K)
    BY <2>1
  <2> HIDE DEF keys, paths, K
  <2>5. /\ AddFile(a, f) \in Indexes(keys, paths)
        /\ Holds(a, K, g.path) \/ (\E j \in 1..n : Own(EntriesOf(f)[j], K))
             => Holds(AddFile(a, f), K, g.path)
    BY <2>1, <2>2, <2>3, AddFileHolds
  <2> QED
    BY <2>4, <2>5
<1>3. m \in Nat /\ DOMAIN fs = 1..m /\ (\A x \in 1..m : fs[x] \in Range(fs)) /\ \E x \in 1..m : fs[x] = g
  BY DEF Range
<1>4. PICK h : /\ h[0] = <<>>
               /\ \A k \in 0..(m - 1) : h[k + 1] = AddFile(h[k], fs[k + 1])
               /\ \A k \in 0..m : h[k] \in D
               /\ FileIndex(fs) = h[m]
  <2>1. AddsFiles(fs, m, D)
    <3>1. \A a \in Indexes(keys, paths) : \A x \in 1..m : AddFile(a, fs[x]) \in Indexes(keys, paths)
      BY <1>2, <1>3
    <3> HIDE DEF keys, paths, m
    <3> QED
      BY <1>3, <3>1, FilesStep
  <2> HIDE DEF D, m
  <2> QED
    BY <2>1 DEF AddsFiles
<1> HIDE DEF keys, paths, D, K, m
<1> DEFINE Good == {k \in Nat : k <= m => ((\E x \in 1..k : fs[x] = g) => Holds(h[k], K, g.path))}
<1>5. 0 \in Good
  <2>1. \A j : j \notin 1..0
    OBVIOUS
  <2> QED
    BY <2>1
<1>6. ASSUME NEW k \in Nat, k \in Good PROVE k + 1 \in Good
  <2> SUFFICES ASSUME k + 1 <= m, \E x \in 1..(k + 1) : fs[x] = g
               PROVE  Holds(h[k + 1], K, g.path)
    OBVIOUS
  <2>1. k \in 0..(m - 1) /\ k \in 0..m /\ k + 1 \in 1..m /\ k <= m
    BY <1>3
  <2>2. h[k + 1] = AddFile(h[k], fs[k + 1]) /\ h[k] \in D /\ fs[k + 1] \in Range(fs)
    BY <1>3, <1>4, <2>1
  <2>3. Holds(h[k], K, g.path) \/ fs[k + 1] = g
    <3>1. CASE fs[k + 1] # g
      <4>1. \E x \in 1..k : fs[x] = g
        BY <3>1
      <4> QED
        BY <1>6, <2>1, <4>1
    <3> QED
      BY <3>1
  <2> QED
    BY <1>2, <2>2, <2>3
<1>7. m \in Good
  <2> HIDE DEF Good
  <2> QED
    BY <1>3, <1>5, <1>6, SetInduction
<1>8. Holds(FileIndex(fs), K, g.path)
  BY <1>3, <1>4, <1>7
<1> QED
  BY <1>8 DEF K

\* An import that spells out a module path finds what the index has under it.
LEMMA ExactFinds ==
  ASSUME NEW S, NEW i, i.form = "python", i.dots = 0, i.parts \in Seq(S), Len(i.parts) > 0,
         NEW f, NEW index, NEW path, path # Nowhere, Holds(index, Key(".", i.parts), path)
  PROVE  Resolve(i, f, index) = path
<1> DEFINE parts == i.parts
           found == [j \in 1..Len(parts) |-> At(index, Key(".", SubSeq(parts, j, Len(parts))))]
           hits == {j \in DOMAIN found : found[j] # Nowhere}
<1>1. Len(parts) \in Nat /\ 1 \in 1..Len(parts)
  OBVIOUS
<1>2. SubSeq(parts, 1, Len(parts)) = parts
  OBVIOUS
<1>3. found[1] = path
  <2>1. found[1] = At(index, Key(".", SubSeq(parts, 1, Len(parts))))
    BY <1>1
  <2> HIDE DEF found
  <2> QED
    BY <1>2, <2>1 DEF At, Holds
<1>4. 1 \in hits /\ \A j \in hits : j \in Int /\ 1 <= j
  <2>1. DOMAIN found = 1..Len(parts)
    OBVIOUS
  <2> HIDE DEF found
  <2> QED
    BY <1>1, <1>3, <2>1
<1>5. Min(hits) = 1
  <2> HIDE DEF hits
  <2> QED
    BY <1>4 DEF Min
<1>6. FirstFound(found) = path
  <2>1. FirstFound(found) = IF hits = {} THEN Nowhere ELSE found[Min(hits)]
    BY DEF FirstFound
  <2> HIDE DEF hits, found
  <2> QED
    BY <1>3, <1>4, <1>5, <2>1
<1>7. Resolve(i, f, index) = FirstFound(found)
  BY DEF Resolve, ResolvePython, ResolveAbsolutePython
<1> QED
  BY <1>6, <1>7

\* Such an import is an edge to the file.
LEMMA ExactIsEdge ==
  ASSUME NEW S, NEW fs, fs \in Seq(Range(fs)),
         \A f \in Range(fs) : f.path[1] \in Seq(S) /\ f.path[2] \in S /\ f.path # Nowhere,
         NEW f \in Range(fs), NEW g \in Range(fs), f # g, g.language = "python",
         \A h \in Range(fs) \ {g} : Parts(h) # Parts(g),
         NEW i \in f.imports, i.form = "python", i.dots = 0, i.parts = Parts(g)
  PROVE  Edge(f, i, g.path, Nowhere) \in Graph(fs).edges
<1> DEFINE index == FileIndex(fs)
           known == {h.path : h \in Range(fs)}
<1>1. Holds(index, Key(".", Parts(g)), g.path)
  BY OwnIsIndexed
<1>2. i.parts \in Seq(S) /\ Len(i.parts) > 0
  <2>1. g.path[1] \in Seq(S) /\ <<g.path[2]>> \in Seq(S) /\ Len(<<g.path[2]>>) = 1
    OBVIOUS
  <2>2. Parts(g) \in Seq(S) /\ Len(Parts(g)) = Len(g.path[1]) + 1
    BY <2>1, ConcatProperties DEF Parts
  <2> QED
    BY <2>1, <2>2
<1> HIDE DEF index
<1>3. Resolve(i, f, index) = g.path
  BY <1>1, <1>2, ExactFinds
<1>4. g.path \in known \ {f.path}
  <2>1. f.path # g.path
    BY DEF Parts
  <2> QED
    BY <2>1
<1>5. Graph(fs).edges = UNION {EdgesOf(h, index, known) : h \in Range(fs)}
  BY DEF Graph, index
<1> HIDE DEF known
<1>6. Edge(f, i, g.path, Nowhere) \in EdgesOf(f, index, known)
  <2> DEFINE kept == {j \in f.imports :
                        LET target == Resolve(j, f, index)
                        IN  /\ ~(target = Nowhere /\ IsMember(j, f, index))
                            /\ target \in known \ {f.path} \/ ~IsExternal(j)}
  <2>1. i \in kept
    BY <1>3, <1>4
  <2>2. EdgesOf(f, index, known) =
          {IF Resolve(j, f, index) \in known \ {f.path}
           THEN Edge(f, j, Resolve(j, f, index), Nowhere)
           ELSE Edge(f, j, Nowhere, UnresolvedReason(j)) : j \in kept}
    BY DEF EdgesOf
  <2> HIDE DEF kept
  <2> QED
    BY <1>3, <1>4, <2>1, <2>2
<1> QED
  BY <1>5, <1>6

\* An import that spells out the module path of a scanned file leads to it, in
\* whatever order the files arrived and whichever of their suffixes collide.
THEOREM ExactImportsAreResolved == ScanSpec => []ExactImportsResolve
<1>1. CountInvariant /\ GraphInvariant => ExactImportsResolve
  <2> SUFFICES ASSUME CountInvariant, GraphInvariant, GraphBuilt, NEW f \in Scanned, NEW g \in Scanned, NEW i \in f.imports,
                      i.form = "python", i.dots = 0, i.parts = ModulePath(g), g.language = "python", f # g,
                      \A h \in Scanned \ {g} : ModulePath(h) # ModulePath(g)
               PROVE  Edge(f, i, g.path, Nowhere) \in graph.edges
    BY DEF ExactImportsResolve
  <2> DEFINE S == UNION {Range(h.path[1]) \cup {h.path[2]} : h \in Scanned}
  <2>1. graph = Graph(files) /\ CountInvariant
    BY DEF GraphInvariant
  <2>2. files \in Seq(Range(files))
    BY <2>1 DEF CountInvariant, Range
  <2>3. ASSUME NEW h \in Scanned PROVE h.path[1] \in Seq(S) /\ h.path[2] \in S /\ h.path # Nowhere
    <3>1. h \in Records(Fetchable)
      BY <2>1 DEF CountInvariant, Range, Scanned
    <3>2. PICK t \in Fetchable : h = FileIntelligence(t) \/ h = NotFetched(t)
      BY <3>1 DEF Records
    <3>3. tree \in Trees /\ t \in Range(tree)
      BY <2>1, FetchableInTree DEF CountInvariant, Fetchable
    <3>4. h.path = PathOf(t)
      <4>1. FileIntelligence(t).path = PathOf(t) /\ NotFetched(t).path = PathOf(t)
        BY DEF FileIntelligence, NotFetched
      <4> QED
        BY <3>2, <4>1
    <3>5. h.path # Nowhere /\ h.path[1] = t.dir /\ t.dir \in Seq(Range(t.dir))
      BY <3>3, <3>4, TreesAssumption DEF PathOf
    <3>6. Range(h.path[1]) \subseteq S /\ h.path[2] \in S
      OBVIOUS
    <3> HIDE DEF S
    <3>7. t.dir \in Seq(S)
      BY <3>5, <3>6
    <3> QED
      BY <3>5, <3>6, <3>7
  <2>4. \A h : ModulePath(h) = Parts(h)
    BY DEF ModulePath, Parts
  <2> HIDE DEF S
  <2> QED
    BY <2>1, <2>2, <2>3, <2>4, ExactIsEdge DEF Scanned
<1> QED
  BY <1>1, CountInvariantHolds, GraphInvariantHolds, PTL
=============================================================================
