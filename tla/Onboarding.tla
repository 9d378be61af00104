----------------------------- MODULE Onboarding -----------------------------
(* The diagnostic tabs of an Atlas result: setup_risk, debug_readiness and   *)
(* change_risk. Lanes that finish an analysis, or find one they can reuse,   *)
(* clone the repository's branch, run the three analyzers and write their    *)
(* reports one by one in one transaction on the result row                   *)
(* (services/pipeline/onboarding_assembler_async.py, called by               *)
(* _populate_diagnostic_tabs of atlas_worker.py), while the repository       *)
(* changes and the database fails.                                           *)
(*                                                                           *)
(* A lane holds its own copy of the row, which a rollback expires and the    *)
(* next flush loads again, and writes the columns that it has set. A tab is  *)
(* a set that holds its report, or nothing where the column is None.         *)
EXTENDS SetupRisk, ChangeRisk

CONSTANTS Files,      \* the files a repository may come to have
          Practices,  \* those of them that add a good practice and nothing else
          Lanes,      \* lanes of any worker, all at one result row
          Origins,    \* what the repository may be at first
          MaxEdits

ASSUME FilesAssumption ==
  /\ Files \subseteq RepoFile
  /\ Practices \subseteq Files
  /\ Origins \subseteq SUBSET Files
  /\ \A origin \in Origins : IsFiniteSet(origin)
  /\ MaxEdits \in Nat

Tabs == {"setup_risk", "debug_readiness", "change_risk"}
NextTab == [setup_risk |-> "debug_readiness", debug_readiness |-> "change_risk",
            change_risk |-> "mark"]

\* A repository has one file at a path.
IsRepo(r) == /\ r \subseteq Files
             /\ \A f, g \in r : <<f.place, f.path>> = <<g.place, g.path>> => f = g

VARIABLES repo,      \* the head of the branch
          edits,     \* changes of the repository so far (a bound)
          row,       \* the committed tabs of the result row
          pc,        \* what each lane does
          clone,     \* the files each lane has cloned
          mem,       \* the tabs of each lane's instance of the row
          expired,   \* whether a rollback has expired that instance
          written    \* the columns each lane's open transaction has updated

vars == <<repo, edits, row, pc, clone, mem, expired, written>>

NoTabs == [t \in Tabs |-> {}]

Analyze(tab, files) == IF tab = "setup_risk" THEN AnalyzeSetupRisk(files)
                       ELSE IF tab = "debug_readiness" THEN AnalyzeDebugReadiness(files)
                       ELSE AnalyzeChangeRisk(files)

Init == /\ repo \in {r \in Origins : IsRepo(r)}
        /\ edits = 0
        /\ row = NoTabs
        /\ pc = [l \in Lanes |-> "idle"]
        /\ clone = [l \in Lanes |-> {}]
        /\ mem = [l \in Lanes |-> NoTabs]
        /\ expired = [l \in Lanes |-> FALSE]
        /\ written = [l \in Lanes |-> {}]

\* The repository gains or loses a file.
Edit == /\ edits < MaxEdits
        /\ edits' = edits + 1
        /\ \E f \in Files : \/ f \notin repo /\ repo' = repo \cup {f}
                            \/ f \in repo /\ repo' = repo \ {f}
        /\ IsRepo(repo')
        /\ UNCHANGED <<row, pc, clone, mem, expired, written>>

\* A row that has been updated is locked until the transaction ends.
MayWrite(l) == \A m \in Lanes \ {l} : written[m] = {}

HasAllTabs(tabs) == \A t \in Tabs : tabs[t] # {}

\* A job at the end of its analysis has loaded the row, which lacks a tab.
Begin(l) == /\ pc[l] = "idle"
            /\ ~HasAllTabs(row)
            /\ pc' = [pc EXCEPT ![l] = "clone"]
            /\ mem' = [mem EXCEPT ![l] = row]
            /\ UNCHANGED <<repo, edits, row, clone, expired, written>>

Clone(l) == /\ pc[l] = "clone"
            /\ clone' = [clone EXCEPT ![l] = repo]
            /\ pc' = [pc EXCEPT ![l] = "setup_risk"]
            /\ UNCHANGED <<repo, edits, row, mem, expired, written>>

\* No clone, no analysis: all that is left is to mark what is missing.
CloneFails(l) == /\ pc[l] = "clone"
                 /\ pc' = [pc EXCEPT ![l] = "mark"]
                 /\ UNCHANGED <<repo, edits, row, clone, mem, expired, written>>

\* _run_setup_risk, _run_debug_readiness, _run_change_risk: analyse, set the
\* column, flush.
RunSection(l, tab) ==
  /\ pc[l] = tab
  /\ ~expired[l]
  /\ MayWrite(l)
  /\ mem' = [mem EXCEPT ![l] = [@ EXCEPT ![tab] = {Analyze(tab, clone[l])}]]
  /\ written' = [written EXCEPT ![l] = @ \cup {tab}]
  /\ pc' = [pc EXCEPT ![l] = NextTab[tab]]
  /\ UNCHANGED <<repo, edits, row, clone, expired>>

\* A flush after a rollback first asks for the primary key that its UPDATE
\* needs, which loads all that has expired; the UPDATE may then have to wait.
Reload(l) == /\ pc[l] \in Tabs
             /\ expired[l]
             /\ mem' = [mem EXCEPT ![l] = row]
             /\ expired' = [expired EXCEPT ![l] = FALSE]
             /\ UNCHANGED <<repo, edits, row, pc, clone, written>>

\* Mutant of SectionWriteFails: the instance keeps what the rollback undid.
SectionWriteForgotten(l, tab) ==
  /\ pc[l] = tab
  /\ written' = [written EXCEPT ![l] = {}]
  /\ pc' = [pc EXCEPT ![l] = NextTab[tab]]
  /\ UNCHANGED <<repo, edits, row, clone, mem, expired>>

\* The flush fails and the database has rolled the transaction back. The
\* session takes no statement until its own rollback, so that the sentinel's
\* flush fails too; the rollback expires the instance, the sentinel with it.
SectionWriteFails(l, tab) ==
  /\ pc[l] = tab
  /\ mem' = [mem EXCEPT ![l] = NoTabs]
  /\ expired' = [expired EXCEPT ![l] = TRUE]
  /\ written' = [written EXCEPT ![l] = {}]
  /\ pc' = [pc EXCEPT ![l] = NextTab[tab]]
  /\ UNCHANGED <<repo, edits, row, clone>>

\* An expired attribute cannot be loaded outside a greenlet: if the last
\* section's write failed, the check for missing tabs raises, and so does the
\* handler's own call of it.
Marks(l) == ~expired[l]

\* A tab that is missing in the lane's instance is set to a failure, and flushed.
MarkMissing(l) ==
  LET missing == {t \in Tabs : mem[l][t] = {}}
  IN  /\ pc[l] = "mark"
      /\ Marks(l)
      /\ MayWrite(l)
      /\ mem' = [mem EXCEPT ![l] = [t \in Tabs |-> IF t \in missing THEN {ScanFailed} ELSE @[t]]]
      /\ written' = [written EXCEPT ![l] = @ \cup missing]
      /\ pc' = [pc EXCEPT ![l] = "commit"]
      /\ UNCHANGED <<repo, edits, row, clone, expired>>

\* The job is over and its session closed.
Leave(l) == /\ pc' = [pc EXCEPT ![l] = "idle"]
            /\ clone' = [clone EXCEPT ![l] = {}]
            /\ mem' = [mem EXCEPT ![l] = NoTabs]
            /\ expired' = [expired EXCEPT ![l] = FALSE]
            /\ written' = [written EXCEPT ![l] = {}]

\* The row with what a lane has written, the other columns being what they are.
Updated(l) == [t \in Tabs |-> IF t \in written[l] THEN mem[l][t] ELSE row[t]]

Commit(l) == /\ pc[l] = "commit"
             /\ row' = Updated(l)
             /\ Leave(l)
             /\ UNCHANGED <<repo, edits>>

\* The check for missing tabs raises, the last flush or the commit fails (the
\* caller logs it and rolls back), or the process dies.
Abort(l) == /\ pc[l] \in {"mark", "commit"}
            /\ Leave(l)
            /\ UNCHANGED <<repo, edits, row>>

Die(l) == /\ pc[l] # "idle"
          /\ Leave(l)
          /\ UNCHANGED <<repo, edits, row>>

Step(l) == \/ Begin(l) \/ Clone(l) \/ CloneFails(l)
           \/ \E tab \in Tabs : RunSection(l, tab) \/ SectionWriteFails(l, tab)
           \/ Reload(l) \/ MarkMissing(l) \/ Commit(l) \/ Abort(l) \/ Die(l)

Next == Edit \/ \E l \in Lanes : Step(l)

Spec == Init /\ [][Next]_vars

(***************************************************************************)
(* Properties                                                              *)
(***************************************************************************)

\* A result has all its tabs or none, whichever writes failed, which lanes
\* died and how they overlapped: pages show a missing tab as one that is still
\* to come, and only a result without tabs is ever analysed again.
AllTabsOrNone == HasAllTabs(row) \/ row = NoTabs

\* Two analyzers look for tests, with rules of their own. Where a lane has
\* written the whole row, through whatever failures of its sections, and the
\* change risk it stored saw tests, its debug readiness saw them too. (A lane
\* that loads the row again after a failure may complete another lane's tabs,
\* which are of another clone.)
TellsOfTests(tabs) ==
  \A change \in tabs["change_risk"], debug \in tabs["debug_readiness"] :
     (Found(change) /\ Found(debug) /\ "no_tests" \notin Rules(change))
        => "no_test_harness" \notin Rules(debug)
TabsTellOfTests ==
  [][\A l \in Lanes : Commit(l) /\ written[l] = Tabs => TellsOfTests(row')]_vars

\* Score and confidence come from different evidence; a low risk is still
\* never reported of a repository in which hardly anything was found.
LowRiskIsEvidenced ==
  \A t \in Tabs : LET report == Analyze(t, repo)
                  IN  report.level = "low" => report.confidence >= 25

\* A repository that adopts a practice is never rated a greater risk for it, and
\* never with less confidence, by any of the three analyzers.
Adopts == \E p \in Practices : p \notin repo /\ repo' = repo \cup {p}
PracticeNeverHurts ==
  [][Adopts => \A t \in Tabs :
       LET before == Analyze(t, repo) after == Analyze(t, repo')
       IN  before.scan_state = "found" =>
             /\ after.scan_state = "found"
             /\ after.score <= before.score
             /\ after.confidence >= before.confidence]_vars
=============================================================================
