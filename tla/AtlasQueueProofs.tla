-------------------------- MODULE AtlasQueueProofs --------------------------
EXTENDS AtlasQueue, TLAPS

USE MaxJobAssumption, LimitAssumption, WorkerOfAssumption

LEMMA OldestAgeNat == OldestAge \in Nat
  BY DEF OldestAge

LEMMA TypeInit == Init => TypeOK
  BY DEF Init, TypeOK, JobIds, NoJob, OldestAge, Statuses, Outcomes, Errors,
         ClaimAttempts, Blank, Idle, Locals, Polls, Control, Executing, NoRow

LEMMA BlankIdle == Blank \in Locals /\ Idle \in Polls
  BY DEF Locals, Blank, NoJob, Polls, Idle, Statuses

\* Setting fields of a lane's memory keeps it one ...
LEMMA AnalysedLocal ==
  ASSUME NEW r \in Locals, NEW s \in Shas \cup {NoSha}, NEW i \in BOOLEAN
  PROVE  [r EXCEPT !.sha = s, !.intel = i] \in Locals
  BY DEF Locals

LEMMA TargetedLocal ==
  ASSUME NEW r \in Locals, NEW t \in JobIds \cup {NoJob},
         NEW n \in {"missing", "scanned", "scan_failed"}
  PROVE  [r EXCEPT !.target = t, !.seen = n] \in Locals
  BY DEF Locals

LEMMA ExpiredLocal ==
  ASSUME NEW r \in Locals PROVE [r EXCEPT !.expired = TRUE] \in Locals
  BY DEF Locals

\* ... and so do the fields of a request.
LEMMA ClearedPoll ==
  ASSUME NEW q \in Polls
  PROVE  [q EXCEPT !.pc = "job", !.due = {}, !.busy = FALSE] \in Polls
  BY DEF Polls

LEMMA ReadPoll ==
  ASSUME NEW q \in Polls, NEW j \in JobIds, NEW s \in Statuses,
         NEW r \in JobIds \cup {NoJob}
  PROVE  [q EXCEPT !.pc = "result", !.job = j, !.status = s, !.result = r]
           \in Polls
  BY DEF Polls

LEMMA TypeStep == TypeOK /\ [Next]_vars => TypeOK'
<1> SUFFICES ASSUME TypeOK, [Next]_vars PROVE TypeOK'
  OBVIOUS
<1> USE DEF TypeOK, jobVars, laneVars
<1>1. ASSUME NEW j \in JobIds, Submit(j) PROVE TypeOK'
  BY <1>1 DEF Submit, Statuses
<1>2. ASSUME NEW l \in Lanes, SelectNothing(l) PROVE TypeOK'
  BY <1>2 DEF SelectNothing, ClaimAttempts
<1>3. ASSUME NEW l \in Lanes, SelectCandidate(l) PROVE TypeOK'
  BY <1>3 DEF SelectCandidate, HasStatus, Control
<1>4. ASSUME NEW l \in Lanes, ClaimWon(l) PROVE TypeOK'
  <2>1. /\ status' \in [JobIds -> Statuses]
        /\ error' \in [JobIds -> Errors]
    BY <1>4 DEF ClaimWon, Statuses, Errors
  <2>2. 0 \in 0 .. OldestAge
    BY OldestAgeNat
  <2>3. age' \in [JobIds -> 0 .. OldestAge]
    BY <1>4, <2>2 DEF ClaimWon
  <2>4. /\ pc' \in [Lanes -> Control]
        /\ tries' \in [Lanes -> 0 .. ClaimAttempts - 1]
    BY <1>4 DEF ClaimWon, ClaimAttempts, Control, Executing
  <2> QED
    BY <1>4, <2>1, <2>3, <2>4 DEF ClaimWon
<1>5. ASSUME NEW l \in Lanes, ClaimLost(l) PROVE TypeOK'
  BY <1>5 DEF ClaimLost, NextTry, ClaimAttempts, Control
<1>6. ASSUME NEW l \in Lanes, Analyse(l) PROVE TypeOK'
  <2>1. PICK s \in Shas \cup {NoSha}, i \in BOOLEAN :
              local' = [local EXCEPT ![l] = [@ EXCEPT !.sha = s, !.intel = i]]
    BY <1>6 DEF Analyse
  <2>2. [local[l] EXCEPT !.sha = s, !.intel = i] \in Locals
    BY AnalysedLocal
  <2>3. local' \in [Lanes -> Locals]
    BY <2>1, <2>2
  <2>4. pc' \in [Lanes -> Control]
    BY <1>6 DEF Analyse, Goto, Control, Executing
  <2> QED
    BY <1>6, <2>3, <2>4 DEF Analyse, Goto
<1>7. ASSUME NEW l \in Lanes, Raise(l) PROVE TypeOK'
  BY <1>7 DEF Raise, Goto, Control, Executing
<1>8. ASSUME NEW l \in Lanes, DedupeMiss(l) PROVE TypeOK'
  BY <1>8 DEF DedupeMiss, Goto, Control, Executing
<1>9. ASSUME NEW l \in Lanes, DedupeHit(l) PROVE TypeOK'
  <2>1. PICK r \in JobIds :
          /\ WithSha(local[l].sha) = {r}
          /\ local' = [local EXCEPT ![l] =
                         [@ EXCEPT !.target = r, !.seen = row[r].tabs]]
    BY <1>9 DEF DedupeHit
  <2>2. row[r].tabs \in {"missing", "scanned", "scan_failed"}
    BY <2>1 DEF WithSha, HasRow, Rows
  <2>3. [local[l] EXCEPT !.target = r, !.seen = row[r].tabs] \in Locals
    BY <2>2, TargetedLocal
  <2>4. local' \in [Lanes -> Locals]
    BY <2>1, <2>3
  <2>5. pc' \in [Lanes -> Control]
    BY <1>9 DEF DedupeHit, Goto, Control, Executing
  <2> QED
    BY <1>9, <2>4, <2>5 DEF DedupeHit, Goto
<1>11. ASSUME NEW l \in Lanes, CommitHit(l) PROVE TypeOK'
  <2>1. local[l].target \in JobIds \cup {NoJob}
    BY DEF Locals
  <2> QED
    BY <1>11, <2>1 DEF CommitHit, Goto, Control, Executing, Statuses, Outcomes
<1>12. ASSUME NEW l \in Lanes, CommitResult(l) PROVE TypeOK'
  <2>1. [local[l] EXCEPT !.target = job[l], !.seen = "missing"] \in Locals
    BY TargetedLocal
  <2>2. local' \in [Lanes -> Locals]
    BY <1>12, <2>1 DEF CommitResult
  <2>3. [sha |-> local[l].sha, tabs |-> "missing"] \in Rows
    BY DEF Locals, Rows
  <2>4. row' \in [JobIds -> Rows \cup {NoRow}]
    BY <1>12, <2>3 DEF CommitResult
  <2>5. /\ status' \in [JobIds -> Statuses]
        /\ pc' \in [Lanes -> Control]
    BY <1>12 DEF CommitResult, Goto, Control, Executing, Statuses, Outcomes
  <2> QED
    BY <1>12, <2>2, <2>4, <2>5 DEF CommitResult, Goto
<1>13. ASSUME NEW l \in Lanes, WriteTabs(l) PROVE row' \in [JobIds -> Rows \cup {NoRow}]
  BY <1>13 DEF WriteTabs, Rows, NoRow
<1>14. ASSUME NEW l \in Lanes, HitTabs(l) PROVE TypeOK'
  <2>1. WriteTabs(l) /\ row' \in [JobIds -> Rows \cup {NoRow}]
    BY <1>13, <1>14 DEF HitTabs
  <2> QED
    BY <1>14, <2>1, BlankIdle DEF HitTabs, WriteTabs, Release, Control
<1>15. ASSUME NEW l \in Lanes, NewTabs(l) PROVE TypeOK'
  <2>1. WriteTabs(l) /\ row' \in [JobIds -> Rows \cup {NoRow}]
    BY <1>13, <1>15 DEF NewTabs
  <2> QED
    BY <1>15, <2>1 DEF NewTabs, WriteTabs, Goto, Control, Executing
<1>16. ASSUME NEW l \in Lanes, HitTabsRollback(l) PROVE TypeOK'
  BY <1>16, BlankIdle DEF HitTabsRollback, Release, Control
<1>17. ASSUME NEW l \in Lanes, NewTabsRollback(l) PROVE TypeOK'
  <2>1. [local[l] EXCEPT !.expired = TRUE] \in Locals
    BY ExpiredLocal
  <2> QED
    BY <1>17, <2>1 DEF NewTabsRollback, Goto, Control, Executing
<1>18. ASSUME NEW l \in Lanes, StoreIntelligence(l) PROVE TypeOK'
  BY <1>18, BlankIdle DEF StoreIntelligence, Goto, Release, Control, Executing
<1>19. ASSUME NEW l \in Lanes, CommitFailure(l) PROVE TypeOK'
  BY <1>19, BlankIdle
     DEF CommitFailure, Release, Control, Statuses, Outcomes, Errors
<1>20. ASSUME NEW l \in Lanes, LoseCommit(l) PROVE TypeOK'
  BY <1>20, BlankIdle DEF LoseCommit, Release, Control
<1>21. ASSUME RecoverStale
       PROVE  /\ status' \in [JobIds -> Statuses]
              /\ error' \in [JobIds -> Errors]
  BY <1>21 DEF RecoverStale, Statuses, Outcomes, Errors
<1>22. ASSUME NEW w \in Workers, Recover(w) PROVE TypeOK'
  BY <1>21, <1>22 DEF Recover
<1>23. ASSUME NEW w \in Workers, Restart(w) PROVE TypeOK'
  BY <1>21, <1>23 DEF Restart, Control
<1>24. ASSUME NEW w \in Workers, Crash(w) PROVE TypeOK'
  BY <1>24, BlankIdle DEF Crash, Control, ClaimAttempts
<1>25. ASSUME NEW p \in Pollers, PollCount(p) PROVE TypeOK'
  <2> DEFINE due == PastCutoff
             busy == HasStatus("running") # {}
             counted == [Idle EXCEPT !.pc = "clear", !.due = due, !.busy = busy]
  <2>1. due \in SUBSET JobIds /\ busy \in BOOLEAN
    BY DEF PastCutoff, HasStatus
  <2> HIDE DEF due, busy
  <2>2. counted \in Polls
    BY <2>1 DEF Polls, Idle, NoJob, Statuses
  <2>3. poll' = [poll EXCEPT ![p] = counted]
    BY <1>25 DEF PollCount, due, busy
  <2> HIDE DEF counted
  <2> QED
    BY <1>25, <2>2, <2>3 DEF PollCount
<1>26. ASSUME NEW p \in Pollers, PollClear(p) PROVE TypeOK'
  <2>1. [poll[p] EXCEPT !.pc = "job", !.due = {}, !.busy = FALSE] \in Polls
    BY ClearedPoll
  <2>2. poll' \in [Pollers -> Polls]
    BY <1>26, <2>1 DEF PollClear
  <2>3. status' \in [JobIds -> Statuses] /\ error' \in [JobIds -> Errors]
    BY <1>26 DEF PollClear, Statuses, Outcomes, Errors
  <2> QED
    BY <1>26, <2>2, <2>3 DEF PollClear
<1>27. ASSUME NEW p \in Pollers, PollMissing(p) PROVE TypeOK'
  BY <1>27, BlankIdle DEF PollMissing
<1>28. ASSUME NEW p \in Pollers, PollJob(p) PROVE TypeOK'
  <2>1. PICK j \in JobIds :
          poll' = [poll EXCEPT ![p] =
                     [@ EXCEPT !.pc = "result", !.job = j,
                               !.status = status[j], !.result = cached[j]]]
    BY <1>28 DEF PollJob
  <2>2. [poll[p] EXCEPT !.pc = "result", !.job = j,
                        !.status = status[j], !.result = cached[j]] \in Polls
    BY ReadPoll
  <2> QED
    BY <1>28, <2>1, <2>2 DEF PollJob
<1>29. ASSUME NEW p \in Pollers, PollResult(p) PROVE TypeOK'
  BY <1>29, BlankIdle DEF PollResult
<1>30. CASE Tick
  BY <1>30, OldestAgeNat DEF Tick
<1>31. CASE UNCHANGED vars
  BY <1>31 DEF vars
<1> QED
  BY <1>1, <1>2, <1>3, <1>4, <1>5, <1>6, <1>7, <1>8, <1>9, <1>11, <1>12,
     <1>14, <1>15, <1>16, <1>17, <1>18, <1>19, <1>20, <1>22, <1>23, <1>24,
     <1>25, <1>26, <1>27, <1>28, <1>29, <1>30, <1>31
     DEF Next, Claim, Execute, Poll

\* Every state the queue reaches has the shape the tables and lanes have.
THEOREM TypeCorrect == Spec => []TypeOK
  BY TypeInit, TypeStep, PTL DEF Spec

-----------------------------------------------------------------------------

LEMMA InvariantInit == Init => QueueInvariant
  BY TypeInit
     DEF Init, QueueInvariant, LanesSound, RequestsSound, ExclusiveExecution,
         CompletedHasResult, ResultMeansEnded, CachedIsOriginal,
         TimedOutNeverRan, AnswerHasResult, Held, Holds, HasRow, NoJob,
         Executing, Uncommitted, Idle, Outcomes

LEMMA InvariantStep == QueueInvariant /\ [Next]_vars => QueueInvariant'
<1> SUFFICES ASSUME QueueInvariant, [Next]_vars PROVE QueueInvariant'
  OBVIOUS
<1> USE DEF QueueInvariant, LanesSound, RequestsSound, ExclusiveExecution,
            CompletedHasResult, ResultMeansEnded, CachedIsOriginal,
            TimedOutNeverRan, AnswerHasResult, ResultId,
            Held, Holds, NoJob, Executing, Uncommitted, Outcomes,
            jobVars, laneVars
<1>t. TypeOK /\ TypeOK'
  BY TypeStep
<1>w. ASSUME NEW l \in Lanes, WriteTabs(l), pc[l] \in {"hit_tabs", "tabs"}
      PROVE  \A j \in JobIds : HasRow(j)' <=> HasRow(j)
  <2>1. local[l].target \in JobIds /\ HasRow(local[l].target)
    BY <1>w
  <2>2. CASE local[l].seen # "missing"
    BY <1>w, <2>2 DEF WriteTabs, HasRow
  <2>3. CASE local[l].seen = "missing"
    <3>1. PICK found \in {"scanned", "scan_failed"} :
            row' = [row EXCEPT ![local[l].target] = [@ EXCEPT !.tabs = found]]
      BY <1>w, <2>3 DEF WriteTabs
    <3>2. row'[local[l].target].tabs = found
      BY <2>1, <3>1, <1>t DEF TypeOK, HasRow, Rows
    <3>3. row'[local[l].target] # NoRow
      BY <3>2 DEF NoRow
    <3>4. \A j \in JobIds : j # local[l].target => row'[j] = row[j]
      BY <3>1, <1>t DEF TypeOK
    <3> QED
      BY <2>1, <3>3, <3>4 DEF HasRow
  <2> QED
    BY <2>2, <2>3
<1>1. ASSUME NEW j \in JobIds, Submit(j) PROVE QueueInvariant'
  BY <1>1, <1>t DEF Submit, HasRow, TypeOK
<1>2. ASSUME NEW l \in Lanes, SelectNothing(l) PROVE QueueInvariant'
  BY <1>2, <1>t DEF SelectNothing, HasRow, TypeOK
<1>3. ASSUME NEW l \in Lanes, SelectCandidate(l) PROVE QueueInvariant'
  BY <1>3, <1>t DEF SelectCandidate, HasRow, TypeOK, HasStatus
<1>4. ASSUME NEW l \in Lanes, ClaimWon(l) PROVE QueueInvariant'
  BY <1>4, <1>t DEF ClaimWon, StillQueued, HasRow, TypeOK
<1>5. ASSUME NEW l \in Lanes, ClaimLost(l) PROVE QueueInvariant'
  BY <1>5, <1>t DEF ClaimLost, HasRow, TypeOK
<1>6. ASSUME NEW l \in Lanes, Analyse(l) PROVE QueueInvariant'
  BY <1>6, <1>t DEF Analyse, HasRow, TypeOK, Goto
<1>7. ASSUME NEW l \in Lanes, Raise(l) PROVE QueueInvariant'
  BY <1>7, <1>t DEF Raise, HasRow, TypeOK, Goto
<1>8. ASSUME NEW l \in Lanes, DedupeMiss(l) PROVE QueueInvariant'
  BY <1>8, <1>t DEF DedupeMiss, HasRow, TypeOK, Goto
<1>9. ASSUME NEW l \in Lanes, DedupeHit(l) PROVE QueueInvariant'
  BY <1>9, <1>t DEF DedupeHit, HasRow, TypeOK, Goto, WithSha, Locals
<1>11. ASSUME NEW l \in Lanes, CommitHit(l) PROVE QueueInvariant'
  <2>1. /\ job[l] \in JobIds /\ local[l].target \in JobIds
        /\ HasRow(local[l].target) /\ ~HasRow(job[l])
        /\ status[job[l]] # "queued"
    BY <1>11 DEF CommitHit
  <2>2. /\ status' = [status EXCEPT ![job[l]] = "completed"]
        /\ cached' = [cached EXCEPT ![job[l]] = local[l].target]
        /\ pc' = [pc EXCEPT ![l] = "hit_tabs"]
        /\ UNCHANGED <<error, age, row, up, job, tries, local, poll>>
    BY <1>11 DEF CommitHit, Goto
  <2>3. \A j \in JobIds : HasRow(j)' <=> HasRow(j)
    BY <2>2 DEF HasRow
  <2>4. Held' = Held
    BY <1>11, <2>2, <1>t DEF TypeOK, CommitHit
  <2>5. LanesSound' /\ RequestsSound' /\ ExclusiveExecution'
    BY <1>11, <2>1, <2>2, <2>3, <1>t DEF TypeOK, CommitHit
  <2>6. CompletedHasResult' /\ ResultMeansEnded'
    BY <2>1, <2>2, <2>3, <1>t DEF TypeOK, JobIds
  <2>9. TimedOutNeverRan'
    BY <1>11, <2>1, <2>2, <2>3, <2>4, <1>t DEF TypeOK, CommitHit
  <2>7. CachedIsOriginal'
    BY <2>1, <2>2, <2>3, <1>t DEF TypeOK
  <2>8. AnswerHasResult'
    BY <2>2, <2>3, <1>t DEF TypeOK, JobIds, HasRow
  <2> QED
    BY <2>5, <2>6, <2>7, <2>8, <2>9, <1>t
<1>12. ASSUME NEW l \in Lanes, CommitResult(l) PROVE QueueInvariant'
  <2>1. job[l] \in JobIds /\ cached[job[l]] = NoJob /\ ~HasRow(job[l])
        /\ status[job[l]] # "queued"
    BY <1>12 DEF CommitResult
  <2>2. /\ row' = [row EXCEPT ![job[l]] = [sha |-> local[l].sha, tabs |-> "missing"]]
        /\ status' = [status EXCEPT ![job[l]] = "completed"]
        /\ pc' = [pc EXCEPT ![l] = "tabs"]
        /\ \A k \in Lanes : local'[k].target =
                               IF k = l THEN job[l] ELSE local[k].target
        /\ UNCHANGED <<error, cached, age, up, job, tries, poll>>
    BY <1>12, <1>t DEF CommitResult, Goto, TypeOK, Locals
  <2>3. \A j \in JobIds : HasRow(j)' <=> HasRow(j) \/ j = job[l]
    BY <2>1, <2>2, <1>t DEF HasRow, NoRow, TypeOK
  <2>4. Held' = Held
    BY <1>12, <2>2, <1>t DEF TypeOK, CommitResult
  <2>5. LanesSound' /\ RequestsSound' /\ ExclusiveExecution'
    BY <1>12, <2>1, <2>2, <2>3, <1>t DEF TypeOK, CommitResult
  <2>6. CompletedHasResult' /\ ResultMeansEnded' /\ TimedOutNeverRan'
    BY <1>12, <2>1, <2>2, <2>3, <2>4, <1>t DEF TypeOK, CommitResult
  <2>7. CachedIsOriginal'
    BY <2>1, <2>2, <2>3, <1>t DEF TypeOK
  <2>8. AnswerHasResult'
    BY <2>2, <2>3, <1>t DEF TypeOK, JobIds, HasRow
  <2> QED
    BY <2>5, <2>6, <2>7, <2>8, <1>t
<1>13. ASSUME NEW l \in Lanes, HitTabs(l) PROVE QueueInvariant'
  <2>1. \A j \in JobIds : HasRow(j)' <=> HasRow(j)
    BY <1>13, <1>w DEF HitTabs
  <2>2. LanesSound' /\ RequestsSound' /\ ExclusiveExecution' /\ Held' \subseteq Held
    BY <1>13, <2>1, <1>t DEF HitTabs, WriteTabs, Release, TypeOK
  <2>3. /\ CompletedHasResult' /\ ResultMeansEnded' /\ CachedIsOriginal'
        /\ TimedOutNeverRan' /\ AnswerHasResult'
    BY <1>13, <2>1, <2>2, <1>t DEF HitTabs, WriteTabs, TypeOK
  <2> QED
    BY <2>2, <2>3, <1>t
<1>14. ASSUME NEW l \in Lanes, NewTabs(l) PROVE QueueInvariant'
  <2>1. \A j \in JobIds : HasRow(j)' <=> HasRow(j)
    BY <1>14, <1>w DEF NewTabs
  <2>2. LanesSound' /\ RequestsSound' /\ ExclusiveExecution' /\ Held' \subseteq Held
    BY <1>14, <2>1, <1>t DEF NewTabs, WriteTabs, Goto, TypeOK
  <2>3. /\ CompletedHasResult' /\ ResultMeansEnded' /\ CachedIsOriginal'
        /\ TimedOutNeverRan' /\ AnswerHasResult'
    BY <1>14, <2>1, <2>2, <1>t DEF NewTabs, WriteTabs, TypeOK
  <2> QED
    BY <2>2, <2>3, <1>t
<1>15. ASSUME NEW l \in Lanes, HitTabsRollback(l) PROVE QueueInvariant'
  BY <1>15, <1>t DEF HitTabsRollback, HasRow, TypeOK, Release
<1>16. ASSUME NEW l \in Lanes, NewTabsRollback(l) PROVE QueueInvariant'
  BY <1>16, <1>t DEF NewTabsRollback, HasRow, TypeOK, Goto
<1>17. ASSUME NEW l \in Lanes, StoreIntelligence(l) PROVE QueueInvariant'
  BY <1>17, <1>t DEF StoreIntelligence, HasRow, TypeOK, Goto, Release
<1>18. ASSUME NEW l \in Lanes, CommitFailure(l) PROVE QueueInvariant'
  BY <1>18, <1>t DEF CommitFailure, HasRow, TypeOK, Release
<1>19. ASSUME NEW l \in Lanes, LoseCommit(l) PROVE QueueInvariant'
  BY <1>19, <1>t DEF LoseCommit, HasRow, TypeOK, Release
<1>20. ASSUME NEW w \in Workers, Recover(w) PROVE QueueInvariant'
  BY <1>20, <1>t DEF Recover, HasRow, TypeOK, RecoverStale, Stale
<1>21. ASSUME NEW w \in Workers, Restart(w) PROVE QueueInvariant'
  BY <1>21, <1>t DEF Restart, HasRow, TypeOK, RecoverStale, Stale
<1>22. ASSUME NEW w \in Workers, Crash(w) PROVE QueueInvariant'
  BY <1>22, <1>t DEF Crash, HasRow, TypeOK
<1>23. ASSUME NEW p \in Pollers, PollCount(p) PROVE QueueInvariant'
  BY <1>23, <1>t DEF PollCount, HasRow, TypeOK, Idle
<1>24. ASSUME NEW p \in Pollers, PollClear(p) PROVE QueueInvariant'
  BY <1>24, <1>t DEF PollClear, Overdue, HasRow, TypeOK, HasStatus
<1>25. ASSUME NEW p \in Pollers, PollMissing(p) PROVE QueueInvariant'
  BY <1>25, <1>t DEF PollMissing, HasRow, TypeOK, Idle
<1>26. ASSUME NEW p \in Pollers, PollJob(p) PROVE QueueInvariant'
  <2>1. PICK j \in JobIds :
          poll' = [poll EXCEPT ![p] =
                     [@ EXCEPT !.pc = "result", !.job = j,
                               !.status = status[j], !.result = cached[j]]]
    BY <1>26 DEF PollJob
  <2>2. /\ poll'[p].job = j /\ poll'[p].status = status[j]
        /\ poll'[p].result = cached[j]
        /\ \A q \in Pollers : q # p => poll'[q] = poll[q]
    BY <2>1, <1>t DEF TypeOK, Polls
  <2>3. UNCHANGED <<jobVars, row, up, laneVars>>
    BY <1>26 DEF PollJob
  <2>4. RequestsSound'
    BY <2>2
  <2>5. AnswerHasResult'
    <3>1. status[j] = "completed" => HasRow(j) \/ cached[j] # NoJob
      BY DEF CompletedHasResult
    <3>2. ResultId(p)' = IF HasRow(j) THEN j ELSE cached[j]
      BY <2>2, <2>3 DEF ResultId, HasRow
    <3>3. \A q \in Pollers : q # p =>
             ResultId(q)' = ResultId(q) /\ poll'[q] = poll[q]
      BY <2>2, <2>3 DEF ResultId, HasRow
    <3> QED
      BY <2>2, <3>1, <3>2, <3>3 DEF JobIds
  <2>6. /\ LanesSound' /\ ExclusiveExecution' /\ CompletedHasResult'
        /\ ResultMeansEnded' /\ CachedIsOriginal' /\ TimedOutNeverRan'
    BY <2>3 DEF HasRow
  <2> QED
    BY <2>4, <2>5, <2>6, <1>t
<1>27. ASSUME NEW p \in Pollers, PollResult(p) PROVE QueueInvariant'
  BY <1>27, <1>t DEF PollResult, HasRow, TypeOK, Idle
<1>28. CASE Tick
  BY <1>28, <1>t DEF Tick, HasRow, TypeOK
<1>29. CASE UNCHANGED vars
  BY <1>29, <1>t DEF vars, HasRow, TypeOK
<1> QED
  BY <1>1, <1>2, <1>3, <1>4, <1>5, <1>6, <1>7, <1>8, <1>9, <1>11, <1>12,
     <1>13, <1>14, <1>15, <1>16, <1>17, <1>18, <1>19, <1>20, <1>21, <1>22,
     <1>23, <1>24, <1>25, <1>26, <1>27, <1>28, <1>29
     DEF Next, Claim, Execute, Poll

\* The inductive invariant of the queue holds for any number of jobs, workers,
\* lanes, requests and SHAs and for any time limits.
THEOREM InvariantHolds == Spec => []QueueInvariant
  BY InvariantInit, InvariantStep, PTL DEF Spec

-----------------------------------------------------------------------------

\* What a step of a lane does to the jobs that are held.
LEMMA HeldSame ==
  ASSUME UNCHANGED job,
         \A l \in Lanes : pc[l] \in Executing <=> pc'[l] \in Executing
  PROVE  Held' = Held
  BY DEF Held, Holds

LEMMA HeldReleased ==
  ASSUME QueueInvariant, NEW l \in Lanes, Release(l), pc[l] \in Executing
  PROVE  Held' = Held \ {job[l]} /\ job[l] \in Held
<1>1. \A k \in Lanes : k # l => pc'[k] = pc[k] /\ job'[k] = job[k]
  BY DEF Release, QueueInvariant, TypeOK
<1>2. pc'[l] \notin Executing
  BY DEF Release, QueueInvariant, TypeOK, Executing
<1>3. job[l] \in JobIds
  BY DEF QueueInvariant, LanesSound
<1>4. \A k \in Lanes : k # l /\ pc[k] \in Executing => job[k] # job[l]
  BY <1>3 DEF QueueInvariant, ExclusiveExecution, Holds
<1> QED
  BY <1>1, <1>2, <1>3, <1>4 DEF Held, Holds

LEMMA LifecycleStep ==
  QueueInvariant /\ [Next]_vars => [Lifecycle!Next]_(Lifecycle!vars)
<1> SUFFICES ASSUME QueueInvariant, [Next]_vars
             PROVE  [Lifecycle!Next]_(Lifecycle!vars)
  OBVIOUS
<1> USE DEF jobVars, laneVars
<1>t. TypeOK /\ LanesSound
  BY DEF QueueInvariant
<1>s. ASSUME status' = status, Held' = Held
      PROVE  UNCHANGED Lifecycle!vars
  BY <1>s DEF Lifecycle!vars
<1>r. ASSUME NEW l \in Lanes, pc[l] \in Executing, Release(l), status' = status
      PROVE  Lifecycle!Next
  <2>1. Held' = Held \ {job[l]} /\ job[l] \in JobIds
    BY <1>r, HeldReleased, <1>t DEF LanesSound
  <2> QED
    BY <1>r, <2>1 DEF Lifecycle!Next, Lifecycle!Drop
<1>o. ASSUME NEW S \in SUBSET JobIds, NEW phase \in {"queued", "running"},
             \A j \in S : status[j] = phase,
             status' = [j \in JobIds |-> IF j \in S THEN "failed" ELSE status[j]],
             Held' = Held
      PROVE  Lifecycle!Next
  BY <1>o DEF Lifecycle!Next, Lifecycle!FailOverdue
<1>1. ASSUME NEW j \in JobIds, Submit(j) PROVE Lifecycle!Next
  BY <1>1, HeldSame DEF Submit, Lifecycle!Next, Lifecycle!Submit
<1>2. ASSUME NEW l \in Lanes, SelectNothing(l) PROVE UNCHANGED Lifecycle!vars
  BY <1>2, <1>s, HeldSame DEF SelectNothing
<1>3. ASSUME NEW l \in Lanes, SelectCandidate(l) PROVE UNCHANGED Lifecycle!vars
  <2> Held' = Held
    BY <1>3, <1>t DEF SelectCandidate, Held, Holds, Executing, TypeOK
  <2> QED
    BY <1>3, <1>s DEF SelectCandidate
<1>4. ASSUME NEW l \in Lanes, ClaimWon(l) PROVE Lifecycle!Next
  <2>1. job[l] \in JobIds
    BY <1>4, <1>t DEF ClaimWon, LanesSound
  <2>2. Held' = Held \cup {job[l]}
    BY <1>4, <2>1, <1>t DEF ClaimWon, Held, Holds, Executing, TypeOK
  <2> QED
    BY <1>4, <2>1, <2>2 DEF ClaimWon, StillQueued, Lifecycle!Next, Lifecycle!Start
<1>5. ASSUME NEW l \in Lanes, ClaimLost(l) PROVE UNCHANGED Lifecycle!vars
  <2> Held' = Held
    BY <1>5, <1>t DEF ClaimLost, Held, Holds, Executing, TypeOK
  <2> QED
    BY <1>5, <1>s DEF ClaimLost
<1>6. ASSUME NEW l \in Lanes,
             Analyse(l) \/ Raise(l) \/ DedupeMiss(l) \/ DedupeHit(l)
               \/ NewTabs(l) \/ NewTabsRollback(l)
      PROVE  UNCHANGED Lifecycle!vars
  <2>1. status' = status /\ job' = job /\ pc[l] \in Executing
    BY <1>6 DEF Analyse, Raise, DedupeMiss, DedupeHit, NewTabs,
                NewTabsRollback, WriteTabs, Goto, Executing
  <2>2. \E where \in Executing : pc' = [pc EXCEPT ![l] = where]
    BY <1>6 DEF Analyse, Raise, DedupeMiss, DedupeHit, NewTabs,
                NewTabsRollback, WriteTabs, Goto, Executing
  <2>3. Held' = Held
    BY <2>1, <2>2, <1>t, HeldSame DEF TypeOK
  <2> QED
    BY <2>1, <2>3, <1>s
<1>7. ASSUME NEW l \in Lanes, CommitHit(l) \/ CommitResult(l) PROVE Lifecycle!Next
  <2>1. /\ status' = [status EXCEPT ![job[l]] = "completed"]
        /\ job' = job /\ pc[l] \in Executing /\ job[l] \in JobIds
    BY <1>7, <1>t DEF CommitHit, CommitResult, Goto, Executing, LanesSound
  <2>2. \E where \in Executing : pc' = [pc EXCEPT ![l] = where]
    BY <1>7 DEF CommitHit, CommitResult, Goto, Executing
  <2>3. Held' = Held /\ job[l] \in Held
    BY <2>1, <2>2, <1>t, HeldSame DEF TypeOK, Held, Holds
  <2> QED
    BY <2>1, <2>3 DEF Lifecycle!Next, Lifecycle!Report, Lifecycle!Outcomes
<1>8. ASSUME NEW l \in Lanes, HitTabs(l) \/ HitTabsRollback(l) \/ LoseCommit(l)
      PROVE  Lifecycle!Next
  BY <1>8, <1>r
     DEF HitTabs, HitTabsRollback, LoseCommit, WriteTabs, Executing
<1>9. ASSUME NEW l \in Lanes, StoreIntelligence(l)
      PROVE  Lifecycle!Next \/ UNCHANGED Lifecycle!vars
  <2>1. pc[l] = "intel" /\ status' = status
    BY <1>9 DEF StoreIntelligence
  <2>2. CASE Release(l)
    BY <2>1, <2>2, <1>r DEF Executing
  <2>3. CASE Goto(l, "fail")
    <3>1. Held' = Held
      BY <2>1, <2>3, <1>t, HeldSame DEF Goto, Executing, TypeOK
    <3> QED
      BY <2>1, <3>1, <1>s
  <2> QED
    BY <1>9, <2>2, <2>3 DEF StoreIntelligence
<1>10. ASSUME NEW l \in Lanes, CommitFailure(l) PROVE Lifecycle!Next
  <2>1. /\ status' = [status EXCEPT ![job[l]] = "failed"]
        /\ Release(l) /\ pc[l] \in Executing /\ job[l] \in JobIds
    BY <1>10, <1>t DEF CommitFailure, Executing, LanesSound
  <2>2. Held' = Held \ {job[l]} /\ job[l] \in Held
    BY <2>1, HeldReleased
  <2> QED
    BY <2>1, <2>2 DEF Lifecycle!Next, Lifecycle!Report, Lifecycle!Outcomes
<1>11. ASSUME NEW w \in Workers, Recover(w) \/ Restart(w) PROVE Lifecycle!Next
  <2> DEFINE S == {j \in JobIds : Stale(j)}
  <2>1. S \in SUBSET JobIds /\ \A j \in S : status[j] = "running"
    BY DEF Stale
  <2>2. status' = [j \in JobIds |-> IF j \in S THEN "failed" ELSE status[j]]
    BY <1>11 DEF Recover, Restart, RecoverStale
  <2>3. Held' = Held
    BY <1>11, <1>t DEF Recover, Restart, Held, Holds, Executing, TypeOK, LanesSound
  <2> HIDE DEF S
  <2> QED
    BY <2>1, <2>2, <2>3, <1>o
<1>12. ASSUME NEW w \in Workers, Crash(w) PROVE Lifecycle!Next
  <2> DEFINE S == Held \ Held'
  <2>1. Held' \subseteq Held
    BY <1>12, <1>t DEF Crash, Held, Holds, Executing, TypeOK
  <2>2. S \in SUBSET JobIds /\ Held' = Held \ S
    BY <2>1 DEF Held
  <2> HIDE DEF S
  <2> QED
    BY <1>12, <2>2 DEF Crash, Lifecycle!Next, Lifecycle!Drop
<1>13. ASSUME NEW p \in Pollers, PollClear(p) PROVE Lifecycle!Next
  <2> DEFINE S == Overdue(p)
  <2>1. S \in SUBSET JobIds /\ \A j \in S : status[j] = "queued"
    BY DEF Overdue, HasStatus
  <2>2. status' = [j \in JobIds |-> IF j \in S THEN "failed" ELSE status[j]]
    BY <1>13 DEF PollClear
  <2>3. Held' = Held
    BY <1>13, HeldSame DEF PollClear
  <2> HIDE DEF S
  <2> QED
    BY <2>1, <2>2, <2>3, <1>o
<1>14. ASSUME NEW p \in Pollers,
              PollCount(p) \/ PollMissing(p) \/ PollJob(p) \/ PollResult(p)
       PROVE  UNCHANGED Lifecycle!vars
  BY <1>14, <1>s, HeldSame DEF PollCount, PollMissing, PollJob, PollResult
<1>15. CASE Tick
  BY <1>15, <1>s, HeldSame DEF Tick
<1>16. CASE UNCHANGED vars
  BY <1>16, <1>s, HeldSame DEF vars
<1> QED
  BY <1>1, <1>2, <1>3, <1>4, <1>5, <1>6, <1>7, <1>8, <1>9, <1>10, <1>11, <1>12,
     <1>13, <1>14, <1>15, <1>16 DEF Next, Claim, Execute, Poll

\* The Atlas queue implements the abstract job table: at most one lane ever
\* takes a job, nothing is requeued, and only the holder revises an outcome.
THEOREM ImplementsLifecycleHolds == Spec => ImplementsLifecycle
<1>1. Init => Lifecycle!Init
  BY DEF Init, Lifecycle!Init, Held, Holds, Executing
<1> QED
  BY <1>1, InvariantHolds, LifecycleStep, PTL
     DEF Spec, ImplementsLifecycle, Lifecycle!Spec

\* An outcome is final once the lane that claimed the job has let go of it.
THEOREM OutcomeIsFinal == Spec => UnheldOutcomeIsFinal
<1>1. QueueInvariant /\ [Next]_vars
        => [\A j \in JobIds : status[j] \in Outcomes /\ j \notin Held =>
               status'[j] = status[j]]_vars
  <2> SUFFICES ASSUME QueueInvariant, [Next]_vars, NEW j \in JobIds,
                      status[j] \in Outcomes, j \notin Held
               PROVE  status'[j] = status[j]
    OBVIOUS
  <2>1. [Lifecycle!Next]_(Lifecycle!vars) /\ TypeOK
    BY LifecycleStep DEF QueueInvariant
  <2>2. CASE UNCHANGED Lifecycle!vars
    BY <2>2 DEF Lifecycle!vars
  <2>3. CASE Lifecycle!Next
    BY <2>1, <2>3
       DEF Lifecycle!Next, Lifecycle!Submit, Lifecycle!Start, Lifecycle!Report,
           Lifecycle!Drop, Lifecycle!FailOverdue, Outcomes, TypeOK
  <2> QED
    BY <2>1, <2>2, <2>3
<1> QED
  BY <1>1, InvariantHolds, PTL DEF Spec, UnheldOutcomeIsFinal

\* No job is ever executed by two lanes at once.
THEOREM Exclusive == Spec => []ExclusiveExecution
  BY InvariantHolds, PTL DEF QueueInvariant

\* A job the queue guard timed out was never executed and is not executing.
THEOREM TimedOutJobsNeverRan == Spec => []TimedOutNeverRan
  BY InvariantHolds, PTL DEF QueueInvariant

\* A completed job always leads to a result row.
THEOREM CompletedJobsHaveResults == Spec => []CompletedHasResult
  BY InvariantHolds, PTL DEF QueueInvariant
=============================================================================
