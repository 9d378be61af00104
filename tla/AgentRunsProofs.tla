--------------------------- MODULE AgentRunsProofs ---------------------------
(***************************************************************************)
(* What a section shows happened, for any number of sections, runs and     *)
(* requests in flight: a run's outcome is written once, by its only task,  *)
(* so an answer that was true when it was read stays true on its way.      *)
(***************************************************************************)
EXTENDS AgentRuns, SequenceTheorems, TLAPS

USE BoundsAssumption

\* Views that are sound stay so while rows are kept and outcomes final.
LEMMA SoundKept ==
  ASSUME NEW view \in Views, Sound(view), DOMAIN status \subseteq DOMAIN status',
         \A r \in DOMAIN status : status[r] \in Outcomes => status'[r] = status[r]
  PROVE  Sound(view)'
  BY DEF Sound

\* A step that keeps rows and final outcomes keeps every view in sight sound if
\* each new view is an old one or sound.
LEMMA ViewsKept ==
  ASSUME RunsInvariant, DOMAIN status \subseteq DOMAIN status',
         \A r \in DOMAIN status : status[r] \in Outcomes => status'[r] = status[r],
         UNCHANGED clientVars
  PROVE  ShownHappened' /\ AnswersHappened'
<1>1. \A view \in Views : Sound(view) => Sound(view)'
  BY SoundKept
<1> QED
  BY <1>1 DEF RunsInvariant, TypeOK, ShownHappened, AnswersHappened, clientVars, Sound

\* The section starts with nothing in sight.
THEOREM InvariantInit == Init => RunsInvariant
  BY DEF Init, RunsInvariant, TypeOK, ShownHappened, AnswersHappened, TasksAreOpen,
         Sound, Views, Requests, Nothing, Free, Sent

\* Requests without an answer say nothing.
LEMMA FreeAndSent ==
  /\ Nothing \in Views /\ Nothing.run = 0
  /\ Free \in Requests /\ Free.view = Nothing
  /\ Sent \in Requests /\ Sent.view = Nothing
  BY DEF Views, Requests, Nothing, Free, Sent

\* A committed row is the last one, and its task waits.
LEMMA NewRow ==
  ASSUME TypeOK, NEW c \in Clients, CreateRun(c)
  PROVE  /\ Len(status') = Len(status) + 1 /\ Len(task') = Len(status')
         /\ status' \in Seq(Statuses)
         /\ task' \in Seq({"pending", "working", "over", "lost"})
         /\ \A r \in DOMAIN status : status'[r] = status[r] /\ task'[r] = task[r]
         /\ status'[Len(status')] = "queued"
<1>1. /\ status \in Seq(Statuses) /\ "queued" \in Statuses
      /\ task \in Seq({"pending", "working", "over", "lost"})
      /\ Len(task) = Len(status)
  BY DEF TypeOK, Statuses
<1>2. status' = Append(status, "queued") /\ task' = Append(task, "pending")
  BY DEF CreateRun
<1>3. Len(status) \in Nat
  BY <1>1, LenProperties
<1>4. \A r \in DOMAIN status : r \in 1 .. Len(status) /\ r \in 1 .. Len(task)
  BY <1>1, LenProperties
<1> QED
  BY <1>1, <1>2, <1>3, <1>4, AppendProperties

\* Rewriting one element of a sequence keeps its length and the other elements.
LEMMA OneElement ==
  ASSUME NEW S, NEW s \in Seq(S), NEW i \in DOMAIN s, NEW x \in S,
         NEW t, t = [s EXCEPT ![i] = x]
  PROVE  /\ t \in Seq(S) /\ Len(t) = Len(s) /\ DOMAIN t = DOMAIN s
         /\ t[i] = x /\ \A j \in DOMAIN s : j # i => t[j] = s[j]
  BY ExceptSeq

-----------------------------------------------------------------------------

\* The server and the sections keep the invariant.
THEOREM InvariantStep == RunsInvariant /\ [Next]_vars => RunsInvariant'
<1> SUFFICES ASSUME RunsInvariant, [Next]_vars PROVE RunsInvariant'
  OBVIOUS
<1> USE DEF RunsInvariant
<1> DEFINE Tasks == {"pending", "working", "over", "lost"}
<1>d. /\ DOMAIN status = 1 .. Len(status) /\ DOMAIN task = DOMAIN status
      /\ Len(status) \in Nat
  BY LenProperties DEF TypeOK
<1>1. ASSUME NEW r \in DOMAIN status, StartRun(r) PROVE RunsInvariant'
  <2>1. /\ status' \in Seq(Statuses) /\ Len(status') = Len(status)
        /\ DOMAIN status' = DOMAIN status /\ status'[r] = "running"
        /\ \A q \in DOMAIN status : q # r => status'[q] = status[q]
    BY <1>1, OneElement DEF StartRun, TypeOK, Statuses
  <2>2. /\ task' \in Seq(Tasks) /\ Len(task') = Len(task)
        /\ \A q \in DOMAIN status : q # r => task'[q] = task[q]
    BY <1>1, <1>d, OneElement DEF StartRun, TypeOK
  <2>3. TypeOK'
    BY <1>1, <2>1, <2>2 DEF TypeOK, StartRun, clientVars
  <2>4. ShownHappened' /\ AnswersHappened'
    BY <1>1, <2>1, ViewsKept DEF StartRun, TasksAreOpen
  <2>5. TasksAreOpen'
    BY <2>1, <2>2 DEF TasksAreOpen, Outcomes
  <2> QED
    BY <2>3, <2>4, <2>5
<1>2. ASSUME NEW r \in DOMAIN status, FinishRun(r) PROVE RunsInvariant'
  <2>0. PICK outcome \in Outcomes : status' = [status EXCEPT ![r] = outcome]
    BY <1>2 DEF FinishRun
  <2>1. /\ status' \in Seq(Statuses) /\ Len(status') = Len(status)
        /\ DOMAIN status' = DOMAIN status
        /\ \A q \in DOMAIN status : q # r => status'[q] = status[q]
    BY <2>0, OneElement DEF TypeOK, Statuses
  <2>2. /\ task' \in Seq(Tasks) /\ Len(task') = Len(task) /\ task'[r] = "over"
        /\ \A q \in DOMAIN status : q # r => task'[q] = task[q]
    BY <1>2, <1>d, OneElement DEF FinishRun, TypeOK
  <2>3. TypeOK'
    BY <1>2, <2>1, <2>2 DEF TypeOK, FinishRun, clientVars
  <2>4. ShownHappened' /\ AnswersHappened'
    BY <1>2, <2>1, ViewsKept DEF FinishRun, TasksAreOpen
  <2>5. TasksAreOpen'
    BY <2>1, <2>2 DEF TasksAreOpen
  <2> QED
    BY <2>3, <2>4, <2>5
<1>3. ASSUME NEW r \in DOMAIN status, LoseTask(r) PROVE RunsInvariant'
  <2>1. /\ task' \in Seq(Tasks) /\ Len(task') = Len(task) /\ task'[r] = "lost"
        /\ \A q \in DOMAIN status : q # r => task'[q] = task[q]
    BY <1>3, <1>d, OneElement DEF LoseTask, TypeOK
  <2>2. TypeOK'
    BY <1>3, <2>1 DEF TypeOK, LoseTask, clientVars
  <2>3. ShownHappened' /\ AnswersHappened'
    BY <1>3, ViewsKept DEF LoseTask
  <2>4. TasksAreOpen'
    BY <1>3, <2>1 DEF TasksAreOpen, LoseTask
  <2> QED
    BY <2>2, <2>3, <2>4
<1>4. CASE Crash
  <2>1. task' \in [1 .. Len(status) -> Tasks]
    BY <1>4, <1>d DEF Crash
  <2>2. task' \in Seq(Tasks) /\ Len(task') = Len(status)
    BY <2>1, <1>d, SeqDef, LenProperties
  <2>3. TypeOK'
    BY <1>4, <2>2 DEF TypeOK, Crash, clientVars
  <2>4. ShownHappened' /\ AnswersHappened'
    BY <1>4, ViewsKept DEF Crash
  <2>5. TasksAreOpen'
    BY <1>4, <1>d DEF TasksAreOpen, Crash
  <2> QED
    BY <2>3, <2>4, <2>5
<1>5. ASSUME NEW c \in Clients, TriggerRun(c) PROVE RunsInvariant'
  <2>1. /\ Len(status') = Len(status) + 1 /\ Len(task') = Len(status')
        /\ status' \in Seq(Statuses) /\ task' \in Seq(Tasks)
        /\ \A r \in DOMAIN status : status'[r] = status[r] /\ task'[r] = task[r]
        /\ status'[Len(status')] = "queued"
    BY <1>5, NewRow DEF TriggerRun
  <2>2. DOMAIN status' = 1 .. Len(status) + 1 /\ DOMAIN status \subseteq DOMAIN status'
    BY <2>1, <1>d, LenProperties
  <2>3. PICK view \in [run : RunIds, status : Statuses] :
           /\ view.run = Len(status') /\ view.status = "queued"
           /\ trigger' = [trigger EXCEPT ![c] = [pc |-> "answered", view |-> view]]
    <3>1. Len(status') \in RunIds
      BY <1>5, <1>d, <2>1 DEF TriggerRun, RunIds
    <3>2. [run |-> Len(status'), status |-> "queued"] \in [run : RunIds, status : Statuses]
      BY <3>1 DEF Statuses
    <3> QED
      BY <1>5, <3>2 DEF TriggerRun, CreateRun
  <2>4. view \in Views /\ [pc |-> "answered", view |-> view] \in Requests
    BY <2>3 DEF Views, Requests
  <2>5. Sound(view)'
    BY <2>2, <2>1, <2>3 DEF Sound, Outcomes
  <2>6. TypeOK'
    BY <1>5, <1>d, <2>1, <2>3, <2>4 DEF TypeOK, TriggerRun
  <2>7. \A v \in Views : Sound(v) => Sound(v)'
    BY <2>1, <2>2, SoundKept
  <2>8. ShownHappened'
    BY <1>5, <2>7 DEF TypeOK, TriggerRun, ShownHappened, Sound
  <2>9. AnswersHappened'
    <3> SUFFICES ASSUME NEW b \in Clients
                 PROVE  /\ Sound(trigger[b].view)'
                        /\ \A i \in Calls : Sound(call[b][i].view)'
      BY DEF AnswersHappened
    <3>1. \A i \in Calls : Sound(call[b][i].view)'
      BY <1>5, <2>7 DEF TypeOK, Requests, TriggerRun, AnswersHappened, Sound
    <3>2. CASE b = c
      <4>1. trigger'[b].view = view
        BY <2>3, <3>2 DEF TypeOK
      <4> QED
        BY <2>5, <3>1, <4>1 DEF Sound
    <3>3. CASE b # c
      <4>1. trigger'[b] = trigger[b] /\ trigger[b].view \in Views
        BY <2>3, <3>3 DEF TypeOK, Requests
      <4> QED
        BY <2>7, <3>1, <4>1 DEF AnswersHappened, Sound
    <3> QED
      BY <3>2, <3>3
  <2>10. TasksAreOpen'
    BY <1>d, <2>1, <2>2 DEF TasksAreOpen, Outcomes
  <2> QED
    BY <2>6, <2>8, <2>9, <2>10
<1>6. ASSUME NEW c \in Clients,
             Press(c) \/ ShowTriggered(c) \/ ShowError(c) \/ Ask(c)
      PROVE  RunsInvariant'
  <2>1. UNCHANGED <<status, task>>
    BY <1>6 DEF Press, ShowTriggered, ShowError, Ask, serverVars
  <2>2. \/ UNCHANGED shown
        \/ shown' = [shown EXCEPT ![c] = trigger[c].view]
    BY <1>6 DEF Press, ShowTriggered, ShowError, Ask
  <2>3. \/ UNCHANGED trigger
        \/ \E request \in {Free, Sent} : trigger' = [trigger EXCEPT ![c] = request]
    BY <1>6 DEF Press, ShowTriggered, ShowError, Ask
  <2>4. \/ UNCHANGED call
        \/ \E i \in Calls : call' = [call EXCEPT ![c][i] = Sent]
    BY <1>6 DEF Press, ShowTriggered, ShowError, Ask
  <2>5. TypeOK'
    <3>1. shown' \in [Clients -> Views]
      BY <2>2 DEF TypeOK, Requests
    <3>2. trigger' \in [Clients -> Requests]
      BY <2>3, FreeAndSent DEF TypeOK
    <3>3. call' \in [Clients -> [Calls -> Requests]]
      <4>1. CASE UNCHANGED call
        BY <4>1 DEF TypeOK
      <4>2. ASSUME NEW i \in Calls, call' = [call EXCEPT ![c][i] = Sent]
            PROVE  call' \in [Clients -> [Calls -> Requests]]
        BY <4>2, FreeAndSent DEF TypeOK
      <4> QED
        BY <2>4, <4>1, <4>2
    <3> QED
      BY <2>1, <3>1, <3>2, <3>3 DEF TypeOK
  <2>6. ShownHappened'
    BY <2>1, <2>2 DEF TypeOK, ShownHappened, AnswersHappened, Sound
  <2>7. \A b \in Clients : Sound(trigger[b].view)'
    BY <2>1, <2>3, FreeAndSent DEF TypeOK, AnswersHappened, Sound
  <2>8. \A b \in Clients, i \in Calls : Sound(call[b][i].view)'
    <3> SUFFICES ASSUME NEW b \in Clients, NEW i \in Calls PROVE Sound(call[b][i].view)'
      OBVIOUS
    <3>1. call'[b][i] = call[b][i] \/ call'[b][i] = Sent
      BY <2>4 DEF TypeOK
    <3> QED
      BY <2>1, <3>1, FreeAndSent DEF AnswersHappened, Sound
  <2>9. TasksAreOpen'
    BY <2>1 DEF TasksAreOpen
  <2> QED
    BY <2>5, <2>6, <2>7, <2>8, <2>9 DEF AnswersHappened
<1>7. ASSUME NEW c \in Clients, NEW i \in Calls,
             ReadLatest(c, i) \/ Show(c, i) \/ Ignore(c, i)
      PROVE  RunsInvariant'
  <2> DEFINE latest == IF status = <<>> THEN Nothing
                       ELSE [run |-> Len(status), status |-> status[Len(status)]]
  <2>1. latest \in Views /\ Sound(latest)
    <3>1. CASE status = <<>>
      BY <3>1 DEF Views, Nothing, Sound
    <3>2. CASE status # <<>>
      <4>1. Len(status) \in DOMAIN status /\ status[Len(status)] \in Statuses
        BY <1>d, <3>2, EmptySeq, LenProperties DEF TypeOK
      <4>2. Len(status) \in RunIds
        BY <1>d, <4>1 DEF TypeOK, RunIds
      <4> QED
        BY <3>2, <4>1, <4>2 DEF Views, Sound
    <3> QED
      BY <3>1, <3>2
  <2>2. \/ call' = [call EXCEPT ![c][i] = [pc |-> "answered", view |-> latest]]
        \/ call' = [call EXCEPT ![c][i] = Free]
    BY <1>7 DEF ReadLatest, Show, Ignore
  <2>3. \/ UNCHANGED shown
        \/ shown' = [shown EXCEPT ![c] = call[c][i].view]
    BY <1>7 DEF ReadLatest, Show, Ignore, TypeOK
  <2>4. UNCHANGED <<status, task, trigger>>
    BY <1>7 DEF ReadLatest, Show, Ignore, serverVars
  <2> HIDE DEF latest
  <2>5. PICK request \in Requests :
           /\ Sound(request.view)
           /\ call' = [call EXCEPT ![c][i] = request]
    <3>1. [pc |-> "answered", view |-> latest] \in Requests
      BY <2>1 DEF Requests
    <3>2. Sound(Free.view)
      BY FreeAndSent DEF Sound
    <3> QED
      BY <2>1, <2>2, <3>1, <3>2, FreeAndSent
  <2>6. TypeOK'
    <3>1. shown' \in [Clients -> Views]
      BY <2>3 DEF TypeOK, Requests
    <3>2. call' \in [Clients -> [Calls -> Requests]]
      BY <2>5 DEF TypeOK
    <3> QED
      BY <2>4, <3>1, <3>2 DEF TypeOK
  <2>7. ShownHappened'
    <3> SUFFICES ASSUME NEW b \in Clients PROVE Sound(shown[b])'
      BY DEF ShownHappened
    <3>1. shown'[b] = shown[b] \/ shown'[b] = call[c][i].view
      BY <2>3 DEF TypeOK
    <3> QED
      BY <2>4, <3>1 DEF ShownHappened, AnswersHappened, Sound
  <2>8. AnswersHappened'
    <3> SUFFICES ASSUME NEW b \in Clients
                 PROVE  /\ Sound(trigger[b].view)'
                        /\ \A k \in Calls : Sound(call[b][k].view)'
      BY DEF AnswersHappened
    <3>1. \A k \in Calls : call'[b][k] = call[b][k] \/ call'[b][k] = request
      BY <2>5 DEF TypeOK
    <3> QED
      BY <2>4, <2>5, <3>1 DEF AnswersHappened, Sound
  <2>9. TasksAreOpen'
    BY <2>4 DEF TasksAreOpen
  <2> QED
    BY <2>6, <2>7, <2>8, <2>9
<1>8. CASE UNCHANGED vars
  BY <1>8 DEF vars, TypeOK, ShownHappened, AnswersHappened, TasksAreOpen, Sound
<1> QED
  BY <1>1, <1>2, <1>3, <1>4, <1>5, <1>6, <1>7, <1>8 DEF Next

\* The invariant holds in every reachable state.
THEOREM InvariantHolds == Spec => []RunsInvariant
  BY InvariantInit, InvariantStep, PTL DEF Spec

\* An outcome a section shows is the outcome of that run.
THEOREM ShownOutcomesHappened == Spec => []ShownHappened
  BY InvariantHolds, PTL DEF RunsInvariant
=============================================================================
