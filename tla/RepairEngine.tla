---------------------------- MODULE RepairEngine ----------------------------
(* services/repair_engine.py: failures are classified, patched by a language  *)
(* model, validated, proposed, decided on by a human and applied.             *)
(*                                                                            *)
(* A failure is the set of classification rules its text matches, with the    *)
(* file it names. Titles, evidence and diffs are left out: a patch is the     *)
(* number of lines it changes. Confidence is in percent.                      *)
EXTENDS Integers, Sequences, FiniteSets, TLC

CONSTANTS
    FailureLists,   \* what analyze may be called with: sequences of failures
    PatchSizes,     \* lines a diff of the model may change
    EngineModes,    \* modes the engine may be configured with
    AutoApplySets,  \* classes it may be told to apply by itself
    MaxProposals

CONFIDENCE_BRANCH_PATCH == 90
CONFIDENCE_SUGGESTION == 70

NEVER_AUTO_PATCH == {"auth_logic", "payment_logic", "concurrency_bug", "security_sensitive",
                     "data_migration", "architectural", "ambiguous"}
NO_PATCH_CLASSES == NEVER_AUTO_PATCH \cup {"test_expectation_mismatch", "complex_refactor"}

\* The rules its text matches, and whether it names a file.
Failure(rules, has_file) == [rules |-> rules, has_file |-> has_file]

CLASSIFICATION_RULES ==
  << <<"broken_import", 95>>, <<"broken_import", 92>>, <<"lint_failure", 90>>, <<"format_violation", 95>>,
     <<"missing_dependency", 88>>, <<"config_mismatch", 85>>, <<"stale_type_import", 88>>,
     <<"renamed_symbol", 75>>, <<"auth_logic", 85>>, <<"security_sensitive", 95>>, <<"data_migration", 90>> >>

Failures == [rules : SUBSET (1..11), has_file : BOOLEAN]

ASSUME RepairAssumption ==
  /\ MaxProposals \in Nat
  /\ FailureLists \subseteq Seq(Failures)
  /\ PatchSizes \subseteq Nat \ {0}

\* The most confident rule, the first of several.
Classify(failure) ==
  LET rules == failure.rules
      best  == {r \in rules : \A s \in rules : CLASSIFICATION_RULES[s][2] <= CLASSIFICATION_RULES[r][2]}
  IN  IF rules = {} THEN <<"ambiguous", 0>>
      ELSE CLASSIFICATION_RULES[CHOOSE r \in best : \A s \in best : r <= s]

MAX_EDIT_LINES ==
  [c \in {"missing_dependency", "missing_route_export", "env_var_undocumented"} |-> 5] @@
  [c \in {"broken_import", "stale_type_import", "renamed_symbol"} |-> 10] @@
  [config_mismatch |-> 15, lockfile_drift |-> 20, dead_code |-> 20, lint_failure |-> 30,
   format_violation |-> 200, ambiguous_import |-> 0]

NoPatch == 0

\* What PatchGenerator.generate may return: nothing, also when the model
\* declines or fails, or a diff within the limit of the class.
Patches(class, confidence) ==
  IF class \in NO_PATCH_CLASSES \/ confidence < CONFIDENCE_SUGGESTION THEN {NoPatch}
  ELSE {NoPatch} \cup {n \in PatchSizes : n <= MAX_EDIT_LINES[class]}

\* What ValidationRunner.validate may return. A patch that does not apply ends
\* it, and so does an exception, such as tests that take too long.
Validation(applies, lint, tests) == [applies |-> applies, lint |-> lint, tests |-> tests]
Validations == {Validation(FALSE, FALSE, FALSE)} \cup
               {Validation(TRUE, lint, tests) : lint \in BOOLEAN, tests \in BOOLEAN}
Passed(v) == v.applies /\ v.lint /\ v.tests

LOW_RISK == {"format_violation", "lint_failure", "broken_import", "missing_dependency",
             "config_mismatch", "stale_type_import", "env_var_undocumented"}
MEDIUM_RISK == {"missing_route_export", "lockfile_drift", "renamed_symbol", "dead_code"}
RiskOf(class) == IF class \in LOW_RISK THEN "low" ELSE IF class \in MEDIUM_RISK THEN "medium" ELSE "high"

VARIABLES
    engine,      \* its configuration: mode and classes to apply by itself
    todo,        \* failures analyze has still to look at
    work,        \* the failure being patched: a set of at most one
    stage,       \* analyze: running, returned or raised
    proposals    \* what was proposed

repairVars == <<engine, todo, work, stage, proposals>>

RepairInit == /\ engine \in [mode : EngineModes, auto_apply_classes : AutoApplySets,
                             run_validation : BOOLEAN]
              /\ \E failures \in FailureLists :
                   todo = SubSeq(failures, 1, IF Len(failures) < MaxProposals THEN Len(failures) ELSE MaxProposals)
              /\ work = {}
              /\ stage = "running"
              /\ proposals = <<>>

\* Mutant of CappedConfidence: a failed validation leaves it as it was.
ConfidenceKept(confidence, validation) == confidence

CappedConfidence(confidence, validation) ==
  IF ~Passed(validation) /\ confidence > 65 THEN 65 ELSE confidence

\* Mutant of AutoEligible: the classes that are told are enough.
AutoByClass(class, confidence, validation) ==
  class \in engine.auto_apply_classes /\ engine.mode = "auto_apply"

AutoEligible(class, confidence, validation) ==
  /\ class \in engine.auto_apply_classes
  /\ engine.mode = "auto_apply"
  /\ confidence >= CONFIDENCE_BRANCH_PATCH
  /\ RiskOf(class) = "low"
  /\ Passed(validation)

\* _build_proposal of a patch that was validated. The affected file is the one
\* that the failure names: nobody counts those that the patch touches.
Proposal(failure, patch, validation) ==
  LET class      == Classify(failure)[1]
      confidence == CappedConfidence(Classify(failure)[2], validation)
  IN  [failure_class |-> class, confidence |-> confidence, proposed_patch |-> patch,
       validation_results |-> validation, risk_level |-> RiskOf(class),
       auto_apply_eligible |-> AutoEligible(class, confidence, validation),
       affected_files |-> IF failure.has_file THEN 1 ELSE 0,
       is_approved |-> FALSE, is_rejected |-> FALSE, is_applied |-> FALSE]

\* The schema refuses a proposal that is built with validation_results None, as
\* advisory ones are and those that were not patched or not validated: analyze
\* raises and returns none of its proposals.
Skipped(failure) == Classify(failure)[1] = "ambiguous" \/ Classify(failure)[2] < 60
Advisory(failure) == ~Skipped(failure) /\ Classify(failure)[1] \in NO_PATCH_CLASSES

Skip == /\ stage = "running" /\ work = {} /\ todo # <<>>
        /\ Skipped(Head(todo))
        /\ todo' = Tail(todo)
        /\ UNCHANGED <<engine, work, stage, proposals>>

Advise == /\ stage = "running" /\ work = {} /\ todo # <<>>
          /\ Advisory(Head(todo))
          /\ stage' = "raised"
          /\ proposals' = <<>>
          /\ UNCHANGED <<engine, todo, work>>

Generate == /\ stage = "running" /\ work = {} /\ todo # <<>>
            /\ ~Skipped(Head(todo)) /\ ~Advisory(Head(todo))
            /\ \E patch \in Patches(Classify(Head(todo))[1], Classify(Head(todo))[2]) :
                 IF patch = NoPatch \/ ~engine.run_validation
                 THEN stage' = "raised" /\ proposals' = <<>> /\ UNCHANGED <<todo, work>>
                 ELSE /\ work' = {[failure |-> Head(todo), patch |-> patch]}
                      /\ todo' = Tail(todo)
                      /\ UNCHANGED <<stage, proposals>>
            /\ UNCHANGED engine

\* Proposals are kept by confidence, those of equal confidence in order.
Insert(list, p) ==
  LET before == Cardinality({i \in DOMAIN list : list[i].confidence >= p.confidence})
  IN  SubSeq(list, 1, before) \o <<p>> \o SubSeq(list, before + 1, Len(list))

Validate == \E w \in work : \E v \in Validations :
              /\ stage = "running"
              /\ proposals' = Insert(proposals, Proposal(w.failure, w.patch, v))
              /\ work' = {}
              /\ UNCHANGED <<engine, todo, stage>>

Return == /\ stage = "running" /\ work = {} /\ todo = <<>>
          /\ stage' = "returned"
          /\ UNCHANGED <<engine, todo, work, proposals>>

\* The human decides by setting a flag, and may change their mind.
Decide(i, flag) == /\ stage = "returned"
                   /\ proposals' = [proposals EXCEPT ![i][flag] = TRUE]
                   /\ UNCHANGED <<engine, todo, work, stage>>

\* Apply in the modes that change something; otherwise it returns a Boolean.
Apply(i) == /\ stage = "returned"
            /\ proposals[i].is_approved
            /\ \/ engine.mode = "branch_patch"
               \/ engine.mode = "auto_apply" /\ proposals[i].auto_apply_eligible
            /\ proposals' = [proposals EXCEPT ![i].is_applied = TRUE]
            /\ UNCHANGED <<engine, todo, work, stage>>

RepairNext == \/ Skip \/ Advise \/ Generate \/ Validate \/ Return
              \/ \E i \in DOMAIN proposals : \/ Decide(i, "is_approved") \/ Decide(i, "is_rejected")
                                             \/ Apply(i)

RepairSpec == RepairInit /\ [][RepairNext]_repairVars

\* UIRepairSummary.from_proposal, as far as the panel depends on it.
Summary(p) ==
  [confidence_label |-> IF p.confidence >= 90 THEN "HIGH" ELSE IF p.confidence >= 70 THEN "MODERATE" ELSE "LOW",
   is_advisory_only |-> p.proposed_patch = NoPatch,
   validation_passed |-> Passed(p.validation_results),
   auto_apply_eligible |-> p.auto_apply_eligible]

(***************************************************************************)
(* Properties                                                              *)
(***************************************************************************)

\* Whatever classes an engine is told to apply by itself, one that applies by
\* itself has only ever applied patches of a class that may be patched, of low
\* risk, that passed every check.
AutoAppliedIsSafe ==
  \A i \in DOMAIN proposals :
    LET p == proposals[i]
    IN  p.is_applied /\ engine.mode = "auto_apply"
        => /\ p.failure_class \notin NEVER_AUTO_PATCH
           /\ p.risk_level = "low"
           /\ Passed(p.validation_results)

\* The panel earns its trust: a patch that it labels better than LOW passed all
\* checks, however sure the classification was and whichever check failed.
ConfidenceIsEarned ==
  \A i \in DOMAIN proposals :
    Summary(proposals[i]).confidence_label # "LOW" => Summary(proposals[i]).validation_passed
=============================================================================
