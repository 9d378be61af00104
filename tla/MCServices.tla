----------------------------- MODULE MCServices -----------------------------
(* Three parts of the backend that share no state, one of which is taken in   *)
(* a behaviour: the repair engine, the operations summary, a rate limiter.    *)
EXTENDS RepairEngine, Operations, RateLimits

VARIABLE part

\* A lint failure that names auth, a format violation, a renamed symbol, tests
\* that fail for reasons no rule knows, and an advisory.
MCFailureLists ==
  LET lint == Failure({3, 9}, TRUE)   format == Failure({4}, TRUE)
      name == Failure({8}, FALSE)     odd == Failure({}, TRUE)
      auth == Failure({9}, TRUE)      import == Failure({1, 2, 10}, TRUE)
  IN  {<<lint, format, odd>>, <<name, import, format>>, <<odd, auth, lint>>}

MCSymmetry == Permutations(Jobs)

MCInit == /\ part \in {"repair", "operations", "limits"}
          /\ RepairInit /\ OpsInit /\ LimitInit
          /\ part # "repair" => engine = CHOOSE e \in [mode : EngineModes, auto_apply_classes : AutoApplySets,
                                                       run_validation : BOOLEAN] : TRUE
          /\ part # "repair" => todo = <<Failure({3, 9}, TRUE), Failure({4}, TRUE), Failure({}, TRUE)>>

\* Operations go on until a summary is shown, which they do not depend on.
MCNext == \/ part = "repair" /\ RepairNext /\ UNCHANGED <<part, opsVars, limitVars>>
          \/ part = "operations" /\ shown = NoSummary /\ OpsNext /\ UNCHANGED <<part, repairVars, limitVars>>
          \/ part = "limits" /\ LimitNext /\ UNCHANGED <<part, repairVars, opsVars>>

MCSpec == MCInit /\ [][MCNext]_<<part, repairVars, opsVars, limitVars>>
=============================================================================
