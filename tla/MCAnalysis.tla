----------------------------- MODULE MCAnalysis -----------------------------
(* The two analyses whose results a page shows beside the architecture: the   *)
(* onboarding tabs and the deep scan. They share no state, and a behaviour    *)
(* takes the steps of one of them.                                            *)
EXTENDS MCOnboarding, MCIntelligence

VARIABLE part

MCTabs == part = "tabs" /\ Next /\ UNCHANGED <<part, scanVars>>
MCScan == part = "scan" /\ ScanNext /\ UNCHANGED <<part, vars>>

MCInit == /\ part \in {"tabs", "scan"}
          /\ Init /\ ScanInit
          /\ part = "tabs" => tree = Tidy
          /\ part = "scan" => repo = {}

MCNext == MCTabs \/ MCScan
MCSpec == MCInit /\ [][MCNext]_<<part, vars, scanVars>>
=============================================================================
