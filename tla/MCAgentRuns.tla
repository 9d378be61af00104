----------------------------- MODULE MCAgentRuns -----------------------------
EXTENDS AgentRuns, TLC

Symmetry == Permutations(Clients)
=============================================================================
