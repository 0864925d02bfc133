------------------------ MODULE MCOrchestrationEngine ------------------------
\* The orchestration engine with interchangeable commands, callers, projectors.
EXTENDS OrchestrationEngine, TLC

Symmetry ==
  Permutations(Commands) \cup Permutations(Callers) \cup Permutations(Projectors)
=============================================================================
