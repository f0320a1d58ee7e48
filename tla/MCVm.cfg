SPECIFICATION MCSpec
CONSTANTS
  MaxCallDepth = 2
  MaxDepth = 2
  MaxGroup = 3
  Tasks = {"a", "b", "c"}
  None = none
INVARIANTS
  TypeOK RegistrySound ActivationsIsolated PortableProgramsAgree BodiesAgree
  ModulesLoad CollectionIsExact ApplicationConfined HostsServed NetworkIsOrderly CheckedProgramsHold
PROPERTIES
  CloseAllClears FinalIsFinal GroupSettles
