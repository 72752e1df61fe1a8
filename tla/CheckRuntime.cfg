SPECIFICATION FairSpec
CONSTANTS
  Procs <- SafetyProcs
  Serves <- SafetyServes
  Nobody = Nobody
INVARIANTS
  TypeOK
  SocksUndisturbed
  AutomaticYields
  OneDiagnosis
PROPERTIES
  NothingStartsAhead
