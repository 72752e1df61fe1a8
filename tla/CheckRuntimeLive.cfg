SPECIFICATION FairSpec
CONSTANTS
  Procs <- LiveProcs
  Serves <- LiveServes
  Nobody = Nobody
PROPERTIES
  EverythingFinishes
