SPECIFICATION FairSpec
CONSTANTS
  Procs = {p1, p2, p3}
  Nobody = Nobody
  Events = {"grow", "cached", "race"}
PROPERTIES OpenFinishes
