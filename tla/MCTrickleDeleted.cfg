\* A message deleted although its datapoints never reached the OSD server.
CONSTANTS
  Msg = {m1, m2}
  Name = {"cpu", "wu1", "wu2"}
  Desc = {"1 core", "2 cores", "workunit"}
  DescOf <- MCDescOf
  Workunit = "workunit"
  Legacy = {"wu1"}
  Id = {i1, i2, i3, i4}
  Unknown = Unknown
  NoName = NoName
  MaxFailures = 2
  MaxCrashes = 1
SYMMETRY Symmetric
SPECIFICATION Spec
INVARIANTS DeletedWasUploaded
CHECK_DEADLOCK FALSE
