\* m2 finds the groups as the failures and the crash of m1 left them.
CONSTANTS
  Msg = {m1, m2}
  Name = {"cpu", "wu1", "wu2"}
  Desc = {"1 core", "2 cores", "workunit"}
  DescOf <- MCDescOf
  Workunit = "workunit"
  Legacy = {"wu1"}
  Id = {i1, i2, i3, i4}
  Unknown = Unknown
  NoName = NoName
  MaxFailures = 2
  MaxCrashes = 1
SYMMETRY Symmetric
SPECIFICATION Spec
INVARIANTS UploadedUnderOwnName NothingLostWithoutFailure UploadedOnce
PROPERTIES KnownSensorsKept
CHECK_DEADLOCK FALSE
