CONSTANTS
  Manager = {"boinc"}
  ManagerSeq <- MilestoneManagerSeq
  Sensor = {"result"}
  SensorSeq <- MilestoneSensorSeq
  BoincManager = "boinc"
  UpdateFirst = {}
  MaxTaken = 1
  Milestones = 3
  Seconds = 2
  DefaultMilestones = 2
  DefaultSeconds = 1
  Ticks = {1, 3}
  MaxCrashes = 2
  MaxForgotten = 2
SPECIFICATION FairSpec
INVARIANTS NothingSkipped RepeatedOnlyByCrash
PROPERTIES ImplementsWorkUnit
