CONSTANTS
  Manager = {"boinc", "cpu", "users"}
  ManagerSeq <- PipelineManagerSeq
  Sensor = {"result", "load", "user"}
  SensorSeq <- PipelineSensorSeq
  BoincManager = "boinc"
  UpdateFirst = {"cpu"}
  MaxTaken = 2
  Milestones = 2
  Seconds = 1
  Ticks = {1, 2}
  DefaultMilestones = 1
  DefaultSeconds = 1
  MaxCrashes = 1
  MaxForgotten = 0
SPECIFICATION Spec
INVARIANTS NoSilentGap
PROPERTIES SilentAfterError
