SPECIFICATION MonitorSpec
CONSTANTS
  Profiles <- MCProfiles
  RunCap = 4
  Unit = 10
  Grain = 1000
  Radios <- MCRadios
  Answers <- MCAnswers
  Away = 700
  Patience = 27
INVARIANTS
  MonitorTypeOK
  AmongLosses
  Noticed
  CountIsRun
  WantFitsPhase
PROPERTY
  SwitchesAreEarned
