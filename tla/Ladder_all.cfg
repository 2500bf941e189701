\* Settings, edits, starts, pauses, launches and restarts of the publisher.
SPECIFICATION Spec
CONSTANTS
  Files <- MCFiles
  Envs <- MCEnvs
  Names <- MCNames
  Hardware <- MCHardware
  MaxEdits = 1
  MaxStarts = 2
  MaxPauses = 1
INVARIANTS
  TargetsGetTheirLevel
  
  PublishedIsWhatIsSet
