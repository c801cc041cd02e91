SPECIFICATION Spec
CONSTANTS
  None = None
  Scenarios <- ClaudeDirectories
  FileSystems <- SomeFileSystems
  Streams <- ShortStreams
INVARIANTS
  DirectoriesBounded
CHECK_DEADLOCK FALSE
