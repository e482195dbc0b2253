\* The sample of the preflight's specification: is a sample the preflight finds resolvable by mapping ingested?
SPECIFICATION CheckSpec
CONSTANTS
  KeyClass <- MCKeyClass
  Samples <- MCSamples
  Orgs = {1}
  MappingBodies <- MCMappingBodies
  OldFile <- MCOldFile
INVARIANT ResolvableIsIngested
CHECK_DEADLOCK FALSE
