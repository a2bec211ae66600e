SPECIFICATION DeploymentSpec
CONSTANTS
  Foreign = {"o3"}
  NoPlan = NoPlan
  MaxPeriod = 2
  Releases <- MCReleases
  Rollouts <- MCRollouts
  Operations <- MCOperations
  inputs <- MCInputs
INVARIANTS LanesSound ReadyIsCovered
