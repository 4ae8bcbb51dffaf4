\* Three attempts in turn, or two of different versions at once.
CONSTANTS
    d1 = d1
    d2 = d2
    d3 = d3
    NoDep = NoDep
    Deployments = {d1, d2, d3}
    Versions = {1, 2}
    VersionOf <- DeployTwoThenRollBack
    Rollbacks = {d3}
SPECIFICATION BothSpec
INVARIANTS
    DeploymentInv
    SuccessIsLive
    FailureIsShown
    DeployedWasReloaded
    MarkerTellsAsterisk
    AuditAgrees
    DashboardAgrees
