\* The recording-retention script after a successful deployment.
CONSTANTS
    d1 = d1
    d2 = d2
    d3 = d3
    NoDep = NoDep
    Deployments = {d1}
    Versions = {1, 2}
    VersionOf <- DeployTwoThenRollBack
    Rollbacks = {}
SPECIFICATION Spec
INVARIANTS
    SuccessInstallsScript
