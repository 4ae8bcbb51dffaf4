\* A deployment and a rollback at once.
CONSTANTS
    d1 = d1
    d2 = d2
    d3 = d3
    NoDep = NoDep
    Deployments = {d2, d3}
    Versions = {1, 2}
    VersionOf <- DeployTwoThenRollBack
    Rollbacks = {d3}
SPECIFICATION Spec
INVARIANTS
    RollbackIsDeployed
