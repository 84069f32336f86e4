SPECIFICATION DeployedSpec
CONSTANTS
    alice = alice
    bob = bob
    oracle = oracle
    escrow = escrow
    Address = {alice, bob, oracle, escrow}
    Contract = escrow
    Token = token
    Absent = absent
    Admins = {alice}
    Gateways = {oracle}
    Payees = {bob, escrow}
    Repo = {org_repo, no_slash}
    ValidRepo = {org_repo}
    Username = {dev}
    PrNumber = {1, 2}
    Points = {1, 2}
    Amount = {1, 2}
    Cap = {1}
    NoCap = NoCap
    MaxI128 = 3
    MaxPrograms = 1
    MaxFunded = 2
    Rich = {alice, bob}
    Supply <- MCSupply
INVARIANT TypeOK
INVARIANT OnePayoutPerPr
INVARIANT MilestoneRespected
PROPERTY OutflowAccounted
PROPERTY TreasuryImplemented
