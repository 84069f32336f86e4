SPECIFICATION Spec
CONSTANTS
    alice = alice
    bob = bob
    oracle = oracle
    escrow = escrow
    Address = {alice, oracle, escrow}
    Contract = escrow
    Token = token
    Absent = absent
    Admins = {alice}
    Gateways = {oracle}
    Payees = {alice, escrow}
    Repo = {org_repo}
    ValidRepo = {org_repo}
    Username = {dev}
    PrNumber = {1}
    Points = {0, 1}
    Amount = {0, 1}
    Cap = {}
    NoCap = NoCap
    MaxI128 = 3
    MaxPrograms = 2
    MaxFunded = 2
    Rich = {alice}
    Supply <- MCSupply
INVARIANT Solvent
PROPERTY RecordsPermanent
