SPECIFICATION Spec
CONSTANTS
    alice = alice
    bob = bob
    oracle = oracle
    escrow = escrow
    Address = {alice, oracle, escrow}
    Contract = escrow
    Token = token
    Absent = absent
    Admins = {alice}
    Gateways = {oracle}
    Payees = {alice}
    Repo = {org_repo}
    ValidRepo = {org_repo}
    Username = {dev}
    PrNumber = {1}
    Points = {1}
    Amount = {1}
    Cap = {}
    NoCap = NoCap
    MaxI128 = 3
    MaxPrograms = 1
    MaxFunded = 1
    Rich = {alice}
    Supply <- MCSupply
PROPERTY CounterMonotonic
