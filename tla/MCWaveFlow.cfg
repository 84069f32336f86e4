SPECIFICATION WaveFlowSpec
CONSTANTS
    org_repo = org_repo
    dev = dev
    alice = alice
    Sent = {"first", "bare"}
    Delivery <- MCDelivery
    Worker = {w1, w2}
    MaxSends = 1
    MaxFaults = 2
    NoDelivery = NoDelivery
    Repo = {org_repo}
    ValidRepo = {org_repo}
    OnChainId = {1}
    Account = {wallet}
    ValidAccount = {wallet}
    User = {dev}
    PrNumber = {1}
    Reward = {1, 2}
    Cap = {}
    NoCap = NoCap
    NoId = NoId
    AdminKey = TRUE
    Address = {alice, wallet, oracle, escrow}
    Contract = escrow
    Token = token
    Absent = absent
    Maintainer = {alice}
    Oracle = oracle
    Funding = {2}
    MaxI128 = 3
    MaxPrograms = 1
    MaxFunded = 2
    Supply <- MCSupply
SYMMETRY Symmetric
INVARIANT PaymentsRecorded
 
 
 
