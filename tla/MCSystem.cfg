SPECIFICATION SystemSpec
CONSTANTS
    org_repo = org_repo
    dev = dev
    alice = alice
    Sent = {"first", "next", "closed"}
    Delivery <- MCDelivery
    Worker = {w1}
    MaxSends = 1
    MaxFaults = 0
    NoDelivery = NoDelivery
    Repo = {org_repo}
    ValidRepo = {org_repo}
    OnChainId = {1, 2}
    Account = {wallet, purse}
    ValidAccount = {wallet, purse}
    User = {dev}
    PrNumber = {1, 2}
    Reward = {1}
    Cap = {}
    NoCap = NoCap
    NoId = NoId
    AdminKey = TRUE
    Address = {alice, wallet, purse, oracle, escrow}
    Contract = escrow
    Token = token
    Absent = absent
    Maintainer = {alice}
    Oracle = oracle
    Funding = {2}
    MaxI128 = 3
    MaxPrograms = 1
    MaxFunded = 2
    Supply <- MCSupply
    NotRead = NotRead
SYMMETRY Symmetric
INVARIANT PaidWasAttested
INVARIANT SpentIsListed
INVARIANT WalletIsListed
 
