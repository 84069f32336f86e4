SPECIFICATION Spec
CONSTANTS
    org_repo = org_repo
    dev = dev
    Sent = {"first"}
    Delivery <- MCDelivery
    Worker = {w1}
    MaxSends = 1
    MaxFaults = 0
    NoDelivery = NoDelivery
    Repo = {org_repo}
    ValidRepo = {org_repo}
    OnChainId = {1}
    Account = {wallet}
    ValidAccount = {wallet}
    User = {dev}
    PrNumber = {1}
    Reward = {1}
    Cap = {}
    NoCap = NoCap
    NoId = NoId
    AdminKey = TRUE
INVARIANT PayoutAcknowledged
