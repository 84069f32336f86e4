SPECIFICATION FairSpec
CONSTANTS
    org_repo = org_repo
    dev = dev
    Sent = {"first", "bare", "next", "odd"}
    Delivery <- MCDelivery
    Worker = {w1, w2}
    MaxSends = 1
    MaxFaults = 0
    NoDelivery = NoDelivery
    Repo = {org_repo}
    ValidRepo = {org_repo}
    OnChainId = {1}
    Account = {wallet}
    ValidAccount = {wallet}
    User = {dev}
    PrNumber = {1, 2}
    Reward = {1}
    Cap = {}
    NoCap = NoCap
    NoId = NoId
    AdminKey = TRUE
PROPERTY MergePaid
