SPECIFICATION Spec
CONSTANTS
    org_repo = org_repo
    dev = dev
    Sent = {"first", "bare"}
    Delivery <- MCDelivery
    Worker = {w1, w2}
    MaxSends = 2
    MaxFaults = 2
    NoDelivery = NoDelivery
    Repo = {org_repo}
    ValidRepo = {org_repo}
    OnChainId = {1}
    Account = {wallet}
    ValidAccount = {wallet}
    User = {dev}
    PrNumber = {1}
    Reward = {1, 2}
    Cap = {}
    NoCap = NoCap
    NoId = NoId
    AdminKey = TRUE
SYMMETRY Symmetric
INVARIANT TypeOK
INVARIANT SpentReconciles
INVARIANT AcknowledgedIsPaid
INVARIANT SubmittedOncePerDelivery
