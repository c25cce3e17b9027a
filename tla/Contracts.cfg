\* Two users and the owner.
CONSTANTS
    Users = {u, v}
    Owner = "owner"
    Tokens = {"native", "erc20"}
    MaxTime = 2
    Deadlines = {1}
    Capabilities = {"c"}
    Rewards = {55}
    MarketFees = {250, 1000}
    MaxTasks = 2
    Amounts = {250}
    PaymentFees = {100, 500}
    MaxPayments = 2
    BaseReputation = 1
    ScoreRewards = {1}
    ScorePenalties = {1}
    MaxScore = 2
    StakeUnit = 2
    StakeAmounts = {1, 2}
    MinStake = 1
    MaxStakes = {1, 3}
    SlashPercentages = {5000}
    Locks = {1}
    MaxUpdates = 3
    VotingDelays = {0}
    VotingPeriods = {0, 1}
    Quorums = {20}
    MaxProposals = 1
SPECIFICATION Spec
SYMMETRY Symmetry
INVARIANTS
    MarketInv
    PaymentInv
    
CHECK_DEADLOCK FALSE
