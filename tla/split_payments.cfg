SPECIFICATION FairSpec
CONSTANTS
    Procs = {p1, p2}
    Price = 5
    Capacity = 3
    Parties = {0, 1, 2, 3}
    Fees = {1}
    LegacyModes = {TRUE, FALSE}
    ShareAnswers <- MCNoChallenge
    Alone = TRUE
    FaultPoints <- MCHandled
    MaxFaults = 1
    MaxRequests = 3
    MaxPays = 2
    MaxRegularisations = 1
INVARIANTS ShareChargedOnce MoneyConserved GuaranteeCoversUnpaid HoldFollowsGuarantee
           LegacyBeforeMoney 
PROPERTIES ShareSettles
CHECK_DEADLOCK FALSE
