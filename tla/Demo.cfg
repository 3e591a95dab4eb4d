SPECIFICATION Spec
CONSTANTS
    k1 = k1
    Key = {k1}
    Garbled = garbled
    Asset = {"ETH", "mint"}
    Recipient = {"recipient", "attacker"}
    Account = {"vault"}
    Amount = {0, 24, 25}
    PoststateDigest = {"evm", "svm"}
    Code = {"F1", "F2"}
    ClaimHash = {"claim"}
    SettlementId = {"settlement-1"}
    Executions <- MCExecutions
INVARIANTS
    TypeOK
    OnlyBenignSettles
    SettledIsHonored
    ExitAgreesWithStory
CHECK_DEADLOCK FALSE
