SPECIFICATION Spec
CONSTANTS
    Asset <- MCAsset
    Recipient <- MCRecipient
    Account <- MCAccount
    Amount <- MCAmount
    PoststateDigest <- MCDigest
    Code <- MCCode
    ClaimHash <- MCClaim
    SettlementId <- MCId
INVARIANTS
    EveryDefectIsReported
    CleanSettleIsFullyBound
PROPERTIES
    NoSilentRelease
    ReasonsAccumulate
CHECK_DEADLOCK FALSE
