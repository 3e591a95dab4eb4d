SPECIFICATION Spec
CONSTANTS
    Asset = {"USDC"}
    Recipient = {"merchant"}
    Account <- MCAccount
    Amount = {0, 1}
    PoststateDigest = {}
    Code = {"F1", "F2"}
    ClaimHash = {}
    SettlementId = {}
    Snapshots <- MCSnapshots
    Verdicts <- MCVerdicts
INVARIANTS
    TypeOK
    DigestIdentifiesPoststate
    PhaseOneSettleIsHonest
    ThePitch
