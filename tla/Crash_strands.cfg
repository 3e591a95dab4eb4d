SPECIFICATION Spec
CONSTANTS
    w1 = w1
    w2 = w2
    k1 = k1
    k2 = k2
    Key = {k1, k2}
    Garbled = garbled
    Asset <- MCAsset
    Recipient <- MCRecipient
    Account <- MCAccount
    Amount <- MCAmount
    PoststateDigest <- MCDigest
    Code <- MCCode
    ClaimHash = {"claim"}
    SettlementId = {"s1"}
    Worker = {w1}
    Request <- OneRequest
    ClaimId = {"c1"}
    ClaimOf <- SameClaim
    Executions <- Corpus
    Operator <- OneOperator
    Faults = {"crash"}
INVARIANT EvidenceNeverStranded
