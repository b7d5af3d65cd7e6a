\* Both sides' commitments and revocations at two slots, the peer's at three, redelivered.
SPECIFICATION MCSpec
CONSTANTS
    r1 = r1
    r2 = r2
    MaxNumber = 2
    Bodies = {b1}
    Asked <- AskEither
    Runs = {r1, r2}
    NoSession = NoSession
    NoRequest = NoRequest
INVARIANTS NoncesKept RecordReadsBack OneCommitmentPerVersion RevokedBehind PeerCommitmentsKept DecisionStands
PROPERTIES EvidenceHeals
