CONSTANTS
    Uploads = {1, 2}
    Digests = {"a"}
    Jobs = {"j", "k"}
    DigestOf <- MCDigestOf
    JobOf <- MCJobOf
    Size <- MCSize
    max_stored_bytes = 3
    batch_limit = 1
    MaxFaults = 1
SPECIFICATION FairSpec
CHECK_DEADLOCK FALSE
INVARIANTS WithinQuota InUseIsKept
PROPERTIES EvidenceOutlivesObject ReclaimedInTheEnd
