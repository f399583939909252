\* Up to two sources, cleaned up and seeded; then three handlers or runs.
SPECIFICATION Spec
CONSTANTS
    MaxSource = 3
    Text <- Texts
    Canonical <- Slugs
    Payload <- Payloads
    Patchable <- Patches
    FirstRows <- Tables
    RemovedBoard <- Boards
    Seeds <- Additions
    Request = {r1, r2, r3}
    MaxFile = 2
    NoRequest = NoRequest
SYMMETRY Symmetric
CHECK_DEADLOCK FALSE
INVARIANTS StoredKeysUnique CheckStillHolds KeysFollowColumns HealthExact
PROPERTIES OneKeeper ImplementsDirectory
