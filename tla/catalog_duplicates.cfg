\* One source at the start and three handlers.
SPECIFICATION Spec
CONSTANTS
    MaxSource = 2
    Text <- Texts
    Canonical <- Slugs
    Payload <- Payloads
    Patchable <- Patches
    FirstRows <- Tables
    RemovedBoard <- Boards
    Seeds <- Additions
    Request = {r1, r2, r3}
    MaxFile = 1
    NoRequest = NoRequest
SYMMETRY Symmetric
CHECK_DEADLOCK FALSE
INVARIANTS NoDuplicateIdentity
