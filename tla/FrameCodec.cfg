SPECIFICATION Spec
CONSTANTS
    Thread = {"inner", "receive"}
    Digest <- Collides
    MaxFragmentPayload = 1
    MaxMessageSize = 1
    MaxMessageId = 1
    MaxFragments = 2
    MaxSkew = 0
    MaxFrames = 2
    MaxTime = 1
INVARIANTS
    NonceNeverReused
    DecodedWasSent
    EncodedIsDecodable
CHECK_DEADLOCK FALSE
