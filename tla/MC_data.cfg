\* The data commands (keys import and attest, certificates, objects) with keys generate.
SPECIFICATION Spec
CONSTANTS
    P1 = P1
    P2 = P2
    PShort = PShort
    U1 = U1
    U2 = U2
    S1 = S1
    R1 = R1
    Pins <- MCValidOnly
    ValidPins <- MCValidPins
    DefaultPin = P1
    Puks <- MCOnePuk
    DefaultPuk = U1
    Salts <- MCSalts
    RandomKeys <- MCRandomKeys
    DefaultKey = DefaultKey
    MaxTries = 2
    DefaultTries = 2
    NoPin = NoPin
    NoKey = NoKey
    NoSalt = NoSalt
    K1 = K1
    K2 = K2
    KeyPairs <- MCKeyPairs
    NoKeyPair = NoKeyPair
    Commands <- MCDataCommands
INVARIANT
    VerifiedImportMatchesKey
    AtMostOneRejectedSubmission
PROPERTY
    ResolutionRefined
    CommandCompletes
