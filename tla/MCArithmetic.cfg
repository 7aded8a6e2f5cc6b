SPECIFICATION Spec
CONSTANTS
    WordBits = 4
    NumWords = 2
    ByteBits = 2
    Secp256k1 <- MCSecp256k1
    Secp256r1 <- MCSecp256r1
    Bn254 <- MCBn254
    Calls <- MCCalls
INVARIANTS
    InstructionsExact
    FieldsExact
    GroupLaw
    VerificationsExact
    ModexpExact
CHECK_DEADLOCK FALSE
