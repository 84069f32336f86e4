SPECIFICATION Spec
CONSTANTS
    MaxLength = 5
    MaxI64 = 7
    Digest <- MCDigest
 
INVARIANT KeysAsWritten
 
INVARIANT SignatureVerdict
INVARIANT PayoutFound
 
