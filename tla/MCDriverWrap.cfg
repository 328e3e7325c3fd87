\* A certificate that needs more windows than there are registers.
SPECIFICATION Spec
CONSTANTS
    Challenges = {}
    c1 = c1
    c2 = c2
    cLong = cLong
    ChallengeLen <- MCChallengeLen
    CertificateLens = {26497}
    SignatureLen = 128
    RetryTicks = 0
    AuthTicks = 0
    TxTicks = 0
    MaxDisturbed = 0
    Nil = Nil
INVARIANTS
    CertificateComplete
