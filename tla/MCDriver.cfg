\* Signatures, certificates and version reads with failing transactions,
\* lost writes and a chip that is plugged again.
SPECIFICATION Spec
CONSTANTS
    Challenges = {c1, c2, cLong}
    c1 = c1
    c2 = c2
    cLong = cLong
    ChallengeLen <- MCChallengeLen
    CertificateLens = {0, 1, 128, 129, 65526}
    SignatureLen = 128
    RetryTicks = 1
    AuthTicks = 2
    TxTicks = 1
    MaxDisturbed = 1
    Nil = Nil
INVARIANTS
    TypeOK
    ReadsWhatItSelected
    SignatureMatches
    WithinDeadlines
    CertificateComplete
