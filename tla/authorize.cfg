SPECIFICATION ASpec
CONSTANTS
    old = old
    new = new
    secret = secret
    other = other
    ci = ci
    fresh = fresh
    forged = forged
    foreign = foreign
    symmetric = symmetric
    misfit = misfit
    fork = fork
    None = None
    Requests = {r1, r2}
    Kids <- MCKids
    KeySets <- MCKeySets
    Setups <- MCSetups
    Jwt <- MCJwt
    KeyAlgorithm <- MCKeyAlgorithm
    Asymmetric <- MCAsymmetric
    Characters <- MCCharacters
    MaxNamespace = 4
    LastVersion = 2
    MaxFaults = 2
    RefreshAfter = 2
    Cooldown = 1
INVARIANTS
    KeysTypeOK
PROPERTIES
    AnswerDeserved
    FetchesSpaced
    KeysNeverRegress
    RequestsAnswered
    KeysConverge
