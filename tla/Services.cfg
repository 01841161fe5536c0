SPECIFICATION ServicesSpec
CONSTANTS
    Thread = {t1, t2}
    Jti = {j1, j2}
    Nonce = {n1, n2}
    Mintable = {"free", "pro"}
    Tier = {"free", "pro", "gold"}
    NoKey = NoKey
    NoRec = NoRec
    NoThread = NoThread
    Task = {k1, k2}
    Ttl = 2
    Place = {berlin}
    Language = {de, en}
    Ranking <- MCRanking
    Unknown = Unknown
    Nobody = Nobody
    MaxEntries = 1
INVARIANTS NoOrphanKey CachesOK DefaultsAreFlagged AnswerFromUpstream NeverOvershadowed
PROPERTIES ImplementsPromise Recovers
