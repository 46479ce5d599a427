\* Two proxies with one resolve each, two overlapping admin requests; the lifetimes keep
\* the order of the defaults (L1 30 s, L2 10 min, a resolve's calls well below either).
SPECIFICATION CacheSpec
CONSTANTS
    Replica = {p1, p2}
    Thread = {t1}
    Admin = {a1, a2}
    L1TTL = 2
    L2TTL = 3
    MaxHold = 1
INVARIANTS
    CacheTypeOK
    RevokedKeyDies
    ClearedStaysOut
