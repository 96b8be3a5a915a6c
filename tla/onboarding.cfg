SPECIFICATION FairSpec
CONSTANTS
    c1 = c1
    c2 = c2
    d1 = d1
    d2 = d2
    v1 = v1
    v2 = v2
    None = None
    Slugs = {"login", "offer", "promo"}
    Candidates <- Names
    ReservedSlugs = {"login"}
    Creators = {c1, c2}
    Founders = {d1, d2}
    Visitors = {v1, v2}
    MaxEntries = 1
INVARIANTS OneOfEach NegativeCacheBounded
PROPERTY ResolvesEventually
CHECK_DEADLOCK FALSE
