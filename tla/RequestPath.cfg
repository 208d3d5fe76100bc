\* Two requests of two tenants while a key changes hands.
CONSTANTS
    t1 = t1  t2 = t2  k1 = k1  k2 = k2  d1 = d1  d2 = d2  d3 = d3  e1 = e1
    Tenants = {t1, t2}
    Keys = {k1, k2}
    None = None
    Configs <- TwoConfigs
    Reqs = {r1, r2}
    Docs = {d1, d2, d3, e1}
    OwnerOf <- Owner
    Ranking <- Ranked
    Targets <- Asked
    TTL = 2
    Latency = 1
    MaxPageSize = 2
    MaxResultWindow = 5
    MaxEntries = 1
SPECIFICATION Spec
SYMMETRY Symmetry
INVARIANTS TypeOK AnswersStayInTenant RevocationBounded PagesPartition WindowWithinLimit
