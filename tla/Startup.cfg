\* Two replicas and a worker start at once while the configuration is rolled out.
CONSTANTS
    t1 = t1  t2 = t2  k1 = k1  k2 = k2  k3 = k3
    Tenants = {t1, t2}
    Keys = {k1, k2, k3}
    None = None
    Configs <- TwoConfigs
    Api = {a1, a2}
    Workers = {w1}
    Rollout <- OldThenNew
    MaxFaults = 1
SPECIFICATION FairSpec
INVARIANTS TypeOK ConsumingMeansAlias ReadyMeansProvisioned
PROPERTIES ImplementsRegistry RolloutConverges FleetRecovers
