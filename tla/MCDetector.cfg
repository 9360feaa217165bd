SPECIFICATION FairSpec
CONSTANTS
    Nodes <- MCNodes
    node <- MCnode
    Strings <- MCStrings
    casefold <- MCcasefold
    StringTests <- MCTests
    FieldKeys = {}
    RE2 = {"cm"}
    MAX_TREE_DEPTH = 3
    MAX_LEAVES = 2
    MAX_CHILDREN = 2
    MAX_LIST_ENTRIES = 2
    Detectors = {w1}
    Tenants = {"a", "b"}
    Rules = {1, 2, 3, 4}
    docs <- MCdocs
    Packs <- MCPacks
    pack_source <- MCsource
    enabled_default <- MCdefault
    Publishers = {q1, q2}
    ToggleInputs <- MCToggles
    Messages = {1, 2}
    event <- MCevent
    tenant_of <- MCtenant
    RefusedAtLoad = {2}
    None = None
    OverlayTTL = 1
    Window = 1
    MinTenants = 2
    MinSamples = 2
    FractionNum = 1
    FractionDen = 2
    MaxTime = 1
    MaxPublications = 2
    MaxToggles = 1
    MaxFailures = 1
INVARIANT ReaderFindsWholePack
PROPERTY SwitchedOffWithinTTL
PROPERTY PackEventuallyLoaded
CHECK_DEADLOCK FALSE
