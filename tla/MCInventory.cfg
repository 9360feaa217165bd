SPECIFICATION Spec
CONSTANTS
    m1 = m1
    h1 = h1
    x1 = x1
    None = None
    Workers = {w1, w2}
    Enrollers = {e1, e2}
    Machines <- MCMachines
    Devices = {d1, d2}
    host_of <- MChost
    mac_of <- MCmac
    LogViews <- MCLogViews
    EndpointCap = 1
    MaxAssets = 3
    MaxRare = 2
SYMMETRY Symmetry
INVARIANT PinsWin
INVARIANT DeviceRowAgrees
INVARIANT OverlapConfined
INVARIANT EnrollmentsWithinCap
CHECK_DEADLOCK FALSE
