SPECIFICATION DisksSpec
CONSTANTS
    h1 = h1
    h2 = h2
    small = small
    small2 = small2
    big1 = big1
    big2 = big2
    local = local
    HostList <- MCHostList
    Luns <- MCLuns
    Size <- MCSize
    SystemdgMax = 2
    Layouts <- MCLayouts
    Options <- MCOptions
    Runs = 2
INVARIANTS DeploymentIsSound DiscoveryIsSound
