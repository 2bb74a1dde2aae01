SPECIFICATION BootstrapFairSpec
CONSTANTS
    Text <- MCText
    Setups <- MCSetups
    Attached <- MCAttached
    Subnet <- MCSubnet
    HexIds = {"c0ffee", "decade", "facade"}
    AviaryName <- MCAviaryName
    Self = "ourselves"
    OtherPeers <- MCOtherPeers
    Remains <- MCRemains
    MaxErrors = 1
    MaxChanges = 1
    MaxDeaths = 1
    MaxCrashes = 1
INVARIANTS
    BootstrapTypeOK
    ProvisionedOnce
    OwnPeerRoutes
PROPERTIES
    Idempotent
    BootstrapEnds
CHECK_DEADLOCK FALSE
