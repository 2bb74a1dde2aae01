SPECIFICATION BootstrapSpec
CONSTANTS
    Text <- MCText
    Setups <- TwinSetups
    Attached <- MCAttached
    Subnet <- MCSubnet
    HexIds = {"c0ffee", "decade", "facade"}
    AviaryName <- MCAviaryName
    Self = "ourselves"
    OtherPeers <- TwinPeers
    Remains = {}
    MaxErrors = 0
    MaxChanges = 0
    MaxDeaths = 0
    MaxCrashes = 0
INVARIANT RoutedByOurselves
CHECK_DEADLOCK FALSE
