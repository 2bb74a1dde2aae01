SPECIFICATION FairSpec
CONSTANTS
    Text <- MCText
    Keys = {}
    NotANumber = NotANumber
    ContainerNames = {"web"}
    Deployments <- MCDeployments
    IPs = {}
    MaxContainers = 1
    MaxStarts = 1
    Ids = {1, 2}
    Names = {1}
    UserNames = {}
    MaxEdits = 1
    Goroutines = {"main", "ticker"}
    Configs <- MCConfigs
    Provision <- MCProvision
    TargetIds <- MCTargetIds
    JoinName <- MCJoinName
    MaxFaults = 1
    MaxTroubles = 1
INVARIANT AviaryTypeOK
PROPERTIES Converges ComesToRest HandlerRuns SignalEnds
