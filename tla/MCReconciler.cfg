SPECIFICATION Spec
CONSTANTS
    Text <- MCText
    Keys = {1, 2}
    NotANumber = NotANumber
    ContainerNames = {"web", "job", "alt"}
    Deployments <- MCDeployments
    IPs = {"172.30.0.2"}
    MaxContainers = 2
    MaxStarts = 2
    Ids = {1, 2, 3, 4}
    Names = {1, 2, 3}
    UserNames = {2}
    MaxEdits = 1
    Goroutines = {main, ticker}
    Configs <- MCConfigs
    Provision <- MCProvision
    TargetIds <- MCTargetIds
    JoinName <- MCJoinName
    MaxFaults = 1
INVARIANTS TypeOK NamesUnique CleanPassSettles
PROPERTIES OnlyDesiredTouched StopKeepsEndpoint PublishedPortKept ImplementsMirror DryRunWritesNothing
SYMMETRY GoroutineSymmetry
CONSTRAINT Disturbances
