SPECIFICATION PromisesSpec
CONSTANTS
    Text <- MCText
    Keys = {}
    NotANumber = NotANumber
    ContainerNames = {"web"}
    Deployments <- Ephemeral
    IPs = {"172.30.0.2"}
    MaxContainers = 1
    MaxStarts = 1
    Ids = {1, 2}
    Names = {1}
    UserNames = {}
    MaxEdits = 0
    Goroutines = {main}
    Configs <- MCConfigs
    Provision <- MCProvision
    TargetIds <- MCTargetIds
    JoinName <- MCJoinName
    MaxFaults = 0
PROPERTY EphemeralStaysDeleted
