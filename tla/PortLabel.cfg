SPECIFICATION PromisesSpec
CONSTANTS
    Text <- MCText
    Keys = {}
    NotANumber = NotANumber
    ContainerNames = {"web"}
    Deployments <- Relabelled
    IPs = {"172.30.0.2"}
    MaxContainers = 2
    MaxStarts = 2
    Ids = {1, 2}
    Names = {1}
    UserNames = {}
    MaxEdits = 0
    Goroutines = {main}
    Configs <- MCConfigs
    Provision <- MCProvision
    TargetIds <- MCTargetIds
    JoinName <- MCJoinName
    MaxFaults = 0
INVARIANT LabelledPortFollowed
