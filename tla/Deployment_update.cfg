CONSTANTS
    Clients = {c1}
    Versions = {1, 2}
    ItemSets <- MCItemSets
    MaxEdits = 3
SPECIFICATION FairSpec
INVARIANT DeploymentTypeOK
PROPERTIES InstallsWhatWasOnDisk Converges
CHECK_DEADLOCK FALSE
