CONSTANTS
    Source = {1, 2}
    Output = {11, 12}
    group <- TwoGroups_group
    delayed = {2}
    ExactRules = {1, 2}
    SourceRules <- TwoGroups_rules
    CopyRules = {3}
    CHANNEL = 2
    REMATCHES = 0
    UsedPolicy <- TwoGroups
    device_info <- Desks
    UsedLinks <- FallbackMoves
    Policies <- SamplePolicies
    Infos <- SampleInfos
    LinkStates <- SampleLinks
    Blank = {" "}
SPECIFICATION Spec
INVARIANT MonitorTypeOK
INVARIANT OwnNodesNotTaken
INVARIANT OneActivePerGroup
INVARIANT ActiveIsAccounted
PROPERTY PreferredFirst
