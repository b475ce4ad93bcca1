CONSTANTS
    Source = {1}
    Output = {11, 12}
    group <- OneGroup_group
    delayed = {2}
    ExactRules = {1}
    SourceRules <- OneGroup_rules
    CopyRules = {2, 3}
    CHANNEL = 1
    REMATCHES = 1
    UsedPolicy <- OneGroup
    device_info <- Desks
    UsedLinks <- PreferredMoves
    Policies <- SamplePolicies
    Infos <- SampleInfos
    LinkStates <- SampleLinks
    Blank = {" "}
SPECIFICATION Spec
PROPERTY RemovalAnswered
PROPERTY PresentIsTaken
INVARIANT PolicyIsListed
