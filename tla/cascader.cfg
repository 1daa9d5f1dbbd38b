SPECIFICATION Spec
CONSTANTS
    Nodes <- MCNodes
    Items <- MCItems
    HasChildren = {"a", "b"}
    Disabled = {"q"}
    Matching <- MCMatching
    Server <- MCServer
    Chains <- MCChains
    Hits <- MCHits
    Configs <- MCConfigs
    MaxFaults = 1
    MaxResets = 1
    MaxDepth = 3
    MaxCrumbs = 2
INVARIANTS LevelIsPrefix CascadeClosed
PROPERTIES PanelSettles
CHECK_DEADLOCK FALSE
