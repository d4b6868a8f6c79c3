SPECIFICATION Spec
CONSTANTS
    Tasks <- MCTasks
    Workers = 2
    Timeout <- MCTimeout
    AgentConfigs <- MCAgentConfigs
    Destinations <- MCDestinations
INVARIANTS
    TypeOK
    DialBounded
    ReachesFirstLive
