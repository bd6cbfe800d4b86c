SPECIFICATION CampaignSpec
CONSTANTS
    MaxRepairRounds = 2
    Wirings <- AllWirings
    Goals <- SomeGoals
    AgentCaps <- SomeCaps
CHECK_DEADLOCK FALSE
INVARIANTS  DynamicPlanHolds
 
