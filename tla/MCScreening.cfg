\* Texts of up to three hits, the default policy.
SPECIFICATION ScreeningSpec
CONSTANTS
    Lists <- SearchedLists
    RuleScores <- TheRules
    BlockAt = 81
    MaxHits <- ThreeHits
INVARIANT EachMatchContributes
CHECK_DEADLOCK FALSE
