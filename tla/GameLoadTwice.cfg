\* The suite is run a second time from the menu.
CONSTANTS
    MaxJobs = 2
    MaxLives = 2
SPECIFICATION FairSpec
PROPERTY EveryLoadIsAnswered
CHECK_DEADLOCK FALSE
