\* One host run: any admitted command line against any image and build.
SPECIFICATION GatesSpec
CONSTANTS
    Runs <- MCRuns
    Image <- MCImage
    FrameOf <- MCFrameOf
INVARIANTS
    HonestGuestPasses
    PassedDidTheWork
    PassedTookItsPath
    ChildSeesOnlyThisRun
\* A run ends.
CHECK_DEADLOCK FALSE
