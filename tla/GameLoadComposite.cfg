\* Two lives of the suite; four jobs let both buffers be decoded twice.
CONSTANTS
    MaxJobs = 4
    MaxLives = 2
SPECIFICATION FairSpec
INVARIANTS NoTornTexture LoaderAnswersThisJob SurfaceShowsLastClear
PROPERTIES TeardownEnds FirstLifeIsAnswered
CHECK_DEADLOCK FALSE
