CONSTANTS
    Samplings = {1, 2}
    MaxView = 4
    MaxStreams = 2
SPECIFICATION ScreencastSpec
INVARIANTS WindowIsExact
PROPERTIES RestsWithThePage LatestShown
