SPECIFICATION EngineSpec
CONSTANTS
    Threads = {julius, web}
    Main = main
    NoOne = nobody
    Levels = {10}
    MaxCalls = 1
    Engine = julius
    Rebuilder = web
CHECK_DEADLOCK FALSE
PROPERTIES
    JuliusStopEnds
