SPECIFICATION FairSpec
CONSTANTS
    in = in
    out = out
    aout = aout
    prog = prog
    NoMachine = NoMachine
    Machines <- InputMachines
    Kind <- InputKind
    Depends <- InputDepends
    Targets <- InputTargets
    CreationOrder <- InputOrder
    Subscribers = {prog}
    ExternalBatch = 1
    MaxMessages = 1
    MaxActions = 0
    MaxSchedule = 1
    MaxExternal = 1
PROPERTIES
    EveryTaskRuns
    SleeperWakes
    MessagesHandled
    InputSeen
