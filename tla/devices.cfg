SPECIFICATION Spec
CONSTANTS
    in = in
    out = out
    aout = aout
    prog = prog
    NoMachine = NoMachine
    Machines <- DeviceMachines
    Kind <- DeviceKind
    Depends <- DeviceDepends
    Targets <- DeviceTargets
    CreationOrder <- DeviceOrder
    Subscribers = {}
    ExternalBatch = 1
    MaxMessages = 1
    MaxActions = 1
    MaxSchedule = 2
    MaxExternal = 0
INVARIANTS
    TypeOK
    NoDuplicateTasks
    CheckStateSafe
    NoLostWork
PROPERTIES
    ImplementsWakeups
