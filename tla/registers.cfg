SPECIFICATION RegistersSpec
CONSTANTS
    Registers <- PackageRegisters
    Numbers <- Some
    Den = 6
    RamWidth = 5
    None = None
    Error = Error
    Names <- SomeNames
    ValueTypes = {Narrow, Wide}
    TriggerType = Pulse
    NoName = NoName
    MaxClasses = 3
    MaxMembers = 3
SYMMETRY Symmetry
INVARIANT TypeOK
INVARIANT TreeTypeOK
INVARIANT LogicSeesValue
INVARIANT ReadsLogicValue
INVARIANT AccessReachesOwn
INVARIANT BodiesFindSubmodules
