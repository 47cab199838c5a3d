SPECIFICATION Spec
CONSTANTS
    Flights <- AllFlights
    Pointers <- MCPointers
    Flags <- MCFlags
    Names <- MCNames
    Environments <- MCEnvironments
    MinimumCases = 3
    MaxLeft = 1
    Classes <- MCClasses
    Protocols <- MCProtocols
    Superclass <- MCSuperclass
    NoClass = "no class"
    Conforms <- MCConforms
    Adopts <- MCAdopts
INVARIANTS
    FlowReportsHold
    SwitchReportsHold
    NullCheckReportsHold
    ConditionReportsHold
    NameReportsHold
    
