SPECIFICATION Spec
CONSTANTS
    Debouncers = {"d1", "d2", "d3"}
    None = None
    MaxHandles = 5
    MaxQueue = 3
INVARIANTS
    LibraryTypeOK
    QueueAgrees
    SplicesAreExact
    FlowSettles
    RenderedIsCurrent
    ObserversAgree
    GesturesEnd
    TemplatesAreBound
    ClassesAreMade
    DatesAreRight
    DurationsAreRight
PROPERTIES
    StepsInOrder
CHECK_DEADLOCK FALSE
