SPECIFICATION Spec
CONSTANTS
    NamespaceInit = TRUE
    MaxDequeues = 2
    MaxLives = 2
INVARIANT WaitsForADequeue
PROPERTIES
    TracedImplementsLinux
    ControlledImplementsLinux
