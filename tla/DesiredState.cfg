SPECIFICATION FlagsSpec
CONSTANTS
    infisical = infisical
    novel = novel
    kafka = kafka
    first = first
    second = second
    Services <- TheServices
    FirstShipped <- TheFirstServices
    FirstCore <- TheCore
    Rules <- TheRules
    SpinUps <- TheSpinUps
SYMMETRY TheSymmetry
INVARIANTS
    FlagsTypeOK
    PortsAreAskedFor
    DeployedIsRunning
PROPERTIES
    WantedServicesStay
