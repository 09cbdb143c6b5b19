SPECIFICATION Spec
CONSTANTS
    OurFeatures = {"realisation-with-path"}
    GuestVersions <- MCGuestVersions
    HostVersions <- MCVersions
    Features <- MCFeatures
INVARIANTS
    LegsAgree
    DaemonOnlyForSpeakers
    LoopStartsClean
PROPERTIES
    HandshakeEnds
