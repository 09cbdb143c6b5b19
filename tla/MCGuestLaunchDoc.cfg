SPECIFICATION Spec
CONSTANTS
    Username = "u"
    Homes <- MCHomes
    Invocations <- MCInvocations
    HostEnv <- MCHostEnv
    ServiceEnv <- MCServiceEnv
    Logins <- MCLogins
    ColonNames = {"a:b"}
    Names <- MCNames
INVARIANT AgentStartsInProject
