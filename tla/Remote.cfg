CONSTANTS
    Missing = Missing
    None = None
    Asked = Asked
    Garbage = Garbage
    Unasked = Unasked
    Canonical <- mcCanonical
    NumPorts = 5
    IPPORT_RESERVED = 4
    STARTPORT = 2
    MaxAddr = 2
    Hosts <- mcHosts
    Netrcs <- mcNetrcs
    Envs <- mcEnvs
    Users <- mcUsers
    Files <- mcFiles
    Rhosts <- mcRhosts
    Locals <- mcLocals
    Domains <- mcDomains
SPECIFICATION Spec
INVARIANTS DescriptorsReturned PasswordListed AccessListed PortsTried
PROPERTY CallReturns
CHECK_DEADLOCK FALSE
