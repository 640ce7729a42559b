CONSTANTS
    Missing = Missing
    None = None
    MAXTRIMDOMAINS = 2
    Inputs <- mcInputs
    HostNames <- mcNames
    Addresses <- mcAddresses
    Root = Root
    Localname <- mcLocalname
    inet_addr <- mc_inet_addr
    ForwardAnswers <- mcForward
    ReverseAnswers <- mcReverse
    Null <- mcNull
    Aborts <- mcAborts
    Bytes = 2
    ByteBits = 2
    MAXADDRS = 3
    MAXALIASES = 2
    Kind <- mcKinds
    Networks = networks
    FileOf <- mcFileOf
    Key <- mcKeys
    Alias <- mcAliases
    Proto <- mcProtos
    AnyProto = anyProto
    networks = networks
    servicesdb = servicesdb
    protocols = protocols
    tcp = tcp
    udp = udp
    anyProto = anyProto
    nameA = nameA
    nameB = nameB
    nameC = nameC
SPECIFICATION Spec
INVARIANTS ByNameRight AddressConfirmed NothingLeftOpen  IterationComplete OpenAsAsked
CHECK_DEADLOCK FALSE
