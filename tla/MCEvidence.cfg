\* Each probe by itself, against every host of the world below, any command lost.
CONSTANTS
    router = router
    webapi = webapi
    login = login
    d1 = d1
    d12 = d12
    users = users
    dnsFail = dnsFail
    tlsFail = tlsFail
    retry = retry
    plain = plain
    cosmetic = cosmetic
    Contexts <- MCContexts
    Profile <- MCProfile
    WebApi <- webapi
    Primary = 5938
    Deliveries = {"local-agent", "cloud-or-mobile"}
    Device = {d1, d12}
    Includes <- MCIncludes
    PolicyPaths = {users}
    MaxDevices = 1
    Signature <- MCSignature
    Matches <- MCMatches
    Texts <- MCTexts
    LogFiles <- MCLogFiles
    Events <- MCEvents
    Log100 <- MCLog100
    LogBound <- MCLogBound
    MaxFiles = 2
    TopSignatures = 2
SPECIFICATION Spec
INVARIANTS
    EvidenceInv
    
    FaultsAreNamed
    BlamesTheHeaviest
    StandbyLeads
CHECK_DEADLOCK FALSE
