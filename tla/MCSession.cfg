\* A shell and a single command beside each other, with a service that moves.
CONSTANTS
    repl = repl
    cmd = cmd
    m1 = m1
    m2 = m2
    q1 = q1
    home = home
    None = None
    Proc = {repl, cmd}
    Shells = {repl}
    Model = {m1, m2}
    Job = {j1}
    Port = {port1, port2}
    Foreign = foreign
    EnvEndpoint <- MCEnvEndpoint
    EnvModel <- MCEnvModel
    Resolves = {repl}
    Question = {q1}
    Worded = {q1}
    Passage = {}
    Fact = {}
    Junk = {}
    Source = {home}
    Match <- MCMatch
    Page = {}
    OnPage <- MCNothing
    PageMatch <- MCMatch
    CachedDocs = {}
    Live = {}
    ScanMax = 1500
    Nearest = 400
    FuseK = 60
    Pool = 20
    TopHits = 5
    MaxPages = 3
    MaxRetries = 4
    Sentence = {}
    Support <- MCNothing
    SourceOf <- MCNothing
    BestSource <- MCBestSource
    ContextHits = 3
    MaxCited = 3
    GroundMin = 40
    Lines <- MCLines
    MaxLines = 2
SPECIFICATION Spec
INVARIANTS
    SettingsKept
    PickedModelServes
    GateHolds
PROPERTIES
    ShellsEnd
CHECK_DEADLOCK FALSE
