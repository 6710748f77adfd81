\* One process that asks two questions in any order and number, while downloads,
\* the embedder and the service fail as they like.
CONSTANTS
    p1 = p1
    m1 = m1
    q1 = q1
    q2 = q2
    q3 = q3
    home = home
    kb = kb
    fact = fact
    doc = doc
    gone = gone
    s1 = s1
    s2 = s2
    s3 = s3
    None = None
    Proc = {p1}
    Model = {m1}
    Job = {}
    Port = {port1}
    Foreign = foreign
    EnvEndpoint <- MCEnvEndpoint
    EnvModel <- MCEnvModel
    Resolves = {p1}
    Question = {q1, q2, q3}
    Worded = {q1, q2}
    Passage = {1, 2, 3, 4, 5, 6}
    Fact = {4}
    Junk = {3, 6}
    Source <- MCSource
    Match <- MCMatch
    Page = {home, kb}
    OnPage <- MCOnPage
    PageMatch <- MCPageMatch
    CachedDocs = {5, 6}
    Live = {p1}
    ScanMax = 2
    Nearest = 2
    FuseK = 60
    Pool = 20
    TopHits = 5
    MaxPages = 1
    MaxRetries = 1
    Sentence = {s1, s2, s3}
    Support <- MCSupport
    SourceOf <- MCSourceOf
    BestSource <- MCBestSource
    ContextHits = 3
    MaxCited = 3
    GroundMin = 40
SPECIFICATION AskingSpec
INVARIANTS
    AnswersGrounded
    AskInv
PROPERTIES
    QuestionsEnd
CHECK_DEADLOCK FALSE
