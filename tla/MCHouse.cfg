CONSTANTS
    Spelling <- MCSpelling
    Tool <- MCTool
    Blank = ""
    Canonical <- MCCanonical
    DangerousTools = {"bash"}
    NotDeclared = NotDeclared
    AgentName = {"ada", "bob", "Bob!"}
    LegalName = {"ada", "bob"}
    Trigger = {"hi", "bye", " "}
    BlankTrigger = {" "}
    AgentSpec <- MCAgentSpec
    NoAgent = NoAgent
    Description = {1, 2, 3}
    Similarity <- MCSimilarity
    MaxSkills = 3
    ClientAllowlist = {"draw", "bash"}
    OurServers <- MCOurServers
    ForeignAnswers <- MCForeignAnswers
    MaxRequests = 2
    Store = {"s1", "s2", "s3"}
    Tenant = {"t1", "t2"}
    Crew = {"crew"}
    TenantOf <- MCTenantOf
    CrewOf <- MCCrewOf
    RecallLimit <- MCRecallLimit
    Db = "db"
    Key = {1, 2}
    Remembered <- MCRemembered
    MaxRemembered = 2
    Metered = {"a", ""}
    Timing <- MCTiming
    Latency = {7}
    Tokens = {0, 1}
    MaxMetered = 3
    Flow = {"f1", "f2"}
    Resource = {"r1", "r2"}
    Issuer = {"i"}
    NoResource = "none"
    DefaultAudience = "default"
    NoAudience = NoAudience
    SigningKey = {"k1", "k2"}
    CardName = {"ada", "bob"}
    CardTools <- MCCardTools
    PeerAllowlist = {"draw", "bash"}
    NoName = " "
    MaxSigned = 2
    FrontKey = {"name", "allowed_tools", "metadata", "a", "b"}
    Bundle = {1, 2}
    Documents <- MCDocuments
    MaxChanges = 1

SPECIFICATION HouseSpec

\* Names, requests, records, turns, flows and skills are used up.
CHECK_DEADLOCK FALSE

INVARIANTS
    HouseTypeOK
    RouteStillHolds
    SplitWasForeseen
    InvokedWithinBoth
    AnswersTakenWhole
    RecallIsOwn
    MetersAgree
    TokenStaysWithItsFlow
    PeersAreAuthentic
    LoadIsAccounted

PROPERTIES
    NameMeansOneAgent
    NothingForgotten
