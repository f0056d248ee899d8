CONSTANTS
    s1 = s1
    s2 = s2
    c1 = c1
    c2 = c2
    x1 = x1
    x2 = x2
    Api = Api
    Servers <- MCServers
    Procs <- MCProcs
    Clients <- MCClients
    Home <- MCHome
    Keys = {k1}
    Payloads <- MCPayloads
    MaxCases = 3
SYMMETRY Symmetries
SPECIFICATION Spec
INVARIANTS
    TypeOK
    AnswersAgree
    SecondCaseIsExplained
    QuietIsUnlocked
    MappedIsPlanned
