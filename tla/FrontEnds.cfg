\* Two community runs planned in one process; four sessions, of which one is captured;
\* a conversation of up to five messages.
SPECIFICATION Spec
CONSTANTS
    claude = claude  codex = codex  opencode = opencode  o1 = o1  o2 = o2  file1 = file1  file2 = file2
    Orchestrators = {o1, o2}
    Registered <- Profiles
    Cheap = {codex}
    AllowedLists <- Lists
    AnswersTo <- Answers
    Files = {file1, file2}
    MaxSubtasks = 2
    Sessions = {"claude", "open", "codex1", "codex2"}
    AgentOf <- Owner
    Utterances <- Words
    Notes = Notes
    Default = Default
    NoText = NoText
    PartsList = PartsList
    MaxWrites = 3
    MaxCaptures = 1
    MaxMessages = 5
    MaxSteps = 2
    MaxHistory = 3
    Wording = Wording
    ByModel = ByModel
INVARIANTS
    TypeOK
    OrderIsKept
    PlansFitTheExecutor
    PackageTellsTheTalk
    CapturesAreFresh
    FailuresHaveACause
    TheTargetIsTold
PROPERTIES
    RoutesFollowTheKeywords
\* The runs, the call and the conversation come to an end.
CHECK_DEADLOCK FALSE
