SPECIFICATION Spec
CONSTANTS
    Faults = {"request", "session", "forbidden"}
    MaxEdits = 1
    Texts <- MCTexts
    Cases <- MCCases
    FolderNames <- MCFolderNames
CHECK_DEADLOCK FALSE
INVARIANTS Inv PlanForetellsWrites PushConverges AbortIsPrefix AnswersAreHonest
PROPERTIES SiblingsUntouched OutcomeIsTrue
