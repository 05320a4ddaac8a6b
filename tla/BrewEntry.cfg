SPECIFICATION Spec
CONSTANTS
    BREW_QUEUE_MAX_FILES = 2
    MaxGrinds = 3
    MaxAnswers = 4
    MaxResets = 2
INVARIANTS
    AnswerKept
    PromptRescued
    PromptOfLastGrind
    CountsFiles
CHECK_DEADLOCK FALSE
