SPECIFICATION Spec
CONSTANTS
    Tabs = {t1}
    MaxAnswers = 2
    MaxCrashes = 1
    Reserve = TRUE
INVARIANTS OneWriter PaidIffAnswered
PROPERTIES FinalIsFinal KeepsWhatWasShown StreamEnds
CHECK_DEADLOCK FALSE
