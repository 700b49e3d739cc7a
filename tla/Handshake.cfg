\* Three clicks on Inject in up to three dialogs.
CONSTANTS
    MaxCopies = 3
    MaxDialogs = 3
SPECIFICATION FairSpec
INVARIANTS NoStaleSignals HostSurvives CleanInject
PROPERTIES SearchesItsOwn ButtonsReturn
CHECK_DEADLOCK FALSE
