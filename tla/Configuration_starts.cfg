CONSTANTS
    start1 = start1  start2 = start2  proc1 = proc1  proc2 = proc2  v1 = v1  v2 = v2
    Loads = {start1, start2}
    Procs = {proc1, proc2}
    Hosts <- MCHosts
    Lists = {v1, v2}
    NoList = NoList  NoFile = NoFile  Bare = Bare  Torn = Torn  NoLoad = NoLoad
    Known <- MCKnown
    Anthropic = {"claude"}
    Alphabet <- MCAlphabet
    Sites <- MCSites
    Entered = {"openai", "lost"}
    Keys = {"key", ""}
    Preferences <- MCPreferences
    MaxChanges = 1
SPECIFICATION MCSpec
PROPERTIES SelectedModelsExist ChangesSurvive StartsWithoutNetwork
CHECK_DEADLOCK FALSE
CONSTRAINT Narrow
