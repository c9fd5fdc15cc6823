SPECIFICATION ScenarioSpec
CHECK_DEADLOCK FALSE
CONSTANTS
    Passes = {"p", "q"}
    Packages <- ThePackages
    Jobs <- TheJobs
    MaxFaults = 1
    MaxCrashes = 1
INVARIANTS ImagesPristine DerivedAsIfRun ScriptedInstallsSound
PROPERTY ScriptsEnd
