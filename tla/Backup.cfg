SPECIFICATION Spec
CONSTANTS
    Procs = {"scheduler", "manual"}
    Scheduler = "scheduler"
    MaxNames = 4
    MaxFaults = 2
    MaxYoung = 0
INVARIANTS
    PublishedVerified
    BackupKept
PROPERTIES
    PublishedKept
    PublishesAgain
