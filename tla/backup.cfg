SPECIFICATION FairBackupSpec
CONSTANTS
    loop = loop
    c1 = c1
    Nothing = Nothing
    Loop = loop
    Commands = {c1}
    Keep = 2
    MaxBackoff = 2
    MaxTime = 2
    MaxCommits = 1
INVARIANTS
    BackupTypeOK
    NameTellsTime
PROPERTIES
    LostOnlyToNewer
    BackupsGoOn
    PollingComesBack
