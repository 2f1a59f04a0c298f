CONSTANTS
    Backups = {b1, b2}
    Restores = {r1, r2}
    Missing = Missing
    MaximumSnapshots = 1
    MaxEvents = 2
    MaxCalls = 3
    MaxTroubles = 1
SPECIFICATION Spec
PROPERTIES PublishesOnlyVerified BackupSurvives RestoresDeleteNothing
SYMMETRY Symmetry
CHECK_DEADLOCK FALSE
