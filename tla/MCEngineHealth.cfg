SPECIFICATION Spec
CONSTANTS
    Engines <- MCEngines
    Categories <- MCCategories
    Configurations <- MCConfigurations
    Threshold = 2
    MaxRestarts = 1
INVARIANTS TypeOK QuarantineIsEarned
PROPERTIES UpIsAsked DownIsAvoided
CHECK_DEADLOCK FALSE
