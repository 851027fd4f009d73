CONSTANT
    MaxNodes = 5
SPECIFICATION Spec
CONSTRAINT Intact
INVARIANTS LinksAgree NoneAboveItself
PROPERTIES IsAForest
