SPECIFICATION FairSpec
CONSTANTS
    MaxRows = 4
    MaxDue = 1
PROPERTIES
    RowsStayOnWindows
    DeletesTheRowShown
    WindowComesBack
CHECK_DEADLOCK FALSE
