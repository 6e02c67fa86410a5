SPECIFICATION WidgetSpec
CONSTANTS
    RowIds = {1, 2, 3, 4}
    NameOf <- MCNames
    PageSizes = {1, 2, 3}
    DndEnabled = TRUE
    Emails <- MCEmails
    Passwords <- MCPasswords
    MaxSubmits = 2
    Actions <- MCActions
    MaxCount = 3
INVARIANTS
    TableInv
    FormInv
    ChartInv
PROPERTIES
    DragMovesTheRow
CHECK_DEADLOCK FALSE
