SPECIFICATION Spec
CONSTANTS
    VGA_WIDTH = 3
    VGA_HEIGHT = 2
    Strings <- MCStrings
    Colors = {9}
    MaxRows = 5
    Size = 5
    Percent = 37
    S = 115
    Formats <- MCFormats
    Common <- MCCommon
    Arguments <- MCArguments
    Beyond <- MCBeyond
INVARIANTS
    TypeOK
    BlankAhead
    ShowsText
    WritesTheText
    LosesNothing
PROPERTIES
    Returns
CHECK_DEADLOCK FALSE
