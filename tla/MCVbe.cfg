SPECIFICATION Spec
CONSTANTS
    Modulus = 64
    Modulus16 = 8
    Sizes <- MCSizes
    Depths = {16, 32}
    Coordinates = {0, 1, 63}
    Colors <- MCColors
    Inks <- MCInks
    Bitmaps <- MCBitmaps
    Strings <- MCStrings
    Scrolls = {0, 1, 2, 32, 63}
    FontRows = 2
    default_font <- MCFont
    Fonts <- MCFonts
INVARIANTS
    TypeOK
    BitmapPlaced
    TextPlaced
    RowsMoveUp
    BlendIsBetween
    ScreenShowsBuffer
CHECK_DEADLOCK FALSE
