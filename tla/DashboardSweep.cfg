CONSTANTS Pages = {p, q}
 PanesPage = p
 Shown = w1
 Other = w2
 Sessions = {1,2,3,4}
 MaxEdits = 2
PROPERTIES OnlyDeadAreSwept
SPECIFICATION PagesSpec
CHECK_DEADLOCK FALSE
