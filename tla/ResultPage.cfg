SPECIFICATION FairSpec
CONSTANTS
    Titles = {a, b}
    Nothing = Nothing
    MaxHits = 2
    MaxPages = 2
INVARIANTS PanelIsFirstFit EmptyPanelHasAReason
PROPERTIES PageSettles
CHECK_DEADLOCK FALSE
