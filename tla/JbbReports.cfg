SPECIFICATION Spec
CONSTANTS
    top = top
    home = home
    g1 = g1
    r1 = r1
    g2 = g2
    r2 = r2
    r3 = r3
    a = a
    b = b
    c = c
    Amnesiac = Amnesiac
    Dirs = {top, home, g1, r1, g2, r2, r3}
    Root = top
    Parent <- MCParent
    Cwd = home
    Arg = home
    RunName <- MCRunName
    PrefixOrder <- MCPrefixOrder
    Files = {a, b, c}
    Matching = {a, b, c}
    Placements <- MCPlacements
    Contents <- MCContents
    Kind = {"options", "readme"}
    Descriptions <- MCDescriptions
    Options <- MCOptions
INVARIANTS TypeOK RowIsItsRun NoRunLost DescribedByNearest TopRows
PROPERTIES Ends

