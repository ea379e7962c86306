SPECIFICATION Spec
CONSTANTS
    jdk = jdk
    zz = zz
    people = people
    p1 = p1
    p2 = p2
    Jira = {jdk}
    Unknown = {zz}
    People = people
    Proc = {p1, p2}
    MaxVersion = 2
    MaxFaults = 1
SYMMETRY MCSymmetry
INVARIANTS TypeOK ShowsAnAnswer SpoiledByFaultsOnly
PROPERTIES RetriveRepairs
