SPECIFICATION Spec
CONSTANTS
    fact = fact  digest = digest  p1 = p1  l1 = l1
    Items = {fact, digest}
    Projects = {p1}
    ProjectOf <- OneProject
    FirstClass <- Classes
    Labels = {l1}
    Audiences <- Open
    Writers = {"model"}
    Edited = {fact}
    MaxItems = 2
    MaxVersions = 3
    MaxLinks = 1
    MaxEdits = 2
CHECK_DEADLOCK FALSE
INVARIANTS TombstonedStaysHidden  
PROPERTY NoSilentOverwrite
