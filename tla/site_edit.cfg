\* Two fields, two people: the page saves again after a conflict reloaded its copy.
SPECIFICATION Spec
CONSTANTS
    Fields = {"name", "zone"}
    Values = {1, 2}
    MaxVersion = 3
PROPERTY
    NeverAClobber
CHECK_DEADLOCK FALSE
