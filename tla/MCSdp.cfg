SPECIFICATION Spec
CONSTANTS
    Projects = {p}
    MaxVersion = 2
    Absent = {1}
    MaxRequest = 2
    MaxFailures = 2
PROPERTIES
    ChangesAreDiscovered
CHECK_DEADLOCK FALSE
