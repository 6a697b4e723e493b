SPECIFICATION Spec
CONSTANTS
    MaxHeight = 2
    MaxErrors = 0
    MaxCrashes = 0
PROPERTIES
    FetchRetried
