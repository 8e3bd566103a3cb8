\* Sources of up to six characters of one of the families of MCLexer.
SPECIFICATION Spec
CONSTANTS
    Sources <- MCSources
    Lead = {"C3"}
    Inner = {"A9"}
INVARIANTS
    TypeOK
    SlicesWhole
    LongestMatch
    NothingLost
PROPERTIES
    Terminates
