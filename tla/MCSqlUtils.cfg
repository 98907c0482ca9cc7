SPECIFICATION Spec
CONSTANTS
    Token = {"word", "--", ";", "nl"}
    MaxLen = 7
INVARIANTS
    AllOrNothing
    RegularExecuted
