SPECIFICATION Spec
CONSTANTS
    URLs <- AllURLs
    Options <- SomeOptions
    MaxOptions = 3
INVARIANTS
    TypeOK
    BuiltClientWorks
    LastOptionWins
    FirstErrorReported
