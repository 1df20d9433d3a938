SPECIFICATION LiveSpec
CONSTANTS
    Comments = {create}
    Requests = {create, read}
    MaxSignals = 3
INVARIANTS ServesMigrated OrderlyStop StopIsComplete SentWasDelivered NoDowngrade
PROPERTIES DeadlineStops SecondSignalStops
