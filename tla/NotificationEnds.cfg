SPECIFICATION LiveSpec
CONSTANTS
    Comments = {create}
    Requests = {create, read}
    MaxSignals = 3
PROPERTY NotificationEnds
