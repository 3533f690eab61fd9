SPECIFICATION Spec
CONSTANTS
    Event = {e1, e2, e3}
    Undeliverable = {e3}
    Refused = {e2}
    Repeated = {e1}
    MaxFaults = 1
PROPERTIES
    EveryEventIsHandledOrSeen
    GaugesSettle
    PollMissesNoMessage
