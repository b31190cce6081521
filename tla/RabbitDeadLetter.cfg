\* One channel, and one retry before the event is given up.
SPECIFICATION RabbitSpec
CONSTANTS
    Events = {a}
    Wanted = {a}
    Publications = 1
    MaxRetries = 1
    Slots = {s1}
    Pools = {{k1}}
    Closed = Closed
    Remembered = 1
INVARIANT RetriedOutIsKept
