SPECIFICATION RabbitSpec
CONSTANTS
    Events = {a}
    Wanted = {a}
    Publications = 1
    MaxRetries = 1
    Slots = {s1}
    Pools = {{k1, k2}}
    Closed = Closed
    Remembered = 1
PROPERTY HandledIsAcknowledged
