\* Two events with a handler and one without, published up to twice and
\* retried once over one or two channels, or appended to two Kafka
\* partitions; two SQS messages and two poll loops; consumers that remember
\* one id; a saga of three steps rolled back twice; and small stores.
SPECIFICATION Spec
CONSTANTS
    Events = {a, b, c}
    Wanted = {a, b}
    Publications = 2
    MaxRetries = 1
    Slots = {s1, s2}
    Pools = {{k1}, {k1, k2}}
    Closed = Closed
    Remembered = 1
    Ids = {a, b, c}
    Handled = {a, b}
    Partitions = {p1, p2}
    LogBound = 2
    IdLimit = 1
    Types = {a, b, c}
    Subscribed = {a, b}
    Broken = Broken
    Copies = {m1, m2}
    Loops = {l1, l2}
    NoLoop = NoLoop
    IdCap = 1
    Steps = {t1, t2, t3}
    Rollbacks = {b1, b2}
    Processes = {x1, x2, x3}
    Correlations = {c1, c2}
    Nothing = Nothing
    Writers = {w1, w2}
    EventBound = 3
    Requests = {q1, q2, q3}
    CorrIds = {i1, i2}
    NoRequest = NoRequest
INVARIANTS
    TypeOK
    SecondRun
    CompensatedOnce
    FoundByCorrelation
    StreamAgrees
    ViewIsReplay
    WaitsWhereRepliesGo
PROPERTIES
    RabbitKeepsEvents
    KafkaKeepsEvents
    SqsKeepsEvents
    EverythingSettles
\* A saga and a full log come to an end.
CHECK_DEADLOCK FALSE
