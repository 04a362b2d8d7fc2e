\* Two streams, one of them anonymous, a plain request and two aggregators.
CONSTANTS
    s1 = s1
    s2 = s2
    n1 = n1
    a1 = a1
    a2 = a2
    Requests = {s1, s2, n1}
    Streams = {s1, s2}
    Anonymous = {s2}
    Aggregators = {a1, a2}
SPECIFICATION FairSpec
INVARIANTS TypeOK HandedOverOnce AggregatedOnce
PROPERTIES ClosedIsSettled
