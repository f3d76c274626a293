SPECIFICATION MCSpec
CONSTANTS
    Sender = {s1}
    MaxSends = 4
    MaxInfos = 3
    l1 = l1
    p1 = p1
    p2 = p2
    w1 = w1
    q1 = q1
    v1 = v1
    Null = Null
CHECK_DEADLOCK FALSE
INVARIANTS MailboxNotStarved
PROPERTIES ShutdownReturns StopAnnounced FlusherDelivers LateItemsEnd ReadsLastWrite
