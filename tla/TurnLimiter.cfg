CONSTANTS
    Anonymous = Anonymous
    Requests = {r1, r2, r3}
    Users = {u1}
    UserOf <- OneAnonymous
    TotalValues = {1, 2}
    PerUserValues = {0, 1}
    QueueMaxValues = {2}
SPECIFICATION FairSpec
INVARIANTS NoSlotLeaked WaitersAreBlocked
PROPERTIES NoOvertaking SlotReturned
CHECK_DEADLOCK FALSE
