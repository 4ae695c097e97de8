\* A recv without a timeout, and a close at the wrong moment.
CONSTANT MaxPush = 1
SPECIFICATION FairSpec
PROPERTY CloseEndsRecv
CHECK_DEADLOCK TRUE
