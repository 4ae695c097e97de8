\* Every interleaving of a reader in a loop with the pushes and the close.
CONSTANT MaxPush = 4
SPECIFICATION LoopSpec
INVARIANT InOrderNoLoss
PROPERTIES PromiseSpec EventuallyReceived EventuallyEnded
CHECK_DEADLOCK TRUE
