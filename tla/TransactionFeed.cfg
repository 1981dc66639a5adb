\* A wallet of three transactions; a message has two rows, and a block three icons for twelve.
CONSTANTS
    Received <- MCReceived
    Sent <- MCSent
    Stored <- MCStored
    TxLimit = 3
    QueueLimit = 0
    MyAddress = "me"
    Found <- MCFound
    Term = 1
    LedgerLimit = 3
    TopHeight = 2
    Clocks = 2
    Wrap64 = 50
SPECIFICATION MCSpec
INVARIANTS MCTypeOK ChangedRowsAreItsRows NoneForgotten MessagesInOrder RowsTellTheirTransactions
PROPERTIES KeepsPromise KeptBackIsTold
\* The process ends when Q_CHECK_PTR fails.
CHECK_DEADLOCK FALSE
