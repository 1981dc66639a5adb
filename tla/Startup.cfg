CONSTANTS
    p1 = p1
    p2 = p2
    w1 = w1
    w2 = w2
    Process <- MCProcess
    WalletFiles <- MCWalletFiles
    Default = none
    Nobody = nobody
SPECIFICATION FairSpec
INVARIANTS TypeOK WindowHasNode ChoiceIsKept
PROPERTIES ThreadEndsFirst StartEnds QuitEnds
