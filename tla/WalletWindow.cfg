\* Two wallets and a .keys file that is imported to one of them, with and without a password,
\* and two messages for a button that shows one; three rows for the nine of a message.
CONSTANTS
    Wallets = {"a.wallet", "b.wallet"}
    KeysFiles = {"k.keys"}
    ImportedTo <- MCImportedTo
    First = "a.wallet"
    Passwords = {"", "p"}
    Friends = {"Bob"}
    MessageLimit = 2
    BadgeLimit = 1
    Own = "own address"
    Others = {"Bob's address"}
    Named <- MCNamed
    MESSAGE_AMOUNT = 2
    CHAR_PRICE = 1
    MinimumFee = 1
    RowLimit = 3
    SizeLimit = 2
    CommentLimit = 1
    Raise = 1
    Amounts = {3, 8}
    Coin = 10
    Wrap = 100
    Users = {"A", "B"}
    Strangers = {"C"}
    Bodies <- MCBodies
    None = ""
    DefaultPools <- MCDefaultPools
    OtherPools = {"mine"}
    PoolLimit = 3
    MaxBalance = 1
    PostLimit = 2
SPECIFICATION MCSpec
INVARIANTS
    MCTypeOK
    ContactsKept
    EncryptionTold
    UnreadIsCounted
    PaidIsShown
    RowsKept
    MailIsUnderstood
    WindowReachable
    MenuIsTrue
    BalancesShown
