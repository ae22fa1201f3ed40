\* Two payments that compete for one balance, with deposits and reversals.
SPECIFICATION FairSpec
CONSTANTS
    alice = alice bob = bob p1 = p1 p2 = p2 c1 = c1 c2 = c2 Cash = Cash None = None
    Accounts = {alice, bob}
    Workflows = {p1, p2}
    FromAccount <- From
    ToAccount <- To
    Amount <- Amounts
    OpeningBalance <- Opening
    ApiAmounts = {1}
    Modes = {"deposit", "withdraw", "transfer", "blue", "red"}
    Consumers = {c1, c2}
    Kinds = {"place", "release", "post", "reverse", "unknown"}
    MaxVouchers = 4
    MaxDirect = 1
    MaxCommands = 3
    MaxFaults = 1
INVARIANTS
    BooksBalance CapturedOnce HoldsCovered
PROPERTIES
    HoldAnnounced
CHECK_DEADLOCK FALSE
