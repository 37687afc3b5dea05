SPECIFICATION FairSpec
CONSTANTS
    Pairs = {p1}
    Outs = {u1}
    Hooks = {h1}
    Users = {p1, u1, h1}
    Tokens = {old, p1}
    Backlog = {e0}
    Accounts = {a1, a2}
    Lookalikes = {a1, a2}
    NoToken = NoToken
    Blank = Blank
    Unknown = Unknown
    NoAccount = NoAccount
    NoEvent = NoEvent
    Window = 1
    MaxSkew = 1
    MaxFaults = 1
INVARIANTS
    TypeOK
    ConsentBeforeTrust
    QuietLookupExact
    NoResurrection
    BacklogSwept
PROPERTIES
    PollingEnds
CHECK_DEADLOCK FALSE
