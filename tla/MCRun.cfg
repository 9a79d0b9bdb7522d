SPECIFICATION Spec
CONSTANTS
    ask = ask
    fetch = fetch
    ann = ann
    Bots = {ask, fetch}
    Gated = {ask}
    Writes = {ask}
    Container = {fetch}
    Continue = {fetch}
    Tries = 0
    Relocks = 1
    Stoppers = {ann}
INVARIANTS
    TypeOK
    ChannelSafe
    NoWriteWithoutYes
    WritesOnce
    HistoryAgrees
PROPERTIES
    AnsweredOnce
    OnlyAbandonedRevive
