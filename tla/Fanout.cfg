SPECIFICATION FairSpec
CONSTANTS
    p = p
    s = s
    t = t
    news = news
    chat = chat
    Main = Main
    None = None
    Clients = {p, s, t}
    Channels = {news, chat}
    Casts <- Cast
INVARIANTS OneMode GoneIsDetached PublishReaches
PROPERTIES DeadIsDetached 
CHECK_DEADLOCK FALSE
