SPECIFICATION Spec
CONSTANTS
    chatgpt = chatgpt
    claude = claude
    s1 = s1
    s2 = s2
    t1 = t1
    t2 = t2
    t3 = t3
    c1 = c1
    c2 = c2
    c3 = c3
    None = None
    PrimaryAdapter = chatgpt
    Adapters = {chatgpt}
    Sockets = {s1, s2}
    Turns = {t1, t2}
    Calls = {c1}
    Operations = {"RESUME", "RECOVER", "LOOK", "CONFIRM", "ACK", "DISCARD"}
    BindFirst = TRUE
CONSTRAINT Bounded
INVARIANTS
    ConnectionEndsEverything
    PromptsAreExclusive
    ConfirmedInterruptsEndTheTurn

    
CHECK_DEADLOCK FALSE
