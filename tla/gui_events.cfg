SPECIFICATION CmSpec
CONSTANTS
    cm = cm
    Handler = {cm, h}
    None = None
    Key = {a, b, t}
    Event = {{a, t}, {b}}
    Subject = {{a, b}, {t}}
    Session = {s1, s2}
    MaxId = 3
    MaxWalks = 2
    MaxComponent = 2
    MaxCalls = 8
INVARIANTS CmTypeOK WalksValid NothingLost ShownPromptly CloseValid
PROPERTIES Delivered
CHECK_DEADLOCK FALSE
