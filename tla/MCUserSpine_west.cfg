CONSTANTS
    sa = sa  sb = sb  sd = sd  sn = sn  u1 = u1  u2 = u2
    None = None
    Sessions = {sa, sb, sd, sn}
    Users = {u1, u2}
    Erasable = {u1}
    UserOf <- OwnerOf
    Message <- SentOf
    Span = 3
    Instants = {6, 12}
    Day = 4  Offset <- MinusOne  Probe = 0  DeadBand = 0  Horizon = 4  Grace = 4  Cap = 3  Least = 0
    EraseGrace = 4
    QuietRescan = TRUE
    Targets = {1, 2}
    MaxTrouble = 3
SPECIFICATION Spec
INVARIANTS
    SessionsAddUp
CHECK_DEADLOCK FALSE
