CONSTANTS
    sa = sa  sb = sb  sd = sd  sn = sn  u1 = u1  u2 = u2
    None = None
    Sessions = {sa, sb, sd, sn}
    Users = {u1, u2}
    Erasable = {u1}
    UserOf <- OwnerOf
    Message <- SentOf
    Span = 3
    Instants = {5, 12}
    Day = 4  Offset = 1  Probe = 0  DeadBand = 0  Horizon = 4  Grace = 4  Cap = 12  Least = 0
    EraseGrace = 4
    QuietRescan = TRUE
    Targets = {1, 2}
    MaxTrouble = 2
SPECIFICATION Spec
INVARIANTS
    NothingLeft
CHECK_DEADLOCK FALSE
