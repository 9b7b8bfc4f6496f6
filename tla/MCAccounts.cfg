\* Two archives of up to four lines, over three seconds of two ticks; one user,
\* two passwords, every form of hash; two connections.
SPECIFICATION Spec
CONSTANTS
    u1 = u1
    c1 = c1
    c2 = c2
    p1 = p1
    p2 = p2
    s1 = s1
    s2 = s2
    NoOne = NoOne
    Users = {u1}
    Passwords = {p1, p2}
    Contexts = {c1, c2}
    SessionKeys = {s1, s2}
    Keys <- TwoChannels
    Tick = 2
    MaxTime = 5
    MaxRows = 4
INVARIANTS
    RangesMeet
    PagesMeet
