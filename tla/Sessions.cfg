\* Two requests at a time of two clients, in both orders of commit and answer.
CONSTANTS
    a1 = a1
    g1 = g1
    g2 = g2
    Clients = {c1,c2}
    Requests = {r1,r2}
    Addresses = {a1}
    Telegrams = {x1,x2}
    Googles = {g1,g2}
    Profiles <- TwoSubs
    None = none
    MaxUsers = 2
    MaxTokens = 4
    MaxExpired = 1
    MaxFaults = 2
SPECIFICATION Spec
SYMMETRY Symmetry
INVARIANT TypeOK
INVARIANT HeldIsLive
INVARIANT LiveAccounted
INVARIANT TelegramCanSignIn
