\* Link codes that may collide and reset tokens that never repeat.
CONSTANTS
    Users = {u1,u2}
    Requests = {r1,r2}
    Codes = {c1,c2,c3}
    Values = {t1,t2}
    MaxRows = 3
    MaxFaults = 1
SPECIFICATION Spec
SYMMETRY Symmetry
INVARIANT TypeOK
INVARIANT ReplacedGone
PROPERTY OnlyByStandingCode
