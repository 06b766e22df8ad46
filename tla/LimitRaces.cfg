\* Two creations with a role that changes.
CONSTANTS
    Requests = {r1,r2}
    Roles <- TwoRoles
    Limit <- SmallLimits
    Labels = {l1,l2}
    MaxRows = 3
    MaxFaults = 1
SPECIFICATION Spec
SYMMETRY Symmetry
INVARIANT TypeOK
INVARIANT OvershootBounded
PROPERTY NotOnDeletedKey
