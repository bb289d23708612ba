SPECIFICATION Spec
CONSTANTS
    c1 = c1  r1 = r1  r2 = r2
    Client = {c1}
    Operator = op
    Register = {r1, r2}
    RegisterOf <- RegisterOfClient
    Default = unset
    Wish = wish
    MaxSends = 5
    MaxLost = 1
    MaxFaults = 1
INVARIANTS ConfigurationLasts ResetLasts
CHECK_DEADLOCK FALSE
