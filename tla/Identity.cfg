SPECIFICATION Spec
CONSTANTS
    u1 = u1  u2 = u2
    Users = {u1, u2}
    Founder = u1
    Requests = {r1}
    Disconnects = {"invite", "accept", "register", "revoke", "rotate", "change"}
    MaxInvitations = 1
    MaxTokens = 3
    MaxCuts = 1
    MaxDevices = 1
INVARIANTS OwnerRemains DevicesEndWithMembership JoinsBounded
PROPERTIES SessionKept OwnersGoFreely
CHECK_DEADLOCK FALSE
