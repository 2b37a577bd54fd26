SPECIFICATION PortalSpec
CONSTANTS
    Customers = {c1, c2}
    Requests = {h1, h2}
    Devices = {d1, d2}
    Nobody = Nobody
INVARIANT OneDecision
PROPERTY OverruledOnce
