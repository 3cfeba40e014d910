CONSTANTS
    Runs = {r1, r2}
    Ttl = 2
    Interval = 1
    MaxOutages = 0
SPECIFICATION Spec
INVARIANT InflightHeartbeatProtects
