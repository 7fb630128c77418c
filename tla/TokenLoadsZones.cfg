SPECIFICATION FormSpec
CONSTANTS
    ZonesOf <- MCZonesOf
    MaxForms = 2
    MaxTyped = 1
    MaxZoneCalls = 2
INVARIANT
    TokenLoadsZones
CHECK_DEADLOCK FALSE
