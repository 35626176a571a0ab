SPECIFICATION Spec
CONSTANTS
    c1 = c1
    c2 = c2
    Clients = {c1, c2}
    Routes <- MCRoutes
    Orders <- MCOrders
    ClientOf <- MCClientOf
    Configs <- MCConfigs
    MaxDrops = 1
    MaxRejs = 1
INVARIANT TablesAgree
INVARIANT GoneCancelled
CHECK_DEADLOCK FALSE
