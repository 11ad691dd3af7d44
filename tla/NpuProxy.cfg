SPECIFICATION Spec
CONSTANTS
    Names = {a}
    Conns = {c1, c2}
    TenantOf <- OneTenant
    Admin = Admin
    None = None
    MaxRequests = 2
    MaxCommands = 1
INVARIANTS
    TablesInv
    NoneForgotten
PROPERTIES
    ImplementsService
    EveryRequestSettled
