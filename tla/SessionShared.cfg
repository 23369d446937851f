SPECIFICATION Spec
CONSTANTS
    Logins = {l1, l2}
    Accounts = {"ann", "root"}
    RoleOf <- MCRoleOf
    Configs <- MCConfigs
    MaxLogins = 3
    MaxTime = 3
INVARIANTS
    OneDevice
    SessionLasts
PROPERTY NoRevival
SYMMETRY Symmetry
CHECK_DEADLOCK FALSE
