CONSTANTS
    Users = {ann, bob, cho}
    Admins = {ann, bob}
    Roles = {admin, custom}
    AdminRole = admin
    Permissions = {manage, other}
    Manage = manage
    NoRole = none
    Requests = {r1, r2, r3}
    Third = r3
    Requested = {"create_user", "update_user", "delete_role", "update_role"}
SPECIFICATION MCSpec
INVARIANTS
    TypeOK
    RolesKeepGrants
PROPERTIES
    AdminKept
    RolesOfUsersExist
    GrantsReplaced
    RequestsEnd
CHECK_DEADLOCK FALSE
