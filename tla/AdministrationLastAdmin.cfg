CONSTANTS
    Users = {ann, bob, cho}
    Admins = {ann, bob}
    Roles = {admin, custom}
    AdminRole = admin
    Permissions = {manage, other}
    Manage = manage
    NoRole = none
    Requests = {r1, r2}
    Requested = {"update_user"}
SPECIFICATION Spec
PROPERTY LastAdminStaysActive
CHECK_DEADLOCK FALSE
