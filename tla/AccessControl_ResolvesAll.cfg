SPECIFICATION ChecksSpec
CONSTANTS
    viewer = viewer
    editor = editor
    admin = admin
    read = read
    write = write
    Absent = Absent
    Role = {viewer, editor, admin}
    Permission = {read, write}
    DefaultRoles <- MCDefaultRoles
    RoleDef <- MCRoleDef
    UserRoles <- MCUserRoles
    ParentLists = {}
    Checker = {c1, c2}
    MaxWrites = 1
INVARIANT ResolvesAll
CHECK_DEADLOCK FALSE
