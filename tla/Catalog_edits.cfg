CONSTANTS
    Source = {s1}
    Runtime = {r1}
    Stack = {k1}
    Admin = {u1, u2}
    Url = {https, ssh}
    SshUrl = {ssh}
    Path = {p1}
    NULL = NULL
    NoRow = NoRow
    Deleted = Deleted
SPECIFICATION Spec
INVARIANTS
    CatalogTypeOK
    SourcesAreSound
    StacksAreSound
    LinksExist
CHECK_DEADLOCK FALSE
