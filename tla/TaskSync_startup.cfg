SPECIFICATION Spec
CONSTANTS
    j1 = j1
    j2 = j2
    private = private
    public = public
    own = own
    Jobs = {j1, j2}
    Private = {private}
    Public = {public}
    Own = {own}
    Stubborn = {public}
    Cycle = 2
    MaxHash = 2
    MaxChanges = 1
INVARIANTS
    StartupReloaded
