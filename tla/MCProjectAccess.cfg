\* Two workers, one project, two users.
CONSTANTS
    w1 = w1
    w2 = w2
    u1 = u1
    u2 = u2
    g1 = g1
    g2 = g2
    p1 = p1
    Workers = {w1, w2}
    Users = {u1, u2}
    RealmAdmins = {u2}
    Groups = {g1, g2}
    EndAlike <- MCEndAlike
    Tokens <- MCTokens
    Projects = {p1}
SYMMETRY MCWorkers
CHECK_DEADLOCK FALSE \* when its only project is deleted nobody can do anything
SPECIFICATION Spec
INVARIANTS OwnerKeepsControl ListedAreViewable
PROPERTIES ChangeIsAuthorized RemovedStaysRemoved
