\* Three accounts and two direct messages.
SPECIFICATION Spec
CONSTANTS
    Users = {u1, u2, u3}
    Requests = {r1, r2}
SYMMETRY Symmetry
CHECK_DEADLOCK FALSE
INVARIANTS
    FriendshipIsMutual
    MessagesWereWelcome
    NoPhantomBroadcast
    NoOrphans
