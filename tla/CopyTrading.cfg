\* Mutual followers, every fault: messages delivered again, workers that die.
SPECIFICATION FairSpec
CONSTANTS
    alice = alice
    bob = bob
    carol = carol
    Users = {alice, bob, carol}
    Requested <- Circle
    Orders = {o1}
    Workers = {w1, w2}
    Faults = {"balance", "reject", "redeliver", "crash", "publish"}
INVARIANTS
    TypeOK
    NoCascade
    OnlyFollowersCopy
    NobodyForgotten
PROPERTIES
    WorkDrains
