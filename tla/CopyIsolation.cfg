\* The comment "failure isolation per follower" against a balance fetch that fails.
SPECIFICATION Spec
CONSTANTS
    alice = alice
    bob = bob
    carol = carol
    Users = {alice, bob, carol}
    Requested <- Fan
    Orders = {o1}
    Workers = {w1, w2}
    Faults = {"balance"}
INVARIANTS
    IsolatedPerFollower
