\* Two clients on both sides of the device: every interleaving with its threads.
CONSTANT Clients = {p1, p2}
SPECIFICATION LiveSpec
INVARIANTS TypeOK OpenIffWanted CallsOnlyAttached NoUseAfterDeInit
PROPERTIES DetachReturns OpensAtLast
