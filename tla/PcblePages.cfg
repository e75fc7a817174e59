\* Two wake requests, while the main loop resets; or the controller-output page
\* starts and stops sessions during recoveries.
CONSTANTS
    Slots = {s1}
    Resetters = {"main"}
    Wakers = {w1, w2}
    Panels = {"gtk"}
    NONE = NONE
SPECIFICATION GroupSpec
SYMMETRY WakerSymmetry
INVARIANTS WakeExclusive SuspensionIsOwned RetriesBounded
