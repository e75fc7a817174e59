\* Two helpers may overlap; resets come from the HTTP thread.
CONSTANTS
    Slots = {s1, s2}
    Resetters = {"http"}
    Wakers = {}
    Panels = {}
    NONE = NONE
SPECIFICATION Spec
SYMMETRY SlotSymmetry
INVARIANTS TypeOK SingleSession OwnershipIsLaunch
