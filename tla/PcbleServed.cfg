\* One helper and resets of the main loop; one console, one request in the air,
\* one handoff.
SPECIFICATION ServedSpec
CONSTANTS
    Slots = {s1}
    Resetters = {"main"}
    Wakers = {}
    Panels = {}
    NONE = NONE
    Consoles = {c1}
    NoConsole = NoConsole
    Clients = {q1}
    MaxHandoffs = 1
    MaxDeeds = 1
PROPERTIES RequestIsServed BackendWaitsEnd
CHECK_DEADLOCK FALSE
