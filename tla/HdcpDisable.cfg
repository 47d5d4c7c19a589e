\* Two connectors, one of which can be protected; sparse handles 0 and 2 occur.
SPECIFICATION Spec
CONSTANTS
    Conns = {"dp", "hdmi"}
    NoPipe = NoPipe
    Typed = {"dp", "hdmi"}
    Protectable = {"dp"}
    Callers = {a}
    Targets = {"all", "dp"}
    Types = {0, 1}
    MaxHandle = 2
INVARIANTS DisableDisables
