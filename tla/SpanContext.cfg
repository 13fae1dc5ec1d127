CONSTANTS
    Contexts = {c1, c2}
    Main = c1
    Fragile = {"llm", "stream", "wrapped"}
    MaxSpans = 3
SPECIFICATION Spec
INVARIANTS QueuedOnce NearestOpen
PROPERTIES AgentScoped
CHECK_DEADLOCK FALSE
