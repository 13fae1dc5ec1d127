CONSTANTS
    Junk = Junk
    Unparsable = Unparsable
    Environments <- MCEnvironments
    BaseFiles <- MCBaseFiles
    Bodies <- MCBodies
SPECIFICATION ConfigSpec
INVARIANTS ValidInForce AcknowledgedSurvives
CHECK_DEADLOCK FALSE
