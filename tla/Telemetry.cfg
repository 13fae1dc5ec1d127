CONSTANTS
    Overflow = Overflow
    Blank = Blank
    UnknownName = UnknownName
    NoTime = NoTime
    gpt = gpt
    claude = claude
    planner = planner
    search = search
    head1 = head1
    head2 = head2
    digits = digits
    Spans <- MCSpans
    Cap <- MCCap
    CacheLimit = 0
    Clock = {1, 2}
    MaxSpans = 3
SPECIFICATION TelemetrySpec
INVARIANTS LabelsCapped OneIdPerTrace TimesOrdered
CHECK_DEADLOCK FALSE
