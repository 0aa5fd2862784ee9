SPECIFICATION Spec
CONSTANTS
    Call = {c1, c2}
    activity = activity
    timeline = timeline
    Tool = {activity, timeline}
    a = a
    b = b
    e = e
    Item = {a, b, e}
    Returns <- MCReturns
    TimelineItem = {e}
    MaxToolCalls = 3
    MaxIterations = 3
    None = None
INVARIANT
    ReferenceNamesOneItem
