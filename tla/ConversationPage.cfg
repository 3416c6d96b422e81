SPECIFICATION Spec
CONSTANTS
    a = a  q1 = q1  xa = xa  f1 = f1  f2 = f2  load = load
    None = None
    Failed = Failed
    OldConvs = {a}
    OldAnswers = {xa}
    Questions = {q1}
    Flows = {f1, f2}
    Loader = load
PROPERTIES
    AnswerStays
    PartedOnlyBy
    BusyEnds
CHECK_DEADLOCK FALSE
