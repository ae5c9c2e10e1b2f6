SPECIFICATION Spec
CONSTANTS
    t1 = t1
    t2 = t2
    Threads = {t1, t2}
    Names <- MCNames
    Plain = {"port"}
    Default <- MCDefault
    Builtin <- MCBuiltin
    PlainValues = {0, 1}
    Docs <- MCDocs
    FromStr <- MCFromStr
    MaxKey = 1
    MaxLoads = 2
    Letters = {"m", "x"}
    Keys = {"m"}
    MaxPattern = 5
    LoggerNames = {"root", "a", "b"}
    Own = {"b"}
    Levels = {2}
    SetPatterns <- MCSetPatterns
    DefaultPattern <- MCPattern
INVARIANTS  FormatterSound NoEventLost LoggersApplied 
SYMMETRY MCSymmetry
