--------------------------------- MODULE Log ---------------------------------
(***************************************************************************)
(* sylar/log.cpp on top of Config: loggers with their appenders, the       *)
(* events threads log, and the listener that reconfigures the loggers when *)
(* the variable "logs" changes, one locked step after the other, while     *)
(* other threads log.  What an appender writes is not modelled.            *)
(***************************************************************************)
EXTENDS Config, LogFormatter, LexicalCast

CONSTANTS
    LoggerNames,    \* names of loggers, "root" among them
    Own,            \* loggers the program sets up by itself and no document names
    Levels,         \* levels of events
    SetPatterns,    \* patterns the program sets
    DefaultPattern  \* the pattern of Logger::Logger


VARIABLES
    m_loggers,      \* name -> logger, for the loggers that exist
    lock,           \* name -> thread that keeps the logger's m_mutex over several steps
    mgr,            \* thread that keeps the LoggerManager's m_mutex over several steps
    ev,             \* thread -> the event it is logging, or the loggers it still has to print
    lost,           \* an event that a logger accepted reached no appender [history]
    rootSet         \* the root logger was reconfigured [history]

logVars == <<m_loggers, lock, mgr, ev, lost, rootSet>>
vars == <<cfgVars, logVars>>

None == "none"
UNKNOW == 0
DEBUG == 1
FATAL == 5
NoEvent == [pc |-> "none"]

NullFormatter == <<"null">>     \* no pattern: the shared pointer is empty
Formatters == Seq(STRING) \ {NullFormatter}

ASSUME LogAssumption ==
    /\ "root" \in LoggerNames /\ Own \subseteq LoggerNames \ {"root"} /\ Levels \subseteq DEBUG..FATAL
    /\ DefaultPattern \in Formatters /\ SetPatterns \subseteq Formatters
    /\ "logs" \in Names \ Plain /\ Builtin["logs"] = {1} /\ Default["logs"] = {}

-----------------------------------------------------------------------------
(* LogDefine and its conversions *)

\* LogLevel::FromString knows the lower and the upper case, ToString writes the upper.
LevelNames == <<"DEBUG", "INFO", "WARN", "ERROR", "FATAL">>
LowerNames == <<"debug", "info", "warn", "error", "fatal">>
FromString(str) ==
    IF \E l \in DEBUG..FATAL : str \in {LevelNames[l], LowerNames[l]}
    THEN CHOOSE l \in DEBUG..FATAL : str \in {LevelNames[l], LowerNames[l]}
    ELSE UNKNOW
LevelToString(level) == IF level \in DEBUG..FATAL THEN LevelNames[level] ELSE "UNKNOW"

\* The YAML nodes of a logger and of an appender, with "" or <<>> for what is
\* missing.
AppenderNodes == [type : STRING, file : STRING, level : STRING, formatter : Formatters]
LoggerNodes == [name : (LoggerNames \ Own) \cup {""}, level : STRING, formatter : Formatters,
                appenders : Seq(AppenderNodes)]

\* The numbers in I up to n in their order, and what of a sequence is at such
\* places: SelectSeq, of which the prover knows nothing.
Ordered(n, I) ==
    LET upto[i \in 0..n] ==
            IF i = 0 THEN <<>> ELSE IF i \in I THEN Append(upto[i - 1], i) ELSE upto[i - 1]
    IN  upto[n]
Kept(s, I) == LET at == Ordered(Len(s), I) IN [k \in 1..Len(at) |-> s[at[k]]]

\* Appenders without a known type, and files without a name, are dropped; the
\* level of an appender is not read.
FileOrStdout(a) == a.type = "StdoutLogAppender" \/ (a.type = "FileLogAppender" /\ a.file # "")
AppenderFromYaml(a) ==
    [type |-> IF a.type = "FileLogAppender" THEN 1 ELSE 2, level |-> UNKNOW,
     formatter |-> a.formatter, file |-> IF a.type = "FileLogAppender" THEN a.file ELSE ""]
Known(y) == Kept(y.appenders, {i \in 1..Len(y.appenders) : FileOrStdout(y.appenders[i])})
DefineFromYaml(y) ==
    [name |-> y.name, level |-> FromString(y.level), formatter |-> y.formatter,
     appenders |-> [i \in 1..Len(Known(y)) |-> AppenderFromYaml(Known(y)[i])]]

\* The set of definitions, ordered and identified by name.  A logger without a
\* name throws.
LogsFromYaml(loggers) ==
    LET define(y) == IF y.name = "" THEN {} ELSE {DefineFromYaml(y)}
        defines == Elements([i \in 1..Len(loggers) |-> define(loggers[i])])
    IN  {Distinct(vec, [i \in DOMAIN vec |-> vec[i].name]) : vec \in defines}

\* What documents say of "logs" is such nodes.
ASSUME DocsAssumption ==
    \A m \in Members : m[1] = "logs" =>
        m[2] \in Seq(LoggerNodes) /\ FromStr("logs", m[2]) = LogsFromYaml(m[2])

\* LexicalCast<LogDefine, std::string>: a level that is not set is left out.
LevelToYaml(level) == IF level = UNKNOW THEN "" ELSE LevelToString(level)
AppenderToYaml_NoFormatter(a) ==
    [type |-> IF a.type = 1 THEN "FileLogAppender" ELSE "StdoutAppender",
     file |-> IF a.type = 1 THEN a.file ELSE "", level |-> LevelToYaml(a.level), formatter |-> <<>>]
AppenderToYaml(a) ==
    [type |-> IF a.type = 1 THEN "FileLogAppender" ELSE "StdoutAppender",
     file |-> IF a.type = 1 THEN a.file ELSE "", level |-> LevelToYaml(a.level), formatter |-> a.formatter]
DefineToYaml(d) ==
    [name |-> d.name, level |-> LevelToYaml(d.level), formatter |-> d.formatter,
     appenders |-> [i \in 1..Len(d.appenders) |-> AppenderToYaml(d.appenders[i])]]

-----------------------------------------------------------------------------
(* Loggers *)

NewLogger(hasRoot) ==
    [m_level |-> DEBUG, m_formatter |-> DefaultPattern, m_appenders |-> <<>>, m_root |-> hasRoot]
NewAppender(type, file) ==
    [type |-> type, file |-> file, m_level |-> DEBUG, m_formatter |-> NullFormatter, m_hasFormatter |-> FALSE]

\* LoggerManager::LoggerManager
LogInit ==
    /\ m_loggers = [n \in {"root"} |->
            [NewLogger(FALSE) EXCEPT !.m_appenders = <<[NewAppender(2, "") EXCEPT !.m_formatter = DefaultPattern]>>]]
    /\ lock = [n \in LoggerNames |-> None]
    /\ mgr = None
    /\ ev = [t \in Threads |-> NoEvent]
    /\ lost = FALSE
    /\ rootSet = FALSE

Exists(n) == n \in DOMAIN m_loggers
Change(n, logger) == m_loggers' = [m_loggers EXCEPT ![n] = logger]

\* LoggerManager::getLogger
getLogger_NoRoot(n) ==
    /\ mgr = None
    /\ m_loggers' = IF Exists(n) THEN m_loggers ELSE [x \in DOMAIN m_loggers \cup {n} |->
                        IF x = n THEN NewLogger(FALSE) ELSE m_loggers[x]]
getLogger(n) ==
    /\ mgr = None
    /\ m_loggers' = IF Exists(n) THEN m_loggers ELSE [x \in DOMAIN m_loggers \cup {n} |->
                        IF x = n THEN NewLogger(TRUE) ELSE m_loggers[x]]

setLevel(n, level) == Change(n, [m_loggers[n] EXCEPT !.m_level = level])

\* Logger::setFormatter: appenders without a formatter of their own follow; a
\* pattern in error is refused.
setFormatter_LoggerOnly(n, p) ==
    /\ lock[n] = None
    /\ Change(n, IF isError(p) THEN m_loggers[n] ELSE [m_loggers[n] EXCEPT !.m_formatter = p])
setFormatter(n, p) ==
    /\ lock[n] = None
    /\ Change(n, IF isError(p) THEN m_loggers[n]
                 ELSE [m_loggers[n] EXCEPT !.m_formatter = p,
                        !.m_appenders = [i \in 1..Len(@) |-> IF @[i].m_hasFormatter THEN @[i]
                                                             ELSE [@[i] EXCEPT !.m_formatter = p]]])

clearAppenders(n) == lock[n] = None /\ Change(n, [m_loggers[n] EXCEPT !.m_appenders = <<>>])

\* Logger::addAppender
addAppender(n, ap) ==
    /\ lock[n] = None
    /\ Change(n, [m_loggers[n] EXCEPT !.m_appenders = Append(@,
            IF ap.m_formatter = NullFormatter THEN [ap EXCEPT !.m_formatter = m_loggers[n].m_formatter] ELSE ap)])

\* Logger::delAppender
delAppender(n, i) ==
    /\ lock[n] = None
    /\ Change(n, [m_loggers[n] EXCEPT !.m_appenders = RemoveAt(@, i)])

-----------------------------------------------------------------------------
(* The listener of "logs" *)

\* new FileLogAppender or StdoutLogAppender, setLevel, setFormatter if valid.
DefinedAppender(a) ==
    LET ap == [NewAppender(a.type, a.file) EXCEPT !.m_level = a.level]
    IN  IF a.formatter = <<>> \/ isError(a.formatter) THEN ap
        ELSE [ap EXCEPT !.m_formatter = a.formatter, !.m_hasFormatter = TRUE]

\* The loops of the listener: the loggers of the new value that are new or not
\* equal to the old one, then those of the old value that are gone, which get no
\* level and no appenders.
Removed(d) == [d EXCEPT !.level = UNKNOW, !.formatter = <<>>, !.appenders = <<>>]
LogIniter_OnlyNew(old, new) ==
    {<<1, d>> : d \in {e \in new : \A o \in old : o.name # e.name}}
    \cup {<<2, Removed(d)>> : d \in {o \in old : \A e \in new : e.name # o.name}}
LogIniter(old, new) ==
    {<<1, d>> : d \in new \ old}
    \cup {<<2, Removed(d)>> : d \in {o \in old : \A e \in new : e.name # o.name}}
\* The next logger; any fixed choice stands for the order of std::set.
NextLogger(loop) == CHOOSE b \in loop : \A c \in loop : b[1] <= c[1]

\* From one call of the listener on a logger to the next one.
AddFrom(d, i) == IF i <= Len(d.appenders) THEN [at |-> "add", d |-> d, i |-> i] ELSE NoPoint
NextPoint(point) ==
    LET d == point.d
        to(at) == [point EXCEPT !.at = at]
    IN  CASE point.at = "get" -> to("level")
          [] point.at = "level" -> to(IF d.formatter = <<>> THEN "clear" ELSE "formatter")
          [] point.at = "formatter" -> to("clear")
          [] point.at = "clear" -> AddFrom(d, 1)
          [] point.at = "add" -> AddFrom(d, point.i + 1)

\* One step of a listener that runs.
ListenerStep(t) ==
    LET begins == fr[t].point = NoPoint
        b == NextLogger(fr[t].loop)
        point == IF begins THEN [at |-> "get", d |-> b[2], i |-> 0] ELSE fr[t].point
        n == point.d.name
    IN  /\ CallGoesOn(t, NextPoint(point), IF begins THEN fr[t].loop \ {b} ELSE fr[t].loop)
        /\ \/ point.at = "get" /\ getLogger(n)
           \/ point.at = "level" /\ setLevel(n, point.d.level)
           \/ point.at = "formatter" /\ setFormatter(n, point.d.formatter)
           \/ point.at = "clear" /\ clearAppenders(n)
           \/ point.at = "add" /\ addAppender(n, DefinedAppender(point.d.appenders[point.i]))
        /\ rootSet' = (rootSet \/ n = "root")
        /\ UNCHANGED <<lock, mgr, ev, lost>>

RunListener(t) ==
    /\ fr[t].pc = "call"
    /\ Call(t, IF fr[t].var = "logs" THEN LogIniter(m_val["logs"], fr[t].v) ELSE {})
    /\ UNCHANGED logVars

-----------------------------------------------------------------------------
(* Events *)

Free(t) == fr[t].pc = "idle" /\ ev[t] = NoEvent

\* SYLAR_LOG_NAME
GetLogger(t, n) ==
    /\ Free(t) /\ ~Exists(n) /\ getLogger(n)
    /\ UNCHANGED <<cfgVars, lock, mgr, ev, lost, rootSet>>

\* The program sets up its own loggers.
Program(t, n) ==
    /\ Free(t) /\ n \in Own /\ Exists(n)
    /\ \/ \E l \in Levels : setLevel(n, l)
       \/ \E p \in SetPatterns : setFormatter(n, p)
       \/ m_loggers[n].m_appenders = <<>> /\ addAppender(n, NewAppender(2, ""))
       \/ m_loggers[n].m_appenders # <<>> /\ delAppender(n, 1)
    /\ UNCHANGED <<cfgVars, lock, mgr, ev, lost, rootSet>>

\* StdoutLogAppender::log and FileLogAppender::log write what reaches their level.
Writes(ap, level) == level >= ap.m_level
Unwritten(n, level) == \A i \in 1..Len(m_loggers[n].m_appenders) : ~Writes(m_loggers[n].m_appenders[i], level)

\* Logger::log: the level is read without the lock.
LogEvent(t, n, level) ==
    /\ Free(t) /\ Exists(n) /\ level >= m_loggers[n].m_level
    /\ ev' = [ev EXCEPT ![t] = [pc |-> "lock", logger |-> n, level |-> level]]
    /\ UNCHANGED <<cfgVars, m_loggers, lock, mgr, lost, rootSet>>
\* Under the lock: the appenders, or the root logger while the lock is kept.
LogLocked(t) ==
    LET n == ev[t].logger
        l == m_loggers[n]
    IN  /\ ev[t].pc = "lock" /\ lock[n] = None
        /\ IF l.m_appenders = <<>> /\ l.m_root
           THEN /\ lock' = [lock EXCEPT ![n] = t]
                /\ ev' = [ev EXCEPT ![t].pc = "root"]
                /\ UNCHANGED lost
           ELSE /\ ev' = [ev EXCEPT ![t] = NoEvent]
                /\ lost' = (lost \/ Unwritten(n, ev[t].level))
                /\ UNCHANGED lock
        /\ UNCHANGED <<cfgVars, m_loggers, mgr, rootSet>>
\* m_root->log
LogRoot(t) ==
    LET n == ev[t].logger
    IN  /\ ev[t].pc = "root"
        /\ IF ev[t].level >= m_loggers["root"].m_level
           THEN ev' = [ev EXCEPT ![t].pc = "rootlock"] /\ UNCHANGED lock
           ELSE ev' = [ev EXCEPT ![t] = NoEvent] /\ lock' = [lock EXCEPT ![n] = None]
        /\ UNCHANGED <<cfgVars, m_loggers, mgr, lost, rootSet>>
LogRootLocked(t) ==
    /\ ev[t].pc = "rootlock" /\ lock["root"] = None
    /\ lost' = (lost \/ Unwritten("root", ev[t].level))
    /\ lock' = [lock EXCEPT ![ev[t].logger] = None]
    /\ ev' = [ev EXCEPT ![t] = NoEvent]
    /\ UNCHANGED <<cfgVars, m_loggers, mgr, rootSet>>

\* LoggerManager::toYamlString: its own lock, and each logger's in turn.
ToYaml(t) ==
    /\ Free(t) /\ mgr = None
    /\ mgr' = t
    /\ ev' = [ev EXCEPT ![t] = [pc |-> "print", left |-> DOMAIN m_loggers]]
    /\ UNCHANGED <<cfgVars, m_loggers, lock, lost, rootSet>>
ToYamlNext(t) ==
    /\ ev[t].pc = "print"
    /\ IF ev[t].left = {} THEN ev' = [ev EXCEPT ![t] = NoEvent] /\ mgr' = None
       ELSE \E n \in ev[t].left : /\ lock[n] = None
                                  /\ ev' = [ev EXCEPT ![t].left = @ \ {n}]
                                  /\ UNCHANGED mgr
    /\ UNCHANGED <<cfgVars, m_loggers, lock, lost, rootSet>>

Init == CfgInit /\ LogInit
Next == \E t \in Threads :
    \/ ev[t] = NoEvent /\ CfgStep(t) /\ UNCHANGED logVars
    \/ RunListener(t) \/ ListenerStep(t)
    \/ \E n \in LoggerNames : \/ GetLogger(t, n) \/ Program(t, n)
                              \/ \E l \in Levels : LogEvent(t, n, l)
    \/ LogLocked(t) \/ LogRoot(t) \/ LogRootLocked(t) \/ ToYaml(t) \/ ToYamlNext(t)

Spec == Init /\ [][Next]_vars

-----------------------------------------------------------------------------
(* Properties *)

\* No appender ever has a null formatter when an event reaches it, and one
\* without a formatter of its own has its logger's, although setFormatter,
\* addAppender and reconfigurations interleave; and init() cuts every pattern it
\* accepts faithfully.
AppendersFormatted ==
    \A n \in DOMAIN m_loggers : \A i \in 1..Len(m_loggers[n].m_appenders) :
        LET ap == m_loggers[n].m_appenders[i]
        IN  /\ ap.m_formatter # NullFormatter
            /\ ~ap.m_hasFormatter => ap.m_formatter = m_loggers[n].m_formatter
FormatterSound == AllFaithful /\ AppendersFormatted

\* An event that passed the levels is written by some appender, even when it
\* comes between the clearAppenders and the addAppender of a reconfiguration:
\* it goes to the root logger.  Only the root logger itself can lose it, once
\* the configuration names the root.
NoEventLost == lost => rootSet

\* A change of "logs" that did not overlap with another leaves the loggers as
\* the value says: each named one has its level and appenders, and one that was
\* named and is not any more has none.
LoggersApplied ==
    ("logs" \notin overlap /\ \A t \in Threads : ~Changing(t, "logs")) =>
        /\ \A d \in m_val["logs"] :
             LET l == m_loggers[d.name]
             IN  /\ l.m_level = d.level
                 /\ Len(l.m_appenders) = Len(d.appenders)
                 /\ \A i \in 1..Len(d.appenders) :
                       /\ l.m_appenders[i].type = d.appenders[i].type
                       /\ l.m_appenders[i].file = d.appenders[i].file
        /\ \A n \in DOMAIN m_loggers \ (Own \cup {"root"} \cup {d.name : d \in m_val["logs"]}) :
             m_loggers[n].m_appenders = <<>>

\* What ConfigVar::toString writes, read again, is the same value: for containers
\* up to empty strings in them, which come back as "~", and for "logs" up to its
\* appenders to the terminal, which are written under a name that is not read.
SavedReadsBack ==
    /\ ContainersReadBack
    /\ \A d \in m_val["logs"] :
         LET files == {i \in 1..Len(d.appenders) : d.appenders[i].type = 1}
         IN  DefineFromYaml(DefineToYaml(d)) = [d EXCEPT !.appenders = Kept(@, files)]
=============================================================================
