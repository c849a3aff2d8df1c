--------------------------- MODULE DiagnosticLog ---------------------------
\* The diagnostic log (TASDiagnostics.c): a file that any thread appends to
\* while a switch is on, that starts over when it is full, and that the settings
\* show as a report next to a count of the lines.
\*
\* The switch is read without a lock.  g_diag_lock covers a count and the writes
\* that belong to it; a line that is being written is three steps here, because
\* Twitch may be killed between any two of them.
\*
\* A definition introduced as a fault is a plausible mistake in the one after
\* it; no specification uses it.
EXTENDS Integers, Sequences, FiniteSets

CONSTANTS
    NoThread,
    UserThread,     \* the main thread: the settings and the report
    LogThreads,     \* the others that log
    LineSizes,      \* of a line, at most 2048 in the code
    RotationSize,   \* of the line that marks a new start
    LogLimit,       \* TAS_DIAGNOSTICS_LIMIT
    MaxLines,       \* bound: lines logged in a launch
    MaxLaunches     \* bound

ASSUME LogAssumption ==
    /\ NoThread \notin LogThreads \cup {UserThread} /\ UserThread \notin LogThreads
    /\ LineSizes \subseteq Nat \ {0} /\ RotationSize \in Nat \ {0}
    /\ LogLimit \in Nat /\ RotationSize < LogLimit
    /\ MaxLines \in Nat /\ MaxLaunches \in Nat \ {0}

VARIABLES
    enabled,    \* the default TASDiagnosticsEnabled
    file,       \* its size, and its lines: who wrote each, and if it is LOG_ROTATED
    events,     \* g_logged_events
    at,         \* where each thread is: "idle", "first" and "second" (it is to test
                \* the switch), "ready", "full", "empty", "append"
    size,       \* of the line each thread has formatted
    holder,     \* of g_diag_lock
    report,     \* the report that is being made, and its text; its fields unread,
                \* unwritten and uncleared are ghosts: what had failed by then
    launch,     \* bound: launches so far
    unwritten,  \* ghost: lines counted whose file would not open
    uncleared,  \* ghost: the last clearing could not write the file
    lateLines   \* ghost: what each thread has written since logging was switched off

logVars == <<enabled, file, events, at, size, holder, report, launch, unwritten, uncleared,
             lateLines>>

Writers == LogThreads \cup {UserThread}
EmptyFile == [lines |-> <<>>, size |-> 0]
Put(f, mark, n) ==
    [lines |-> Append(f.lines, [launch |-> launch, rotated |-> mark]), size |-> f.size + n]

NoReport == [made |-> "no", events |-> 0, log |-> <<>>, unread |-> FALSE,
             unwritten |-> 0, uncleared |-> FALSE]
Everywhere(v) == [t \in Writers |-> v]

\* tas_diagnostics_initialize logs PORT_LOADED, in a launch that begins with
\* the file and the switch of the last.
LogInit ==
    /\ enabled \in BOOLEAN /\ file = EmptyFile /\ events = 0
    /\ at = [Everywhere("idle") EXCEPT ![UserThread] = "second"]
    /\ size = Everywhere(0)
    /\ holder = NoThread /\ report = NoReport /\ launch = 1
    /\ unwritten = 0 /\ uncleared = FALSE /\ lateLines = Everywhere(0)

Goes(t, place) == at' = [at EXCEPT ![t] = place]
Rest == UNCHANGED <<enabled, launch, report, uncleared>>

\* A thread logs: tas_diag_log_url and tas_diag_log_stream test the switch,
\* take their labels, and call tas_diag_log, which tests it again.
Logs(t, place) ==
    /\ at[t] = "idle" /\ t # UserThread
    /\ Goes(t, place)
    /\ UNCHANGED <<file, events, size, holder, unwritten, lateLines>> /\ Rest

TestFirst(t) ==
    /\ at[t] = "first"
    /\ Goes(t, IF enabled THEN "second" ELSE "idle")
    /\ UNCHANGED <<file, events, size, holder, unwritten, lateLines>> /\ Rest

\* Fault: the caller has tested it.
LogsAnyway(t) == TRUE

\* tas_diag_log's own test; only then is the line formatted.
MayLog(t) == enabled

TestSecond(t) ==
    /\ at[t] = "second"
    /\ IF MayLog(t)
       THEN Goes(t, "ready") /\ \E n \in LineSizes : size' = [size EXCEPT ![t] = n]
       ELSE Goes(t, "idle") /\ UNCHANGED size
    /\ UNCHANGED <<file, events, holder, unwritten, lateLines>> /\ Rest

\* Fault: a file of exactly the limit is not full.
FullLater(f) == f.size > LogLimit

Full(f) == f.size >= LogLimit

\* The line is counted, and the file opened and measured; if it will not open,
\* that is all.
Count(t) ==
    /\ at[t] = "ready" /\ holder = NoThread /\ events < MaxLines
    /\ events' = events + 1
    /\ \/ /\ holder' = t
          /\ Goes(t, IF Full(file) THEN "full" ELSE "append")
          /\ UNCHANGED <<unwritten, size>>
       \/ /\ unwritten' = unwritten + 1
          /\ Goes(t, "idle")
          /\ size' = [size EXCEPT ![t] = 0]
          /\ UNCHANGED holder
    /\ UNCHANGED <<file, lateLines>> /\ Rest

\* append_log_line_locked on a full file.
Truncate(t) ==
    /\ at[t] = "full"
    /\ file' = EmptyFile
    /\ Goes(t, "empty")
    /\ UNCHANGED <<events, size, holder, unwritten, lateLines>> /\ Rest

Mark(t) ==
    /\ at[t] = "empty"
    /\ file' = Put(file, TRUE, RotationSize)
    /\ Goes(t, "append")
    /\ UNCHANGED <<events, size, holder, unwritten, lateLines>> /\ Rest

AppendLine(t) ==
    /\ at[t] = "append"
    /\ file' = Put(file, FALSE, size[t])
    /\ holder' = NoThread /\ Goes(t, "idle")
    /\ lateLines' = IF enabled THEN lateLines ELSE [lateLines EXCEPT ![t] = @ + 1]
    /\ size' = [size EXCEPT ![t] = 0]
    /\ UNCHANGED <<events, unwritten>> /\ Rest

Write(t) == Count(t) \/ Truncate(t) \/ Mark(t) \/ AppendLine(t)

-----------------------------------------------------------------------------
\* settings_switch_changed: what it switches on it also logs.
SwitchChanged ==
    /\ at[UserThread] = "idle" /\ report.made # "copied"
    /\ enabled' = ~enabled
    /\ IF enabled THEN UNCHANGED at ELSE Goes(UserThread, "second")
    /\ lateLines' = Everywhere(0)
    /\ UNCHANGED <<file, events, size, holder, report, launch, unwritten, uncleared>>

\* clear_diagnostic_log, up to its LOG_CLEARED line: the count is set to 0
\* whether or not the empty file could be written.
Clear ==
    /\ at[UserThread] = "idle" /\ report.made # "copied" /\ holder = NoThread
    /\ \/ file' = EmptyFile /\ uncleared' = FALSE
       \/ file' = file /\ uncleared' = TRUE
    /\ events' = 0 /\ unwritten' = 0
    /\ Goes(UserThread, "second")
    /\ UNCHANGED <<enabled, size, holder, report, launch, lateLines>>

\* diagnostic_report_create: the count and the log are copied under the lock,
\* and later made into the text.  There may be no path to the log, or it may not
\* be readable: the text then says "No diagnostic entries yet.", as for an empty
\* log, and the count stays as it is.
ReportOf(lines, unread) ==
    [made |-> "copied", events |-> events, log |-> lines, unread |-> unread,
     unwritten |-> unwritten, uncleared |-> uncleared]

CopyReport ==
    /\ at[UserThread] = "idle" /\ report.made # "copied" /\ holder = NoThread
    /\ \/ report' = ReportOf(file.lines, FALSE)
       \/ report' = ReportOf(<<>>, TRUE)
    /\ UNCHANGED <<enabled, file, events, at, size, holder, launch, unwritten, uncleared,
                   lateLines>>

\* Fault: the text has the count of when it is made.
CountedNow(r) == [r EXCEPT !.made = "shown", !.events = events]

ReportText(r) == [r EXCEPT !.made = "shown"]

MakeReport ==
    /\ report.made = "copied"
    /\ report' = ReportText(report)
    /\ UNCHANGED <<enabled, file, events, at, size, holder, launch, unwritten, uncleared,
                   lateLines>>

\* Twitch is killed, at any moment, and started again.
Killed ==
    /\ launch < MaxLaunches /\ launch' = launch + 1
    /\ at' = [Everywhere("idle") EXCEPT ![UserThread] = "second"]
    /\ size' = Everywhere(0)
    /\ events' = 0 /\ holder' = NoThread /\ report' = NoReport
    /\ unwritten' = 0 /\ uncleared' = FALSE /\ lateLines' = Everywhere(0)
    /\ UNCHANGED <<enabled, file>>

LogNext ==
    \/ \E t \in Writers : \/ Logs(t, "first") \/ Logs(t, "second")
                          \/ TestFirst(t) \/ TestSecond(t) \/ Write(t)
    \/ SwitchChanged \/ Clear
    \/ CopyReport \/ MakeReport
    \/ Killed

LogSpec == LogInit /\ [][LogNext]_logVars

-----------------------------------------------------------------------------
Of(log, n) == {i \in DOMAIN log : log[i].launch = n /\ ~log[i].rotated}
StartedOver(log) == \E i \in DOMAIN log : log[i].rotated /\ log[i].launch = launch

\* "Log limit: 512 KiB" (diagnostic_report_create): the test comes before the
\* line, so that the file passes the limit by less than one line, and no
\* interleaving or kill adds to that.
SizeBounded ==
    \A n \in LineSizes :
        (\A m \in LineSizes : m <= n) => file.size < LogLimit + n

\* What a report says of this launch is one moment's truth.  It counts no fewer
\* lines than its log holds and than could not be written; and it counts more
\* only when its log says that it was started over, or could not be read and is
\* missing from it.  A clearing leaves neither lines nor count behind, whatever
\* threads were about to write, unless it failed to write.
ReportAgrees ==
    report.made = "shown" /\ ~report.uncleared =>
        LET seen == Cardinality(Of(report.log, launch)) + report.unwritten
        IN  /\ report.events >= seen
            /\ report.events > seen => StartedOver(report.log) \/ report.unread

\* Switched off means off: a line that is written later is one its thread had
\* begun before, and there is at most one of every thread (tas_diag_log).
QuietWhenOff == ~enabled => \A t \in Writers : lateLines[t] <= 1
=============================================================================
