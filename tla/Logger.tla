------------------------------- MODULE Logger -------------------------------
(***************************************************************************)
(* Logger (logger.h) and LogSinks::dispatch (log_sink.h): threads that log *)
(* through any of several loggers into the same sinks, one after another   *)
(* and without a lock.                                                     *)
(*                                                                         *)
(* A message below the level of its logger is a breadcrumb: it is kept in  *)
(* the thread's history, which all loggers share, and comes out in the     *)
(* forensic report before the next error.                                  *)
(***************************************************************************)
EXTENDS Integers, Sequences, SequencesExt

CONSTANTS Threads,
          Loggers,      \* the loggers that share the sinks
          MinLevel,     \* MinLevel[l]: the min_level of logger l
          Forensics,    \* the loggers constructed with a forensics_cfg
          Enabled,      \* those of them with breadcrumbs.enabled
          Limit,        \* Limit[l]: breadcrumbs.per_thread_limit
          Sinks,        \* the sequence of sinks
          Levels,       \* the levels that are logged, as LogLevel numbers them
          MaxLogs       \* bound: MaxLogs[t], calls of t

Off == 0
Error == 5
LogLevel == Off..6

ASSUME ConfigurationAssumption ==
    /\ Enabled \subseteq Forensics /\ Forensics \subseteq Loggers
    /\ MinLevel \in [Loggers -> LogLevel]
    /\ Limit \in [Loggers -> Nat]
    /\ Levels \subseteq LogLevel \ {Off}
    /\ MaxLogs \in [Threads -> Nat]

\* Each sink has a unique_ptr of its own.
ASSUME SinksAssumption == Sinks \in Seq(Range(Sinks)) /\ IsInjective(Sinks)

VARIABLES calls,   \* calls[t]: how often t has logged
          history, \* history[t]: ctx.history, the breadcrumbs of t
          pending, \* pending[t]: what the call of t has still to write, and where
          written, \* written[s]: what sink s has received
          crumbs   \* crumbs[t]: every breadcrumb of t since its last report (history)

vars == <<calls, history, pending, written, crumbs>>

Messages == [thread : Threads, call : Nat \ {0}, logger : Loggers, level : Levels]

\* Both name the call that they are a part of.
Reports == [thread : Threads, call : Nat \ {0}, crumbs : Seq(Messages)]

\* What a sink receives: a message, or a report of breadcrumbs.
Items == Messages \cup Reports

IsReport(item) == "crumbs" \in DOMAIN item

\* The history never outgrows the largest limit.
TypeOK ==
    /\ calls \in [Threads -> Nat]
    /\ \A t \in Threads : calls[t] <= MaxLogs[t]
    /\ history \in [Threads -> Seq(Messages)]
    /\ crumbs \in [Threads -> Seq(Messages)]
    /\ \A t \in Threads : history[t] # <<>> => \E l \in Enabled : Len(history[t]) <= Limit[l]
    /\ pending \in [Threads -> Seq([sink : Range(Sinks), item : Items])]
    /\ written \in [Range(Sinks) -> Seq(Items)]

Init ==
    /\ calls = [t \in Threads |-> 0]
    /\ history = [t \in Threads |-> <<>>]
    /\ pending = [t \in Threads |-> <<>>]
    /\ written = [s \in Range(Sinks) |-> <<>>]
    /\ crumbs = [t \in Threads |-> <<>>]

-----------------------------------------------------------------------------
IsBreadcrumbActive(l) == l \in Enabled /\ Limit[l] > 0

Message(t, l, level) == [thread |-> t, call |-> calls[t] + 1, logger |-> l, level |-> level]

\* Mutant: the context is one for all threads.
ContextShared(t) == CHOOSE u \in Threads : TRUE

\* ctx is thread_local.
Context(t) == t

\* Mutant: it is compared before the push.
TrimmedLate(messages, limit) ==
    IF Len(messages) - 1 > limit THEN Tail(messages) ELSE messages

\* One more than the limit, and the oldest goes; only one, also where a logger
\* with a larger limit has left more.
Trimmed(messages, limit) ==
    IF Len(messages) > limit THEN Tail(messages) ELSE messages

\* dispatch() of a message below the level.
Remember(t, l, level) ==
    /\ pending[t] = <<>>
    /\ calls[t] < MaxLogs[t]
    /\ MinLevel[l] # Off
    /\ level < MinLevel[l]
    /\ IsBreadcrumbActive(l)
    /\ calls' = [calls EXCEPT ![t] = @ + 1]
    /\ history' = [history EXCEPT ![Context(t)] =
          Trimmed(Append(@, Message(t, l, level)), Limit[l])]
    /\ crumbs' = [crumbs EXCEPT ![t] = Append(@, Message(t, l, level))]
    /\ UNCHANGED <<pending, written>>

\* Mutant: the items of a call are written by tasks of their own.
WriteSinkAny(t) ==
    /\ pending[t] # <<>>
    /\ \E k \in DOMAIN pending[t] :
          /\ written' = [written EXCEPT ![pending[t][k].sink] = Append(@, pending[t][k].item)]
          /\ pending' = [pending EXCEPT ![t] = RemoveAt(@, k)]
    /\ UNCHANGED <<calls, history, crumbs>>

\* LogSinks::dispatch: every sink in turn.
Dispatched(item) == [k \in DOMAIN Sinks |-> [sink |-> Sinks[k], item |-> item]]

\* dispatch() of a message of the level or above.
Write(t, l, level) ==
    /\ pending[t] = <<>>
    /\ calls[t] < MaxLogs[t]
    /\ MinLevel[l] # Off
    /\ level >= MinLevel[l]
    /\ ~(level >= Error /\ l \in Forensics)
    /\ calls' = [calls EXCEPT ![t] = @ + 1]
    /\ pending' = [pending EXCEPT ![t] = Dispatched(Message(t, l, level))]
    /\ UNCHANGED <<history, written, crumbs>>

\* Mutant: the message is dispatched before the report.
FlushOrderLate(report, message) == message \o report

\* flush_forensics() comes before the dispatch of the message.
FlushOrder(report, message) == report \o message

\* Mutant: the history is reported and kept.
FlushedKept(l, messages) == messages

\* The history after flush_forensics(): a report of breadcrumbs clears it.
Flushed(l, messages) == IF l \in Enabled THEN <<>> ELSE messages

\* dispatch() of an error, with flush_forensics().
WriteError(t, l, level) ==
    /\ pending[t] = <<>>
    /\ calls[t] < MaxLogs[t]
    /\ MinLevel[l] # Off
    /\ level >= MinLevel[l]
    /\ level >= Error /\ l \in Forensics
    /\ calls' = [calls EXCEPT ![t] = @ + 1]
    /\ pending' = [pending EXCEPT ![t] =
          LET report == [thread |-> t, call |-> calls[t] + 1,
                         crumbs |-> IF l \in Enabled THEN history[Context(t)] ELSE <<>>]
          IN  FlushOrder(Dispatched(report), Dispatched(Message(t, l, level)))]
    /\ history' = [history EXCEPT ![Context(t)] = Flushed(l, @)]
    /\ crumbs' = [crumbs EXCEPT ![t] = IF l \in Enabled THEN <<>> ELSE @]
    /\ UNCHANGED written

\* write() of the next sink.
WriteSink(t) ==
    /\ pending[t] # <<>>
    /\ LET w == Head(pending[t]) IN
       written' = [written EXCEPT ![w.sink] = Append(@, w.item)]
    /\ pending' = [pending EXCEPT ![t] = Tail(@)]
    /\ UNCHANGED <<calls, history, crumbs>>

Next ==
    \E t \in Threads :
        \/ \E l \in Loggers, level \in Levels :
              Remember(t, l, level) \/ Write(t, l, level) \/ WriteError(t, l, level)
        \/ WriteSink(t)

Spec == Init /\ [][Next]_vars

-----------------------------------------------------------------------------
(* Properties                                                              *)

\* Items j and k of sink s are one thread's, and the thread has none between them.
Adjacent(s, j, k) ==
    /\ j < k
    /\ written[s][j].thread = written[s][k].thread
    /\ \A i \in j + 1 .. k - 1 : written[s][i].thread # written[s][j].thread

\* An error, which the report of its breadcrumbs comes before.
NeedsReport(item) ==
    ~IsReport(item) /\ item.level >= Error /\ item.logger \in Forensics

\* The history is the latest breadcrumbs of its own thread since its last report,
\* without a gap, and never empty when there was one, although loggers with
\* different limits push to it and each drops at most one (logger.h:158-161).
HistoryIsRecent ==
    \A t \in Threads :
        /\ IsSuffix(history[t], crumbs[t])
        /\ crumbs[t] # <<>> => history[t] # <<>>

\* In every sink, and whatever the other threads write: the next thing a thread
\* writes after a forensic report is the error it is about, and the last thing it
\* wrote before such an error is its report (logger.h:153-157).
ReportedBeforeError ==
    \A s \in Range(Sinks) :
        /\ \A k \in DOMAIN written[s] : NeedsReport(written[s][k]) =>
              \E j \in DOMAIN written[s] : Adjacent(s, j, k) /\ IsReport(written[s][j])
        /\ \A j, k \in DOMAIN written[s] :
              IsReport(written[s][j]) /\ Adjacent(s, j, k) => NeedsReport(written[s][k])

\* No breadcrumb is reported twice, after a later one, or by another thread,
\* although the history outlives the call that left it, and any logger of the
\* thread may report it (logger.h:115-120, 167-173).
ReportedOnce ==
    \A s \in Range(Sinks) : \A j, k \in DOMAIN written[s] :
        LET first == written[s][j]
            last == written[s][k]
        IN  (IsReport(first) /\ IsReport(last) /\ first.thread = last.thread /\ j <= k) =>
                \A a \in DOMAIN first.crumbs, b \in DOMAIN last.crumbs :
                    /\ first.crumbs[a].thread = first.thread
                    /\ (j < k \/ a < b) => first.crumbs[a].call < last.crumbs[b].call

\* One thread's items reach the sinks in one order, and each sink once: of two
\* sinks one may be behind the other, but they never disagree (log_sink.h:36-38).
SinksAgree ==
    \A r, s \in Range(Sinks) : \A i \in DOMAIN written[r], k \in DOMAIN written[s] :
        written[r][i].thread = written[s][k].thread =>
            /\ \/ \E j \in 1..k : written[s][j] = written[r][i]
               \/ \E j \in 1..i : written[r][j] = written[s][k]
            /\ r = s /\ i # k => written[r][i] # written[s][k]
=============================================================================
