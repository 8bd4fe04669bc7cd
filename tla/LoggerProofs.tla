---------------------------- MODULE LoggerProofs ----------------------------
(***************************************************************************)
(* Proofs about Logger, for any threads, loggers, limits and sinks: that   *)
(* the history is the latest of its thread, that a report comes right      *)
(* before the error it is about, that no breadcrumb is reported twice, and *)
(* that the sinks agree.                                                   *)
(***************************************************************************)
EXTENDS Logger, SequenceTheorems, TLAPS

\* The place of an item among those of its thread: a report, and then its error.
Rank(x) == IF IsReport(x) THEN x.call + x.call - 1 ELSE x.call + x.call

\* x has been written to sink s, or a call has still to write it there.
Sent(s, x) ==
    \/ \E k \in DOMAIN written[s] : written[s][k] = x
    \/ \E t \in Threads : \E k \in DOMAIN pending[t] :
          pending[t][k].sink = s /\ pending[t][k].item = x

SentTo(s) == {x \in Items : Sent(s, x)}

\* What one sink has received or will, every sink has or will.
SameForAll == \A r, s \in Range(Sinks) : SentTo(r) = SentTo(s)

\* Report x is that of the error y.
IsReportOf(x, y) ==
    /\ IsReport(x) /\ NeedsReport(y)
    /\ x.thread = y.thread /\ x.call = y.call

\* Reports and their errors are sent together.
SentInPairs ==
    \A s \in Range(Sinks) : \A x \in SentTo(s) :
        /\ x.call <= calls[x.thread]
        /\ IsReport(x) => \E y \in SentTo(s) : IsReportOf(x, y)
        /\ NeedsReport(x) => \E y \in SentTo(s) : IsReportOf(y, x)

\* The calls of the messages increase, and are those of thread t up to call c.
Growing(messages, t, c) ==
    /\ \A a \in DOMAIN messages : messages[a].thread = t /\ messages[a].call <= c
    /\ \A a, b \in DOMAIN messages : a < b => messages[a].call < messages[b].call

\* Every message of the first is of an earlier call than any of the second.
AllBefore(first, second) ==
    \A a \in DOMAIN first, b \in DOMAIN second : first[a].call < second[b].call

\* What is reported comes before what a later report has, and before the history.
CrumbsHeld ==
    /\ \A t \in Threads : Growing(history[t], t, calls[t])
    /\ \A s \in Range(Sinks) : \A x \in SentTo(s) : IsReport(x) =>
          /\ Growing(x.crumbs, x.thread, x.call)
          /\ AllBefore(x.crumbs, history[x.thread])
          /\ \A y \in SentTo(s) :
                (IsReport(y) /\ x.thread = y.thread /\ x.call < y.call) =>
                    AllBefore(x.crumbs, y.crumbs)

\* Each sink receives the items of a thread by their rank.
InOrder ==
    /\ \A s \in Range(Sinks) : \A j, k \in DOMAIN written[s] :
          (j < k /\ written[s][j].thread = written[s][k].thread) =>
              Rank(written[s][j]) < Rank(written[s][k])
    /\ \A t \in Threads : \A k \in DOMAIN pending[t] :
          /\ pending[t][k].item.thread = t
          /\ \A s \in Range(Sinks) : pending[t][k].sink = s =>
                /\ \A j \in DOMAIN written[s] : written[s][j].thread = t =>
                      Rank(written[s][j]) < Rank(pending[t][k].item)
                /\ \A l \in DOMAIN pending[t] : (k < l /\ pending[t][l].sink = s) =>
                      Rank(pending[t][k].item) < Rank(pending[t][l].item)

IInv ==
    /\ TypeOK
    /\ SameForAll
    /\ SentInPairs
    /\ CrumbsHeld
    /\ InOrder
    /\ HistoryIsRecent

-----------------------------------------------------------------------------
(* Sequences, items and sinks.                                             *)

LEMMA AppendIs ==
    ASSUME NEW S, NEW q \in Seq(S), NEW x \in S, NEW r, r = Append(q, x)
    PROVE  /\ r \in Seq(S) /\ Len(q) \in Nat /\ Len(r) = Len(q) + 1
           /\ DOMAIN q = 1..Len(q) /\ DOMAIN r = 1..(Len(q) + 1)
           /\ r[Len(q) + 1] = x /\ \A i \in 1..Len(q) : r[i] = q[i]
OBVIOUS

LEMMA TailIs ==
    ASSUME NEW S, NEW q \in Seq(S), q # <<>>, NEW r, r = Tail(q)
    PROVE  /\ r \in Seq(S) /\ Len(q) \in Nat \ {0} /\ Len(r) = Len(q) - 1
           /\ DOMAIN q = 1..Len(q) /\ DOMAIN r = 1..(Len(q) - 1)
           /\ Head(q) = q[1] /\ \A i \in 1..(Len(q) - 1) : r[i] = q[i + 1]
OBVIOUS

LEMMA ConcatIs ==
    ASSUME NEW S, NEW p \in Seq(S), NEW q \in Seq(S), NEW r, r = p \o q
    PROVE  /\ r \in Seq(S) /\ Len(r) = Len(p) + Len(q)
           /\ \A k \in 1..Len(p) : r[k] = p[k]
           /\ \A k \in 1..Len(q) : r[Len(p) + k] = q[k]
OBVIOUS

\* One sequence ends another.
LEMMA SuffixIs ==
    ASSUME NEW S, NEW h \in Seq(S), NEW c \in Seq(S)
    PROVE  IsSuffix(h, c) <=>
              /\ Len(h) <= Len(c)
              /\ \A i \in 1..Len(h) : h[i] = c[Len(c) - Len(h) + i]
<1> DEFINE x == Reverse(h)
           y == Reverse(c)
<1>1. /\ x \in Seq(S) /\ Len(x) = Len(h) /\ \A i \in 1..Len(h) : x[i] = h[Len(h) - i + 1]
      /\ y \in Seq(S) /\ Len(y) = Len(c) /\ \A i \in 1..Len(c) : y[i] = c[Len(c) - i + 1]
      /\ Len(h) \in Nat /\ Len(c) \in Nat
  BY DEF Reverse
<1> HIDE DEF x, y
<1>2. IsSuffix(h, c) <=> Len(x) <= Len(y) /\ SubSeq(x, 1, Len(x)) = SubSeq(y, 1, Len(x))
  BY DEF IsSuffix, IsPrefix, x, y
<1>3. ASSUME Len(h) <= Len(c)
      PROVE  SubSeq(x, 1, Len(x)) = SubSeq(y, 1, Len(x)) <=> \A i \in 1..Len(h) : x[i] = y[i]
  BY <1>1, <1>3
<1>4. ASSUME Len(h) <= Len(c)
      PROVE  (\A i \in 1..Len(h) : x[i] = y[i])
             <=> \A i \in 1..Len(h) : h[i] = c[Len(c) - Len(h) + i]
  <2>1. ASSUME \A i \in 1..Len(h) : x[i] = y[i], NEW i \in 1..Len(h)
        PROVE  h[i] = c[Len(c) - Len(h) + i]
    <3>1. PICK j : j = Len(h) - i + 1
      OBVIOUS
    <3>2. j \in 1..Len(h) /\ j \in 1..Len(c) /\ Len(h) - j + 1 = i
          /\ Len(c) - j + 1 = Len(c) - Len(h) + i
      BY <1>1, <1>4, <3>1
    <3>3. x[j] = h[i] /\ x[j] = y[j]
      BY <1>1, <2>1, <3>2
    <3>4. y[j] = c[Len(c) - j + 1]
      BY <1>1, <3>2
    <3> QED
      BY <3>2, <3>3, <3>4
  <2>2. ASSUME \A i \in 1..Len(h) : h[i] = c[Len(c) - Len(h) + i], NEW i \in 1..Len(h)
        PROVE  x[i] = y[i]
    <3>1. PICK j : j = Len(h) - i + 1
      OBVIOUS
    <3>2. j \in 1..Len(h) /\ i \in 1..Len(c) /\ Len(c) - i + 1 = Len(c) - Len(h) + j
      BY <1>1, <1>4, <3>1
    <3>3. h[j] = c[Len(c) - Len(h) + j]
      BY <2>2, <3>2
    <3>4. x[i] = h[j]
      BY <1>1, <3>1
    <3>5. y[i] = c[Len(c) - i + 1]
      BY <1>1, <3>2
    <3> QED
      BY <3>2, <3>3, <3>4, <3>5
  <2> QED
    BY <2>1, <2>2
<1> QED
  BY <1>1, <1>2, <1>3, <1>4

LEMMA SinksAre ==
    /\ Len(Sinks) \in Nat /\ DOMAIN Sinks = 1..Len(Sinks)
    /\ \A k \in 1..Len(Sinks) : Sinks[k] \in Range(Sinks)
    /\ \A s \in Range(Sinks) : \E k \in 1..Len(Sinks) : Sinks[k] = s
    /\ \A j, k \in 1..Len(Sinks) : Sinks[j] = Sinks[k] => j = k
<1>1. DOMAIN Sinks = 1..Len(Sinks) /\ Len(Sinks) \in Nat
  BY SinksAssumption
<1> QED
  BY <1>1, SinksAssumption DEF Range, IsInjective

LEMMA LimitsAre ==
    /\ Enabled \subseteq Forensics /\ Forensics \subseteq Loggers
    /\ \A l \in Loggers : Limit[l] \in Nat /\ MinLevel[l] \in LogLevel
    /\ Levels \subseteq 0..6 /\ Levels \subseteq Int
BY ConfigurationAssumption DEF LogLevel, Off

LEMMA ItemIs ==
    ASSUME NEW x \in Items
    PROVE  /\ x.thread \in Threads /\ x.call \in Nat \ {0}
           /\ Rank(x) \in Nat
           /\ Rank(x) = IF IsReport(x) THEN x.call + x.call - 1 ELSE x.call + x.call
           /\ IsReport(x) => x.crumbs \in Seq(Messages)
           /\ NeedsReport(x) => ~IsReport(x)
<1>1. CASE x \in Messages
  <2>1. ~IsReport(x)
    BY <1>1 DEF Messages, IsReport
  <2>2. x.thread \in Threads /\ x.call \in Nat \ {0}
    BY <1>1 DEF Messages
  <2> QED
    BY <2>1, <2>2 DEF Rank
<1>2. CASE x \in Reports
  <2>1. IsReport(x)
    BY <1>2 DEF Reports, IsReport
  <2>2. x.thread \in Threads /\ x.call \in Nat \ {0} /\ x.crumbs \in Seq(Messages)
    BY <1>2 DEF Reports
  <2> QED
    BY <2>1, <2>2 DEF Rank, NeedsReport
<1> QED
  BY <1>1, <1>2 DEF Items

LEMMA MessageIs ==
    ASSUME TypeOK, NEW t \in Threads, NEW l \in Loggers, NEW level \in Levels,
           NEW m, m = Message(t, l, level)
    PROVE  /\ m \in Messages /\ m \in Items /\ ~IsReport(m)
           /\ m.thread = t /\ m.call = calls[t] + 1 /\ calls[t] \in Nat
           /\ m.level = level /\ m.logger = l
<1>1. calls[t] \in Nat
  BY DEF TypeOK
<1>2. m = [thread |-> t, call |-> calls[t] + 1, logger |-> l, level |-> level]
  BY DEF Message
<1> QED
  BY <1>1, <1>2 DEF Messages, Items, IsReport

Writes == [sink : Range(Sinks), item : Items]

\* An item is dispatched to every sink once.
LEMMA DispatchedIs ==
    ASSUME NEW x \in Items, NEW D, D = Dispatched(x)
    PROVE  /\ D \in Seq(Writes) /\ Len(D) = Len(Sinks) /\ DOMAIN D = 1..Len(Sinks)
           /\ \A k \in 1..Len(Sinks) : D[k].sink = Sinks[k] /\ D[k].item = x
<1>1. D = [k \in 1..Len(Sinks) |-> [sink |-> Sinks[k], item |-> x]]
  BY SinksAre DEF Dispatched
<1>2. \A k \in 1..Len(Sinks) : [sink |-> Sinks[k], item |-> x] \in Writes
  BY SinksAre DEF Writes
<1> QED
  BY <1>1, <1>2, SinksAre

-----------------------------------------------------------------------------
(* A call that sends something.                                            *)

LEMMA TypesAre ==
    ASSUME IInv
    PROVE  /\ calls \in [Threads -> Nat]
           /\ history \in [Threads -> Seq(Messages)]
           /\ crumbs \in [Threads -> Seq(Messages)]
           /\ pending \in [Threads -> Seq(Writes)]
           /\ written \in [Range(Sinks) -> Seq(Items)]
           /\ \A t \in Threads : calls[t] \in Nat
BY DEF IInv, TypeOK, Writes

\* What is written is sent, and so is what waits to be.
LEMMA SentIs ==
    ASSUME IInv, NEW s \in Range(Sinks)
    PROVE  /\ SentTo(s) \subseteq Items
           /\ \A k \in DOMAIN written[s] : written[s][k] \in SentTo(s)
           /\ \A t \in Threads : \A k \in DOMAIN pending[t] : pending[t][k].sink = s =>
                 pending[t][k].item \in SentTo(s)
           /\ \A x \in SentTo(s) : x.call \in Nat \ {0} /\ x.call <= calls[x.thread]
<1>1. \A k \in DOMAIN written[s] : written[s][k] \in Items
  BY TypesAre, ElementOfSeq
<1>2. \A t \in Threads : \A k \in DOMAIN pending[t] : pending[t][k].item \in Items
  <2>1. ASSUME NEW t \in Threads, NEW k \in DOMAIN pending[t] PROVE pending[t][k] \in Writes
    BY TypesAre, ElementOfSeq
  <2> QED
    BY <2>1 DEF Writes
<1>3. \A x \in SentTo(s) : x.call \in Nat \ {0} /\ x.call <= calls[x.thread]
  BY ItemIs DEF SentTo, IInv, SentInPairs
<1> QED
  BY <1>1, <1>2, <1>3 DEF SentTo, Sent

\* What has to be written, P, brings N to every sink, by rank.
Sends(P, N) ==
    /\ P \in Seq(Writes)
    /\ \A k \in DOMAIN P : P[k].item \in N
    /\ \A s \in Range(Sinks), x \in N : \E k \in DOMAIN P : P[k].sink = s /\ P[k].item = x
    /\ \A j, k \in DOMAIN P : (j < k /\ P[j].sink = P[k].sink) =>
          Rank(P[j].item) < Rank(P[k].item)

\* A thread whose call has ended begins one that sends N to every sink.
Issues(t, P, N) ==
    /\ t \in Threads
    /\ pending[t] = <<>>
    /\ Sends(P, N)
    /\ N \subseteq Items
    /\ calls' = [calls EXCEPT ![t] = @ + 1]
    /\ pending' = [pending EXCEPT ![t] = P]
    /\ UNCHANGED written
    /\ \A x \in N : x.thread = t /\ x.call = calls[t] + 1

LEMMA IssuesSends ==
    ASSUME IInv, NEW t, NEW P, NEW N, Issues(t, P, N), NEW s \in Range(Sinks)
    PROVE  SentTo(s)' = SentTo(s) \cup N
<1>1. /\ \A u \in Threads \ {t} : pending'[u] = pending[u]
      /\ pending'[t] = P /\ DOMAIN pending[t] = {} /\ written' = written
      /\ \A k \in DOMAIN P : P[k].item \in N
      /\ \A x \in N : \E k \in DOMAIN P : P[k].sink = s /\ P[k].item = x
      /\ N \subseteq Items /\ t \in Threads
  BY TypesAre DEF Issues, Sends
<1>2. ASSUME NEW x \in Items, Sent(s, x)' PROVE x \in SentTo(s) \cup N
  <2>1. CASE \E k \in DOMAIN written'[s] : written'[s][k] = x
    BY <1>1, <2>1 DEF SentTo, Sent
  <2>2. ASSUME NEW u \in Threads, NEW k \in DOMAIN pending'[u],
               pending'[u][k].sink = s, pending'[u][k].item = x
        PROVE  x \in SentTo(s) \cup N
    <3>1. CASE u = t
      BY <1>1, <2>2, <3>1
    <3>2. CASE u # t
      BY <1>1, <2>2, <3>2 DEF SentTo, Sent
    <3> QED
      BY <3>1, <3>2
  <2> QED
    BY <1>2, <2>1, <2>2 DEF Sent
<1>3. ASSUME NEW x \in Items, Sent(s, x) PROVE Sent(s, x)'
  <2>1. CASE \E k \in DOMAIN written[s] : written[s][k] = x
    BY <1>1, <2>1 DEF Sent
  <2>2. ASSUME NEW u \in Threads, NEW k \in DOMAIN pending[u],
               pending[u][k].sink = s, pending[u][k].item = x
        PROVE  Sent(s, x)'
    <3>1. u # t
      BY <1>1, <2>2
    <3> QED
      BY <1>1, <2>2, <3>1 DEF Sent
  <2> QED
    BY <1>3, <2>1, <2>2 DEF Sent
<1>4. ASSUME NEW x \in N PROVE Sent(s, x)'
  BY <1>1 DEF Sent
<1>5. \A x \in Items : Sent(s, x)' <=> x \in SentTo(s) \cup N
  BY <1>2, <1>3, <1>4 DEF SentTo
<1> QED
  BY <1>1, <1>5 DEF SentTo

\* Reports and errors are sent together, to every sink.
LEMMA IssuesKeepsSent ==
    ASSUME IInv, NEW t, NEW P, NEW N, Issues(t, P, N),
           \A x \in N : /\ IsReport(x) => \E y \in N : IsReportOf(x, y)
                        /\ NeedsReport(x) => \E y \in N : IsReportOf(y, x)
    PROVE  SameForAll' /\ SentInPairs'
<1>1. \A s \in Range(Sinks) : SentTo(s)' = SentTo(s) \cup N
  BY IssuesSends
<1>2. SameForAll'
  <2>1. \A r, s \in Range(Sinks) : SentTo(r) = SentTo(s)
    BY DEF IInv, SameForAll
  <2> QED
    BY <1>1, <2>1 DEF SameForAll
<1>3. /\ \A u \in Threads \ {t} : calls'[u] = calls[u]
      /\ calls'[t] = calls[t] + 1 /\ t \in Threads /\ N \subseteq Items
      /\ \A u \in Threads : calls[u] \in Nat
      /\ \A x \in N : x.thread = t /\ x.call = calls[t] + 1
  BY TypesAre DEF Issues, Sends
<1>4. ASSUME NEW s \in Range(Sinks), NEW x \in SentTo(s)'
      PROVE  /\ x.call <= calls'[x.thread]
             /\ IsReport(x) => \E y \in SentTo(s)' : IsReportOf(x, y)
             /\ NeedsReport(x) => \E y \in SentTo(s)' : IsReportOf(y, x)
  <2>1. CASE x \in N
    <3>1. x.call <= calls'[x.thread]
      BY <1>3, <2>1
    <3> QED
      BY <1>1, <2>1, <3>1
  <2>2. CASE x \in SentTo(s)
    <3>1. x.thread \in Threads /\ x.call \in Nat /\ x.call <= calls[x.thread]
      BY <2>2, SentIs, ItemIs
    <3>2. x.call <= calls'[x.thread]
      BY <1>3, <3>1
    <3>3. /\ IsReport(x) => \E y \in SentTo(s) : IsReportOf(x, y)
          /\ NeedsReport(x) => \E y \in SentTo(s) : IsReportOf(y, x)
      BY <2>2 DEF IInv, SentInPairs
    <3> QED
      BY <1>1, <3>2, <3>3
  <2> QED
    BY <1>1, <2>1, <2>2
<1>5. SentInPairs'
  BY <1>4 DEF SentInPairs
<1> QED
  BY <1>2, <1>5

LEMMA IssuesKeepsOrder ==
    ASSUME IInv, NEW t, NEW P, NEW N, Issues(t, P, N)
    PROVE  InOrder'
<1>1. /\ \A u \in Threads \ {t} : pending'[u] = pending[u]
      /\ pending'[t] = P /\ written' = written
      /\ \A k \in DOMAIN P : P[k].item \in N
      /\ \A k, l \in DOMAIN P : (k < l /\ P[k].sink = P[l].sink) =>
            Rank(P[k].item) < Rank(P[l].item)
      /\ N \subseteq Items /\ t \in Threads /\ calls[t] \in Nat
      /\ \A x \in N : x.thread = t /\ x.call = calls[t] + 1
  BY TypesAre DEF Issues, Sends
<1>2. ASSUME NEW s \in Range(Sinks), NEW j \in DOMAIN written[s], written[s][j].thread = t,
             NEW x \in N
      PROVE  Rank(written[s][j]) < Rank(x)
  <2>1. PICK y : y = written[s][j]
    OBVIOUS
  <2>2. y \in Items /\ y.call \in Nat \ {0} /\ y.call <= calls[t]
    BY <1>2, <2>1, SentIs
  <2>3. x \in Items /\ x.call = calls[t] + 1
    BY <1>1
  <2>4. /\ Rank(y) = IF IsReport(y) THEN y.call + y.call - 1 ELSE y.call + y.call
        /\ Rank(x) = IF IsReport(x) THEN x.call + x.call - 1 ELSE x.call + x.call
    BY <2>2, <2>3, ItemIs
  <2>5. Rank(y) <= y.call + y.call /\ Rank(y) \in Nat /\ Rank(x) \in Nat
        /\ Rank(x) >= x.call + x.call - 1
    BY <1>1, <2>2, <2>3, <2>4, ItemIs
  <2>6. Rank(y) < Rank(x)
    BY <1>1, <2>2, <2>3, <2>5
  <2> QED
    BY <2>1, <2>6
<1>3. ASSUME NEW k \in DOMAIN P
      PROVE  /\ P[k].item.thread = t
             /\ \A s \in Range(Sinks) : P[k].sink = s =>
                   /\ \A j \in DOMAIN written[s] : written[s][j].thread = t =>
                         Rank(written[s][j]) < Rank(P[k].item)
                   /\ \A l \in DOMAIN P : (k < l /\ P[l].sink = s) =>
                         Rank(P[k].item) < Rank(P[l].item)
  BY <1>1, <1>2
<1>4. ASSUME NEW u \in Threads \ {t}, NEW k \in DOMAIN pending[u]
      PROVE  /\ pending[u][k].item.thread = u
             /\ \A s \in Range(Sinks) : pending[u][k].sink = s =>
                   /\ \A j \in DOMAIN written[s] : written[s][j].thread = u =>
                         Rank(written[s][j]) < Rank(pending[u][k].item)
                   /\ \A l \in DOMAIN pending[u] : (k < l /\ pending[u][l].sink = s) =>
                         Rank(pending[u][k].item) < Rank(pending[u][l].item)
  BY DEF IInv, InOrder
<1>5. \A s \in Range(Sinks) : \A j, k \in DOMAIN written[s] :
         (j < k /\ written[s][j].thread = written[s][k].thread) =>
             Rank(written[s][j]) < Rank(written[s][k])
  BY DEF IInv, InOrder
<1>6. ASSUME NEW u \in Threads, NEW k \in DOMAIN pending'[u]
      PROVE  /\ pending'[u][k].item.thread = u
             /\ \A s \in Range(Sinks) : pending'[u][k].sink = s =>
                   /\ \A j \in DOMAIN written'[s] : written'[s][j].thread = u =>
                         Rank(written'[s][j]) < Rank(pending'[u][k].item)
                   /\ \A l \in DOMAIN pending'[u] : (k < l /\ pending'[u][l].sink = s) =>
                         Rank(pending'[u][k].item) < Rank(pending'[u][l].item)
  <2>1. CASE u = t
    BY <1>1, <1>3, <2>1
  <2>2. CASE u # t
    <3>1. pending'[u] = pending[u] /\ written' = written /\ u \in Threads \ {t}
      BY <1>1, <2>2
    <3>2. k \in DOMAIN pending[u]
      BY <3>1
    <3> QED
      BY <1>4, <3>1, <3>2
  <2> QED
    BY <2>1, <2>2
<1>7. \A s \in Range(Sinks) : \A j, k \in DOMAIN written'[s] :
         (j < k /\ written'[s][j].thread = written'[s][k].thread) =>
             Rank(written'[s][j]) < Rank(written'[s][k])
  BY <1>1, <1>5
<1> QED
  BY <1>6, <1>7 DEF InOrder

LEMMA MessagesAre ==
    ASSUME NEW q \in Seq(Messages), NEW a \in DOMAIN q
    PROVE  q[a].call \in Nat /\ q[a] \in Messages
<1>1. q[a] \in Messages
  BY ElementOfSeq
<1> QED
  BY <1>1 DEF Messages

LEMMA GrowingLater ==
    ASSUME NEW q \in Seq(Messages), NEW t, NEW c \in Nat, NEW d \in Nat, c <= d, Growing(q, t, c)
    PROVE  Growing(q, t, d)
<1>1. \A a \in DOMAIN q : q[a].call \in Nat
  BY MessagesAre
<1> QED
  BY <1>1 DEF Growing

\* Every message of the first is in the second.
Contained(first, second) ==
    \A a \in DOMAIN first : \E b \in DOMAIN second : first[a] = second[b]

\* What thread t remembers, H, and what it reports were in its history.
Remembers(t, H, N) ==
    /\ H \in Seq(Messages)
    /\ Growing(H, t, calls[t])
    /\ Contained(H, history[t])
    /\ \A x \in N : IsReport(x) =>
          /\ Growing(x.crumbs, t, calls[t])
          /\ AllBefore(x.crumbs, H)
          /\ Contained(x.crumbs, history[t])

LEMMA IssuesKeepsCrumbs ==
    ASSUME IInv, NEW t, NEW P, NEW N, Issues(t, P, N),
           NEW H, history' = [history EXCEPT ![t] = H], Remembers(t, H, N)
    PROVE  CrumbsHeld'
<1>1. /\ \A u \in Threads \ {t} : history'[u] = history[u] /\ calls'[u] = calls[u]
      /\ history'[t] = H /\ calls'[t] = calls[t] + 1 /\ calls[t] \in Nat
      /\ t \in Threads /\ N \subseteq Items
      /\ \A x \in N : x.thread = t /\ x.call = calls[t] + 1
  BY TypesAre DEF Issues, Sends
<1>0. /\ H \in Seq(Messages)
      /\ Growing(H, t, calls[t])
      /\ Contained(H, history[t])
      /\ \A x \in N : IsReport(x) =>
            /\ Growing(x.crumbs, t, calls[t])
            /\ AllBefore(x.crumbs, H)
            /\ Contained(x.crumbs, history[t])
  BY DEF Remembers
<1>2. \A u \in Threads : Growing(history[u], u, calls[u])
  BY DEF IInv, CrumbsHeld
<1>3. ASSUME NEW u \in Threads PROVE Growing(history'[u], u, calls'[u])
  <2>1. CASE u = t
    BY <1>0, <1>1, <2>1, GrowingLater
  <2>2. CASE u # t
    BY <1>1, <1>2, <2>2
  <2> QED
    BY <2>1, <2>2
<1>4. ASSUME NEW s \in Range(Sinks), NEW x \in SentTo(s), IsReport(x)
      PROVE  /\ Growing(x.crumbs, x.thread, x.call)
             /\ AllBefore(x.crumbs, history[x.thread])
             /\ \A y \in SentTo(s) : (IsReport(y) /\ x.thread = y.thread /\ x.call < y.call) =>
                   AllBefore(x.crumbs, y.crumbs)
             /\ x.call \in Nat /\ x.call <= calls[x.thread] /\ x.thread \in Threads
  <2>1. x.call \in Nat /\ x.call <= calls[x.thread] /\ x.thread \in Threads
    BY SentIs, ItemIs
  <2> QED
    BY <1>4, <2>1 DEF IInv, CrumbsHeld
<1>5. ASSUME NEW s \in Range(Sinks), NEW x \in SentTo(s)', IsReport(x)
      PROVE  /\ Growing(x.crumbs, x.thread, x.call)
             /\ AllBefore(x.crumbs, history'[x.thread])
             /\ \A y \in SentTo(s)' : (IsReport(y) /\ x.thread = y.thread /\ x.call < y.call) =>
                   AllBefore(x.crumbs, y.crumbs)
  <2>0. SentTo(s)' = SentTo(s) \cup N
    BY IssuesSends
  <2>1. CASE x \in SentTo(s)
    <3>1. Growing(x.crumbs, x.thread, x.call)
      BY <1>4, <1>5, <2>1
    <3>2. AllBefore(x.crumbs, history'[x.thread])
      <4>1. CASE x.thread = t
        <5>1. AllBefore(x.crumbs, history[t])
          BY <1>4, <1>5, <2>1, <4>1
        <5> QED
          BY <1>0, <1>1, <4>1, <5>1 DEF AllBefore, Contained
      <4>2. CASE x.thread # t
        BY <1>1, <1>4, <1>5, <2>1, <4>2
      <4> QED
        BY <4>1, <4>2
    <3>3. ASSUME NEW y \in SentTo(s)', IsReport(y), x.thread = y.thread, x.call < y.call
          PROVE  AllBefore(x.crumbs, y.crumbs)
      <4>1. CASE y \in SentTo(s)
        BY <1>4, <1>5, <2>1, <3>3, <4>1
      <4>2. CASE y \in N
        <5>1. x.thread = t /\ AllBefore(x.crumbs, history[t])
          BY <1>1, <1>4, <1>5, <2>1, <3>3, <4>2
        <5>2. Contained(y.crumbs, history[t])
          BY <1>0, <3>3, <4>2
        <5> QED
          BY <5>1, <5>2 DEF AllBefore, Contained
      <4> QED
        BY <2>0, <4>1, <4>2
    <3> QED
      BY <3>1, <3>2, <3>3
  <2>2. CASE x \in N
    <3>1. x.thread = t /\ x.call = calls[t] + 1 /\ x.crumbs \in Seq(Messages)
      BY <1>1, <1>5, <2>2, ItemIs
    <3>2. Growing(x.crumbs, t, x.call)
      BY <1>0, <1>1, <1>5, <2>2, <3>1, GrowingLater
    <3>3. AllBefore(x.crumbs, history'[x.thread])
      BY <1>0, <1>1, <1>5, <2>2, <3>1
    <3>4. ASSUME NEW y \in SentTo(s)', x.thread = y.thread, x.call < y.call
          PROVE  FALSE
      <4>1. CASE y \in SentTo(s)
        <5>1. y.call \in Nat /\ y.call <= calls[t]
          BY <3>1, <3>4, <4>1, SentIs
        <5> QED
          BY <1>1, <3>1, <3>4, <5>1
      <4>2. CASE y \in N
        BY <1>1, <3>1, <3>4, <4>2
      <4> QED
        BY <2>0, <4>1, <4>2
    <3> QED
      BY <3>1, <3>2, <3>3, <3>4
  <2> QED
    BY <2>0, <2>1, <2>2
<1> QED
  BY <1>3, <1>5 DEF CrumbsHeld

LEMMA KeepsTypes ==
    ASSUME IInv, NEW t \in Threads, calls[t] < MaxLogs[t], calls' = [calls EXCEPT ![t] = @ + 1],
           NEW H \in Seq(Messages), history' = [history EXCEPT ![t] = H],
           NEW C \in Seq(Messages), crumbs' = [crumbs EXCEPT ![t] = C],
           NEW P \in Seq(Writes), pending' = [pending EXCEPT ![t] = P],
           H # <<>> => \E l \in Enabled : Len(H) <= Limit[l],
           UNCHANGED written
    PROVE  TypeOK'
<1>1. MaxLogs[t] \in Nat
  BY ConfigurationAssumption
<1>2. /\ calls' \in [Threads -> Nat] /\ calls'[t] = calls[t] + 1
      /\ \A u \in Threads \ {t} : calls'[u] = calls[u]
  BY TypesAre
<1>3. \A u \in Threads : calls'[u] <= MaxLogs[u]
  <2>1. \A u \in Threads : calls[u] <= MaxLogs[u]
    BY DEF IInv, TypeOK
  <2>2. calls'[t] <= MaxLogs[t]
    BY <1>1, <1>2, TypesAre
  <2> QED
    BY <1>2, <2>1, <2>2
<1>4. history' \in [Threads -> Seq(Messages)] /\ crumbs' \in [Threads -> Seq(Messages)]
  BY TypesAre
<1>5. \A u \in Threads : history'[u] # <<>> => \E l \in Enabled : Len(history'[u]) <= Limit[l]
  <2>1. history'[t] = H /\ \A u \in Threads \ {t} : history'[u] = history[u]
    BY TypesAre
  <2> QED
    BY <2>1 DEF IInv, TypeOK
<1>6. pending' \in [Threads -> Seq(Writes)] /\ written' \in [Range(Sinks) -> Seq(Items)]
  BY TypesAre
<1> QED
  BY <1>2, <1>3, <1>4, <1>5, <1>6 DEF TypeOK, Writes

LEMMA KeepsHistory ==
    ASSUME IInv, NEW t \in Threads,
           NEW H, history' = [history EXCEPT ![t] = H],
           NEW C, crumbs' = [crumbs EXCEPT ![t] = C],
           IsSuffix(H, C), C # <<>> => H # <<>>
    PROVE  HistoryIsRecent'
<1>1. /\ history'[t] = H /\ crumbs'[t] = C
      /\ \A u \in Threads \ {t} : history'[u] = history[u] /\ crumbs'[u] = crumbs[u]
  BY TypesAre
<1>2. \A u \in Threads : IsSuffix(history[u], crumbs[u]) /\ (crumbs[u] # <<>> => history[u] # <<>>)
  BY DEF IInv, HistoryIsRecent
<1>3. \A u \in Threads :
         IsSuffix(history'[u], crumbs'[u]) /\ (crumbs'[u] # <<>> => history'[u] # <<>>)
  BY <1>1, <1>2
<1> QED
  BY <1>3 DEF HistoryIsRecent

LEMMA NoEntry ==
    ASSUME NEW D, NEW S, NEW f \in [D -> S], NEW d \in D
    PROVE  f = [f EXCEPT ![d] = f[d]] /\ f[d] \in S
OBVIOUS

LEMMA WriteKeepsIInv ==
    ASSUME IInv, NEW t \in Threads, NEW l \in Loggers, NEW level \in Levels, Write(t, l, level)
    PROVE  IInv'
<1>1. PICK m : m = Message(t, l, level)
  OBVIOUS
<1>2. PICK P : P = Dispatched(m)
  OBVIOUS
<1>3. /\ pending[t] = <<>> /\ calls[t] < MaxLogs[t] /\ ~(level >= Error /\ l \in Forensics)
      /\ calls' = [calls EXCEPT ![t] = @ + 1] /\ pending' = [pending EXCEPT ![t] = P]
      /\ UNCHANGED <<history, written, crumbs>>
  BY <1>1, <1>2 DEF Write
<1>4. /\ m \in Items /\ ~IsReport(m) /\ m.thread = t /\ m.call = calls[t] + 1
      /\ ~NeedsReport(m)
  BY <1>1, <1>3, MessageIs DEF IInv, NeedsReport
<1>5. /\ P \in Seq(Writes) /\ DOMAIN P = 1..Len(Sinks)
      /\ \A k \in 1..Len(Sinks) : P[k].sink = Sinks[k] /\ P[k].item = m
  BY <1>2, <1>4, DispatchedIs
<1>0. PICK N : N = {m}
  OBVIOUS
<1>6. Issues(t, P, N)
  <2>1. \A j, k \in DOMAIN P : P[j].sink = P[k].sink => j = k
    BY <1>5, SinksAre
  <2>2. \A j, k \in DOMAIN P : ~(j < k /\ P[j].sink = P[k].sink)
    BY <1>5, <2>1, SinksAre
  <2>3. Sends(P, N)
    BY <1>0, <1>5, <2>2, SinksAre DEF Sends
  <2> QED
    BY <1>0, <1>3, <1>4, <2>3 DEF Issues
<1>7. SameForAll' /\ SentInPairs'
  BY <1>0, <1>4, <1>6, IssuesKeepsSent
<1>8. InOrder'
  BY <1>6, IssuesKeepsOrder
<1>9. /\ history' = [history EXCEPT ![t] = history[t]] /\ history[t] \in Seq(Messages)
      /\ crumbs' = [crumbs EXCEPT ![t] = crumbs[t]] /\ crumbs[t] \in Seq(Messages)
  BY <1>3, TypesAre, NoEntry
<1>10. CrumbsHeld'
  <2>1. PICK H : H = history[t]
    OBVIOUS
  <2>2. H \in Seq(Messages) /\ history' = [history EXCEPT ![t] = H]
    BY <1>9, <2>1
  <2>3. Growing(H, t, calls[t])
    BY <2>1 DEF IInv, CrumbsHeld
  <2>4. Contained(H, history[t])
    BY <2>1 DEF Contained
  <2>5. \A x \in N : ~IsReport(x)
    BY <1>0, <1>4
  <2>6. Remembers(t, H, N)
    BY <2>2, <2>3, <2>4, <2>5 DEF Remembers
  <2> QED
    BY <1>6, <2>2, <2>6, IssuesKeepsCrumbs
<1>11. TypeOK'
  <2>1. history[t] # <<>> => \E k \in Enabled : Len(history[t]) <= Limit[k]
    BY DEF IInv, TypeOK
  <2> QED
    BY <1>3, <1>5, <1>9, <2>1, KeepsTypes
<1>12. HistoryIsRecent'
  BY <1>3 DEF IInv, HistoryIsRecent
<1> QED
  BY <1>7, <1>8, <1>10, <1>11, <1>12 DEF IInv

\* A report, and then its error, to every sink.
LEMMA TwoDispatchedAre ==
    ASSUME NEW x \in Items, NEW y \in Items, Rank(x) < Rank(y), NEW N, N = {x, y},
           NEW P, P = FlushOrder(Dispatched(x), Dispatched(y))
    PROVE  Sends(P, N)
<1>1. PICK n : n = Len(Sinks)
  OBVIOUS
<1>0. n \in Nat
  BY <1>1, SinksAre
<1>2. PICK A : A = Dispatched(x)
  OBVIOUS
<1>3. PICK B : B = Dispatched(y)
  OBVIOUS
<1>4. /\ n \in Nat
      /\ A \in Seq(Writes) /\ Len(A) = n /\ \A k \in 1..n : A[k].sink = Sinks[k] /\ A[k].item = x
      /\ B \in Seq(Writes) /\ Len(B) = n /\ \A k \in 1..n : B[k].sink = Sinks[k] /\ B[k].item = y
  BY <1>1, <1>2, <1>3, DispatchedIs, SinksAre
<1>5. /\ P \in Seq(Writes) /\ DOMAIN P = 1..(n + n)
      /\ \A k \in 1..n : P[k] = A[k] /\ P[n + k] = B[k]
  <2>1. P = A \o B
    BY <1>2, <1>3 DEF FlushOrder
  <2>2. /\ P \in Seq(Writes) /\ Len(P) = n + n
        /\ \A k \in 1..n : P[k] = A[k] /\ P[n + k] = B[k]
    <3>1. A \in Seq(Writes) /\ B \in Seq(Writes)
      BY <1>4
    <3>2. /\ P \in Seq(Writes) /\ Len(P) = Len(A) + Len(B)
          /\ \A k \in 1..Len(A) : P[k] = A[k]
          /\ \A k \in 1..Len(B) : P[Len(A) + k] = B[k]
      BY <2>1, <3>1, ConcatIs
    <3>3. Len(A) = n /\ Len(B) = n
      BY <1>4
    <3> QED
      BY <3>2, <3>3
  <2> QED
    BY <2>2
<1>6. ASSUME NEW k \in DOMAIN P
      PROVE  \/ k \in 1..n /\ P[k].sink = Sinks[k] /\ P[k].item = x
             \/ k - n \in 1..n /\ P[k].sink = Sinks[k - n] /\ P[k].item = y
  <2>1. CASE k \in 1..n
    BY <1>4, <1>5, <2>1
  <2>2. CASE k \notin 1..n
    <3>1. PICK j : j = k - n
      OBVIOUS
    <3>0. k \in 1..(n + n)
      BY <1>5
    <3>2. j \in 1..n /\ n + j = k
      BY <1>0, <2>2, <3>0, <3>1
    <3>3. P[k] = B[j]
      BY <1>5, <3>2
    <3> QED
      BY <1>4, <3>1, <3>2, <3>3
  <2> QED
    BY <2>1, <2>2
<1>7. ASSUME NEW s \in Range(Sinks), NEW z \in N
      PROVE  \E k \in DOMAIN P : P[k].sink = s /\ P[k].item = z
  <2>1. PICK k \in 1..n : Sinks[k] = s
    BY <1>1, SinksAre
  <2>2. k \in DOMAIN P /\ n + k \in DOMAIN P
    BY <1>4, <1>5
  <2> QED
    BY <1>4, <1>5, <2>1, <2>2
<1>8. ASSUME NEW j \in DOMAIN P, NEW k \in DOMAIN P, j < k,
             P[j].sink = P[k].sink
      PROVE  Rank(P[j].item) < Rank(P[k].item)
  <2>1. \A a, b \in 1..n : Sinks[a] = Sinks[b] => a = b
    BY <1>1, SinksAre
  <2>2. CASE j \in 1..n /\ P[j].item = x /\ P[k].item = y
    BY <1>8, <2>2
  <2>3. CASE /\ j \in 1..n /\ k \in 1..n /\ P[j].sink = Sinks[j] /\ P[k].sink = Sinks[k]
    <3>1. j = k
      BY <1>8, <2>1, <2>3
    <3> QED
      BY <1>4, <1>5, <1>8, <3>1
  <2>4. CASE /\ j - n \in 1..n /\ k - n \in 1..n
             /\ P[j].sink = Sinks[j - n] /\ P[k].sink = Sinks[k - n]
    <3>1. j - n = k - n
      BY <1>8, <2>1, <2>4
    <3> QED
      BY <1>4, <1>5, <1>8, <3>1
  <2>5. CASE j - n \in 1..n /\ k \in 1..n
    BY <1>4, <1>5, <1>8, <2>5
  <2> QED
    BY <1>6, <2>2, <2>3, <2>4, <2>5
<1> QED
  BY <1>5, <1>6, <1>7, <1>8 DEF Sends

LEMMA EmptyIs ==
    ASSUME NEW S
    PROVE  /\ <<>> \in Seq(S) /\ DOMAIN <<>> = {} /\ Len(<<>>) = 0
OBVIOUS

LEMMA EmptySuffix == IsSuffix(<<>>, <<>>)
<1>1. PICK e : e = <<>>
  OBVIOUS
<1>2. e \in Seq(Nat) /\ Len(e) = 0
  BY <1>1
<1>3. Len(e) <= Len(e) /\ \A i \in 1..Len(e) : e[i] = e[Len(e) - Len(e) + i]
  BY <1>2
<1>4. IsSuffix(e, e)
  BY <1>2, <1>3, SuffixIs
<1> QED
  BY <1>1, <1>4

LEMMA WriteErrorKeepsIInv ==
    ASSUME IInv, NEW t \in Threads, NEW l \in Loggers, NEW level \in Levels,
           WriteError(t, l, level)
    PROVE  IInv'
<1> DEFINE now == history[t]
<1>1. PICK m : m = Message(t, l, level)
  OBVIOUS
<1>2. PICK report : report = [thread |-> t, call |-> calls[t] + 1,
                              crumbs |-> IF l \in Enabled THEN now ELSE <<>>]
  OBVIOUS
<1>3. PICK P : P = FlushOrder(Dispatched(report), Dispatched(m))
  OBVIOUS
<1>4. PICK N : N = {report, m}
  OBVIOUS
<1>5. PICK H : H = IF l \in Enabled THEN <<>> ELSE now
  OBVIOUS
<1>6. PICK C : C = IF l \in Enabled THEN <<>> ELSE crumbs[t]
  OBVIOUS
<1>7. /\ pending[t] = <<>> /\ calls[t] < MaxLogs[t]
      /\ level >= Error /\ l \in Forensics
      /\ calls' = [calls EXCEPT ![t] = @ + 1] /\ pending' = [pending EXCEPT ![t] = P]
      /\ history' = [history EXCEPT ![t] = H] /\ crumbs' = [crumbs EXCEPT ![t] = C]
      /\ UNCHANGED written
  BY <1>1, <1>2, <1>3, <1>5, <1>6 DEF WriteError, Flushed, Context
<1>8. /\ now \in Seq(Messages) /\ crumbs[t] \in Seq(Messages) /\ calls[t] \in Nat
      /\ H \in Seq(Messages) /\ C \in Seq(Messages)
  BY <1>5, <1>6, TypesAre, EmptyIs
<1>9. /\ m \in Items /\ ~IsReport(m) /\ m.thread = t /\ m.call = calls[t] + 1
      /\ NeedsReport(m)
  BY <1>1, <1>7, MessageIs DEF IInv, NeedsReport
<1>11. /\ report.thread = t /\ report.call = calls[t] + 1 /\ IsReport(report)
       /\ report.crumbs = IF l \in Enabled THEN now ELSE <<>>
  BY <1>2 DEF IsReport
<1>12. report.crumbs \in Seq(Messages)
  BY <1>8, <1>11, EmptyIs
<1>13. report \in Items /\ ~NeedsReport(report)
  <2>1. report \in Reports
    BY <1>2, <1>8, <1>11, <1>12 DEF Reports
  <2> QED
    BY <1>11, <2>1 DEF Items, NeedsReport
<1>14. Rank(report) < Rank(m)
  BY <1>8, <1>9, <1>11 DEF Rank
<1>15. Sends(P, N)
  BY <1>3, <1>4, <1>9, <1>13, <1>14, TwoDispatchedAre
<1>16. Issues(t, P, N)
  BY <1>4, <1>7, <1>9, <1>11, <1>13, <1>15 DEF Issues
<1>17. SameForAll' /\ SentInPairs'
  <2>1. IsReportOf(report, m)
    BY <1>9, <1>11 DEF IsReportOf
  <2>2. \A x \in N : /\ IsReport(x) => \E y \in N : IsReportOf(x, y)
                     /\ NeedsReport(x) => \E y \in N : IsReportOf(y, x)
    BY <1>4, <1>9, <1>13, <2>1
  <2> QED
    BY <1>16, <2>2, IssuesKeepsSent
<1>18. InOrder'
  BY <1>16, IssuesKeepsOrder
<1>19. CrumbsHeld'
  <2>1. Growing(now, t, calls[t])
    BY DEF IInv, CrumbsHeld
  <2>2. Growing(<<>>, t, calls[t]) /\ AllBefore(now, <<>>) /\ AllBefore(<<>>, now)
    BY EmptyIs DEF Growing, AllBefore
  <2>3. Growing(H, t, calls[t]) /\ Contained(H, now)
    BY <1>5, <2>1, <2>2, EmptyIs DEF Contained
  <2>4. /\ Growing(report.crumbs, t, calls[t])
        /\ AllBefore(report.crumbs, H)
        /\ Contained(report.crumbs, now)
    <3>1. CASE l \in Enabled
      BY <1>5, <1>11, <2>1, <2>2, <3>1 DEF Contained
    <3>2. CASE l \notin Enabled
      BY <1>5, <1>11, <2>1, <2>2, <3>2, EmptyIs DEF Contained
    <3> QED
      BY <3>1, <3>2
  <2>5. Remembers(t, H, N)
    BY <1>4, <1>8, <1>9, <2>3, <2>4 DEF Remembers
  <2> QED
    BY <1>7, <1>16, <2>5, IssuesKeepsCrumbs
<1>20. TypeOK'
  <2>1. now # <<>> => \E k \in Enabled : Len(now) <= Limit[k]
    BY DEF IInv, TypeOK
  <2>2. H # <<>> => \E k \in Enabled : Len(H) <= Limit[k]
    BY <1>5, <2>1
  <2> QED
    BY <1>7, <1>8, <1>15, <2>2, KeepsTypes DEF Sends
<1>21. HistoryIsRecent'
  <2>1. IsSuffix(now, crumbs[t]) /\ (crumbs[t] # <<>> => now # <<>>)
    BY DEF IInv, HistoryIsRecent
  <2>2. IsSuffix(H, C) /\ (C # <<>> => H # <<>>)
    BY <1>5, <1>6, <2>1, EmptySuffix
  <2> QED
    BY <1>7, <2>2, KeepsHistory
<1> QED
  BY <1>17, <1>18, <1>19, <1>20, <1>21 DEF IInv

-----------------------------------------------------------------------------
(* A breadcrumb, and a write.                                              *)

\* A message more.
LEMMA PushedIs ==
    ASSUME NEW h \in Seq(Messages), NEW m \in Messages, NEW G, G = Append(h, m),
           NEW t, NEW c \in Nat, Growing(h, t, c), m.thread = t, m.call = c + 1
    PROVE  /\ G \in Seq(Messages) /\ Growing(G, t, c + 1)
           /\ \A k \in Seq(Messages) : IsSuffix(h, k) => IsSuffix(G, Append(k, m))
<1>1. /\ G \in Seq(Messages) /\ Len(h) \in Nat /\ Len(G) = Len(h) + 1
      /\ DOMAIN h = 1..Len(h) /\ DOMAIN G = 1..(Len(h) + 1)
      /\ G[Len(h) + 1] = m /\ \A i \in 1..Len(h) : G[i] = h[i]
  BY AppendIs
<1>2. Growing(G, t, c + 1)
  <2>1. \A a \in DOMAIN h : h[a].thread = t /\ h[a].call \in Nat /\ h[a].call <= c
    BY MessagesAre DEF Growing
  <2>2. \A a, b \in DOMAIN h : a < b => h[a].call < h[b].call
    BY DEF Growing
  <2>3. \A a \in DOMAIN G : a = Len(h) + 1 \/ a \in DOMAIN h
    BY <1>1
  <2>4. \A a \in DOMAIN G : G[a].thread = t /\ G[a].call <= c + 1
    BY <1>1, <2>1, <2>3
  <2>5. ASSUME NEW a \in DOMAIN G, NEW b \in DOMAIN G, a < b
        PROVE  G[a].call < G[b].call
    <3>1. a \in DOMAIN h
      BY <1>1, <2>5
    <3> QED
      BY <1>1, <2>1, <2>2, <2>3, <2>5, <3>1
  <2> QED
    BY <2>4, <2>5 DEF Growing
<1>3. ASSUME NEW k \in Seq(Messages), IsSuffix(h, k) PROVE IsSuffix(G, Append(k, m))
  <2>1. PICK K : K = Append(k, m)
    OBVIOUS
  <2>2. /\ K \in Seq(Messages) /\ Len(k) \in Nat /\ Len(K) = Len(k) + 1
        /\ K[Len(k) + 1] = m /\ \A i \in 1..Len(k) : K[i] = k[i]
    BY <2>1, AppendIs
  <2>3. Len(h) <= Len(k) /\ \A i \in 1..Len(h) : h[i] = k[Len(k) - Len(h) + i]
    BY <1>3, SuffixIs
  <2>4. ASSUME NEW i \in 1..Len(G) PROVE G[i] = K[Len(K) - Len(G) + i]
    <3>1. CASE i = Len(h) + 1
      BY <1>1, <2>2, <2>3, <3>1
    <3>2. CASE i \in 1..Len(h)
      <4>1. PICK j : j = Len(k) - Len(h) + i
        OBVIOUS
      <4>2. j \in 1..Len(k) /\ Len(K) - Len(G) + i = j
        BY <1>1, <2>2, <2>3, <3>2, <4>1
      <4> QED
        BY <1>1, <2>2, <2>3, <3>2, <4>1, <4>2
    <3> QED
      BY <1>1, <3>1, <3>2
  <2>5. Len(G) <= Len(K)
    BY <1>1, <2>2, <2>3
  <2> QED
    BY <1>1, <2>1, <2>2, <2>4, <2>5, SuffixIs
<1> QED
  BY <1>1, <1>2, <1>3

\* The oldest message less.
LEMMA PoppedIs ==
    ASSUME NEW G \in Seq(Messages), G # <<>>, NEW H, H = Tail(G),
           NEW t, NEW c, Growing(G, t, c), NEW k \in Seq(Messages), IsSuffix(G, k)
    PROVE  /\ H \in Seq(Messages) /\ Len(H) = Len(G) - 1
           /\ Growing(H, t, c) /\ IsSuffix(H, k)
           /\ Contained(H, G)
<1>1. /\ H \in Seq(Messages) /\ Len(G) \in Nat \ {0} /\ Len(H) = Len(G) - 1
      /\ DOMAIN G = 1..Len(G) /\ DOMAIN H = 1..(Len(G) - 1)
      /\ \A i \in 1..(Len(G) - 1) : H[i] = G[i + 1]
  BY TailIs
<1>2. ASSUME NEW a \in DOMAIN H PROVE a \in Nat /\ a + 1 \in DOMAIN G /\ H[a] = G[a + 1]
  BY <1>1
<1>3. Growing(H, t, c)
  <2>1. \A a, b \in DOMAIN H : a < b => a + 1 < b + 1
    BY <1>2
  <2> QED
    BY <1>2, <2>1 DEF Growing
<1>4. IsSuffix(H, k)
  <2>1. Len(G) <= Len(k) /\ \A i \in 1..Len(G) : G[i] = k[Len(k) - Len(G) + i]
    BY SuffixIs
  <2>2. Len(k) \in Nat
    OBVIOUS
  <2>3. ASSUME NEW i \in 1..Len(H) PROVE H[i] = k[Len(k) - Len(H) + i]
    <3>1. i + 1 \in 1..Len(G) /\ H[i] = G[i + 1]
      BY <1>1
    <3>2. Len(k) - Len(G) + (i + 1) = Len(k) - Len(H) + i
      BY <1>1, <2>2
    <3>3. G[i + 1] = k[Len(k) - Len(G) + (i + 1)]
      BY <2>1, <3>1
    <3> QED
      BY <3>1, <3>2, <3>3
  <2>4. Len(H) <= Len(k)
    BY <1>1, <2>1, <2>2
  <2> QED
    BY <1>1, <2>3, <2>4, SuffixIs
<1> QED
  BY <1>1, <1>2, <1>3, <1>4 DEF Contained

LEMMA SentUnchanged ==
    ASSUME UNCHANGED <<pending, written>>
    PROVE  \A s \in Range(Sinks) : SentTo(s)' = SentTo(s)
BY DEF SentTo, Sent

LEMMA SentUnchangedKeeps ==
    ASSUME IInv, UNCHANGED <<calls, history>>, \A s \in Range(Sinks) : SentTo(s)' = SentTo(s)
    PROVE  SameForAll' /\ SentInPairs' /\ CrumbsHeld'
<1>1. SameForAll'
  BY DEF IInv, SameForAll
<1>2. SentInPairs'
  BY DEF IInv, SentInPairs
<1>3. CrumbsHeld'
  <2>1. \A t \in Threads : Growing(history'[t], t, calls'[t])
    BY DEF IInv, CrumbsHeld
  <2>2. ASSUME NEW s \in Range(Sinks), NEW x \in SentTo(s)', IsReport(x)
        PROVE  /\ Growing(x.crumbs, x.thread, x.call)
               /\ AllBefore(x.crumbs, history'[x.thread])
               /\ \A y \in SentTo(s)' :
                     (IsReport(y) /\ x.thread = y.thread /\ x.call < y.call) =>
                         AllBefore(x.crumbs, y.crumbs)
    BY <2>2 DEF IInv, CrumbsHeld
  <2> QED
    BY <2>1, <2>2 DEF CrumbsHeld
<1> QED
  BY <1>1, <1>2, <1>3

LEMMA OrderUnchanged ==
    ASSUME IInv, UNCHANGED <<pending, written>>
    PROVE  InOrder'
<1>0. written' = written /\ pending' = pending
  OBVIOUS
<1>1. \A s \in Range(Sinks) : \A j, k \in DOMAIN written'[s] :
         (j < k /\ written'[s][j].thread = written'[s][k].thread) =>
             Rank(written'[s][j]) < Rank(written'[s][k])
  BY <1>0 DEF IInv, InOrder
<1>2. ASSUME NEW t \in Threads, NEW k \in DOMAIN pending[t]
      PROVE  /\ pending[t][k].item.thread = t
             /\ \A s \in Range(Sinks) : pending[t][k].sink = s =>
                   /\ \A j \in DOMAIN written[s] : written[s][j].thread = t =>
                         Rank(written[s][j]) < Rank(pending[t][k].item)
                   /\ \A l \in DOMAIN pending[t] : (k < l /\ pending[t][l].sink = s) =>
                         Rank(pending[t][k].item) < Rank(pending[t][l].item)
  BY DEF IInv, InOrder
<1>3. ASSUME NEW t \in Threads, NEW k \in DOMAIN pending'[t]
      PROVE  /\ pending'[t][k].item.thread = t
             /\ \A s \in Range(Sinks) : pending'[t][k].sink = s =>
                   /\ \A j \in DOMAIN written'[s] : written'[s][j].thread = t =>
                         Rank(written'[s][j]) < Rank(pending'[t][k].item)
                   /\ \A l \in DOMAIN pending'[t] : (k < l /\ pending'[t][l].sink = s) =>
                         Rank(pending'[t][k].item) < Rank(pending'[t][l].item)
  BY <1>0, <1>2
<1> QED
  BY <1>1, <1>3 DEF InOrder

LEMMA RememberKeepsIInv ==
    ASSUME IInv, NEW t \in Threads, NEW l \in Loggers, NEW level \in Levels,
           Remember(t, l, level)
    PROVE  IInv'
<1>1. PICK m : m = Message(t, l, level)
  OBVIOUS
<1>2. PICK G : G = Append(history[t], m)
  OBVIOUS
<1>3. PICK H : H = Trimmed(G, Limit[l])
  OBVIOUS
<1>4. PICK C : C = Append(crumbs[t], m)
  OBVIOUS
<1>5. PICK c : c = calls[t]
  OBVIOUS
<1>6. /\ c < MaxLogs[t] /\ l \in Enabled /\ Limit[l] \in Nat \ {0}
      /\ calls' = [calls EXCEPT ![t] = @ + 1]
      /\ history' = [history EXCEPT ![t] = H] /\ crumbs' = [crumbs EXCEPT ![t] = C]
      /\ UNCHANGED <<pending, written>>
  BY <1>1, <1>2, <1>3, <1>4, <1>5, LimitsAre DEF Remember, Context, IsBreadcrumbActive
<1>7. /\ m \in Messages /\ m.thread = t /\ m.call = c + 1 /\ c \in Nat
      /\ history[t] \in Seq(Messages) /\ crumbs[t] \in Seq(Messages)
  BY <1>1, <1>5, MessageIs, TypesAre DEF IInv
<1>8. Growing(history[t], t, c) /\ IsSuffix(history[t], crumbs[t])
  BY <1>5 DEF IInv, CrumbsHeld, HistoryIsRecent
<1>9. /\ G \in Seq(Messages) /\ Growing(G, t, c + 1) /\ IsSuffix(G, C)
      /\ C \in Seq(Messages) /\ G # <<>> /\ Len(G) = Len(history[t]) + 1
  <2>1. G \in Seq(Messages) /\ Growing(G, t, c + 1) /\ IsSuffix(G, C)
    BY <1>2, <1>4, <1>7, <1>8, PushedIs
  <2>2. C \in Seq(Messages)
    BY <1>4, <1>7, AppendIs
  <2>3. Len(G) = Len(history[t]) + 1 /\ Len(history[t]) \in Nat
    BY <1>2, <1>7, AppendIs
  <2>4. G # <<>>
    BY <2>1, <2>3
  <2> QED
    BY <2>1, <2>2, <2>3, <2>4
<1>10. /\ H \in Seq(Messages) /\ Growing(H, t, c + 1) /\ IsSuffix(H, C)
       /\ Contained(H, G)
  <2>1. CASE H = G
    BY <1>9, <2>1 DEF Contained
  <2>2. CASE H = Tail(G)
    <3>1. PICK d : d = c + 1
      OBVIOUS
    <3>2. Growing(G, t, d) /\ IsSuffix(G, C) /\ G \in Seq(Messages) /\ C \in Seq(Messages)
          /\ G # <<>>
      BY <1>9, <3>1
    <3>3. /\ H \in Seq(Messages) /\ Growing(H, t, d) /\ IsSuffix(H, C)
          /\ Contained(H, G)
      BY <2>2, <3>2, PoppedIs
    <3> QED
      BY <3>1, <3>3
  <2> QED
    BY <1>3, <2>1, <2>2 DEF Trimmed
<1>11. H # <<>> /\ (Len(H) <= Limit[l] \/ (history[t] # <<>> /\ Len(H) = Len(history[t])))
  <2>1. Len(history[t]) \in Nat
    BY <1>7
  <2>2. CASE Len(G) > Limit[l]
    <3>1. H = Tail(G) /\ Len(H) = Len(history[t])
      <4>1. H = Tail(G)
        BY <1>3, <2>2 DEF Trimmed
      <4>2. Len(H) = Len(G) - 1
        BY <1>9, <4>1, PoppedIs
      <4> QED
        BY <1>9, <2>1, <4>1, <4>2
    <3>2. Len(history[t]) > 0
      BY <1>6, <1>9, <2>1, <2>2
    <3>3. H # <<>> /\ history[t] # <<>>
      <4>1. H \in Seq(Messages) /\ history[t] \in Seq(Messages)
        BY <1>7, <1>10
      <4> QED
        BY <3>1, <3>2, <4>1
    <3> QED
      BY <3>1, <3>3
  <2>3. CASE ~(Len(G) > Limit[l])
    <3>1. H = G
      BY <1>3, <2>3 DEF Trimmed
    <3> QED
      BY <1>6, <1>9, <2>1, <2>3, <3>1
  <2> QED
    BY <2>2, <2>3
<1>12. TypeOK'
  <2>1. history[t] # <<>> => \E k \in Enabled : Len(history[t]) <= Limit[k]
    BY DEF IInv, TypeOK
  <2>2. H # <<>> => \E k \in Enabled : Len(H) <= Limit[k]
    BY <1>6, <1>11, <2>1
  <2>3. pending' = [pending EXCEPT ![t] = pending[t]] /\ pending[t] \in Seq(Writes)
    BY <1>6, TypesAre, NoEntry
  <2> QED
    BY <1>5, <1>6, <1>9, <1>10, <2>2, <2>3, KeepsTypes
<1>13. HistoryIsRecent'
  BY <1>6, <1>10, <1>11, KeepsHistory
<1>14. InOrder'
  BY <1>6, OrderUnchanged
<1>15. \A s \in Range(Sinks) : SentTo(s)' = SentTo(s)
  BY <1>6, SentUnchanged
<1>16. /\ calls'[t] = c + 1 /\ history'[t] = H
       /\ \A u \in Threads \ {t} : calls'[u] = calls[u] /\ history'[u] = history[u]
       /\ \A u \in Threads : calls[u] \in Nat
  BY <1>5, <1>6, TypesAre
<1>17. SameForAll' /\ SentInPairs'
  <2>1. SameForAll'
    BY <1>15 DEF IInv, SameForAll
  <2>2. ASSUME NEW s \in Range(Sinks), NEW x \in SentTo(s) PROVE x.call <= calls'[x.thread]
    <3>1. x.thread \in Threads /\ x.call \in Nat /\ x.call <= calls[x.thread]
      BY SentIs, ItemIs
    <3> QED
      BY <1>5, <1>16, <3>1
  <2>3. SentInPairs'
    BY <1>15, <2>2 DEF IInv, SentInPairs
  <2> QED
    BY <2>1, <2>3
<1>18. CrumbsHeld'
  <2>1. ASSUME NEW u \in Threads PROVE Growing(history'[u], u, calls'[u])
    <3>1. Growing(history[u], u, calls[u])
      BY DEF IInv, CrumbsHeld
    <3> QED
      BY <1>10, <1>16, <3>1
  <2>2. ASSUME NEW s \in Range(Sinks), NEW x \in SentTo(s), IsReport(x)
        PROVE  /\ Growing(x.crumbs, x.thread, x.call)
               /\ AllBefore(x.crumbs, history'[x.thread])
               /\ \A y \in SentTo(s) :
                     (IsReport(y) /\ x.thread = y.thread /\ x.call < y.call) =>
                         AllBefore(x.crumbs, y.crumbs)
    <3>1. /\ Growing(x.crumbs, x.thread, x.call)
          /\ AllBefore(x.crumbs, history[x.thread])
          /\ \A y \in SentTo(s) :
                (IsReport(y) /\ x.thread = y.thread /\ x.call < y.call) =>
                    AllBefore(x.crumbs, y.crumbs)
      BY <2>2 DEF IInv, CrumbsHeld
    <3>2. x.thread \in Threads /\ x.call \in Nat /\ x.call <= calls[x.thread]
          /\ x.crumbs \in Seq(Messages)
      BY <2>2, SentIs, ItemIs
    <3>3. CASE x.thread = t
      <4>1. ASSUME NEW a \in DOMAIN x.crumbs, NEW b \in DOMAIN H
            PROVE  x.crumbs[a].call < H[b].call
        <5>1. PICK d \in DOMAIN G : H[b] = G[d]
          BY <1>10 DEF Contained
        <5>2. x.crumbs[a].call \in Nat /\ x.crumbs[a].call <= x.call
          BY <3>1, <3>2, MessagesAre DEF Growing
        <5>3. G[d] = m \/ (d \in DOMAIN history[t] /\ G[d] = history[t][d])
          BY <1>2, <1>7, AppendIs
        <5>4. CASE G[d] = m
          BY <1>5, <1>7, <3>2, <3>3, <5>1, <5>2, <5>4
        <5>5. CASE d \in DOMAIN history[t] /\ G[d] = history[t][d]
          BY <3>1, <3>3, <5>1, <5>5 DEF AllBefore
        <5> QED
          BY <5>3, <5>4, <5>5
      <4>2. AllBefore(x.crumbs, H)
        BY <4>1 DEF AllBefore
      <4> QED
        BY <1>16, <3>1, <3>3, <4>2
    <3>4. CASE x.thread # t
      BY <1>16, <3>1, <3>2, <3>4
    <3> QED
      BY <3>3, <3>4
  <2> QED
    BY <1>15, <2>1, <2>2 DEF CrumbsHeld
<1> QED
  BY <1>12, <1>13, <1>14, <1>17, <1>18 DEF IInv

\* A write moves an item from what waits to what is written.
LEMMA WriteSinkSends ==
    ASSUME IInv, NEW t \in Threads, WriteSink(t), NEW s \in Range(Sinks)
    PROVE  SentTo(s)' = SentTo(s)
<1>1. PICK q : q = pending[t]
  OBVIOUS
<1>2. PICK r : r = Tail(q)
  OBVIOUS
<1>3. PICK z : z = q[1].sink
  OBVIOUS
<1>4. PICK x : x = q[1].item
  OBVIOUS
<1>5. PICK v : v = Append(written[z], x)
  OBVIOUS
<1>6. /\ q \in Seq(Writes) /\ q # <<>> /\ q[1] \in Writes
      /\ z \in Range(Sinks) /\ x \in Items /\ written[z] \in Seq(Items)
  <2>1. q \in Seq(Writes) /\ q # <<>>
    BY <1>1, TypesAre DEF WriteSink
  <2>2. q[1] \in Writes
    BY <2>1
  <2> QED
    BY <1>3, <1>4, <2>1, <2>2, TypesAre DEF Writes
<1>7. /\ written' = [written EXCEPT ![z] = v] /\ pending' = [pending EXCEPT ![t] = r]
  BY <1>1, <1>2, <1>3, <1>4, <1>5, <1>6, TailIs DEF WriteSink
<1>8. /\ written'[z] = v /\ \A y \in Range(Sinks) \ {z} : written'[y] = written[y]
      /\ pending'[t] = r /\ \A u \in Threads \ {t} : pending'[u] = pending[u]
  BY <1>6, <1>7, TypesAre
<1>9. /\ Len(q) \in Nat \ {0} /\ DOMAIN q = 1..Len(q) /\ DOMAIN r = 1..(Len(q) - 1)
      /\ \A i \in 1..(Len(q) - 1) : r[i] = q[i + 1]
  BY <1>2, <1>6, TailIs
<1>10. /\ Len(written[z]) \in Nat /\ DOMAIN written[z] = 1..Len(written[z])
       /\ DOMAIN v = 1..(Len(written[z]) + 1) /\ v[Len(written[z]) + 1] = x
       /\ \A i \in 1..Len(written[z]) : v[i] = written[z][i]
  BY <1>5, <1>6, AppendIs
<1>11. ASSUME NEW y \in Items, Sent(s, y) PROVE Sent(s, y)'
  <2>1. ASSUME NEW k \in DOMAIN written[s], written[s][k] = y
        PROVE  \E i \in DOMAIN written'[s] : written'[s][i] = y
    <3>1. CASE s = z
      BY <1>8, <1>10, <2>1, <3>1
    <3>2. CASE s # z
      BY <1>8, <2>1, <3>2
    <3> QED
      BY <3>1, <3>2
  <2>2. ASSUME NEW u \in Threads, NEW k \in DOMAIN pending[u],
               pending[u][k].sink = s, pending[u][k].item = y
        PROVE  Sent(s, y)'
    <3>1. CASE u # t
      BY <1>8, <2>2, <3>1 DEF Sent
    <3>2. CASE u = t /\ k = 1
      <4>1. s = z /\ y = x
        BY <1>1, <1>3, <1>4, <2>2, <3>2
      <4> QED
        BY <1>8, <1>10, <4>1 DEF Sent
    <3>3. CASE u = t /\ k # 1
      <4>1. PICK i : i = k - 1
        OBVIOUS
      <4>2. i \in DOMAIN r /\ r[i] = q[k]
        BY <1>1, <1>9, <2>2, <3>3, <4>1
      <4> QED
        BY <1>1, <1>8, <2>2, <3>3, <4>2 DEF Sent
    <3> QED
      BY <3>1, <3>2, <3>3
  <2> QED
    BY <1>11, <2>1, <2>2 DEF Sent
<1>12. ASSUME NEW y \in Items, Sent(s, y)' PROVE Sent(s, y)
  <2>1. ASSUME NEW k \in DOMAIN written'[s], written'[s][k] = y
        PROVE  Sent(s, y)
    <3>1. CASE s # z
      BY <1>8, <2>1, <3>1 DEF Sent
    <3>2. CASE s = z /\ k \in 1..Len(written[z])
      BY <1>8, <1>10, <2>1, <3>2 DEF Sent
    <3>3. CASE s = z /\ k = Len(written[z]) + 1
      <4>1. y = x /\ 1 \in DOMAIN pending[t]
        BY <1>1, <1>8, <1>9, <1>10, <2>1, <3>3
      <4> QED
        BY <1>1, <1>3, <1>4, <3>3, <4>1 DEF Sent
    <3> QED
      BY <1>8, <1>10, <2>1, <3>1, <3>2, <3>3
  <2>2. ASSUME NEW u \in Threads, NEW k \in DOMAIN pending'[u],
               pending'[u][k].sink = s, pending'[u][k].item = y
        PROVE  Sent(s, y)
    <3>1. CASE u # t
      BY <1>8, <2>2, <3>1 DEF Sent
    <3>2. CASE u = t
      <4>1. k + 1 \in DOMAIN q /\ r[k] = q[k + 1]
        BY <1>8, <1>9, <2>2, <3>2
      <4> QED
        BY <1>1, <1>8, <2>2, <3>2, <4>1 DEF Sent
    <3> QED
      BY <3>1, <3>2
  <2> QED
    BY <1>12, <2>1, <2>2 DEF Sent
<1> QED
  BY <1>11, <1>12 DEF SentTo

LEMMA WriteSinkKeepsOrder ==
    ASSUME IInv, NEW t \in Threads, WriteSink(t)
    PROVE  InOrder' /\ TypeOK'
<1>1. PICK q : q = pending[t]
  OBVIOUS
<1>2. PICK r : r = Tail(q)
  OBVIOUS
<1>3. PICK z : z = q[1].sink
  OBVIOUS
<1>4. PICK x : x = q[1].item
  OBVIOUS
<1>5. PICK v : v = Append(written[z], x)
  OBVIOUS
<1>6. /\ q \in Seq(Writes) /\ q # <<>> /\ q[1] \in Writes
      /\ z \in Range(Sinks) /\ x \in Items /\ written[z] \in Seq(Items)
  <2>1. q \in Seq(Writes) /\ q # <<>>
    BY <1>1, TypesAre DEF WriteSink
  <2>2. q[1] \in Writes
    BY <2>1
  <2> QED
    BY <1>3, <1>4, <2>1, <2>2, TypesAre DEF Writes
<1>7. /\ written' = [written EXCEPT ![z] = v] /\ pending' = [pending EXCEPT ![t] = r]
      /\ UNCHANGED <<calls, history, crumbs>>
  BY <1>1, <1>2, <1>3, <1>4, <1>5, <1>6, TailIs DEF WriteSink
<1>8. /\ written'[z] = v /\ \A y \in Range(Sinks) \ {z} : written'[y] = written[y]
      /\ pending'[t] = r /\ \A u \in Threads \ {t} : pending'[u] = pending[u]
  BY <1>6, <1>7, TypesAre
<1>9. /\ Len(q) \in Nat \ {0} /\ DOMAIN q = 1..Len(q) /\ DOMAIN r = 1..(Len(q) - 1)
      /\ r \in Seq(Writes)
      /\ \A i \in 1..(Len(q) - 1) : r[i] = q[i + 1]
  BY <1>2, <1>6, TailIs
<1>10. /\ Len(written[z]) \in Nat /\ DOMAIN written[z] = 1..Len(written[z])
       /\ v \in Seq(Items)
       /\ DOMAIN v = 1..(Len(written[z]) + 1) /\ v[Len(written[z]) + 1] = x
       /\ \A i \in 1..Len(written[z]) : v[i] = written[z][i]
  BY <1>5, <1>6, AppendIs
<1>11. \A s \in Range(Sinks) : \A j, k \in DOMAIN written[s] :
          (j < k /\ written[s][j].thread = written[s][k].thread) =>
              Rank(written[s][j]) < Rank(written[s][k])
  BY DEF IInv, InOrder
<1>12. ASSUME NEW u \in Threads, NEW k \in DOMAIN pending[u]
       PROVE  /\ pending[u][k].item.thread = u
              /\ \A s \in Range(Sinks) : pending[u][k].sink = s =>
                    /\ \A j \in DOMAIN written[s] : written[s][j].thread = u =>
                          Rank(written[s][j]) < Rank(pending[u][k].item)
                    /\ \A l \in DOMAIN pending[u] : (k < l /\ pending[u][l].sink = s) =>
                          Rank(pending[u][k].item) < Rank(pending[u][l].item)
  BY DEF IInv, InOrder
<1>13. /\ x.thread = t
       /\ \A j \in DOMAIN written[z] : written[z][j].thread = t => Rank(written[z][j]) < Rank(x)
       /\ \A l \in DOMAIN q : (1 < l /\ q[l].sink = z) => Rank(x) < Rank(q[l].item)
  <2>1. 1 \in DOMAIN pending[t] /\ pending[t] = q
    BY <1>1, <1>9
  <2>2. pending[t][1].item = x /\ pending[t][1].sink = z
    BY <1>3, <1>4, <2>1
  <2>3. x.thread = t
    BY <1>12, <2>1, <2>2
  <2>0. /\ \A j \in DOMAIN written[z] : written[z][j].thread = t =>
              Rank(written[z][j]) < Rank(pending[t][1].item)
        /\ \A l \in DOMAIN pending[t] : (1 < l /\ pending[t][l].sink = z) =>
              Rank(pending[t][1].item) < Rank(pending[t][l].item)
    BY <1>6, <1>12, <2>1, <2>2, ZenonT(30)
  <2>4. \A j \in DOMAIN written[z] : written[z][j].thread = t => Rank(written[z][j]) < Rank(x)
    BY <2>0, <2>2
  <2>5. \A l \in DOMAIN q : (1 < l /\ q[l].sink = z) => Rank(x) < Rank(q[l].item)
    BY <2>0, <2>1, <2>2
  <2> QED
    BY <2>3, <2>4, <2>5
<1>14. ASSUME NEW s \in Range(Sinks), NEW j \in DOMAIN written'[s], NEW k \in DOMAIN written'[s],
              j < k, written'[s][j].thread = written'[s][k].thread
       PROVE  Rank(written'[s][j]) < Rank(written'[s][k])
  <2>1. CASE s # z
    BY <1>8, <1>11, <1>14, <2>1
  <2>2. CASE s = z /\ k \in 1..Len(written[z])
    <3>1. j \in 1..Len(written[z])
      BY <1>8, <1>10, <1>14, <2>2
    <3> QED
      BY <1>8, <1>10, <1>11, <1>14, <2>2, <3>1
  <2>3. CASE s = z /\ k = Len(written[z]) + 1
    <3>1. j \in 1..Len(written[z])
      BY <1>8, <1>10, <1>14, <2>3
    <3> QED
      BY <1>8, <1>10, <1>13, <1>14, <2>3, <3>1
  <2> QED
    BY <1>8, <1>10, <2>1, <2>2, <2>3
<1>15. ASSUME NEW u \in Threads, NEW k \in DOMAIN pending'[u]
       PROVE  /\ pending'[u][k].item.thread = u
              /\ \A s \in Range(Sinks) : pending'[u][k].sink = s =>
                    /\ \A j \in DOMAIN written'[s] : written'[s][j].thread = u =>
                          Rank(written'[s][j]) < Rank(pending'[u][k].item)
                    /\ \A l \in DOMAIN pending'[u] : (k < l /\ pending'[u][l].sink = s) =>
                          Rank(pending'[u][k].item) < Rank(pending'[u][l].item)
  <2>1. CASE u # t
    <3>1. pending'[u] = pending[u] /\ k \in DOMAIN pending[u]
      BY <1>8, <2>1
    <3>2. ASSUME NEW s \in Range(Sinks), pending[u][k].sink = s,
                 NEW j \in DOMAIN written'[s], written'[s][j].thread = u
          PROVE  Rank(written'[s][j]) < Rank(pending[u][k].item)
      <4>1. CASE s # z
        BY <1>8, <1>12, <3>1, <3>2, <4>1
      <4>2. CASE s = z /\ j \in 1..Len(written[z])
        <5>1. written'[s][j] = written[s][j] /\ j \in DOMAIN written[s]
          BY <1>8, <1>10, <4>2
        <5>2. written[s][j].thread = u
          BY <3>2, <5>1
        <5>3. Rank(written[s][j]) < Rank(pending[u][k].item)
          BY <1>12, <3>1, <3>2, <5>1, <5>2
        <5> QED
          BY <5>1, <5>3
      <4>3. CASE s = z /\ j = Len(written[z]) + 1
        BY <1>8, <1>10, <1>13, <2>1, <3>2, <4>3
      <4> QED
        BY <1>8, <1>10, <3>2, <4>1, <4>2, <4>3
    <3> QED
      BY <1>12, <3>1, <3>2
  <2>2. CASE u = t
    <3>1. /\ pending'[u] = r /\ k \in DOMAIN r /\ k + 1 \in DOMAIN q /\ r[k] = q[k + 1]
          /\ 1 < k + 1
      BY <1>8, <1>9, <2>2
    <3>2. r[k].item.thread = u
      BY <1>1, <1>12, <2>2, <3>1
    <3>3. ASSUME NEW s \in Range(Sinks), r[k].sink = s,
                 NEW j \in DOMAIN written'[s], written'[s][j].thread = u
          PROVE  Rank(written'[s][j]) < Rank(r[k].item)
      <4>1. CASE s # z
        BY <1>1, <1>8, <1>12, <2>2, <3>1, <3>3, <4>1
      <4>2. CASE s = z /\ j \in 1..Len(written[z])
        <5>1. written'[s][j] = written[s][j] /\ j \in DOMAIN written[s]
          BY <1>8, <1>10, <4>2
        <5>2. written[s][j].thread = u
          BY <3>3, <5>1
        <5>3. k + 1 \in DOMAIN pending[u] /\ pending[u][k + 1] = r[k]
          BY <1>1, <2>2, <3>1
        <5>4. Rank(written[s][j]) < Rank(pending[u][k + 1].item)
          BY <1>12, <3>3, <5>1, <5>2, <5>3
        <5> QED
          BY <5>1, <5>3, <5>4
      <4>3. CASE s = z /\ j = Len(written[z]) + 1
        BY <1>8, <1>10, <1>13, <3>1, <3>3, <4>3
      <4> QED
        BY <1>8, <1>10, <3>3, <4>1, <4>2, <4>3
    <3>4. ASSUME NEW s \in Range(Sinks), r[k].sink = s, NEW l \in DOMAIN r, k < l, r[l].sink = s
          PROVE  Rank(r[k].item) < Rank(r[l].item)
      <4>1. l + 1 \in DOMAIN q /\ r[l] = q[l + 1] /\ k + 1 < l + 1
        BY <1>9, <3>1, <3>4
      <4> QED
        BY <1>1, <1>12, <2>2, <3>1, <3>4, <4>1
    <3> QED
      BY <3>1, <3>2, <3>3, <3>4
  <2> QED
    BY <2>1, <2>2
<1>16. InOrder'
  BY <1>14, <1>15 DEF InOrder
<1>17. TypeOK'
  <2>1. written' \in [Range(Sinks) -> Seq(Items)] /\ pending' \in [Threads -> Seq(Writes)]
    BY <1>6, <1>7, <1>9, <1>10, TypesAre
  <2> QED
    BY <1>7, <2>1 DEF IInv, TypeOK, Writes
<1> QED
  BY <1>16, <1>17

LEMMA WriteSinkKeepsIInv ==
    ASSUME IInv, NEW t \in Threads, WriteSink(t)
    PROVE  IInv'
<1>1. \A s \in Range(Sinks) : SentTo(s)' = SentTo(s)
  BY WriteSinkSends
<1>2. UNCHANGED <<calls, history, crumbs>>
  BY DEF WriteSink
<1>3. SameForAll' /\ SentInPairs' /\ CrumbsHeld'
  BY <1>1, <1>2, SentUnchangedKeeps
<1>4. HistoryIsRecent'
  BY <1>2 DEF IInv, HistoryIsRecent
<1> QED
  BY <1>3, <1>4, WriteSinkKeepsOrder DEF IInv

-----------------------------------------------------------------------------
(* Every behaviour.                                                        *)

LEMMA InitIInv == Init => IInv
<1> SUFFICES ASSUME Init PROVE IInv
  OBVIOUS
<1>1. /\ \A t \in Threads : calls[t] = 0 /\ history[t] = <<>> /\ crumbs[t] = <<>> /\ pending[t] = <<>>
      /\ \A s \in Range(Sinks) : written[s] = <<>>
  BY DEF Init
<1>2. /\ \A t \in Threads : DOMAIN history[t] = {} /\ DOMAIN pending[t] = {}
      /\ \A s \in Range(Sinks) : DOMAIN written[s] = {}
  BY <1>1
<1>3. \A s \in Range(Sinks) : SentTo(s) = {}
  BY <1>2 DEF SentTo, Sent
<1>4. TypeOK
  <2>1. /\ calls \in [Threads -> Nat] /\ \A t \in Threads : calls[t] <= MaxLogs[t]
        /\ \A t \in Threads : history[t] # <<>> => \E l \in Enabled : Len(history[t]) <= Limit[l]
    BY <1>1, ConfigurationAssumption DEF Init
  <2>2. history \in [Threads -> Seq(Messages)] /\ crumbs \in [Threads -> Seq(Messages)]
    BY EmptyIs DEF Init
  <2>3. /\ pending \in [Threads -> Seq([sink : Range(Sinks), item : Items])]
        /\ written \in [Range(Sinks) -> Seq(Items)]
    BY EmptyIs DEF Init
  <2> QED
    BY <2>1, <2>2, <2>3 DEF TypeOK
<1>5. SameForAll /\ SentInPairs /\ CrumbsHeld
  BY <1>2, <1>3 DEF SameForAll, SentInPairs, CrumbsHeld, Growing
<1>6. InOrder
  BY <1>2 DEF InOrder
<1>7. HistoryIsRecent
  BY <1>1, EmptySuffix DEF HistoryIsRecent
<1> QED
  BY <1>4, <1>5, <1>6, <1>7 DEF IInv

LEMMA IInvStep == IInv /\ [Next]_vars => IInv'
<1> SUFFICES ASSUME IInv, [Next]_vars PROVE IInv'
  OBVIOUS
<1>1. ASSUME NEW t \in Threads, NEW l \in Loggers, NEW level \in Levels, Remember(t, l, level)
      PROVE  IInv'
  BY <1>1, RememberKeepsIInv
<1>2. ASSUME NEW t \in Threads, NEW l \in Loggers, NEW level \in Levels, Write(t, l, level)
      PROVE  IInv'
  BY <1>2, WriteKeepsIInv
<1>3. ASSUME NEW t \in Threads, NEW l \in Loggers, NEW level \in Levels, WriteError(t, l, level)
      PROVE  IInv'
  BY <1>3, WriteErrorKeepsIInv
<1>4. ASSUME NEW t \in Threads, WriteSink(t)
      PROVE  IInv'
  BY <1>4, WriteSinkKeepsIInv
<1>5. CASE UNCHANGED vars
  <2>1. UNCHANGED <<calls, history, pending, written, crumbs>>
    BY <1>5 DEF vars
  <2>2. SameForAll' /\ SentInPairs' /\ CrumbsHeld'
    BY <2>1, SentUnchanged, SentUnchangedKeeps
  <2>3. InOrder'
    BY <2>1, OrderUnchanged
  <2>4. TypeOK' /\ HistoryIsRecent'
    BY <2>1 DEF IInv, TypeOK, HistoryIsRecent
  <2> QED
    BY <2>2, <2>3, <2>4 DEF IInv
<1> QED
  BY <1>1, <1>2, <1>3, <1>4, <1>5 DEF Next

LEMMA IInvAlways == Spec => []IInv
BY InitIInv, IInvStep, PTL DEF Spec

-----------------------------------------------------------------------------
(* What the sinks have received.                                           *)

LEMMA WrittenIs ==
    ASSUME IInv, NEW s \in Range(Sinks), NEW k \in DOMAIN written[s]
    PROVE  /\ written[s] \in Seq(Items) /\ DOMAIN written[s] = 1..Len(written[s])
           /\ Len(written[s]) \in Nat /\ k \in Nat
           /\ written[s][k] \in Items /\ written[s][k] \in SentTo(s)
<1>1. written[s] \in Seq(Items)
  BY TypesAre
<1>2. /\ DOMAIN written[s] = 1..Len(written[s]) /\ Len(written[s]) \in Nat
      /\ written[s][k] \in Items
  BY <1>1
<1> QED
  BY <1>1, <1>2 DEF SentTo, Sent

\* Of two items of a thread in a sink the earlier has the lower rank.
LEMMA RanksOrder ==
    ASSUME IInv, NEW s \in Range(Sinks), NEW j \in DOMAIN written[s], NEW k \in DOMAIN written[s],
           written[s][j].thread = written[s][k].thread
    PROVE  /\ j < k <=> Rank(written[s][j]) < Rank(written[s][k])
           /\ j = k <=> Rank(written[s][j]) = Rank(written[s][k])
<1>1. /\ j < k => Rank(written[s][j]) < Rank(written[s][k])
      /\ k < j => Rank(written[s][k]) < Rank(written[s][j])
  BY DEF IInv, InOrder
<1>2. /\ Rank(written[s][j]) \in Nat /\ Rank(written[s][k]) \in Nat
      /\ j \in Nat /\ k \in Nat
  BY WrittenIs, ItemIs
<1> QED
  BY <1>1, <1>2

\* What has been sent to a sink that has already received an item of the same
\* thread and a higher rank, it has received before.
LEMMA ReceivedBefore ==
    ASSUME IInv, NEW s \in Range(Sinks), NEW k \in DOMAIN written[s], NEW x \in SentTo(s),
           x.thread = written[s][k].thread, Rank(x) <= Rank(written[s][k])
    PROVE  \E j \in DOMAIN written[s] : j <= k /\ written[s][j] = x
<1>1. x \in Items /\ Sent(s, x)
  BY DEF SentTo
<1>2. Rank(x) \in Nat /\ Rank(written[s][k]) \in Nat /\ k \in Nat
  BY <1>1, WrittenIs, ItemIs
<1>3. ASSUME NEW t \in Threads, NEW l \in DOMAIN pending[t],
             pending[t][l].sink = s, pending[t][l].item = x
      PROVE  FALSE
  <2>1. x.thread = t
    BY <1>3 DEF IInv, InOrder
  <2>2. Rank(written[s][k]) < Rank(x)
    BY <1>3, <2>1 DEF IInv, InOrder
  <2> QED
    BY <1>2, <2>2
<1>4. PICK j \in DOMAIN written[s] : written[s][j] = x
  BY <1>1, <1>3 DEF Sent
<1>5. ~(k < j)
  BY <1>2, <1>4, RanksOrder
<1>6. j \in Nat
  BY WrittenIs
<1> QED
  BY <1>2, <1>4, <1>5, <1>6

-----------------------------------------------------------------------------
(* The theorems.                                                           *)

\* The state of the loggers is always of its type, and no history outgrows the
\* largest limit of a logger that keeps breadcrumbs (logger.h:158-161).
THEOREM LoggerTypeCorrect == Spec => []TypeOK
<1>1. IInv => TypeOK
  BY DEF IInv
<1> QED
  BY <1>1, IInvAlways, PTL

\* A history is the latest breadcrumbs of its own thread since its last report,
\* without a gap, whatever the limits of the loggers that push to it
\* (logger.h:158-161).
THEOREM HistoryStaysRecent == Spec => []HistoryIsRecent
<1>1. IInv => HistoryIsRecent
  BY DEF IInv
<1> QED
  BY <1>1, IInvAlways, PTL

LEMMA ErrorHasItsReport ==
    ASSUME IInv, NEW s \in Range(Sinks), NEW k \in DOMAIN written[s], NeedsReport(written[s][k])
    PROVE  \E j \in DOMAIN written[s] : Adjacent(s, j, k) /\ IsReport(written[s][j])
<1>1. PICK y : y = written[s][k]
  OBVIOUS
<1>2. y \in SentTo(s) /\ y \in Items /\ k \in Nat /\ NeedsReport(y)
  BY <1>1, WrittenIs
<1>3. PICK x \in SentTo(s) : IsReportOf(x, y)
  BY <1>2 DEF IInv, SentInPairs
<1>4. x \in Items /\ IsReport(x) /\ ~IsReport(y) /\ x.thread = y.thread /\ x.call = y.call
  BY <1>2, <1>3, ItemIs DEF IsReportOf, SentTo
<1>5. Rank(x) \in Nat /\ Rank(y) = Rank(x) + 1
  BY <1>2, <1>4, ItemIs
<1>6. Rank(x) <= Rank(written[s][k]) /\ x.thread = written[s][k].thread
  BY <1>1, <1>4, <1>5
<1>7. PICK j \in DOMAIN written[s] : j <= k /\ written[s][j] = x
  BY <1>6, ReceivedBefore
<1>8. j # k
  BY <1>1, <1>4, <1>7
<1>9. j \in Nat /\ j < k
  BY <1>2, <1>7, <1>8, WrittenIs
<1>10. ASSUME NEW i \in j + 1 .. k - 1, written[s][i].thread = written[s][j].thread
       PROVE  FALSE
  <2>1. i \in DOMAIN written[s] /\ j < i /\ i < k
    <3>1. i \in Int /\ j < i /\ i < k
      BY <1>2, <1>9, <1>10
    <3>2. /\ DOMAIN written[s] = 1..Len(written[s]) /\ Len(written[s]) \in Nat
      BY WrittenIs
    <3> QED
      BY <1>7, <3>1, <3>2
  <2>2. Rank(written[s][j]) < Rank(written[s][i])
    BY <1>10, <2>1, RanksOrder
  <2>3. Rank(written[s][i]) < Rank(written[s][k])
    BY <1>6, <1>7, <1>10, <2>1, RanksOrder
  <2>4. Rank(written[s][i]) \in Nat
    BY <2>1, WrittenIs, ItemIs
  <2> QED
    BY <1>1, <1>5, <1>7, <2>2, <2>3, <2>4
<1>11. Adjacent(s, j, k)
  BY <1>6, <1>7, <1>9, <1>10 DEF Adjacent
<1> QED
  BY <1>4, <1>7, <1>11

LEMMA ReportHasItsError ==
    ASSUME IInv, NEW s \in Range(Sinks), NEW j \in DOMAIN written[s], NEW k \in DOMAIN written[s],
           IsReport(written[s][j]), Adjacent(s, j, k)
    PROVE  NeedsReport(written[s][k])
<1>1. PICK x : x = written[s][j]
  OBVIOUS
<1>2. x \in SentTo(s) /\ x \in Items /\ IsReport(x) /\ j \in Nat /\ k \in Nat
  BY <1>1, WrittenIs
<1>3. PICK y \in SentTo(s) : IsReportOf(x, y)
  BY <1>2 DEF IInv, SentInPairs
<1>4. y \in Items /\ NeedsReport(y) /\ ~IsReport(y) /\ x.thread = y.thread /\ x.call = y.call
  BY <1>3, ItemIs DEF IsReportOf, SentTo
<1>5. Rank(x) \in Nat /\ Rank(y) = Rank(x) + 1
  BY <1>2, <1>4, ItemIs
<1>6. j < k /\ written[s][k].thread = x.thread
  BY <1>1 DEF Adjacent
<1>7. Rank(x) < Rank(written[s][k])
  BY <1>1, <1>6, RanksOrder
<1>8. Rank(written[s][k]) \in Nat
  BY WrittenIs, ItemIs
<1>9. Rank(y) <= Rank(written[s][k]) /\ y.thread = written[s][k].thread
  BY <1>4, <1>5, <1>6, <1>7, <1>8
<1>10. PICK i \in DOMAIN written[s] : i <= k /\ written[s][i] = y
  BY <1>9, ReceivedBefore
<1>11. j < i
  <2>1. Rank(written[s][j]) < Rank(written[s][i])
    BY <1>1, <1>5, <1>10
  <2>2. written[s][j].thread = written[s][i].thread
    BY <1>1, <1>4, <1>10
  <2> QED
    BY <2>1, <2>2, RanksOrder
<1>12. i = k
  <2>1. i \in Nat
    BY <1>10, WrittenIs
  <2>2. i \in j + 1 .. k - 1 => written[s][i].thread # written[s][j].thread
    BY DEF Adjacent
  <2>3. ~(i \in j + 1 .. k - 1)
    BY <1>1, <1>4, <1>10, <2>2
  <2> QED
    BY <1>2, <1>10, <1>11, <2>1, <2>3
<1> QED
  BY <1>4, <1>10, <1>12

\* In every sink the next thing a thread writes after a forensic report is the
\* error it is about, and the last thing before such an error is its report,
\* whatever the other threads write meanwhile (logger.h:153-157).
THEOREM ReportIsRightBeforeItsError == Spec => []ReportedBeforeError
<1>1. IInv => ReportedBeforeError
  BY ErrorHasItsReport, ReportHasItsError DEF ReportedBeforeError
<1> QED
  BY <1>1, IInvAlways, PTL

LEMMA CrumbsGrow ==
    ASSUME IInv, NEW s \in Range(Sinks), NEW j \in DOMAIN written[s], NEW k \in DOMAIN written[s],
           NEW first, first = written[s][j], NEW last, last = written[s][k],
           IsReport(first), IsReport(last), first.thread = last.thread, j <= k,
           NEW a \in DOMAIN first.crumbs, NEW b \in DOMAIN last.crumbs
    PROVE  /\ first.crumbs[a].thread = first.thread
           /\ (j < k \/ a < b) => first.crumbs[a].call < last.crumbs[b].call
<1>1. /\ first \in SentTo(s) /\ last \in SentTo(s) /\ first \in Items /\ last \in Items
      /\ j \in Nat /\ k \in Nat
  BY WrittenIs
<1>2. Growing(first.crumbs, first.thread, first.call)
  BY <1>1 DEF IInv, CrumbsHeld
<1>3. ASSUME j < k PROVE first.crumbs[a].call < last.crumbs[b].call
  <2>1. Rank(first) < Rank(last)
    BY <1>3, RanksOrder
  <2>2. first.call < last.call
    <3>1. /\ Rank(first) = first.call + first.call - 1 /\ first.call \in Nat
          /\ Rank(last) = last.call + last.call - 1 /\ last.call \in Nat
      BY <1>1, ItemIs
    <3> QED
      BY <2>1, <3>1
  <2>3. AllBefore(first.crumbs, last.crumbs)
    BY <1>1, <2>2 DEF IInv, CrumbsHeld
  <2> QED
    BY <2>3 DEF AllBefore
<1>4. ASSUME ~(j < k), a < b PROVE first.crumbs[a].call < last.crumbs[b].call
  <2>1. j = k
    BY <1>1, <1>4
  <2> QED
    BY <1>2, <1>4, <2>1 DEF Growing
<1> QED
  BY <1>2, <1>3, <1>4 DEF Growing

\* No breadcrumb is in two reports, or in a later one than a younger one, or in
\* the report of another thread (logger.h:115-120, 167-173).
THEOREM CrumbsAreReportedOnce == Spec => []ReportedOnce
<1>1. IInv => ReportedOnce
  BY CrumbsGrow DEF ReportedOnce
<1> QED
  BY <1>1, IInvAlways, PTL

LEMMA OneIsBehind ==
    ASSUME IInv, NEW r \in Range(Sinks), NEW s \in Range(Sinks),
           NEW i \in DOMAIN written[r], NEW k \in DOMAIN written[s],
           written[r][i].thread = written[s][k].thread,
           Rank(written[r][i]) <= Rank(written[s][k])
    PROVE  \E j \in 1..k : written[s][j] = written[r][i]
<1>1. written[r][i] \in SentTo(s)
  BY WrittenIs DEF IInv, SameForAll
<1>2. PICK j \in DOMAIN written[s] : j <= k /\ written[s][j] = written[r][i]
  BY <1>1, ReceivedBefore
<1>3. j \in 1..k
  BY <1>2, WrittenIs
<1> QED
  BY <1>2, <1>3

\* Two sinks have one thread's items in one order, each of them once, and one is
\* at most behind the other (log_sink.h:36-38).
THEOREM SinksNeverDisagree == Spec => []SinksAgree
<1>1. ASSUME IInv, NEW r \in Range(Sinks), NEW s \in Range(Sinks),
             NEW i \in DOMAIN written[r], NEW k \in DOMAIN written[s],
             written[r][i].thread = written[s][k].thread
      PROVE  /\ \/ \E j \in 1..k : written[s][j] = written[r][i]
                \/ \E j \in 1..i : written[r][j] = written[s][k]
             /\ r = s /\ i # k => written[r][i] # written[s][k]
  <2>1. Rank(written[r][i]) \in Nat /\ Rank(written[s][k]) \in Nat
    BY <1>1, WrittenIs, ItemIs
  <2>2. r = s /\ i # k => written[r][i] # written[s][k]
    BY <1>1, RanksOrder
  <2>3. CASE Rank(written[r][i]) <= Rank(written[s][k])
    BY <1>1, <2>2, <2>3, OneIsBehind
  <2>4. CASE Rank(written[s][k]) <= Rank(written[r][i])
    BY <1>1, <2>2, <2>4, OneIsBehind
  <2> QED
    BY <2>1, <2>3, <2>4
<1>2. IInv => SinksAgree
  BY <1>1 DEF SinksAgree
<1> QED
  BY <1>2, IInvAlways, PTL
=============================================================================
