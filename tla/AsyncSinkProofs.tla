--------------------------- MODULE AsyncSinkProofs ---------------------------
(***************************************************************************)
(* Proofs about AsyncSink, for every set of threads and number of calls.   *)
(***************************************************************************)
EXTENDS AsyncSink, TLAPS

(* After the constructor the inductive invariant holds. *)
LEMMA InitEstablishesIInv == Init => IInv
<1> SUFFICES ASSUME Init PROVE IInv
    OBVIOUS
<1> USE DEF Init
<1>1. TypeOK
    <2>1. worker \in {"acquire", "none"} /\ enabled \in BOOLEAN
        OBVIOUS
    <2>2. queue \in Seq(Message) /\ sink \in Seq(Message)
        OBVIOUS
    <2>3. calls \in [Threads -> 0..MaxWrites]
        BY MaxWritesAssumption
    <2>4. QED
        BY <2>1, <2>2, <2>3 DEF TypeOK, InWrite
<1>2. MutexHeld /\ Lifetime /\ DisabledIsIdle
    BY DEF MutexHeld, Lifetime, DisabledIsIdle, InWrite
<1>3. HandFull /\ CallsLeft /\ UncountedIsQueued /\ InFlightExact /\ NoLostWakeup
    BY DEF HandFull, CallsLeft, UncountedIsQueued, InFlightExact, NoLostWakeup, Popped, Uncounted
<1>4. QED
    BY <1>1, <1>2, <1>3 DEF IInv

(* Every step of a writer, of process_queue and of the destructor keeps it. *)
LEMMA IInvStep == IInv /\ [Next]_vars => IInv'
<1> SUFFICES ASSUME IInv, [Next]_vars PROVE IInv'
    OBVIOUS
<1> USE MaxWritesAssumption, ThreadsAssumption DEF IInv
<1>1. ASSUME NEW t \in Threads, WriteThrough(t) PROVE IInv'
    <2> USE <1>1 DEF WriteThrough
    <2>1. TypeOK'
        BY DEF TypeOK, Message, InWrite, MayCall, NextMessage
    <2>2. MutexHeld'
        BY DEF MutexHeld
    <2>3. Lifetime' /\ DisabledIsIdle'
        BY DEF Lifetime, DisabledIsIdle
    <2>4. HandFull' /\ CallsLeft'
        BY DEF HandFull, CallsLeft, Popped, MayCall
    <2>5. UncountedIsQueued' /\ InFlightExact'
        BY DEF UncountedIsQueued, InFlightExact, Uncounted, Popped
    <2>6. NoLostWakeup'
        BY DEF NoLostWakeup
    <2>7. QED
        BY <2>1, <2>2, <2>3, <2>4, <2>5, <2>6
<1>2. ASSUME NEW t \in Threads, WriteLock(t) PROVE IInv'
    <2> USE <1>2 DEF WriteLock
    <2>1. TypeOK'
        BY DEF TypeOK, InWrite
    <2>2. MutexHeld'
        BY DEF MutexHeld
    <2>3. Lifetime' /\ DisabledIsIdle'
        BY DEF Lifetime, DisabledIsIdle, MayCall
    <2>4. HandFull' /\ CallsLeft'
        BY DEF HandFull, CallsLeft, Popped, MayCall
    <2>5. UncountedIsQueued' /\ InFlightExact'
        BY DEF UncountedIsQueued, InFlightExact, Uncounted, Popped, MayCall
    <2>6. NoLostWakeup'
        BY DEF NoLostWakeup, MayCall
    <2>7. QED
        BY <2>1, <2>2, <2>3, <2>4, <2>5, <2>6
<1>3. ASSUME NEW t \in Threads, WriteEmplace(t) PROVE IInv'
    <2> USE <1>3 DEF WriteEmplace
    <2>1. TypeOK'
        BY DEF TypeOK, Message, InWrite, NextMessage, CallsLeft
    <2>2. MutexHeld'
        BY DEF MutexHeld, InWrite
    <2>3. Lifetime' /\ DisabledIsIdle'
        BY DEF Lifetime, DisabledIsIdle
    <2>4. HandFull' /\ CallsLeft'
        BY DEF HandFull, CallsLeft, Popped, TypeOK
    <2>5. UncountedIsQueued' /\ InFlightExact'
        <3>1. Uncounted = {}
            BY DEF Uncounted, MutexHeld, InWrite
        <3>2. t \in Uncounted'
            BY DEF Uncounted, TypeOK
        <3>3. Len(queue') = Len(queue) + 1 /\ queue' # <<>>
            <4>1. NextMessage(t) \in Message /\ queue \in Seq(Message)
                BY DEF TypeOK, CallsLeft, NextMessage, Message
            <4>2. QED
                BY <4>1
        <3>4. QED
            BY <3>1, <3>2, <3>3 DEF UncountedIsQueued, InFlightExact, Popped, TypeOK
    <2>6. NoLostWakeup'
        BY DEF NoLostWakeup, TypeOK
    <2>7. QED
        BY <2>1, <2>2, <2>3, <2>4, <2>5, <2>6
<1>4. ASSUME NEW t \in Threads, WriteFetchAdd(t) PROVE IInv'
    <2> USE <1>4 DEF WriteFetchAdd
    <2>1. TypeOK'
        BY DEF TypeOK, InWrite
    <2>2. MutexHeld'
        BY DEF MutexHeld, InWrite
    <2>3. Lifetime' /\ DisabledIsIdle'
        BY DEF Lifetime, DisabledIsIdle
    <2>4. HandFull' /\ CallsLeft'
        BY DEF HandFull, CallsLeft, Popped
    <2>5. UncountedIsQueued' /\ InFlightExact'
        BY DEF UncountedIsQueued, InFlightExact, Uncounted, Popped, TypeOK, InWrite, MutexHeld
    <2>6. NoLostWakeup'
        BY DEF NoLostWakeup
    <2>7. QED
        BY <2>1, <2>2, <2>3, <2>4, <2>5, <2>6
<1>5. ASSUME NEW t \in Threads, WriteUnlock(t) PROVE IInv'
    <2> USE <1>5 DEF WriteUnlock
    <2>1. TypeOK'
        BY DEF TypeOK
    <2>2. MutexHeld'
        BY DEF MutexHeld, TypeOK, InWrite
    <2>3. Lifetime' /\ DisabledIsIdle'
        BY DEF Lifetime, DisabledIsIdle
    <2>4. HandFull' /\ CallsLeft'
        BY DEF HandFull, CallsLeft, Popped
    <2>5. UncountedIsQueued' /\ InFlightExact'
        BY DEF UncountedIsQueued, InFlightExact, Uncounted, Popped
    <2>6. NoLostWakeup'
        BY DEF NoLostWakeup
    <2>7. QED
        BY <2>1, <2>2, <2>3, <2>4, <2>5, <2>6
<1>6. ASSUME NEW t \in Threads, WriteNotify(t) PROVE IInv'
    <2> USE <1>6 DEF WriteNotify
    <2>1. TypeOK'
        BY DEF TypeOK
    <2>2. MutexHeld'
        BY DEF MutexHeld, InWrite
    <2>3. Lifetime' /\ DisabledIsIdle'
        BY DEF Lifetime, DisabledIsIdle
    <2>4. HandFull' /\ CallsLeft'
        BY DEF HandFull, CallsLeft, Popped
    <2>5. UncountedIsQueued' /\ InFlightExact'
        BY DEF UncountedIsQueued, InFlightExact, Uncounted, Popped
    <2>6. NoLostWakeup'
        BY DEF NoLostWakeup
    <2>7. QED
        BY <2>1, <2>2, <2>3, <2>4, <2>5, <2>6
<1>7. CASE WorkerLock
    <2> USE <1>7 DEF WorkerLock
    <2>1. TypeOK'
        BY DEF TypeOK
    <2>2. MutexHeld'
        BY DEF MutexHeld
    <2>3. Lifetime' /\ DisabledIsIdle'
        BY DEF Lifetime, DisabledIsIdle
    <2>4. HandFull' /\ CallsLeft'
        BY DEF HandFull, CallsLeft, Popped
    <2>5. UncountedIsQueued' /\ InFlightExact'
        BY DEF UncountedIsQueued, InFlightExact, Uncounted, Popped
    <2>6. NoLostWakeup'
        BY DEF NoLostWakeup
    <2>7. QED
        BY <2>1, <2>2, <2>3, <2>4, <2>5, <2>6
<1>8. CASE WorkerSleep
    <2> USE <1>8 DEF WorkerSleep
    <2>1. TypeOK'
        BY DEF TypeOK
    <2>2. MutexHeld'
        BY DEF MutexHeld
    <2>3. Lifetime' /\ DisabledIsIdle'
        BY DEF Lifetime, DisabledIsIdle
    <2>4. HandFull' /\ CallsLeft'
        BY DEF HandFull, CallsLeft, Popped
    <2>5. UncountedIsQueued' /\ InFlightExact'
        BY DEF UncountedIsQueued, InFlightExact, Uncounted, Popped
    <2>6. NoLostWakeup'
        BY DEF NoLostWakeup
    <2>7. QED
        BY <2>1, <2>2, <2>3, <2>4, <2>5, <2>6
<1>9. CASE WorkerWakeSpuriously
    <2> USE <1>9 DEF WorkerWakeSpuriously
    <2>1. TypeOK'
        BY DEF TypeOK
    <2>2. MutexHeld'
        BY DEF MutexHeld
    <2>3. Lifetime' /\ DisabledIsIdle'
        BY DEF Lifetime, DisabledIsIdle
    <2>4. HandFull' /\ CallsLeft'
        BY DEF HandFull, CallsLeft, Popped
    <2>5. UncountedIsQueued' /\ InFlightExact'
        BY DEF UncountedIsQueued, InFlightExact, Uncounted, Popped
    <2>6. NoLostWakeup'
        BY DEF NoLostWakeup
    <2>7. QED
        BY <2>1, <2>2, <2>3, <2>4, <2>5, <2>6
<1>10. CASE WorkerBreak
    <2> USE <1>10 DEF WorkerBreak
    <2>1. TypeOK'
        BY DEF TypeOK
    <2>2. MutexHeld'
        BY DEF MutexHeld
    <2>3. Lifetime' /\ DisabledIsIdle'
        BY DEF Lifetime, DisabledIsIdle
    <2>4. HandFull' /\ CallsLeft'
        BY DEF HandFull, CallsLeft, Popped
    <2>5. UncountedIsQueued' /\ InFlightExact'
        BY DEF UncountedIsQueued, InFlightExact, Uncounted, Popped
    <2>6. NoLostWakeup'
        BY DEF NoLostWakeup
    <2>7. QED
        BY <2>1, <2>2, <2>3, <2>4, <2>5, <2>6
<1>11. CASE WorkerPop
    <2> USE <1>11 DEF WorkerPop
    <2>1. TypeOK'
        BY DEF TypeOK
    <2>2. MutexHeld'
        BY DEF MutexHeld
    <2>3. Lifetime' /\ DisabledIsIdle'
        BY DEF Lifetime, DisabledIsIdle
    <2>4. HandFull' /\ CallsLeft'
        BY DEF HandFull, CallsLeft, TypeOK
    <2>5. UncountedIsQueued' /\ InFlightExact'
        BY DEF UncountedIsQueued, InFlightExact, Uncounted, Popped, InWrite, MutexHeld
    <2>6. NoLostWakeup'
        BY DEF NoLostWakeup
    <2>7. QED
        BY <2>1, <2>2, <2>3, <2>4, <2>5, <2>6
<1>12. CASE WorkerWrite
    <2> USE <1>12 DEF WorkerWrite
    <2>1. TypeOK'
        BY DEF TypeOK, HandFull, Popped
    <2>2. MutexHeld'
        BY DEF MutexHeld
    <2>3. Lifetime' /\ DisabledIsIdle'
        BY DEF Lifetime, DisabledIsIdle
    <2>4. HandFull' /\ CallsLeft'
        BY DEF HandFull, CallsLeft, Popped
    <2>5. UncountedIsQueued' /\ InFlightExact'
        BY DEF UncountedIsQueued, InFlightExact, Uncounted, Popped
    <2>6. NoLostWakeup'
        BY DEF NoLostWakeup
    <2>7. QED
        BY <2>1, <2>2, <2>3, <2>4, <2>5, <2>6
<1>13. CASE WorkerFetchSub
    <2> USE <1>13 DEF WorkerFetchSub
    <2>1. TypeOK'
        BY DEF TypeOK, Popped, InFlightExact, UncountedIsQueued
    <2>2. MutexHeld'
        BY DEF MutexHeld
    <2>3. Lifetime' /\ DisabledIsIdle'
        BY DEF Lifetime, DisabledIsIdle
    <2>4. HandFull' /\ CallsLeft'
        BY DEF HandFull, CallsLeft, Popped
    <2>5. UncountedIsQueued' /\ InFlightExact'
        BY DEF UncountedIsQueued, InFlightExact, Uncounted, Popped, TypeOK
    <2>6. NoLostWakeup'
        BY DEF NoLostWakeup
    <2>7. QED
        BY <2>1, <2>2, <2>3, <2>4, <2>5, <2>6
<1>14. CASE RequestStop
    <2> USE <1>14 DEF RequestStop
    <2>1. TypeOK'
        BY DEF TypeOK
    <2>2. MutexHeld'
        BY DEF MutexHeld
    <2>3. Lifetime' /\ DisabledIsIdle'
        BY DEF Lifetime, DisabledIsIdle
    <2>4. HandFull' /\ CallsLeft'
        BY DEF HandFull, CallsLeft, Popped
    <2>5. UncountedIsQueued' /\ InFlightExact'
        BY DEF UncountedIsQueued, InFlightExact, Uncounted, Popped
    <2>6. NoLostWakeup'
        BY DEF NoLostWakeup
    <2>7. QED
        BY <2>1, <2>2, <2>3, <2>4, <2>5, <2>6
<1>15. CASE Join
    <2> USE <1>15 DEF Join
    <2>1. TypeOK'
        BY DEF TypeOK
    <2>2. MutexHeld'
        BY DEF MutexHeld
    <2>3. Lifetime' /\ DisabledIsIdle'
        BY DEF Lifetime, DisabledIsIdle
    <2>4. HandFull' /\ CallsLeft'
        BY DEF HandFull, CallsLeft, Popped
    <2>5. UncountedIsQueued' /\ InFlightExact'
        BY DEF UncountedIsQueued, InFlightExact, Uncounted, Popped
    <2>6. NoLostWakeup'
        BY DEF NoLostWakeup
    <2>7. QED
        BY <2>1, <2>2, <2>3, <2>4, <2>5, <2>6
<1>16. CASE SkipJoin
    <2> USE <1>16 DEF SkipJoin
    <2>1. TypeOK'
        BY DEF TypeOK
    <2>2. MutexHeld'
        BY DEF MutexHeld
    <2>3. Lifetime' /\ DisabledIsIdle'
        BY DEF Lifetime, DisabledIsIdle
    <2>4. HandFull' /\ CallsLeft'
        BY DEF HandFull, CallsLeft, Popped
    <2>5. UncountedIsQueued' /\ InFlightExact'
        BY DEF UncountedIsQueued, InFlightExact, Uncounted, Popped
    <2>6. NoLostWakeup'
        BY DEF NoLostWakeup
    <2>7. QED
        BY <2>1, <2>2, <2>3, <2>4, <2>5, <2>6
<1>17. CASE DestroySink
    <2> USE <1>17 DEF DestroySink
    <2>1. TypeOK'
        BY DEF TypeOK
    <2>2. MutexHeld'
        BY DEF MutexHeld
    <2>3. Lifetime' /\ DisabledIsIdle'
        BY DEF Lifetime, DisabledIsIdle
    <2>4. HandFull' /\ CallsLeft'
        BY DEF HandFull, CallsLeft, Popped
    <2>5. UncountedIsQueued' /\ InFlightExact'
        BY DEF UncountedIsQueued, InFlightExact, Uncounted, Popped
    <2>6. NoLostWakeup'
        BY DEF NoLostWakeup
    <2>7. QED
        BY <2>1, <2>2, <2>3, <2>4, <2>5, <2>6
<1>18. CASE UNCHANGED vars
    BY <1>18 DEF vars, TypeOK, MutexHeld, Lifetime, DisabledIsIdle, HandFull, CallsLeft,
       UncountedIsQueued, InFlightExact, NoLostWakeup, Popped, Uncounted
<1>19. QED
    BY <1>1, <1>2, <1>3, <1>4, <1>5, <1>6, <1>7, <1>8, <1>9, <1>10, <1>11, <1>12, <1>13, <1>14, <1>15, <1>16, <1>17, <1>18
       DEF Next, Write, WriteStep, Worker, Destructor, Destroyed

(* So it holds in every state of an AsyncSink. *)
LEMMA IInvCorrect == Spec => []IInv
<1>1. QED
    BY InitEstablishesIInv, IInvStep, PTL DEF Spec

(* The variables keep their types; in_flight_count, a size_t in the code, is
   never decremented below zero. *)
THEOREM TypeCorrect == Spec => []TypeOK
<1>1. IInv => TypeOK
    BY DEF IInv
<1>2. QED
    BY <1>1, IInvCorrect, PTL

(* in_flight_count() is exact but for the one message that may be queued and not
   yet counted (async_sink.h:43-44, 64). *)
THEOREM InFlightCorrect == Spec => []InFlightExact
<1>1. IInv => InFlightExact
    BY DEF IInv
<1>2. QED
    BY <1>1, IInvCorrect, PTL

(* While the worker sleeps on cv_ with messages queued, a writer has its
   notify_one still before it. *)
THEOREM WakeupCorrect == Spec => []NoLostWakeup
<1>1. IInv => NoLostWakeup
    BY DEF IInv
<1>2. QED
    BY <1>1, IInvCorrect, PTL

-----------------------------------------------------------------------------
(* Refinement of LogChannel.                                               *)

(* An empty queue or hand adds nothing. *)
LEMMA ConcatUnit ==
    ASSUME NEW S, NEW s \in Seq(S)
    PROVE  s \o <<>> = s /\ <<>> \o s = s
OBVIOUS

(* Queueing a message extends what is accepted. *)
LEMMA ConcatAppend ==
    ASSUME NEW S, NEW s \in Seq(S), NEW q \in Seq(S), NEW m \in S
    PROVE  s \o Append(q, m) = Append(s \o q, m)
OBVIOUS

(* Popping the head of the queue moves it from the queue to the hand. *)
LEMMA ConcatHeadTail ==
    ASSUME NEW S, NEW s \in Seq(S), NEW q \in Seq(S), q # <<>>
    PROVE  (s \o <<Head(q)>>) \o Tail(q) = s \o q
OBVIOUS

(* The message in the worker's hand is the next one after the sink's. *)
LEMMA ConcatNext ==
    ASSUME NEW S, NEW s \in Seq(S), NEW q \in Seq(S), NEW m \in S
    PROVE  /\ Append(s, m) = s \o <<m>>
           /\ Len(s) < Len((s \o <<m>>) \o q)
           /\ ((s \o <<m>>) \o q)[Len(s) + 1] = m
OBVIOUS

(* The accepted messages, wherever they are, form a sequence of messages. *)
LEMMA AcceptedTyped ==
    IInv => InHand \in Seq(Message) /\ Accepted \in Seq(Message)
<1>1. ASSUME IInv PROVE InHand \in Seq(Message)
    BY <1>1 DEF IInv, TypeOK, HandFull, Popped, InHand
<1>2. QED
    BY <1>1 DEF IInv, TypeOK, Accepted

(* A thread with a call left has a message to hand over. *)
LEMMA NextMessageTyped ==
    ASSUME NEW t \in Threads, calls \in [Threads -> 0..MaxWrites], calls[t] < MaxWrites
    PROVE  NextMessage(t) \in Message
BY MaxWritesAssumption DEF NextMessage, Message

(* What a step does to Accepted: a thread appends its next message, or it stays. *)
LEMMA AcceptedStep ==
    ASSUME IInv, [Next]_vars
    PROVE  \/ Accepted' = Accepted /\ calls' = calls
           \/ \E t \in Threads :
                 /\ WriteThrough(t) \/ WriteEmplace(t)
                 /\ Accepted' = Append(Accepted, NextMessage(t))
                 /\ NextMessage(t) \in Message
<1> USE DEF IInv
<1>1. /\ sink \in Seq(Message) /\ queue \in Seq(Message)
      /\ InHand \in Seq(Message) /\ Accepted \in Seq(Message)
    BY AcceptedTyped DEF TypeOK
<1>2. ASSUME NEW t \in Threads, WriteThrough(t)
      PROVE  /\ Accepted' = Append(Accepted, NextMessage(t))
             /\ NextMessage(t) \in Message
    <2>1. NextMessage(t) \in Message
        BY <1>2, NextMessageTyped DEF WriteThrough, MayCall, TypeOK
    <2>2. queue = <<>> /\ InHand = <<>> /\ queue' = <<>> /\ InHand' = <<>>
        BY <1>2 DEF WriteThrough, DisabledIsIdle, InHand
    <2>3. Accepted = sink /\ Accepted' = sink'
        <3>1. sink' \in Seq(Message)
            BY <1>1, <1>2, <2>1 DEF WriteThrough
        <3>2. QED
            BY <1>1, <2>2, <3>1, ConcatUnit DEF Accepted
    <2>4. QED
        BY <1>2, <2>1, <2>3 DEF WriteThrough
<1>3. ASSUME NEW t \in Threads, WriteEmplace(t)
      PROVE  /\ Accepted' = Append(Accepted, NextMessage(t))
             /\ NextMessage(t) \in Message
    <2>1. NextMessage(t) \in Message
        BY <1>3, NextMessageTyped DEF WriteEmplace, CallsLeft, TypeOK
    <2>2. InHand' = InHand /\ sink' = sink /\ queue' = Append(queue, NextMessage(t))
        BY <1>3 DEF WriteEmplace, InHand
    <2>3. sink \o InHand \in Seq(Message)
        BY <1>1
    <2>4. QED
        BY <1>1, <2>1, <2>2, <2>3, ConcatAppend DEF Accepted
<1>4. ASSUME WorkerPop PROVE Accepted' = Accepted
    <2>1. InHand = <<>> /\ InHand' = <<Head(queue)>> /\ sink' = sink /\ queue' = Tail(queue)
        BY <1>4 DEF WorkerPop, InHand
    <2>2. Accepted = sink \o queue
        BY <1>1, <2>1, ConcatUnit DEF Accepted
    <2>3. QED
        BY <1>1, <1>4, <2>1, <2>2, ConcatHeadTail DEF Accepted, WorkerPop
<1>5. ASSUME WorkerWrite PROVE Accepted' = Accepted
    <2>1. InHand = <<hand>> /\ InHand' = <<>> /\ queue' = queue /\ hand \in Message
        BY <1>5 DEF WorkerWrite, InHand, HandFull, Popped
    <2>2. sink' = sink \o <<hand>>
        BY <1>1, <1>5, <2>1, ConcatNext DEF WorkerWrite
    <2>3. sink' \o <<>> = sink'
        BY <1>1, <2>1, <2>2, ConcatUnit
    <2>4. QED
        BY <2>1, <2>2, <2>3 DEF Accepted
<1>6. ASSUME \/ \E t \in Threads : \/ WriteLock(t) \/ WriteFetchAdd(t)
                                   \/ WriteUnlock(t) \/ WriteNotify(t)
             \/ WorkerLock \/ WorkerSleep \/ WorkerWakeSpuriously
             \/ WorkerBreak \/ WorkerFetchSub
             \/ Destructor \/ Destroyed \/ UNCHANGED vars
      PROVE  Accepted' = Accepted /\ calls' = calls
    <2>1. sink' = sink /\ queue' = queue /\ InHand' = InHand /\ calls' = calls
        BY <1>6 DEF WriteLock, WriteFetchAdd, WriteUnlock, WriteNotify, WorkerLock,
           WorkerSleep, WorkerWakeSpuriously, WorkerBreak, WorkerFetchSub, Destructor,
           RequestStop, Join, SkipJoin, DestroySink, Destroyed, vars, InHand, TypeOK
    <2>2. QED
        BY <2>1 DEF Accepted
<1>7. QED
    BY <1>2, <1>3, <1>4, <1>5, <1>6
       DEF Next, Write, WriteStep, Worker, WorkerPop, WorkerWrite

(* No message is numbered beyond the calls its thread has made. *)
LEMMA NumberedByCallsStep ==
    IInv /\ NumberedByCalls /\ [Next]_vars => NumberedByCalls'
<1> SUFFICES ASSUME IInv, NumberedByCalls, [Next]_vars PROVE NumberedByCalls'
    OBVIOUS
<1>1. CASE Accepted' = Accepted /\ calls' = calls
    BY <1>1 DEF NumberedByCalls
<1>2. ASSUME NEW t \in Threads, WriteThrough(t) \/ WriteEmplace(t),
             Accepted' = Append(Accepted, NextMessage(t)), NextMessage(t) \in Message
      PROVE  NumberedByCalls'
    <2>1. Accepted \in Seq(Message) /\ calls \in [Threads -> 0..MaxWrites]
        BY AcceptedTyped DEF IInv, TypeOK
    <2>2. calls' = [calls EXCEPT ![t] = @ + 1]
        BY <1>2 DEF WriteThrough, WriteEmplace
    <2> SUFFICES ASSUME NEW i \in DOMAIN Accepted'
                 PROVE  Accepted'[i][2] <= calls'[Accepted'[i][1]]
        BY DEF NumberedByCalls
    <2>3. CASE i = Len(Accepted) + 1
        <3>1. Accepted'[i] = <<t, calls[t] + 1>>
            BY <1>2, <2>1, <2>3 DEF NextMessage
        <3>2. QED
            BY <2>1, <2>2, <3>1, MaxWritesAssumption
    <2>4. CASE i \in DOMAIN Accepted
        <3>1. Accepted'[i] = Accepted[i] /\ Accepted[i] \in Message
            BY <1>2, <2>1, <2>4
        <3>2. Accepted[i][2] <= calls[Accepted[i][1]]
            BY <2>4 DEF NumberedByCalls
        <3>3. QED
            BY <2>1, <2>2, <3>1, <3>2, MaxWritesAssumption DEF Message
    <2>5. QED
        BY <1>2, <2>1, <2>3, <2>4
<1>3. QED
    BY <1>1, <1>2, AcceptedStep

(* A thread's next message comes after all of its others. *)
LEMMA ThreadOrderStep ==
    IInv /\ ThreadOrder /\ [Next]_vars => ThreadOrder'
<1> SUFFICES ASSUME IInv, ThreadOrder, [Next]_vars PROVE ThreadOrder'
    OBVIOUS
<1>1. NumberedByCalls'
    BY NumberedByCallsStep DEF ThreadOrder
<1>2. CASE Accepted' = Accepted /\ calls' = calls
    BY <1>1, <1>2 DEF ThreadOrder, Contents
<1>3. ASSUME NEW t \in Threads, WriteThrough(t) \/ WriteEmplace(t),
             Accepted' = Append(Accepted, NextMessage(t)), NextMessage(t) \in Message
      PROVE  ThreadOrder'
    <2>1. Accepted \in Seq(Message) /\ calls \in [Threads -> 0..MaxWrites]
        BY AcceptedTyped DEF IInv, TypeOK
    <2>2. calls' = [calls EXCEPT ![t] = @ + 1]
        BY <1>3 DEF WriteThrough, WriteEmplace
    <2>3. /\ Len(Accepted) \in Nat /\ DOMAIN Accepted = 1..Len(Accepted)
          /\ DOMAIN Accepted' = 1..(Len(Accepted) + 1)
          /\ Accepted'[Len(Accepted) + 1] = NextMessage(t)
          /\ \A i \in DOMAIN Accepted : Accepted'[i] = Accepted[i]
        BY <1>3, <2>1
    <2>4. NextMessage(t)[1] = t /\ NextMessage(t)[2] = calls[t] + 1 /\ calls[t] \in Nat
        BY <2>1, MaxWritesAssumption DEF NextMessage
    <2>5. ASSUME NEW u \in Threads, NEW n \in 1..calls'[u]
          PROVE  <<u, n>> \in Contents(Accepted')
        <3>1. CASE u = t /\ n = calls[t] + 1
            <4>1. Accepted'[Len(Accepted) + 1] = <<u, n>> /\ Len(Accepted) + 1 \in DOMAIN Accepted'
                BY <2>3, <3>1 DEF NextMessage
            <4>2. QED
                BY <4>1 DEF Contents
        <3>2. CASE ~(u = t /\ n = calls[t] + 1)
            <4>1. n \in 1..calls[u]
                BY <2>1, <2>2, <2>4, <2>5, <3>2, MaxWritesAssumption
            <4>2. PICK i \in DOMAIN Accepted : Accepted[i] = <<u, n>>
                BY <4>1 DEF ThreadOrder, Contents
            <4>3. i \in DOMAIN Accepted' /\ Accepted'[i] = <<u, n>>
                BY <2>3, <4>2
            <4>4. QED
                BY <4>3 DEF Contents
        <3>3. QED
            BY <3>1, <3>2
    <2>6. ASSUME NEW i \in DOMAIN Accepted', NEW j \in DOMAIN Accepted',
                 i < j, Accepted'[i][1] = Accepted'[j][1]
          PROVE  Accepted'[i][2] < Accepted'[j][2]
        <3>1. i \in DOMAIN Accepted /\ Accepted'[i] = Accepted[i] /\ Accepted[i] \in Message
            BY <2>1, <2>3, <2>6
        <3>2. CASE j \in DOMAIN Accepted
            BY <2>3, <2>6, <3>1, <3>2 DEF ThreadOrder
        <3>3. CASE j = Len(Accepted) + 1
            <4>1. Accepted[i][1] = t /\ Accepted'[j][2] = calls[t] + 1
                BY <2>3, <2>4, <2>6, <3>1, <3>3
            <4>2. Accepted[i][2] <= calls[t] /\ Accepted[i][2] \in Nat
                BY <3>1, <4>1 DEF ThreadOrder, NumberedByCalls, Message
            <4>3. QED
                BY <2>4, <3>1, <4>1, <4>2
        <3>4. QED
            BY <2>3, <3>2, <3>3
    <2>7. QED
        BY <1>1, <2>5, <2>6 DEF ThreadOrder
<1>4. QED
    BY <1>2, <1>3, AcceptedStep

(* The messages of one thread reach the sink in the order it logged them, none
   missing and none twice, for every number of threads and calls. *)
THEOREM ThreadOrderCorrect == Spec => []ThreadOrder
<1>1. Init => ThreadOrder
    <2> SUFFICES ASSUME Init PROVE ThreadOrder
        OBVIOUS
    <2>1. DOMAIN Accepted = {} /\ \A t \in Threads : 1..calls[t] = {}
        BY DEF Init, Accepted, InHand
    <2>2. QED
        BY <2>1 DEF ThreadOrder, NumberedByCalls
<1>2. QED
    BY <1>1, IInvCorrect, ThreadOrderStep, PTL DEF Spec

(* A new AsyncSink is a new channel. *)
LEMMA ChannelInit == Init => Channel!Init
<1> SUFFICES ASSUME Init PROVE Channel!Init
    OBVIOUS
<1>1. sink = <<>> /\ InHand = <<>> /\ queue = <<>>
    BY DEF Init, InHand
<1>2. Accepted = <<>>
    BY <1>1 DEF Accepted
<1>3. QED
    BY <1>1, <1>2 DEF Init, Channel!Init

(* A message a thread is about to hand over is not among those accepted. *)
LEMMA NextIsNew ==
    ASSUME IInv, NumberedByCalls, NEW t \in Threads
    PROVE  NextMessage(t) \notin Channel!Contents(Accepted)
<1> SUFFICES ASSUME NEW i \in DOMAIN Accepted, Accepted[i] = NextMessage(t)
             PROVE  FALSE
    BY DEF Channel!Contents
<1>1. Accepted[i][1] = t /\ Accepted[i][2] = calls[t] + 1
    BY DEF NextMessage
<1>2. QED
    BY <1>1, MaxWritesAssumption DEF NumberedByCalls, IInv, TypeOK

(* Every step of the AsyncSink is a step of the channel or leaves it alone. *)
LEMMA ChannelStep ==
    IInv /\ NumberedByCalls /\ [Next]_vars => [Channel!Next]_(Channel!vars)
<1> SUFFICES ASSUME IInv, NumberedByCalls, [Next]_vars
             PROVE  [Channel!Next]_(Channel!vars)
    OBVIOUS
<1> DEFINE closed == owner = "destroyed"
<1>1. /\ sink \in Seq(Message) /\ queue \in Seq(Message)
      /\ InHand \in Seq(Message) /\ Accepted \in Seq(Message)
    BY AcceptedTyped DEF IInv, TypeOK
<1>2. ASSUME NEW t \in Threads, WriteThrough(t),
             Accepted' = Append(Accepted, NextMessage(t)), NextMessage(t) \in Message
      PROVE  Channel!PassThrough(NextMessage(t))
    <2>1. Accepted = sink
        <3>1. queue = <<>> /\ InHand = <<>>
            BY <1>2 DEF WriteThrough, IInv, DisabledIsIdle, InHand
        <3>2. QED
            BY <1>1, <3>1, ConcatUnit DEF Accepted
    <2>2. sink' = Append(sink, NextMessage(t)) /\ owner = "alive" /\ owner' = "alive"
        BY <1>2 DEF WriteThrough, MayCall
    <2>3. QED
        BY <1>2, <2>1, <2>2, NextIsNew DEF Channel!PassThrough
<1>3. ASSUME NEW t \in Threads, WriteEmplace(t),
             Accepted' = Append(Accepted, NextMessage(t))
      PROVE  Channel!Accept(NextMessage(t))
    <2>1. owner = "alive" /\ owner' = owner /\ sink' = sink
        BY <1>3 DEF WriteEmplace, IInv, Lifetime
    <2>2. QED
        BY <1>3, <2>1, NextIsNew DEF Channel!Accept
<1>4. ASSUME WorkerWrite, Accepted' = Accepted PROVE Channel!Deliver
    <2>1. InHand = <<hand>> /\ hand \in Message
        BY <1>4 DEF WorkerWrite, InHand, HandFull, Popped, IInv
    <2>2. Len(sink) < Len(Accepted) /\ Accepted[Len(sink) + 1] = hand
        BY <1>1, <2>1, ConcatNext DEF Accepted
    <2>3. owner # "destroyed" /\ owner' = owner
        BY <1>4 DEF WorkerWrite, IInv, Lifetime, DisabledIsIdle, TypeOK
    <2>4. QED
        BY <1>4, <2>2, <2>3 DEF WorkerWrite, Channel!Deliver
<1>5. ASSUME DestroySink, Accepted' = Accepted PROVE Channel!Close
    <2>1. queue = <<>> /\ InHand = <<>>
        BY <1>5 DEF DestroySink, IInv, Lifetime, DisabledIsIdle, InHand, TypeOK
    <2>2. Accepted = sink
        BY <1>1, <2>1, ConcatUnit DEF Accepted
    <2>3. QED
        BY <1>5, <2>2 DEF DestroySink, Channel!Close
<1>6. ASSUME Accepted' = Accepted, sink' = sink, closed' = closed
      PROVE  UNCHANGED Channel!vars
    BY <1>6 DEF Channel!vars
<1>7. ASSUME NEW t \in Threads, WriteThrough(t) \/ WriteEmplace(t),
             Accepted' = Append(Accepted, NextMessage(t)), NextMessage(t) \in Message
      PROVE  Channel!Next
    BY <1>2, <1>3, <1>7 DEF Channel!Next
<1>8. ASSUME Accepted' = Accepted, calls' = calls
      PROVE  [Channel!Next]_(Channel!vars)
    <2>1. CASE WorkerWrite
        BY <1>4, <1>8, <2>1 DEF Channel!Next
    <2>2. CASE DestroySink
        BY <1>5, <1>8, <2>2 DEF Channel!Next
    <2>3. CASE ~WorkerWrite /\ ~DestroySink
        <3>1. ~ \E t \in Threads : WriteThrough(t)
            BY <1>8, MaxWritesAssumption DEF WriteThrough, IInv, TypeOK
        <3>2. sink' = sink /\ closed' = closed
            BY <2>3, <3>1 DEF Next, Write, WriteLock, WriteStep, WriteEmplace, WriteFetchAdd,
               WriteUnlock, WriteNotify, Worker, WorkerLock, WorkerSleep, WorkerBreak,
               WorkerPop, WorkerFetchSub, WorkerWakeSpuriously, Destructor, RequestStop,
               Join, SkipJoin, Destroyed, vars
        <3>3. QED
            BY <1>6, <1>8, <3>2
    <2>4. QED
        BY <2>1, <2>2, <2>3
<1>9. QED
    BY <1>7, <1>8, AcceptedStep

(* The AsyncSink is a LogChannel, for every number of threads and calls. *)
THEOREM ChannelRefinement == Spec => ImplementsChannel
<1>1. Init => NumberedByCalls
    BY DEF Init, NumberedByCalls, Accepted, InHand
<1>2. QED
    BY <1>1, IInvCorrect, NumberedByCallsStep, ChannelInit, ChannelStep, PTL
       DEF Spec, ImplementsChannel, Channel!Spec
=============================================================================
