------------------------------ MODULE AsyncSink ------------------------------
(***************************************************************************)
(* AsyncSink<T> (libs/logging/.../async_sink.h): a logging sink that, when *)
(* enabled, only queues the message in write() and lets a std::jthread     *)
(* hand it to the wrapped sink; when disabled it calls the wrapped sink    *)
(* directly.  One object is modelled, from the end of its constructor to   *)
(* the end of its destructor.                                              *)
(*                                                                         *)
(* One action per step another thread can observe: the queue is touched    *)
(* only under queue_mutex, in_flight_count is an atomic read without it,   *)
(* and the condition variable releases the mutex and sleeps in one step.   *)
(* Atomics are sequentially consistent here (see README).                  *)
(***************************************************************************)
EXTENDS Integers, Sequences

CONSTANTS Threads,    \* threads that log
          MaxWrites   \* bound: calls of write() per thread

ASSUME MaxWritesAssumption == MaxWrites \in Nat

ASSUME ThreadsAssumption == Threads \cap {"free", "worker"} = {}

VARIABLES enabled,          \* constructor argument
          queue,            \* messages queued, oldest first
          queue_mutex,      \* "free", "worker", or the thread that holds it
          in_flight_count,  \* the atomic counter
          writer,           \* writer[t]: where thread t is inside write()
          calls,            \* calls[t]: messages t has queued or written
          worker,           \* where process_queue is
          hand,             \* the message process_queue popped last
          stop_requested,   \* state of the jthread's stop token
          owner,            \* progress of the destructor
          sink              \* the calls of sink_.write, in order

vars == <<enabled, queue, queue_mutex, in_flight_count, writer, calls,
          worker, hand, stop_requested, owner, sink>>

\* The n-th message of thread t; text and level do not matter here.
Message == Threads \X (1..MaxWrites)
NoMessage == <<>>

InWrite == {"locked", "emplaced", "counted"}   \* stages that hold the mutex

TypeOK ==
    /\ enabled \in BOOLEAN
    /\ queue \in Seq(Message)
    /\ queue_mutex \in Threads \cup {"free", "worker"}
    /\ in_flight_count \in Nat
    /\ writer \in [Threads -> InWrite \cup {"idle", "notify"}]
    /\ calls \in [Threads -> 0..MaxWrites]
    /\ worker \in {"none", "acquire", "test", "asleep", "taken", "written", "done"}
    /\ hand \in Message \cup {NoMessage}
    /\ stop_requested \in BOOLEAN
    /\ owner \in {"alive", "joining", "joined", "destroyed"}
    /\ sink \in Seq(Message)

Init ==
    /\ enabled \in BOOLEAN
    /\ queue = <<>>
    /\ queue_mutex = "free"
    /\ in_flight_count = 0
    /\ writer = [t \in Threads |-> "idle"]
    /\ calls = [t \in Threads |-> 0]
    /\ worker = IF enabled THEN "acquire" ELSE "none"
    /\ hand = NoMessage
    /\ stop_requested = FALSE
    /\ owner = "alive"
    /\ sink = <<>>

-----------------------------------------------------------------------------
(* write(), called by thread t.                                            *)

MayCall(t) == owner = "alive" /\ writer[t] = "idle" /\ calls[t] < MaxWrites

NextMessage(t) == <<t, calls[t] + 1>>

\* Disabled: the wrapped sink is called on the caller's thread.
WriteThrough(t) ==
    /\ ~enabled
    /\ MayCall(t)
    /\ sink' = Append(sink, NextMessage(t))
    /\ calls' = [calls EXCEPT ![t] = @ + 1]
    /\ UNCHANGED <<enabled, queue, queue_mutex, in_flight_count, writer,
                   worker, hand, stop_requested, owner>>

WriteLock(t) ==
    /\ enabled
    /\ MayCall(t)
    /\ queue_mutex = "free"
    /\ queue_mutex' = t
    /\ writer' = [writer EXCEPT ![t] = "locked"]
    /\ UNCHANGED <<enabled, queue, in_flight_count, calls, worker, hand,
                   stop_requested, owner, sink>>

\* Mutant: the lock ends before fetch_add.
WriteEmplaceUnlocks(t) ==
    /\ writer[t] = "locked"
    /\ queue' = Append(queue, NextMessage(t))
    /\ calls' = [calls EXCEPT ![t] = @ + 1]
    /\ writer' = [writer EXCEPT ![t] = "emplaced"]
    /\ queue_mutex' = "free"
    /\ UNCHANGED <<enabled, in_flight_count, worker, hand, stop_requested, owner, sink>>

WriteEmplace(t) ==
    /\ writer[t] = "locked"
    /\ queue' = Append(queue, NextMessage(t))
    /\ calls' = [calls EXCEPT ![t] = @ + 1]
    /\ writer' = [writer EXCEPT ![t] = "emplaced"]
    /\ UNCHANGED <<enabled, queue_mutex, in_flight_count, worker, hand,
                   stop_requested, owner, sink>>

\* Mutant: the size of the queue is stored instead.
WriteStoreSize(t) ==
    /\ writer[t] = "emplaced"
    /\ in_flight_count' = Len(queue)
    /\ writer' = [writer EXCEPT ![t] = "counted"]
    /\ UNCHANGED <<enabled, queue, queue_mutex, calls, worker, hand,
                   stop_requested, owner, sink>>

WriteFetchAdd(t) ==
    /\ writer[t] = "emplaced"
    /\ in_flight_count' = in_flight_count + 1
    /\ writer' = [writer EXCEPT ![t] = "counted"]
    /\ UNCHANGED <<enabled, queue, queue_mutex, calls, worker, hand,
                   stop_requested, owner, sink>>

WriteUnlock(t) ==
    /\ writer[t] = "counted"
    /\ queue_mutex' = "free"
    /\ writer' = [writer EXCEPT ![t] = "notify"]
    /\ UNCHANGED <<enabled, queue, in_flight_count, calls, worker, hand,
                   stop_requested, owner, sink>>

\* Mutant: no notify_one.
WriteSilent(t) ==
    /\ writer[t] = "notify"
    /\ writer' = [writer EXCEPT ![t] = "idle"]
    /\ UNCHANGED <<enabled, queue, queue_mutex, in_flight_count, calls, worker,
                   hand, stop_requested, owner, sink>>

\* notify_one is lost when the worker is not asleep.
WriteNotify(t) ==
    /\ writer[t] = "notify"
    /\ worker' = IF worker = "asleep" THEN "acquire" ELSE worker
    /\ writer' = [writer EXCEPT ![t] = "idle"]
    /\ UNCHANGED <<enabled, queue, queue_mutex, in_flight_count, calls, hand,
                   stop_requested, owner, sink>>

-----------------------------------------------------------------------------
(* process_queue(), run by the jthread.                                    *)

\* Taking the mutex: at the top of the loop, or inside wait() after waking.
WorkerLock ==
    /\ worker = "acquire"
    /\ queue_mutex = "free"
    /\ queue_mutex' = "worker"
    /\ worker' = "test"
    /\ UNCHANGED <<enabled, queue, in_flight_count, writer, calls, hand,
                   stop_requested, owner, sink>>

\* Mutants: wait() tests only the stop token, or only the queue.
WorkerSleepUnlessStopped ==
    /\ worker = "test"
    /\ ~stop_requested
    /\ queue_mutex' = "free"
    /\ worker' = "asleep"
    /\ UNCHANGED <<enabled, queue, in_flight_count, writer, calls, hand,
                   stop_requested, owner, sink>>


\* The predicate of cv_.wait is false: release the mutex and sleep.
WorkerSleep ==
    /\ worker = "test"
    /\ queue = <<>>
    /\ ~stop_requested
    /\ queue_mutex' = "free"
    /\ worker' = "asleep"
    /\ UNCHANGED <<enabled, queue, in_flight_count, writer, calls, hand,
                   stop_requested, owner, sink>>

WorkerWakeSpuriously ==
    /\ worker = "asleep"
    /\ worker' = "acquire"
    /\ UNCHANGED <<enabled, queue, queue_mutex, in_flight_count, writer, calls,
                   hand, stop_requested, owner, sink>>

WorkerBreak ==
    /\ worker = "test"
    /\ stop_requested
    /\ queue = <<>>
    /\ queue_mutex' = "free"
    /\ worker' = "done"
    /\ UNCHANGED <<enabled, queue, in_flight_count, writer, calls, hand,
                   stop_requested, owner, sink>>

\* Mutant: the newest message is taken first.
WorkerPopBack ==
    /\ worker = "test"
    /\ queue # <<>>
    /\ hand' = queue[Len(queue)]
    /\ queue' = SubSeq(queue, 1, Len(queue) - 1)
    /\ queue_mutex' = "free"
    /\ worker' = "taken"
    /\ UNCHANGED <<enabled, in_flight_count, writer, calls, stop_requested, owner, sink>>

\* front, pop and unlock: the queue is not visible to others in between.
WorkerPop ==
    /\ worker = "test"
    /\ queue # <<>>
    /\ hand' = Head(queue)
    /\ queue' = Tail(queue)
    /\ queue_mutex' = "free"
    /\ worker' = "taken"
    /\ UNCHANGED <<enabled, in_flight_count, writer, calls, stop_requested,
                   owner, sink>>

WorkerWrite ==
    /\ worker = "taken"
    /\ sink' = Append(sink, hand)
    /\ worker' = "written"
    /\ UNCHANGED <<enabled, queue, queue_mutex, in_flight_count, writer, calls,
                   hand, stop_requested, owner>>

WorkerFetchSub ==
    /\ worker = "written"
    /\ in_flight_count' = in_flight_count - 1
    /\ hand' = NoMessage
    /\ worker' = "acquire"
    /\ UNCHANGED <<enabled, queue, queue_mutex, writer, calls, stop_requested,
                   owner, sink>>

-----------------------------------------------------------------------------
(* The implicit destructor: members go in reverse order, so the jthread    *)
(* stops and joins first and the wrapped sink is destroyed after it.  An   *)
(* object is destroyed only when no call on it is in progress.             *)

\* ~jthread of a running thread: request_stop() sets the flag of the stop
\* token and runs its callbacks; nothing registered one, so cv_ is not notified.
RequestStop ==
    /\ owner = "alive"
    /\ \A t \in Threads : writer[t] = "idle"
    /\ enabled
    /\ stop_requested' = TRUE
    /\ owner' = "joining"
    /\ UNCHANGED <<enabled, queue, queue_mutex, in_flight_count, writer, calls,
                   worker, hand, sink>>

Join ==
    /\ owner = "joining"
    /\ worker = "done"
    /\ owner' = "joined"
    /\ UNCHANGED <<enabled, queue, queue_mutex, in_flight_count, writer, calls,
                   worker, hand, stop_requested, sink>>

\* ~jthread of a default-constructed jthread does nothing.
SkipJoin ==
    /\ owner = "alive"
    /\ \A t \in Threads : writer[t] = "idle"
    /\ ~enabled
    /\ owner' = "joined"
    /\ UNCHANGED <<enabled, queue, queue_mutex, in_flight_count, writer, calls,
                   worker, hand, stop_requested, sink>>

\* Mutant: the worker is declared before the sink, so it is joined after.
DestroySinkFirst ==
    /\ owner \in {"joining", "joined"}
    /\ owner' = "destroyed"
    /\ UNCHANGED <<enabled, queue, queue_mutex, in_flight_count, writer, calls,
                   worker, hand, stop_requested, sink>>

DestroySink ==
    /\ owner = "joined"
    /\ owner' = "destroyed"
    /\ UNCHANGED <<enabled, queue, queue_mutex, in_flight_count, writer, calls,
                   worker, hand, stop_requested, sink>>

\* Nothing is left to do: not a deadlock.
Destroyed == owner = "destroyed" /\ UNCHANGED vars

-----------------------------------------------------------------------------
WriteStep(t) ==
    \/ WriteEmplace(t) \/ WriteFetchAdd(t) \/ WriteUnlock(t) \/ WriteNotify(t)

Write(t) == WriteThrough(t) \/ WriteLock(t) \/ WriteStep(t)

Worker ==
    \/ WorkerLock \/ WorkerSleep \/ WorkerBreak
    \/ WorkerPop \/ WorkerWrite \/ WorkerFetchSub

Destructor == RequestStop \/ Join \/ SkipJoin \/ DestroySink

Next ==
    \/ \E t \in Threads : Write(t)
    \/ Worker
    \/ WorkerWakeSpuriously
    \/ Destructor
    \/ Destroyed

Spec == Init /\ [][Next]_vars

\* A call of write() that was begun finishes, the worker thread keeps running,
\* a destructor that was begun goes on.  Nobody has to call write() or to
\* destroy the object, and a spurious wakeup is never owed.
Fairness ==
    /\ \A t \in Threads : WF_vars(WriteStep(t))
    /\ WF_vars(Worker)
    /\ WF_vars(Join \/ DestroySink)

FairSpec == Spec /\ Fairness

-----------------------------------------------------------------------------
(* Properties.                                                             *)

InHand == IF worker = "taken" THEN <<hand>> ELSE <<>>

\* Everything write() has taken, in the order it was taken.
Accepted == sink \o InHand \o queue

Contents(s) == {s[i] : i \in DOMAIN s}

\* The messages queued but not yet counted (between emplace and fetch_add).
Uncounted == {t \in Threads : writer[t] = "emplaced"}

Popped == worker \in {"taken", "written"}

(* in_flight_count() counts the messages queued and the one process_queue has
   popped and not yet accounted for; only a message between its emplace and its
   fetch_add is missing from it.  So fetch_sub never finds 0, which would wrap
   the size_t (async_sink.h:64), and while no thread is between the two, a count
   of 0 means that nothing is queued or on its way to the sink.  (While one is,
   in_flight_count(), which takes no lock, may give 0 beside a queued message:
   async_sink.h:43-44, 49.) *)
InFlightExact ==
    in_flight_count + (IF Uncounted = {} THEN 0 ELSE 1)
        = Len(queue) + (IF Popped THEN 1 ELSE 0)

(* The wakeup of the worker is never lost to a writer: while it sleeps on
   cv_ with messages in the queue, some writer still has its notify_one to
   do (or, still holding the mutex, to come to it). *)
NoLostWakeup ==
    (worker = "asleep" /\ queue # <<>>)
        => \E t \in Threads : writer[t] \in {"emplaced", "counted", "notify"}

(* No message is numbered beyond the calls its thread has made. *)
NumberedByCalls ==
    \A i \in DOMAIN Accepted : Accepted[i][2] <= calls[Accepted[i][1]]

(* The messages of one thread reach the sink in the order the thread logged
   them, none missing and none twice, whatever the other threads do. *)
ThreadOrder ==
    /\ \A t \in Threads : \A n \in 1..calls[t] : <<t, n>> \in Contents(Accepted)
    /\ \A i, j \in DOMAIN Accepted :
          (i < j /\ Accepted[i][1] = Accepted[j][1]) => Accepted[i][2] < Accepted[j][2]
    /\ NumberedByCalls

(* What makes the above inductive: who holds the mutex, that only an object
   nobody calls any more is being destroyed, and what a disabled sink never
   has. *)
MutexHeld ==
    /\ \A t \in Threads : writer[t] \in InWrite => queue_mutex = t
    /\ worker = "test" => queue_mutex = "worker"

Lifetime ==
    /\ owner # "alive" => \A t \in Threads : writer[t] = "idle"
    /\ worker = "done" => owner # "alive" /\ queue = <<>>
    /\ (enabled /\ owner \in {"joined", "destroyed"}) => worker = "done"
    /\ stop_requested => owner # "alive"

DisabledIsIdle ==
    /\ enabled <=> worker # "none"
    /\ ~enabled => queue = <<>>
    /\ ~enabled => \A t \in Threads : writer[t] = "idle"

HandFull == Popped => hand \in Message

CallsLeft == \A t \in Threads : writer[t] = "locked" => calls[t] < MaxWrites

UncountedIsQueued == Uncounted # {} => queue # <<>>

IInv ==
    /\ TypeOK /\ MutexHeld /\ Lifetime /\ DisabledIsIdle /\ HandFull
    /\ CallsLeft /\ UncountedIsQueued /\ InFlightExact /\ NoLostWakeup

(* The AsyncSink is a LogChannel: the wrapped sink receives what write() took,
   in order, nothing lost or repeated, and everything before it is destroyed. *)
Channel == INSTANCE LogChannel
    WITH Messages <- Message, accepted <- Accepted, delivered <- sink,
         closed <- (owner = "destroyed")

ImplementsChannel == Channel!Spec

(* A queued message is eventually written by the worker thread. *)
QueuedIsWritten ==
    \A m \in Message : (m \in Contents(queue)) ~> (m \in Contents(sink))


(* What the predicate of cv_.wait asks for (async_sink.h:55, "|| st.
   stop_requested()"): a stop request ends the wait, so the worker leaves and
   the destructor returns. *)
StopEndsWorker == (owner = "joining") ~> (owner = "destroyed")
=============================================================================
