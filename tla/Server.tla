------------------------------- MODULE Server -------------------------------
(***************************************************************************)
(* The server process from the moment run() has registered its signal      *)
(* handler (prapancha.cpp): the accept loop (listener.h), the sessions     *)
(* (session.h), the executors that run io_context.run(), and the shutdown  *)
(* by a signal, a promise and join.                                        *)
(*                                                                         *)
(* A handler is a chain of steps of one executor, cut where another thread *)
(* can see the difference.  The io_context is external: a FIFO queue of    *)
(* handlers that may run, from which a stopped context starts nothing, and *)
(* strands, which keep a handler back while another one of theirs is       *)
(* queued or running.                                                      *)
(***************************************************************************)
EXTENDS Routing, FiniteSets

CONSTANTS Executors,    \* threads of the pool
          Connections,  \* client connections; each carries one request
          Sends,        \* Sends[c]: the requests the client of c may send
          Failed,       \* completion with an error other than operation_aborted
          WrongVersion, \* completion with a request that is not HTTP/1.1
          None          \* no value

ASSUME ExecutorsAssumption == Executors # {}

ASSUME ConnectionsAssumption == Connections \cap {"acceptor", "signals"} = {}

Requests == UNION {Sends[c] : c \in Connections}

ASSUME RequestsAssumption ==
    Requests \subseteq [verb : STRING, target : Seq(STRING), body : Bodies]

ASSUME ResultsAssumption ==
    /\ {Failed, WrongVersion, None} \cap Requests = {}
    /\ {Failed, None} \cap Connections = {}
    /\ Failed # WrongVersion /\ Failed # None /\ WrongVersion # None
    /\ None \notin Statuses

VARIABLES listening,  \* the Listener's constructor got its acceptor to listen
          main,       \* where run() is
          stopped,    \* io_context.stop() has been called
          promise,    \* shutdown_promised has its value
          at,         \* at[e]: where executor e is
          doing,      \* doing[e]: the handler executor e is running
          ready,      \* handlers that may run, first come first served
          busy,       \* strands with a handler in ready or running
          waiting,    \* waiting[s]: handlers kept back by strand s
          signal,     \* "awaited" until a SIGINT or SIGTERM is delivered
          accepting,  \* number of async_accept operations outstanding
          session,    \* session[c]: life of the Session of connection c
          request,    \* request[c]: the request dispatched for c
          response,   \* response[c]: status of the response being built
          saved,      \* connections whose user identity was passed to save()
          reply       \* reply[c]: status handed to async_write

scheduler == <<ready, busy, waiting>>
exchange == <<request, response, saved, reply>>
process == <<listening, main, stopped, promise, signal>>
vars == <<listening, main, stopped, promise, at, doing, ready, busy, waiting, signal,
          accepting, session, request, response, saved, reply>>

\* Handlers run on the strand of their socket; the signal handler has none,
\* but there is only one.  Nothing depends on the result of a write: it only
\* decides whether the socket is shut down before it is closed.
Strands == Connections \cup {"acceptor", "signals"}

AcceptHandlers == [strand : {"acceptor"}, op : {"accept"}, result : Connections \cup {Failed}]
ReadHandlers == [strand : Connections, op : {"read"}, result : Requests \cup {Failed, WrongVersion}]
WriteHandlers == [strand : Connections, op : {"write"}, result : {None}]
SignalHandlers == [strand : {"signals"}, op : {"signal"}, result : {None}]

Handlers == AcceptHandlers \cup ReadHandlers \cup WriteHandlers \cup SignalHandlers

ASSUME NoneAssumption == None \notin Handlers

Stages == {"unborn", "run", "rearm", "hash", "save", "send", "promise", "return", "done"}

TypeOK ==
    /\ listening \in BOOLEAN
    /\ main \in {"starting", "joining", "returned"}
    /\ stopped \in BOOLEAN
    /\ promise \in BOOLEAN
    /\ at \in [Executors -> Stages]
    /\ doing \in [Executors -> Handlers \cup {None}]
    /\ ready \in Seq(Handlers)
    /\ busy \subseteq Strands
    /\ waiting \in [Strands -> {<<>>} \cup {<<h>> : h \in Handlers}]
    /\ signal \in {"awaited", "delivered"}
    /\ accepting \in {0, 1}
    /\ session \in [Connections -> {"none", "reading", "read", "writing", "written", "closed"}]
    /\ request \in [Connections -> Requests \cup {None}]
    /\ response \in [Connections -> Statuses \cup {None}]
    /\ saved \subseteq Connections
    /\ reply \in [Connections -> Statuses \cup {None}]

\* The Listener has been started, whatever became of open, bind and listen; the
\* signals are awaited, no thread exists.
Init ==
    /\ listening \in BOOLEAN
    /\ main = "starting"
    /\ stopped = FALSE
    /\ promise = FALSE
    /\ at = [e \in Executors |-> "unborn"]
    /\ doing = [e \in Executors |-> None]
    /\ ready = <<>>
    /\ busy = {}
    /\ waiting = [s \in Strands |-> <<>>]
    /\ signal = "awaited"
    /\ accepting = 1
    /\ session = [c \in Connections |-> "none"]
    /\ request = [c \in Connections |-> None]
    /\ response = [c \in Connections |-> None]
    /\ saved = {}
    /\ reply = [c \in Connections |-> None]

-----------------------------------------------------------------------------
(* The io_context: an operation completes and its handler is queued.       *)

\* Mutant: no make_strand, every handler goes straight to the queue.
PostWithoutStrand(h) ==
    /\ ready' = Append(ready, h)
    /\ busy' = busy \cup {h.strand}
    /\ UNCHANGED waiting

Post(h) ==
    \/ /\ h.strand \notin busy
       /\ ready' = Append(ready, h)
       /\ busy' = busy \cup {h.strand}
       /\ UNCHANGED waiting
    \/ /\ h.strand \in busy
       /\ waiting' = [waiting EXCEPT ![h.strand] = Append(@, h)]
       /\ UNCHANGED <<ready, busy>>

\* A client connects, or accepting fails: no descriptors, a dead socket, or at
\* once and always where nothing listens.
AcceptCompletes(r) ==
    /\ accepting > 0
    /\ r # Failed => listening /\ session[r] = "none"
    /\ Post([strand |-> "acceptor", op |-> "accept", result |-> r])
    /\ accepting' = accepting - 1
    /\ UNCHANGED <<process, at, doing, session, exchange>>

ReadCompletes(c, r) ==
    /\ session[c] = "reading"
    /\ Post([strand |-> c, op |-> "read", result |-> r])
    /\ session' = [session EXCEPT ![c] = "read"]
    /\ UNCHANGED <<process, at, doing, accepting, exchange>>

WriteCompletes(c) ==
    /\ session[c] = "writing"
    /\ Post([strand |-> c, op |-> "write", result |-> None])
    /\ session' = [session EXCEPT ![c] = "written"]
    /\ UNCHANGED <<process, at, doing, accepting, exchange>>

\* SIGINT or SIGTERM.  The wait is not renewed: later signals are kept by the
\* signal_set and never handled.
SignalArrives ==
    /\ main # "returned"
    /\ signal = "awaited"
    /\ signal' = "delivered"
    /\ Post([strand |-> "signals", op |-> "signal", result |-> None])
    /\ UNCHANGED <<listening, main, stopped, promise, at, doing, accepting, session, exchange>>

-----------------------------------------------------------------------------
(* io_context.run(), called by executor e.                                 *)

\* Executor e starts the handler that is first in the queue, of kind op.
Begins(e, op) ==
    /\ at[e] = "run"
    /\ ~stopped
    /\ ready # <<>>
    /\ Head(ready).op = op
    /\ ready' = Tail(ready)
    /\ doing' = [doing EXCEPT ![e] = Head(ready)]
    /\ UNCHANGED <<busy, waiting>>

Goes(e, from, to) ==
    /\ at[e] = from
    /\ at' = [at EXCEPT ![e] = to]

\* Mutant: the handler of async_write does not hold on to the Session.
LastReferenceUnheld(c) == session[c] \in {"read", "written"}

\* The handler that ends was the last to refer to the Session of c: no
\* operation is outstanding and no other handler is kept back.
LastReference(c) == session[c] \in {"read", "written"} /\ waiting[c] = <<>>

\* The end of a handler: the next one of its strand is queued, or the strand is
\* free; a Session nothing refers to any more is destroyed.
Return(e) ==
    LET s == doing[e].strand IN
    /\ Goes(e, "return", "run")
    /\ doing' = [doing EXCEPT ![e] = None]
    /\ \/ /\ waiting[s] = <<>>
          /\ busy' = busy \ {s}
          /\ UNCHANGED <<ready, waiting>>
       \/ /\ waiting[s] # <<>>
          /\ ready' = Append(ready, Head(waiting[s]))
          /\ waiting' = [waiting EXCEPT ![s] = Tail(@)]
          /\ UNCHANGED busy
    /\ session' = IF s \in Connections /\ LastReference(s)
                  THEN [session EXCEPT ![s] = "closed"] ELSE session
    /\ UNCHANGED <<process, accepting, exchange>>

LeaveRun(e) ==
    /\ stopped
    /\ Goes(e, "run", "done")
    /\ UNCHANGED <<process, doing, scheduler, accepting, session, exchange>>

-----------------------------------------------------------------------------
(* Listener: the handler of async_accept.                                  *)

\* Mutant: do_accept() also where the Session is made.
OnAcceptTwice(e) ==
    LET r == Head(ready).result IN
    /\ Begins(e, "accept")
    /\ Goes(e, "run", "rearm")
    /\ session' = IF r = Failed THEN session ELSE [session EXCEPT ![r] = "reading"]
    /\ accepting' = IF r = Failed THEN accepting ELSE accepting + 1
    /\ UNCHANGED <<process, exchange>>

\* Session::run() starts reading; an error is only logged.
OnAccept(e) ==
    LET r == Head(ready).result IN
    /\ Begins(e, "accept")
    /\ Goes(e, "run", "rearm")
    /\ session' = IF r = Failed THEN session ELSE [session EXCEPT ![r] = "reading"]
    /\ UNCHANGED <<process, accepting, exchange>>

\* Mutant: do_accept() only after a connection.
RearmOnSuccess(e) ==
    /\ Goes(e, "rearm", "return")
    /\ accepting' = accepting + (IF doing[e].result = Failed THEN 0 ELSE 1)
    /\ UNCHANGED <<process, doing, scheduler, session, exchange>>

\* do_accept() again, after an error as well: operation_aborted does not occur
\* while the context runs, nobody closes the acceptor.
Rearm(e) ==
    /\ Goes(e, "rearm", "return")
    /\ accepting' = accepting + 1
    /\ UNCHANGED <<process, doing, scheduler, session, exchange>>

-----------------------------------------------------------------------------
(* Session: on_read, the controllers it ends in, and the handler of        *)
(* async_write.                                                            *)

\* Mutant: a request without a route is dropped like one of another version.
IsDroppedOrUnrouted(r) == r \in Requests => ControllerOf(FromBeast(r)) = "void"

\* A read error or another HTTP version: no reply.
IsDropped(r) == r \in {Failed, WrongVersion}

DropRead(e) ==
    /\ Begins(e, "read")
    /\ IsDropped(Head(ready).result)
    /\ Goes(e, "run", "return")
    /\ UNCHANGED <<process, accepting, session, exchange>>

\* Mutant: the members of the registration's object are not checked.
NeedsHashUnchecked(r) == ControllerOf(r) = "registration" /\ IsObject(r.body)

NeedsHash(r) == ControllerOf(r) = "registration" /\ HasCredentials(r.body)

\* Router::dispatch, up to the answer or to the password hash.
Dispatch(e) ==
    LET c == Head(ready).strand
        r == FromBeast(Head(ready).result)
    IN
    /\ Begins(e, "read")
    /\ ~IsDropped(Head(ready).result)
    /\ request' = [request EXCEPT ![c] = Head(ready).result]
    /\ \/ /\ NeedsHash(r)
          /\ Goes(e, "run", "hash")
          /\ UNCHANGED response
       \/ /\ ~NeedsHash(r)
          /\ Goes(e, "run", "send")
          /\ response' = [response EXCEPT ![c] =
                IF ControllerOf(r) = "registration" THEN InputError(r.body)
                ELSE StatelessStatus(ControllerOf(r))]
    /\ UNCHANGED <<process, accepting, session, saved, reply>>

\* Mutant: a failed hash returns without a response.
HashPasswordSilent(e) ==
    /\ Goes(e, "hash", "save") \/ Goes(e, "hash", "return")
    /\ UNCHANGED <<process, doing, scheduler, accepting, session, exchange>>

HashPassword(e) ==
    LET c == doing[e].strand IN
    /\ \/ /\ Goes(e, "hash", "save")
          /\ UNCHANGED response
       \/ /\ Goes(e, "hash", "send")
          /\ response' = [response EXCEPT ![c] = 500]
    /\ UNCHANGED <<process, doing, scheduler, accepting, session, request, saved, reply>>

\* Whether the file was written is not known here: save() returns void.
SaveIdentity(e) ==
    LET c == doing[e].strand IN
    /\ Goes(e, "save", "send")
    /\ saved' = saved \cup {c}
    /\ response' = [response EXCEPT ![c] = 201]
    /\ UNCHANGED <<process, doing, scheduler, accepting, session, request, reply>>

Send(e) ==
    LET c == doing[e].strand IN
    /\ Goes(e, "send", "return")
    /\ reply' = [reply EXCEPT ![c] = response[c]]
    /\ session' = [session EXCEPT ![c] = "writing"]
    /\ UNCHANGED <<process, doing, scheduler, accepting, request, response, saved>>

\* Shuts the sending side down if the write succeeded; nothing else follows.
OnWrite(e) ==
    /\ Begins(e, "write")
    /\ Goes(e, "run", "return")
    /\ UNCHANGED <<process, accepting, session, exchange>>

-----------------------------------------------------------------------------
(* run(): the signal handler and the main thread.                          *)

\* Mutant: the io_context is not stopped.
OnSignalRunsOn(e) ==
    /\ Begins(e, "signal")
    /\ Goes(e, "run", "promise")
    /\ UNCHANGED <<process, accepting, session, exchange>>

OnSignal(e) ==
    /\ Begins(e, "signal")
    /\ Goes(e, "run", "promise")
    /\ stopped' = TRUE
    /\ UNCHANGED <<listening, main, promise, signal, accepting, session, exchange>>

SetPromise(e) ==
    /\ Goes(e, "promise", "return")
    /\ promise' = TRUE
    /\ UNCHANGED <<listening, main, stopped, signal, doing, scheduler, accepting, session, exchange>>

StartExecutor(e) ==
    /\ main = "starting"
    /\ Goes(e, "unborn", "run")
    /\ UNCHANGED <<process, doing, scheduler, accepting, session, exchange>>

\* shutdown_future.get() returns.
GetSignal ==
    /\ main = "starting"
    /\ \A e \in Executors : at[e] # "unborn"
    /\ promise
    /\ main' = "joining"
    /\ UNCHANGED <<listening, stopped, promise, signal, at, doing, scheduler, accepting, session, exchange>>

\* Mutant: only one executor is joined.
OneLeft == \E e \in Executors : at[e] = "done"

AllLeft == \A e \in Executors : at[e] = "done"

\* Joins every executor and returns: the io_context is destroyed and with it
\* the handlers that never ran, the sessions they hold and the listener.
JoinExecutors ==
    /\ main = "joining"
    /\ AllLeft
    /\ main' = "returned"
    /\ ready' = <<>>
    /\ busy' = {}
    /\ waiting' = [s \in Strands |-> <<>>]
    /\ accepting' = 0
    /\ session' = [c \in Connections |-> IF session[c] = "none" THEN "none" ELSE "closed"]
    /\ UNCHANGED <<listening, stopped, promise, signal, at, doing, exchange>>

Returned == main = "returned" /\ UNCHANGED vars

-----------------------------------------------------------------------------
Completions ==
    \/ \E r \in Connections \cup {Failed} : AcceptCompletes(r)
    \/ \E c \in Connections :
          \/ \E r \in Sends[c] \cup {Failed, WrongVersion} : ReadCompletes(c, r)
          \/ WriteCompletes(c)
    \/ SignalArrives

Executor(e) ==
    \/ OnAccept(e) \/ Rearm(e)
    \/ DropRead(e) \/ Dispatch(e) \/ HashPassword(e) \/ SaveIdentity(e) \/ Send(e)
    \/ OnWrite(e)
    \/ OnSignal(e) \/ SetPromise(e)
    \/ Return(e) \/ LeaveRun(e)

Main == (\E e \in Executors : StartExecutor(e)) \/ GetSignal \/ JoinExecutors

Next ==
    \/ Completions
    \/ \E e \in Executors : Executor(e)
    \/ Main
    \/ Returned

Spec == Init /\ [][Next]_vars

\* Every thread keeps running.  Clients owe nothing: no connection, request,
\* acknowledgement or signal has to come.
Fairness ==
    /\ \A e \in Executors : WF_vars(Executor(e))
    /\ WF_vars(Main)

FairSpec == Spec /\ Fairness
-----------------------------------------------------------------------------
(* Properties.                                                             *)

Running(s) == {e \in Executors : doing[e] # None /\ doing[e].strand = s}

QueuedFor(s) == {i \in DOMAIN ready : ready[i].strand = s}

(* At any time the accept loop has exactly one operation or handler that will
   continue it: an async_accept outstanding, its handler queued, or a handler
   that has not called do_accept() again yet.  None: the server would be deaf
   for good; two: a second loop on one acceptor. *)
OneAccept ==
    main # "returned" =>
        accepting + Cardinality(QueuedFor("acceptor")) + Len(waiting["acceptor"])
            + Cardinality({e \in Executors : at[e] = "rearm"}) = 1

(* The handlers of one session, and those of the listener, never run at the
   same time: async_write may complete before on_read has returned, and the
   next accept before the handler of the last one has. *)
StrandSerial ==
    \A e, f \in Executors :
        (e # f /\ doing[e] # None /\ doing[f] # None)
            => doing[e].strand # doing[f].strand

(* A Session lives as long as an operation or a handler refers to it, and not
   longer: a closed one has no handler anywhere, an open one has an operation
   outstanding, or a handler queued or running, that will close it or go on. *)
SessionOwned ==
    \A c \in Connections :
        LET handlers == QueuedFor(c) # {} \/ waiting[c] # <<>> \/ Running(c) # {} IN
        /\ session[c] \in {"none", "closed"} => ~handlers
        /\ session[c] \in {"read", "written"} => handlers

(* When run() returns, and the io_context and everything its handlers refer to
   is destroyed, no executor is in a handler, and every request that was
   dispatched, before or after the signal, has got its reply. *)
QuietAtReturn ==
    main = "returned" =>
        /\ \A e \in Executors : at[e] = "done" /\ doing[e] = None
        /\ \A c \in Connections : request[c] # None => reply[c] # None

(* The clients' view. *)
Promised == INSTANCE Exchange WITH open <- ~stopped

ImplementsExchange == Promised!Spec

(* A signal ends the process, even while accepting fails over and over and
   its handler queues itself again at once. *)
SignalEndsRun == (signal = "delivered") ~> (main = "returned")

(* A request that has been read, whatever it asks for, is replied to unless
   the server is stopped before it is dispatched... *)
ReadIsAnswered ==
    \A c \in Connections :
        (\E i \in QueuedFor(c) : ready[i].op = "read" /\ ready[i].result \in Requests)
            ~> (reply[c] # None \/ stopped)

(* ... and once dispatched it is replied to even then. *)
DispatchedIsAnswered ==
    \A c \in Connections : (request[c] # None) ~> (reply[c] # None)
=============================================================================
