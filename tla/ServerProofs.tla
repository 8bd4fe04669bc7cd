---------------------------- MODULE ServerProofs ----------------------------
(***************************************************************************)
(* Proofs about Server, for any number of executors and connections and    *)
(* any requests: the types, that a strand runs one handler at a time, that *)
(* the accept loop neither dies nor doubles, that a Session lives exactly  *)
(* as long as something refers to it, that run() returns to silence, and   *)
(* that the server keeps the promises of Exchange.                         *)
(***************************************************************************)
EXTENDS Server, RoutingProofs

Runs(e) == doing[e] # None

\* A strand is busy exactly while one handler of it, and only one, is queued or
\* running; it keeps handlers back only then.
StrandsHeld ==
    /\ \A i, j \in DOMAIN ready : ready[i].strand = ready[j].strand => i = j
    /\ \A i \in DOMAIN ready, e \in Executors : Runs(e) => doing[e].strand # ready[i].strand
    /\ StrandSerial
    /\ \A i \in DOMAIN ready : ready[i].strand \in busy
    /\ \A e \in Executors : Runs(e) => doing[e].strand \in busy
    /\ \A s \in busy : \/ \E i \in DOMAIN ready : ready[i].strand = s
                       \/ \E e \in Executors : Runs(e) /\ doing[e].strand = s
    /\ \A s \in Strands : waiting[s] # <<>> => s \in busy /\ waiting[s][1].strand = s

\* Where an executor is fits the handler it runs.
StagesFit ==
    \A e \in Executors :
        /\ Runs(e) <=> at[e] \notin {"unborn", "run", "done"}
        /\ at[e] = "rearm" => doing[e].op = "accept"
        /\ at[e] \in {"hash", "save", "send"} => doing[e].op = "read"
        /\ at[e] = "promise" => doing[e].op = "signal"

\* No handler will go on with the accept loop.
NotQueued == \A i \in DOMAIN ready : ready[i].strand # "acceptor"
NotRearming == \A e \in Executors : at[e] # "rearm"

\* The one that goes on with the accept loop.
LoopHeld ==
    main # "returned" =>
        \/ accepting = 1 /\ NotQueued /\ waiting["acceptor"] = <<>> /\ NotRearming
        \/ accepting = 0 /\ ~NotQueued /\ waiting["acceptor"] = <<>> /\ NotRearming
        \/ accepting = 0 /\ NotQueued /\ waiting["acceptor"] # <<>> /\ NotRearming
        \/ accepting = 0 /\ NotQueued /\ waiting["acceptor"] = <<>> /\ ~NotRearming

\* A handler of async_accept that has not run brings a new connection or none.
IsNew(h) == h.op = "accept" /\ h.result # Failed => session[h.result] = "none"

AcceptedAreNew ==
    /\ \A i \in DOMAIN ready : IsNew(ready[i])
    /\ waiting["acceptor"] # <<>> => IsNew(waiting["acceptor"][1])

\* The stage of a Session against the handlers of its strand.
SessionsHeld ==
    /\ \A c \in Connections :
          /\ session[c] \in {"none", "reading", "closed"} => c \notin busy
          /\ session[c] \in {"read", "written"} => c \in busy
          /\ waiting[c] # <<>> => session[c] = "written" /\ waiting[c][1].op = "write"
    /\ \A i \in DOMAIN ready :
          /\ ready[i].op = "read" => session[ready[i].strand] = "read"
          /\ ready[i].op = "write" => session[ready[i].strand] = "written"
    /\ \A e \in Executors :
          at[e] \in {"hash", "save", "send"} => session[doing[e].strand] = "read"

Untouched(c) == request[c] = None /\ reply[c] = None /\ c \notin saved

\* Executor e has a request to reply to.
Serves(e) == at[e] \in {"hash", "save", "send"}

\* What has become of the request of a connection.
RequestsHeld ==
    /\ \A c \in Connections : session[c] \in {"none", "reading"} => Untouched(c)
    /\ \A i \in DOMAIN ready : ready[i].op = "read" => Untouched(ready[i].strand)
    /\ \A e \in Executors :
          LET c == doing[e].strand IN
          Serves(e) =>
              /\ request[c] = doing[e].result /\ request[c] \in Requests
              /\ reply[c] = None
              /\ at[e] \in {"hash", "save"} =>
                    NeedsHash(FromBeast(request[c])) /\ c \notin saved
              /\ at[e] = "send" =>
                    /\ response[c] # None
                    /\ response[c] \in Promised!Answers(request[c], c \in saved)
    /\ \A c \in Connections :
          request[c] # None /\ reply[c] = None =>
              \E e \in Executors : Serves(e) /\ doing[e].strand = c

\* One signal is handled.
SignalsHeld ==
    /\ signal = "awaited" => "signals" \notin busy
    /\ waiting["signals"] = <<>>

\* run() has returned.
EndIsQuiet ==
    main = "returned" =>
        /\ AllLeft
        /\ accepting = 0 /\ ready = <<>> /\ busy = {}
        /\ \A s \in Strands : waiting[s] = <<>>
        /\ \A c \in Connections : session[c] \in {"none", "closed"}

IInv ==
    /\ TypeOK
    /\ StrandsHeld
    /\ StagesFit
    /\ LoopHeld
    /\ AcceptedAreNew
    /\ SessionsHeld
    /\ RequestsHeld
    /\ SignalsHeld
    /\ EndIsQuiet

-----------------------------------------------------------------------------
(* Handlers and the queue.                                                 *)

\* A handler shows its kind by its strand as by its operation.
LEMMA HandlerKinds ==
    ASSUME NEW h \in Handlers
    PROVE  /\ h # None
           /\ h.strand \in Strands
           /\ h.op \in {"accept", "read", "write", "signal"}
           /\ h.op = "accept" <=> h.strand = "acceptor"
           /\ h.op = "signal" <=> h.strand = "signals"
           /\ h.op \in {"read", "write"} <=> h.strand \in Connections
           /\ h.op = "accept" => h.result \in Connections \cup {Failed}
           /\ h.op = "read" => h.result \in Requests \cup {Failed, WrongVersion}
  BY NoneAssumption, ConnectionsAssumption
  DEF Handlers, AcceptHandlers, ReadHandlers, WriteHandlers, SignalHandlers, Strands

\* What the completions may post.
LEMMA PostedHandlers ==
    /\ \A r \in Connections \cup {Failed} :
          [strand |-> "acceptor", op |-> "accept", result |-> r] \in Handlers
    /\ \A c \in Connections :
          /\ \A r \in Sends[c] \cup {Failed, WrongVersion} :
                [strand |-> c, op |-> "read", result |-> r] \in Handlers
          /\ [strand |-> c, op |-> "write", result |-> None] \in Handlers
    /\ [strand |-> "signals", op |-> "signal", result |-> None] \in Handlers
  BY DEF Handlers, AcceptHandlers, ReadHandlers, WriteHandlers, SignalHandlers, Requests

\* A queue with one handler more at its end.
LEMMA Queued ==
    ASSUME NEW q \in Seq(Handlers), NEW h \in Handlers
    PROVE  /\ Append(q, h) \in Seq(Handlers)
           /\ \A i \in DOMAIN Append(q, h) :
                 (i \in DOMAIN q /\ Append(q, h)[i] = q[i])
                     \/ (i = Len(q) + 1 /\ i \notin DOMAIN q /\ Append(q, h)[i] = h)
           /\ \A i \in DOMAIN q : i \in DOMAIN Append(q, h) /\ Append(q, h)[i] = q[i]
           /\ \E i \in DOMAIN Append(q, h) : Append(q, h)[i] = h
           /\ Append(<<>>, h) = <<h>>
<1>1. /\ Append(q, h) \in Seq(Handlers)
      /\ Len(Append(q, h)) = Len(q) + 1
      /\ \A i \in 1..Len(q) : Append(q, h)[i] = q[i]
      /\ Append(q, h)[Len(q) + 1] = h
  BY AppendProperties
<1>2. Len(q) \in Nat /\ DOMAIN q = 1..Len(q) /\ DOMAIN Append(q, h) = 1..(Len(q) + 1)
  BY <1>1, LenProperties
<1> QED
  BY <1>1, <1>2

\* A queue without its first handler.
LEMMA Taken ==
    ASSUME NEW q \in Seq(Handlers), q # <<>>
    PROVE  /\ Head(q) \in Handlers
           /\ Tail(q) \in Seq(Handlers)
           /\ 1 \in DOMAIN q /\ Head(q) = q[1]
           /\ \A i \in DOMAIN Tail(q) : i + 1 \in DOMAIN q /\ i + 1 # 1 /\ Tail(q)[i] = q[i + 1]
           /\ \A i \in DOMAIN q : i # 1 => i - 1 \in DOMAIN Tail(q) /\ Tail(q)[i - 1] = q[i]
           /\ \A i, j \in DOMAIN Tail(q) : i + 1 = j + 1 => i = j
<1>1. /\ Head(q) \in Handlers
      /\ Tail(q) \in Seq(Handlers)
      /\ Len(Tail(q)) = Len(q) - 1
      /\ \A i \in 1..Len(Tail(q)) : Tail(q)[i] = q[i + 1]
  BY HeadTailProperties
<1>2. Len(q) \in Nat \ {0} /\ DOMAIN q = 1..Len(q) /\ DOMAIN Tail(q) = 1..(Len(q) - 1)
  BY <1>1, LenProperties, EmptySeq
<1> QED
  BY <1>1, <1>2

\* The elements of a queue and what a strand keeps back are handlers.
LEMMA TypesOfHandlers ==
    ASSUME TypeOK
    PROVE  /\ \A i \in DOMAIN ready : ready[i] \in Handlers
           /\ \A e \in Executors : Runs(e) => doing[e] \in Handlers
           /\ \A s \in Strands : waiting[s] # <<>> =>
                 waiting[s][1] \in Handlers /\ waiting[s] = <<waiting[s][1]>>
                 /\ Head(waiting[s]) = waiting[s][1] /\ Tail(waiting[s]) = <<>>
<1>1. \A i \in DOMAIN ready : ready[i] \in Handlers
  BY ElementOfSeq, LenProperties DEF TypeOK
<1>2. \A e \in Executors : Runs(e) => doing[e] \in Handlers
  BY DEF TypeOK, Runs
<1>3. ASSUME NEW s \in Strands, waiting[s] # <<>>
      PROVE  waiting[s][1] \in Handlers /\ waiting[s] = <<waiting[s][1]>>
             /\ Head(waiting[s]) = waiting[s][1] /\ Tail(waiting[s]) = <<>>
  <2>1. PICK h \in Handlers : waiting[s] = <<h>>
    BY <1>3 DEF TypeOK
  <2>2. Head(<<h>>) = h /\ Tail(<<h>>) = <<>> /\ <<h>>[1] = h
    OBVIOUS
  <2> QED
    BY <2>1, <2>2
<1> QED
  BY <1>1, <1>2, <1>3

\* An operation of a strand that keeps nothing back completes.
LEMMA PostHolds ==
    ASSUME TypeOK, StrandsHeld, NEW h \in Handlers, Post(h), UNCHANGED doing,
           waiting[h.strand] = <<>>
    PROVE  /\ StrandsHeld'
           /\ ready' \in Seq(Handlers)
           /\ busy' \subseteq Strands
           /\ waiting' \in [Strands -> {<<>>} \cup {<<g>> : g \in Handlers}]
           /\ \A i \in DOMAIN ready' :
                 (i \in DOMAIN ready /\ ready'[i] = ready[i])
                     \/ (h.strand \notin busy /\ ready'[i] = h)
           /\ \A i \in DOMAIN ready : i \in DOMAIN ready' /\ ready'[i] = ready[i]
           /\ h.strand \in busy =>
                 ready' = ready /\ waiting' = [waiting EXCEPT ![h.strand] = <<h>>]
           /\ h.strand \notin busy =>
                 waiting' = waiting /\ \E i \in DOMAIN ready' : ready'[i] = h
           /\ busy' = busy \cup {h.strand}
<1>1. h.strand \in Strands
  BY HandlerKinds
<1>2. CASE h.strand \notin busy
  <2>1. ready' = Append(ready, h) /\ busy' = busy \cup {h.strand} /\ waiting' = waiting
    BY <1>2 DEF Post
  <2>2. /\ ready' \in Seq(Handlers)
        /\ \A i \in DOMAIN ready' :
              (i \in DOMAIN ready /\ ready'[i] = ready[i])
                  \/ (i = Len(ready) + 1 /\ i \notin DOMAIN ready /\ ready'[i] = h)
        /\ \A i \in DOMAIN ready : i \in DOMAIN ready' /\ ready'[i] = ready[i]
        /\ \E i \in DOMAIN ready' : ready'[i] = h
    BY <2>1, Queued DEF TypeOK
  <2>3. StrandsHeld'
    BY <1>1, <1>2, <2>1, <2>2 DEF StrandsHeld, StrandSerial, Runs
  <2> QED
    BY <1>1, <1>2, <2>1, <2>2, <2>3 DEF TypeOK
<1>3. CASE h.strand \in busy
  <2>1. waiting' = [waiting EXCEPT ![h.strand] = <<h>>] /\ UNCHANGED <<ready, busy>>
    BY <1>1, <1>3, Queued DEF Post, TypeOK
  <2>2. waiting' \in [Strands -> {<<>>} \cup {<<g>> : g \in Handlers}]
    BY <1>1, <2>1 DEF TypeOK
  <2>3. <<h>>[1] = h /\ <<h>> # <<>>
    OBVIOUS
  <2>4. \A s \in Strands : waiting'[s] = IF s = h.strand THEN <<h>> ELSE waiting[s]
    BY <2>1 DEF TypeOK
  <2>5. StrandsHeld'
    BY <1>1, <1>3, <2>1, <2>3, <2>4 DEF StrandsHeld, StrandSerial, Runs
  <2> QED
    BY <1>3, <2>1, <2>2, <2>5 DEF TypeOK
<1> QED
  BY <1>2, <1>3

\* Executor e starts the handler that is first in the queue.
LEMMA BeginsHolds ==
    ASSUME TypeOK, StrandsHeld, NEW e \in Executors, NEW op, Begins(e, op),
           StagesFit
    PROVE  /\ StrandsHeld'
           /\ Head(ready) \in Handlers /\ Head(ready).op = op
           /\ 1 \in DOMAIN ready /\ Head(ready) = ready[1]
           /\ ~Runs(e) /\ doing' = [doing EXCEPT ![e] = Head(ready)]
           /\ doing' \in [Executors -> Handlers \cup {None}]
           /\ ready' \in Seq(Handlers)
           /\ busy' = busy /\ waiting' = waiting
           /\ \A i \in DOMAIN ready' :
                 /\ ready'[i].strand # Head(ready).strand
                 /\ \E j \in DOMAIN ready : j # 1 /\ ready'[i] = ready[j]
           /\ \A j \in DOMAIN ready :
                 j # 1 => \E i \in DOMAIN ready' : ready'[i] = ready[j]
           /\ \A f \in Executors \ {e} : Runs(f) => doing[f].strand # Head(ready).strand
<1>1. /\ ready \in Seq(Handlers) /\ ready # <<>>
      /\ ready' = Tail(ready) /\ Head(ready).op = op
      /\ doing' = [doing EXCEPT ![e] = Head(ready)] /\ busy' = busy /\ waiting' = waiting
  BY DEF TypeOK, Begins
<1>2. ~Runs(e)
  BY DEF StagesFit, Begins
<1>3. /\ Head(ready) \in Handlers /\ Head(ready) # None
      /\ ready' \in Seq(Handlers)
      /\ 1 \in DOMAIN ready /\ Head(ready) = ready[1]
      /\ \A i \in DOMAIN ready' : i + 1 \in DOMAIN ready /\ i + 1 # 1 /\ ready'[i] = ready[i + 1]
      /\ \A i \in DOMAIN ready : i # 1 => i - 1 \in DOMAIN ready' /\ ready'[i - 1] = ready[i]
      /\ \A i, j \in DOMAIN ready' : i + 1 = j + 1 => i = j
  BY <1>1, Taken, HandlerKinds
<1>4. \A i \in DOMAIN ready' :
         /\ ready'[i].strand # Head(ready).strand
         /\ \E j \in DOMAIN ready : j # 1 /\ ready'[i] = ready[j]
  BY <1>3 DEF StrandsHeld
<1>5. \A f \in Executors : Runs(f) => doing[f].strand # Head(ready).strand
  BY <1>3 DEF StrandsHeld
<1>6. /\ \A f \in Executors : doing'[f] = IF f = e THEN Head(ready) ELSE doing[f]
      /\ doing' \in [Executors -> Handlers \cup {None}]
  BY <1>1, <1>3 DEF TypeOK
<1>7. StrandsHeld'
  <2>1. \A i, j \in DOMAIN ready' : ready'[i].strand = ready'[j].strand => i = j
    BY <1>3 DEF StrandsHeld
  <2>2. \A i \in DOMAIN ready', f \in Executors :
           doing'[f] # None => doing'[f].strand # ready'[i].strand
    <3> SUFFICES ASSUME NEW i \in DOMAIN ready', NEW f \in Executors, doing'[f] # None
                 PROVE  doing'[f].strand # ready'[i].strand
      OBVIOUS
    <3>1. CASE f = e
      BY <1>4, <1>6, <3>1
    <3>2. CASE f # e
      BY <1>3, <1>6, <3>2 DEF StrandsHeld, Runs
    <3> QED
      BY <3>1, <3>2
  <2>3. StrandSerial'
    BY <1>5, <1>6 DEF StrandsHeld, StrandSerial, Runs
  <2>4. \A i \in DOMAIN ready' : ready'[i].strand \in busy'
    BY <1>1, <1>3 DEF StrandsHeld
  <2>5. \A f \in Executors : doing'[f] # None => doing'[f].strand \in busy'
    BY <1>1, <1>3, <1>6 DEF StrandsHeld, Runs
  <2>6. ASSUME NEW s \in busy'
        PROVE  \/ \E i \in DOMAIN ready' : ready'[i].strand = s
               \/ \E f \in Executors : doing'[f] # None /\ doing'[f].strand = s
    <3>1. CASE s = Head(ready).strand
      BY <1>3, <1>6, <3>1
    <3>2. CASE \E j \in DOMAIN ready : j # 1 /\ ready[j].strand = s
      BY <1>3, <3>2
    <3>3. CASE \E f \in Executors : Runs(f) /\ doing[f].strand = s
      BY <1>2, <1>6, <3>3 DEF Runs
    <3> QED
      BY <1>1, <1>3, <2>6, <3>1, <3>2, <3>3 DEF StrandsHeld
  <2> QED
    BY <1>1, <2>1, <2>2, <2>3, <2>4, <2>5, <2>6 DEF StrandsHeld, Runs
<1> QED
  BY <1>1, <1>2, <1>3, <1>4, <1>5, <1>6, <1>7

\* The handler of executor e ends.
LEMMA ReturnHolds ==
    ASSUME TypeOK, StrandsHeld, NEW e \in Executors, Return(e), StagesFit
    PROVE  /\ StrandsHeld'
           /\ Runs(e) /\ doing[e] \in Handlers /\ doing[e].strand \in Strands
           /\ doing' = [doing EXCEPT ![e] = None]
           /\ doing' \in [Executors -> Handlers \cup {None}]
           /\ ready' \in Seq(Handlers)
           /\ busy' \subseteq busy
           /\ waiting' \in [Strands -> {<<>>} \cup {<<g>> : g \in Handlers}]
           /\ waiting' = [waiting EXCEPT ![doing[e].strand] = <<>>]
           /\ waiting[doing[e].strand] = <<>> => ready' = ready /\ busy' = busy \ {doing[e].strand}
           /\ waiting[doing[e].strand] # <<>> =>
                 /\ \E i \in DOMAIN ready' : ready'[i] = waiting[doing[e].strand][1]
                 /\ busy' = busy
           /\ \A i \in DOMAIN ready : i \in DOMAIN ready' /\ ready'[i] = ready[i]
           /\ \A i \in DOMAIN ready' :
                 \/ i \in DOMAIN ready /\ ready'[i] = ready[i]
                 \/ /\ waiting[doing[e].strand] # <<>>
                    /\ ready'[i] = waiting[doing[e].strand][1]
           /\ \A i \in DOMAIN ready : ready[i].strand # doing[e].strand
           /\ \A f \in Executors : f # e /\ Runs(f) => doing[f].strand # doing[e].strand
<1> DEFINE s == doing[e].strand
           h == waiting[s][1]
<1>1. Runs(e)
  BY DEF StagesFit, Return, Goes
<1>2. doing[e] \in Handlers /\ s \in Strands /\ s \in busy
  BY <1>1, TypesOfHandlers, HandlerKinds DEF StrandsHeld
<1>3. doing' = [doing EXCEPT ![e] = None]
  BY DEF Return
<1>4. /\ \A f \in Executors : doing'[f] = IF f = e THEN None ELSE doing[f]
      /\ doing' \in [Executors -> Handlers \cup {None}]
  BY <1>3 DEF TypeOK
<1>5. /\ \A i \in DOMAIN ready : ready[i].strand # s
      /\ \A f \in Executors : f # e /\ Runs(f) => doing[f].strand # s
  BY <1>1 DEF StrandsHeld, StrandSerial, Runs
<1>6. CASE waiting[s] = <<>>
  <2>1. ready' = ready /\ waiting' = waiting /\ busy' = busy \ {s}
    BY <1>6 DEF Return
  <2>2. waiting' = [waiting EXCEPT ![s] = <<>>]
    BY <1>6, <2>1 DEF TypeOK
  <2>3. StrandsHeld'
    BY <1>1, <1>2, <1>4, <1>5, <1>6, <2>1 DEF StrandsHeld, StrandSerial, Runs
  <2> QED
    BY <1>1, <1>2, <1>3, <1>4, <1>5, <1>6, <2>1, <2>2, <2>3 DEF TypeOK
<1>7. CASE waiting[s] # <<>>
  <2>1. h \in Handlers /\ Head(waiting[s]) = h /\ Tail(waiting[s]) = <<>> /\ h.strand = s
    BY <1>2, <1>7, TypesOfHandlers DEF StrandsHeld
  <2>2. /\ ready' = Append(ready, h) /\ busy' = busy
        /\ waiting' = [waiting EXCEPT ![s] = <<>>]
    BY <1>7, <2>1 DEF Return
  <2>3. /\ ready' \in Seq(Handlers)
        /\ \A i \in DOMAIN ready' :
              (i \in DOMAIN ready /\ ready'[i] = ready[i])
                  \/ (i = Len(ready) + 1 /\ i \notin DOMAIN ready /\ ready'[i] = h)
        /\ \A i \in DOMAIN ready : i \in DOMAIN ready' /\ ready'[i] = ready[i]
        /\ \E i \in DOMAIN ready' : ready'[i] = h
    BY <2>1, <2>2, Queued DEF TypeOK
  <2>4. /\ \A t \in Strands : waiting'[t] = IF t = s THEN <<>> ELSE waiting[t]
        /\ waiting' \in [Strands -> {<<>>} \cup {<<g>> : g \in Handlers}]
    BY <1>2, <2>2 DEF TypeOK
  <2>5. StrandsHeld'
    <3>1. \A i, j \in DOMAIN ready' : ready'[i].strand = ready'[j].strand => i = j
      BY <1>5, <2>1, <2>3 DEF StrandsHeld
    <3>2. \A i \in DOMAIN ready', f \in Executors :
             doing'[f] # None => doing'[f].strand # ready'[i].strand
      BY <1>4, <1>5, <2>1, <2>3 DEF StrandsHeld, Runs
    <3>3. StrandSerial'
      BY <1>4 DEF StrandsHeld, StrandSerial
    <3>4. \A i \in DOMAIN ready' : ready'[i].strand \in busy'
      BY <1>2, <2>1, <2>2, <2>3 DEF StrandsHeld
    <3>5. \A f \in Executors : doing'[f] # None => doing'[f].strand \in busy'
      BY <1>4, <2>2 DEF StrandsHeld, Runs
    <3>6. ASSUME NEW t \in busy'
          PROVE  \/ \E i \in DOMAIN ready' : ready'[i].strand = t
                 \/ \E f \in Executors : doing'[f] # None /\ doing'[f].strand = t
      <4>1. CASE t = s
        BY <2>1, <2>3, <4>1
      <4>2. CASE t # s
        BY <1>4, <2>2, <2>3, <3>6, <4>2 DEF StrandsHeld, Runs
      <4> QED
        BY <4>1, <4>2
    <3>7. \A t \in Strands : waiting'[t] # <<>> => t \in busy' /\ waiting'[t][1].strand = t
      BY <2>2, <2>4 DEF StrandsHeld
    <3> QED
      BY <3>1, <3>2, <3>3, <3>4, <3>5, <3>6, <3>7 DEF StrandsHeld, Runs
  <2> QED
    BY <1>1, <1>2, <1>3, <1>4, <1>5, <1>7, <2>2, <2>3, <2>4, <2>5
<1> QED
  BY <1>6, <1>7

-----------------------------------------------------------------------------
(* What the controllers answer.                                            *)

\* The answers of the controllers are those that the client was promised for
\* its request (registration_controller.cpp and the other controllers).
LEMMA AnswersFit ==
    ASSUME NEW r \in Requests
    PROVE  /\ NeedsHash(FromBeast(r)) <=> Promised!MaySave(r)
           /\ NeedsHash(FromBeast(r)) =>
                 500 \in Promised!Answers(r, FALSE) /\ 201 \in Promised!Answers(r, TRUE)
           /\ ~NeedsHash(FromBeast(r)) =>
                 (IF ControllerOf(FromBeast(r)) = "registration" THEN InputError(r.body)
                  ELSE StatelessStatus(ControllerOf(FromBeast(r))))
                     \in Promised!Answers(r, FALSE)
           /\ Promised!Answers(r, FALSE) \subseteq Statuses
<1> DEFINE q == FromBeast(r)
<1>1. r \in BeastRequests /\ r.body \in {"malformed", "incomplete", "complete"}
  BY RequestsAssumption DEF BeastRequests, Bodies
<1>2. q.body = r.body
  BY DEF FromBeast
<1>3. /\ ControllerOf(q) = "registration" <=> Promised!IsRegistration(r)
      /\ ControllerOf(q) \in {"root", "status"} <=> Promised!IsPage(r)
      /\ ControllerOf(q) \in {"deregistration", "login", "logout"} <=> Promised!IsAnnounced(r)
      /\ ControllerOf(q) \in
            {"root", "status", "registration", "deregistration", "login", "logout", "void"}
  <2>1. \A verb, path : AsksFor(r, verb, path) = Promised!Asks(r, verb, path)
    BY DEF AsksFor, Promised!Asks
  <2> HIDE DEF q
  <2> QED
    BY <1>1, <2>1, RoutedRight
    DEF q, Promised!IsRegistration, Promised!IsPage, Promised!IsAnnounced
<1>4. NeedsHash(q) <=> Promised!MaySave(r)
  BY <1>2, <1>3 DEF NeedsHash, HasCredentials, Promised!MaySave
<1>5. ASSUME Promised!MaySave(r)
      PROVE  Promised!Answers(r, TRUE) = {201} /\ Promised!Answers(r, FALSE) = {500}
  <2>1. /\ Promised!IsRegistration(r) /\ r.body = "complete"
        /\ ~Promised!IsPage(r) /\ ~Promised!IsAnnounced(r)
    BY <1>3, <1>5 DEF Promised!MaySave
  <2>2. Promised!Answers(r, TRUE) = {201}
    BY <1>5, <2>1 DEF Promised!Answers
  <2>3. Promised!Answers(r, FALSE) = {500}
    BY <1>5, <2>1 DEF Promised!Answers
  <2> QED
    BY <2>2, <2>3
<1>6. ASSUME ~Promised!MaySave(r)
      PROVE  /\ Promised!Answers(r, FALSE) \subseteq Statuses
             /\ (IF ControllerOf(q) = "registration" THEN InputError(r.body)
                 ELSE StatelessStatus(ControllerOf(q))) \in Promised!Answers(r, FALSE)
  <2>1. CASE Promised!IsRegistration(r)
    BY <1>1, <1>3, <1>6, <2>1
    DEF Promised!Answers, Promised!MaySave, InputError, IsObject, Statuses
  <2>2. CASE ~Promised!IsRegistration(r)
    <3>1. CASE Promised!IsPage(r)
      BY <1>3, <1>6, <2>2, <3>1
      DEF Promised!Answers, StatelessStatus, RootController, StatusController, Statuses
    <3>2. CASE ~Promised!IsPage(r) /\ Promised!IsAnnounced(r)
      BY <1>3, <1>6, <2>2, <3>2
      DEF Promised!Answers, StatelessStatus, IdentityController, Statuses
    <3>3. CASE ~Promised!IsPage(r) /\ ~Promised!IsAnnounced(r)
      BY <1>3, <1>6, <2>2, <3>3
      DEF Promised!Answers, StatelessStatus, VoidController, Statuses
    <3> QED
      BY <3>1, <3>2, <3>3
  <2> QED
    BY <2>1, <2>2
<1>7. 500 \in Statuses
  BY DEF Statuses
<1>8. Promised!Answers(r, FALSE) \subseteq Statuses
  <2>1. CASE Promised!MaySave(r)
    <3>1. Promised!Answers(r, FALSE) = {500}
      BY <1>5, <2>1
    <3> QED
      BY <1>7, <3>1
  <2>2. CASE ~Promised!MaySave(r)
    BY <1>6, <2>2
  <2> QED
    BY <2>1, <2>2
<1>9. ASSUME NeedsHash(q)
      PROVE  500 \in Promised!Answers(r, FALSE) /\ 201 \in Promised!Answers(r, TRUE)
  <2>1. Promised!MaySave(r)
    BY <1>4, <1>9
  <2>2. Promised!Answers(r, TRUE) = {201} /\ Promised!Answers(r, FALSE) = {500}
    BY <1>5, <2>1
  <2> QED
    BY <2>2
<1>10. ASSUME ~NeedsHash(q)
       PROVE  (IF ControllerOf(q) = "registration" THEN InputError(r.body)
               ELSE StatelessStatus(ControllerOf(q))) \in Promised!Answers(r, FALSE)
  BY <1>4, <1>6, <1>10
<1> QED
  BY <1>4, <1>8, <1>9, <1>10

-----------------------------------------------------------------------------
(* The invariant holds at the start.                                       *)

LEMMA InitIInv == Init => IInv
<1> SUFFICES ASSUME Init PROVE IInv
  OBVIOUS
<1>1. <<>> \in Seq(Handlers) /\ DOMAIN ready = {}
  BY EmptySeq DEF Init
<1>2. TypeOK
  BY <1>1 DEF Init, TypeOK, Stages
<1>3. StrandsHeld
  BY <1>1 DEF Init, StrandsHeld, StrandSerial, Runs
<1>4. StagesFit
  BY DEF Init, StagesFit, Runs
<1>5. LoopHeld /\ AcceptedAreNew
  BY <1>1 DEF Init, LoopHeld, NotQueued, NotRearming, AcceptedAreNew, Strands
<1>6. SessionsHeld
  BY <1>1 DEF Init, SessionsHeld, Strands
<1>7. RequestsHeld
  BY <1>1 DEF Init, RequestsHeld, Untouched, Serves
<1>8. EndIsQuiet /\ SignalsHeld
  BY DEF Init, EndIsQuiet, SignalsHeld, Strands
<1> QED
  BY <1>2, <1>3, <1>4, <1>5, <1>6, <1>7, <1>8 DEF IInv

-----------------------------------------------------------------------------
(* The completions.                                                        *)

LEMMA AcceptCompletesKeeps ==
    ASSUME IInv, NEW r \in Connections \cup {Failed}, AcceptCompletes(r)
    PROVE  IInv'
<1> DEFINE h == [strand |-> "acceptor", op |-> "accept", result |-> r]
<1>1. h \in Handlers /\ h.strand = "acceptor" /\ h.op = "accept" /\ h.result = r
  BY PostedHandlers
<1>2. /\ accepting > 0 /\ accepting' = accepting - 1 /\ Post(h)
      /\ UNCHANGED <<listening, main, stopped, promise, signal, at, doing, session,
                     request, response, saved, reply>>
      /\ r # Failed => session[r] = "none"
  BY DEF AcceptCompletes, process, exchange
<1>3. accepting = 1 /\ accepting' = 0 /\ main # "returned"
  BY <1>2 DEF IInv, TypeOK, EndIsQuiet
<1>4. waiting["acceptor"] = <<>> /\ NotQueued /\ NotRearming
  BY <1>3 DEF IInv, LoopHeld
<1> HIDE DEF h
<1>5. /\ StrandsHeld'
      /\ ready' \in Seq(Handlers)
      /\ busy' \subseteq Strands
      /\ waiting' \in [Strands -> {<<>>} \cup {<<g>> : g \in Handlers}]
      /\ \A i \in DOMAIN ready' :
            (i \in DOMAIN ready /\ ready'[i] = ready[i])
                \/ ("acceptor" \notin busy /\ ready'[i] = h)
      /\ "acceptor" \in busy =>
            ready' = ready /\ waiting' = [waiting EXCEPT !["acceptor"] = <<h>>]
      /\ "acceptor" \notin busy =>
            waiting' = waiting /\ \E i \in DOMAIN ready' : ready'[i] = h
      /\ busy' = busy \cup {"acceptor"}
  BY <1>1, <1>2, <1>4, PostHolds DEF IInv
<1>6. \A c \in Connections : c \in Strands /\ c # "acceptor"
  BY ConnectionsAssumption DEF Strands
<1>7. \A s \in Strands \ {"acceptor"} : waiting'[s] = waiting[s]
  BY <1>5 DEF IInv, TypeOK
<1>8. "acceptor" \in busy => waiting'["acceptor"] = <<h>> /\ <<h>> # <<>> /\ <<h>>[1] = h
  BY <1>5 DEF IInv, TypeOK, Strands
<1>9. TypeOK'
  BY <1>2, <1>3, <1>5 DEF IInv, TypeOK
<1>10. StagesFit'
  BY <1>2 DEF IInv, StagesFit, Runs
<1>11. LoopHeld'
  BY <1>1, <1>2, <1>3, <1>4, <1>5, <1>8 DEF LoopHeld, NotQueued, NotRearming
<1>12. AcceptedAreNew'
  BY <1>1, <1>2, <1>4, <1>5, <1>8 DEF IInv, AcceptedAreNew, IsNew
<1>13. SessionsHeld'
  BY <1>1, <1>2, <1>5, <1>6, <1>7 DEF IInv, SessionsHeld
<1>14. RequestsHeld'
  BY <1>1, <1>2, <1>5 DEF IInv, RequestsHeld, Untouched, Serves
<1>15. EndIsQuiet' /\ SignalsHeld'
  BY <1>2, <1>3, <1>5, <1>7 DEF IInv, EndIsQuiet, SignalsHeld, Strands
<1> QED
  BY <1>5, <1>9, <1>10, <1>11, <1>12, <1>13, <1>14, <1>15 DEF IInv

\* The kinds of the handlers that are queued or running.
LEMMA KindsQueued ==
    ASSUME IInv
    PROVE  /\ \A i \in DOMAIN ready :
                 /\ ready[i] \in Handlers
                 /\ ready[i].op \in {"accept", "read", "write", "signal"}
                 /\ ready[i].op = "accept" <=> ready[i].strand = "acceptor"
                 /\ ready[i].op = "signal" <=> ready[i].strand = "signals"
                 /\ ready[i].op \in {"read", "write"} <=> ready[i].strand \in Connections
                 /\ ready[i].op = "accept" => ready[i].result \in Connections \cup {Failed}
                 /\ ready[i].op = "read" =>
                       ready[i].result \in Requests \cup {Failed, WrongVersion}
           /\ \A e \in Executors : Runs(e) =>
                 /\ doing[e].op \in {"accept", "read", "write", "signal"}
                 /\ doing[e].op = "accept" <=> doing[e].strand = "acceptor"
                 /\ doing[e].op = "signal" <=> doing[e].strand = "signals"
                 /\ doing[e].op \in {"read", "write"} <=> doing[e].strand \in Connections
           /\ \A e \in Executors : Serves(e) => Runs(e) /\ doing[e].strand \in Connections
<1>1. /\ \A i \in DOMAIN ready : ready[i] \in Handlers
      /\ \A e \in Executors : Runs(e) => doing[e] \in Handlers
  BY TypesOfHandlers DEF IInv
<1>2. \A e \in Executors : Serves(e) => Runs(e) /\ doing[e].op = "read"
  BY DEF IInv, StagesFit, Serves
<1> QED
  BY <1>1, <1>2, HandlerKinds

LEMMA ReadCompletesKeeps ==
    ASSUME IInv, NEW c \in Connections, NEW r \in Sends[c] \cup {Failed, WrongVersion},
           ReadCompletes(c, r)
    PROVE  IInv'
<1> DEFINE h == [strand |-> c, op |-> "read", result |-> r]
<1>1. h \in Handlers /\ h.strand = c /\ h.op = "read" /\ h.result = r
  BY PostedHandlers
<1>2. /\ Post(h) /\ session[c] = "reading"
      /\ session' = [session EXCEPT ![c] = "read"]
      /\ UNCHANGED <<listening, main, stopped, promise, signal, at, doing, accepting,
                     request, response, saved, reply>>
  BY DEF ReadCompletes, process, exchange
<1>3. main # "returned" /\ c \notin busy /\ Untouched(c)
  BY <1>2 DEF IInv, EndIsQuiet, SessionsHeld, RequestsHeld
<1>4. c \in Strands /\ c # "acceptor" /\ waiting[c] = <<>>
  BY <1>3, ConnectionsAssumption DEF Strands, IInv, StrandsHeld
<1> HIDE DEF h
<1>5. /\ StrandsHeld'
      /\ ready' \in Seq(Handlers)
      /\ busy' \subseteq Strands
      /\ waiting' = waiting
      /\ \A i \in DOMAIN ready' : (i \in DOMAIN ready /\ ready'[i] = ready[i]) \/ ready'[i] = h
      /\ \A i \in DOMAIN ready : i \in DOMAIN ready' /\ ready'[i] = ready[i]
      /\ busy' = busy \cup {c}
  BY <1>1, <1>2, <1>3, <1>4, PostHolds DEF IInv
<1>6. \A d \in Connections : session'[d] = IF d = c THEN "read" ELSE session[d]
  BY <1>2 DEF IInv, TypeOK
<1>7. \A i \in DOMAIN ready : ready[i].strand # c
  BY <1>3 DEF IInv, StrandsHeld
<1>8. \A e \in Executors : Runs(e) => doing[e].strand # c
  BY <1>3 DEF IInv, StrandsHeld
<1>9. TypeOK'
  BY <1>2, <1>5 DEF IInv, TypeOK
<1>10. StagesFit'
  BY <1>2 DEF IInv, StagesFit, Runs
<1>11. LoopHeld'
  BY <1>1, <1>2, <1>4, <1>5 DEF IInv, LoopHeld, NotQueued, NotRearming
<1>12. AcceptedAreNew'
  BY <1>1, <1>2, <1>5, <1>6, KindsQueued DEF IInv, AcceptedAreNew, IsNew
<1>13. SessionsHeld'
  BY <1>1, <1>2, <1>3, <1>4, <1>5, <1>6, <1>7, <1>8, KindsQueued
  DEF IInv, SessionsHeld, StagesFit
<1>14. RequestsHeld'
  BY <1>1, <1>2, <1>3, <1>5, <1>6 DEF IInv, RequestsHeld, Untouched, Serves
<1>15. EndIsQuiet' /\ SignalsHeld'
  BY <1>2, <1>3, <1>5, ConnectionsAssumption DEF IInv, EndIsQuiet, SignalsHeld
<1> QED
  BY <1>5, <1>9, <1>10, <1>11, <1>12, <1>13, <1>14, <1>15 DEF IInv

LEMMA WriteCompletesKeeps ==
    ASSUME IInv, NEW c \in Connections, WriteCompletes(c)
    PROVE  IInv'
<1> DEFINE h == [strand |-> c, op |-> "write", result |-> None]
<1>1. h \in Handlers /\ h.strand = c /\ h.op = "write"
  BY PostedHandlers
<1>2. /\ Post(h) /\ session[c] = "writing"
      /\ session' = [session EXCEPT ![c] = "written"]
      /\ UNCHANGED <<listening, main, stopped, promise, signal, at, doing, accepting,
                     request, response, saved, reply>>
  BY DEF WriteCompletes, process, exchange
<1>3. main # "returned" /\ waiting[c] = <<>>
  BY <1>2 DEF IInv, EndIsQuiet, SessionsHeld
<1>4. c \in Strands /\ c # "acceptor"
  BY ConnectionsAssumption DEF Strands
<1> HIDE DEF h
<1>5. /\ StrandsHeld'
      /\ ready' \in Seq(Handlers)
      /\ busy' \subseteq Strands
      /\ waiting' \in [Strands -> {<<>>} \cup {<<g>> : g \in Handlers}]
      /\ \A i \in DOMAIN ready' : (i \in DOMAIN ready /\ ready'[i] = ready[i]) \/ ready'[i] = h
      /\ \A i \in DOMAIN ready : i \in DOMAIN ready' /\ ready'[i] = ready[i]
      /\ c \in busy => waiting' = [waiting EXCEPT ![c] = <<h>>]
      /\ c \notin busy => waiting' = waiting
      /\ busy' = busy \cup {c}
  BY <1>1, <1>2, <1>3, <1>4, PostHolds DEF IInv
<1>6. \A d \in Connections : session'[d] = IF d = c THEN "written" ELSE session[d]
  BY <1>2 DEF IInv, TypeOK
<1>7. \A s \in Strands \ {c} : waiting'[s] = waiting[s]
  BY <1>5 DEF IInv, TypeOK
<1>8. waiting'[c] = <<>> \/ (waiting'[c] = <<h>> /\ <<h>>[1] = h)
  BY <1>3, <1>4, <1>5 DEF IInv, TypeOK
<1>9. /\ \A i \in DOMAIN ready : ready[i].op \in {"read", "write"} => ready[i].strand # c
      /\ \A e \in Executors : Serves(e) => doing[e].strand # c
  BY <1>2 DEF IInv, SessionsHeld, Serves
<1>10. TypeOK'
  BY <1>2, <1>5 DEF IInv, TypeOK
<1>11. StagesFit'
  BY <1>2 DEF IInv, StagesFit, Runs
<1>12. "acceptor" \in Strands
  BY DEF Strands
<1>13. LoopHeld'
  BY <1>1, <1>2, <1>4, <1>5, <1>7, <1>12 DEF IInv, LoopHeld, NotQueued, NotRearming
<1>14. AcceptedAreNew'
  BY <1>1, <1>2, <1>4, <1>5, <1>6, <1>7, <1>12, KindsQueued DEF IInv, AcceptedAreNew, IsNew
<1>15. SessionsHeld'
  <2>1. \A d \in Connections : d \in Strands
    BY DEF Strands
  <2>2. \A d \in Connections :
          /\ session'[d] \in {"none", "reading", "closed"} => d \notin busy'
          /\ session'[d] \in {"read", "written"} => d \in busy'
          /\ waiting'[d] # <<>> => session'[d] = "written" /\ waiting'[d][1].op = "write"
    BY <1>1, <1>5, <1>6, <1>7, <1>8, <2>1 DEF IInv, SessionsHeld
  <2>3. \A i \in DOMAIN ready' :
          /\ ready'[i].op = "read" => session'[ready'[i].strand] = "read"
          /\ ready'[i].op = "write" => session'[ready'[i].strand] = "written"
    BY <1>1, <1>5, <1>6, <1>9, KindsQueued DEF IInv, SessionsHeld
  <2>4. \A e \in Executors :
          at'[e] \in {"hash", "save", "send"} => session'[doing'[e].strand] = "read"
    BY <1>2, <1>6, <1>9, KindsQueued DEF IInv, SessionsHeld, Serves
  <2> QED
    BY <2>2, <2>3, <2>4 DEF SessionsHeld
<1>16. RequestsHeld'
  BY <1>1, <1>2, <1>5, <1>6 DEF IInv, RequestsHeld, Untouched, Serves
<1>17. EndIsQuiet' /\ SignalsHeld'
  BY <1>2, <1>3, <1>5, <1>7, ConnectionsAssumption
  DEF IInv, EndIsQuiet, SignalsHeld, Strands
<1> QED
  BY <1>5, <1>10, <1>11, <1>13, <1>14, <1>15, <1>16, <1>17 DEF IInv

LEMMA SignalArrivesKeeps ==
    ASSUME IInv, SignalArrives
    PROVE  IInv'
<1> DEFINE h == [strand |-> "signals", op |-> "signal", result |-> None]
<1>1. h \in Handlers /\ h.strand = "signals" /\ h.op = "signal"
  BY PostedHandlers
<1>2. /\ Post(h) /\ main # "returned" /\ signal = "awaited" /\ signal' = "delivered"
      /\ UNCHANGED <<listening, main, stopped, promise, at, doing, accepting, session,
                     request, response, saved, reply>>
  BY DEF SignalArrives, exchange
<1>3. "signals" \in Strands /\ "signals" \notin busy /\ waiting["signals"] = <<>>
  BY <1>2 DEF IInv, SignalsHeld, Strands
<1> HIDE DEF h
<1>4. /\ StrandsHeld'
      /\ ready' \in Seq(Handlers)
      /\ busy' \subseteq Strands
      /\ waiting' \in [Strands -> {<<>>} \cup {<<g>> : g \in Handlers}]
      /\ \A i \in DOMAIN ready' : (i \in DOMAIN ready /\ ready'[i] = ready[i]) \/ ready'[i] = h
      /\ \A i \in DOMAIN ready : i \in DOMAIN ready' /\ ready'[i] = ready[i]
      /\ waiting' = waiting
      /\ busy' = busy \cup {"signals"}
  BY <1>1, <1>2, <1>3, PostHolds DEF IInv
<1>5. \A c \in Connections : c \in Strands /\ c # "signals"
  BY ConnectionsAssumption DEF Strands
<1>6. TypeOK'
  BY <1>2, <1>4 DEF IInv, TypeOK
<1>7. StagesFit'
  BY <1>2 DEF IInv, StagesFit, Runs
<1>8. LoopHeld'
  BY <1>1, <1>2, <1>4 DEF IInv, LoopHeld, NotQueued, NotRearming
<1>9. AcceptedAreNew'
  BY <1>1, <1>2, <1>4 DEF IInv, AcceptedAreNew, IsNew
<1>10. SessionsHeld'
  BY <1>1, <1>2, <1>4, <1>5 DEF IInv, SessionsHeld
<1>11. RequestsHeld'
  BY <1>1, <1>2, <1>4 DEF IInv, RequestsHeld, Untouched, Serves
<1>12. EndIsQuiet' /\ SignalsHeld'
  BY <1>2, <1>3, <1>4 DEF EndIsQuiet, SignalsHeld
<1> QED
  BY <1>4, <1>6, <1>7, <1>8, <1>9, <1>10, <1>11, <1>12 DEF IInv

-----------------------------------------------------------------------------
(* The executors start handlers.                                           *)

\* What holds of every handler that is started.
LEMMA Started ==
    ASSUME IInv, NEW e \in Executors, NEW op, NEW to \in Stages \ {"unborn", "run", "done"},
           Begins(e, op), Goes(e, "run", to)
    PROVE  /\ StrandsHeld'
           /\ ready' \in Seq(Handlers) /\ busy' = busy /\ waiting' = waiting
           /\ doing' \in [Executors -> Handlers \cup {None}]
           /\ at' \in [Executors -> Stages]
           /\ main # "returned"
           /\ 1 \in DOMAIN ready /\ Head(ready) = ready[1] /\ Head(ready).op = op
           /\ Head(ready) # None /\ at[e] = "run" /\ ~Runs(e)
           /\ \A f \in Executors :
                 /\ at'[f] = IF f = e THEN to ELSE at[f]
                 /\ doing'[f] = IF f = e THEN Head(ready) ELSE doing[f]
           /\ \A i \in DOMAIN ready' :
                 /\ ready'[i].strand # Head(ready).strand
                 /\ \E j \in DOMAIN ready : j # 1 /\ ready'[i] = ready[j]
           /\ \A j \in DOMAIN ready :
                 j # 1 => \E i \in DOMAIN ready' : ready'[i] = ready[j]
           /\ \A f \in Executors \ {e} : Runs(f) => doing[f].strand # Head(ready).strand
<1>1. at[e] = "run" /\ at' = [at EXCEPT ![e] = to] /\ main # "returned"
  BY DEF Goes, IInv, EndIsQuiet, AllLeft
<1>2. at' \in [Executors -> Stages] /\ \A f \in Executors : at'[f] = IF f = e THEN to ELSE at[f]
  BY <1>1 DEF IInv, TypeOK
<1>3. /\ StrandsHeld'
      /\ ready' \in Seq(Handlers) /\ busy' = busy /\ waiting' = waiting
      /\ doing' \in [Executors -> Handlers \cup {None}]
      /\ doing' = [doing EXCEPT ![e] = Head(ready)]
      /\ 1 \in DOMAIN ready /\ Head(ready) = ready[1] /\ Head(ready).op = op
      /\ Head(ready) \in Handlers /\ ~Runs(e)
      /\ \A i \in DOMAIN ready' :
            /\ ready'[i].strand # Head(ready).strand
            /\ \E j \in DOMAIN ready : j # 1 /\ ready'[i] = ready[j]
      /\ \A j \in DOMAIN ready :
            j # 1 => \E i \in DOMAIN ready' : ready'[i] = ready[j]
      /\ \A f \in Executors \ {e} : Runs(f) => doing[f].strand # Head(ready).strand
  BY BeginsHolds DEF IInv
<1>4. Head(ready) # None
  BY <1>3, HandlerKinds
<1>5. \A f \in Executors : doing'[f] = IF f = e THEN Head(ready) ELSE doing[f]
  BY <1>3 DEF IInv, TypeOK
<1> QED
  BY <1>1, <1>2, <1>3, <1>4, <1>5

LEMMA OnAcceptKeeps ==
    ASSUME IInv, NEW e \in Executors, OnAccept(e)
    PROVE  IInv'
<1> DEFINE h == Head(ready)
           r == h.result
<1>1. /\ Begins(e, "accept") /\ Goes(e, "run", "rearm")
      /\ session' = IF r = Failed THEN session ELSE [session EXCEPT ![r] = "reading"]
      /\ UNCHANGED <<listening, main, stopped, promise, signal, accepting,
                     request, response, saved, reply>>
  BY DEF OnAccept, process, exchange
<1>2. "rearm" \in Stages \ {"unborn", "run", "done"}
  BY DEF Stages
<1>3. /\ StrandsHeld'
      /\ ready' \in Seq(Handlers) /\ busy' = busy /\ waiting' = waiting
      /\ doing' \in [Executors -> Handlers \cup {None}]
      /\ at' \in [Executors -> Stages]
      /\ main # "returned"
      /\ 1 \in DOMAIN ready /\ h = ready[1] /\ h.op = "accept"
      /\ h # None /\ at[e] = "run"
      /\ \A f \in Executors :
            /\ at'[f] = IF f = e THEN "rearm" ELSE at[f]
            /\ doing'[f] = IF f = e THEN h ELSE doing[f]
      /\ \A i \in DOMAIN ready' :
            /\ ready'[i].strand # h.strand
            /\ \E j \in DOMAIN ready : j # 1 /\ ready'[i] = ready[j]
  BY <1>1, <1>2, Started
<1>4. h.strand = "acceptor" /\ r \in Connections \cup {Failed}
  BY <1>3, KindsQueued
<1> HIDE DEF h
<1>5. r # Failed => session[r] = "none" /\ r \notin busy /\ Untouched(r)
  BY <1>3, <1>4 DEF IInv, AcceptedAreNew, IsNew, SessionsHeld, RequestsHeld
<1>6. /\ accepting = 0 /\ waiting["acceptor"] = <<>>
      /\ NotRearming
  BY <1>3, <1>4 DEF IInv, LoopHeld, NotQueued
<1>7. /\ session' \in [Connections ->
             {"none", "reading", "read", "writing", "written", "closed"}]
      /\ \A c \in Connections :
            session'[c] = IF r # Failed /\ c = r THEN "reading" ELSE session[c]
  BY <1>1, <1>4 DEF IInv, TypeOK
<1>8. TypeOK'
  BY <1>1, <1>3, <1>7 DEF IInv, TypeOK
<1>9. StagesFit'
  BY <1>3 DEF IInv, StagesFit, Runs
<1>10. LoopHeld'
  BY <1>1, <1>3, <1>4, <1>6 DEF LoopHeld, NotQueued, NotRearming
<1>11. AcceptedAreNew'
  BY <1>3, <1>4, <1>6, KindsQueued DEF AcceptedAreNew, IsNew
<1>12. SessionsHeld'
  <2>1. \A c \in Connections :
          /\ session'[c] \in {"none", "reading", "closed"} => c \notin busy'
          /\ session'[c] \in {"read", "written"} => c \in busy'
          /\ waiting'[c] # <<>> => session'[c] = "written" /\ waiting'[c][1].op = "write"
    BY <1>3, <1>5, <1>7 DEF IInv, SessionsHeld
  <2>2. \A i \in DOMAIN ready' :
          /\ ready'[i].op = "read" => session'[ready'[i].strand] = "read"
          /\ ready'[i].op = "write" => session'[ready'[i].strand] = "written"
    BY <1>3, <1>5, <1>7, KindsQueued DEF IInv, SessionsHeld
  <2>3. \A f \in Executors :
          at'[f] \in {"hash", "save", "send"} => session'[doing'[f].strand] = "read"
    BY <1>3, <1>5, <1>7, KindsQueued DEF IInv, SessionsHeld, Serves
  <2> QED
    BY <2>1, <2>2, <2>3 DEF SessionsHeld
<1>13. RequestsHeld'
  <2>1. \A c \in Connections : session'[c] \in {"none", "reading"} => Untouched(c)'
    BY <1>1, <1>5, <1>7 DEF IInv, RequestsHeld, Untouched
  <2>2. \A i \in DOMAIN ready' : ready'[i].op = "read" => Untouched(ready[i].strand)'
    BY <1>1, <1>3 DEF IInv, RequestsHeld, Untouched
  <2>3. \A f \in Executors :
           Serves(f)' => f # e /\ Serves(f) /\ doing'[f] = doing[f] /\ at'[f] = at[f]
    BY <1>3 DEF Serves
  <2>4. \A f \in Executors : Serves(f) => Serves(f)' /\ doing'[f] = doing[f]
    BY <1>3 DEF Serves
  <2> QED
    BY <1>1, <2>1, <2>2, <2>3, <2>4 DEF IInv, RequestsHeld
<1>14. SignalsHeld' /\ EndIsQuiet'
  BY <1>1, <1>3 DEF IInv, SignalsHeld, EndIsQuiet
<1> QED
  BY <1>3, <1>8, <1>9, <1>10, <1>11, <1>12, <1>13, <1>14 DEF IInv

\* The handlers that leave the sessions alone: a dropped read, a write, a signal.
LEMMA DropWriteSignalKeeps ==
    ASSUME IInv, NEW e \in Executors, DropRead(e) \/ OnWrite(e) \/ OnSignal(e)
    PROVE  IInv'
<1> DEFINE h == Head(ready)
<1>1. PICK op \in {"read", "write", "signal"}, to \in {"return", "promise"} :
        /\ Begins(e, op) /\ Goes(e, "run", to) /\ (to = "promise" => op = "signal")
        /\ stopped' \in BOOLEAN
        /\ UNCHANGED <<listening, main, promise, signal, accepting, session,
                       request, response, saved, reply>>
  BY DEF DropRead, OnWrite, OnSignal, process, exchange, IInv, TypeOK
<1>2. to \in Stages \ {"unborn", "run", "done"}
  BY DEF Stages
<1>3. /\ StrandsHeld'
      /\ ready' \in Seq(Handlers) /\ busy' = busy /\ waiting' = waiting
      /\ doing' \in [Executors -> Handlers \cup {None}]
      /\ at' \in [Executors -> Stages]
      /\ main # "returned"
      /\ 1 \in DOMAIN ready /\ h = ready[1] /\ h.op = op
      /\ h # None /\ at[e] = "run"
      /\ \A f \in Executors :
            /\ at'[f] = IF f = e THEN to ELSE at[f]
            /\ doing'[f] = IF f = e THEN h ELSE doing[f]
      /\ \A i \in DOMAIN ready' : \E j \in DOMAIN ready : j # 1 /\ ready'[i] = ready[j]
      /\ \A j \in DOMAIN ready : j # 1 => \E i \in DOMAIN ready' : ready'[i] = ready[j]
  BY <1>1, <1>2, Started
<1>4. h.strand # "acceptor"
  BY <1>3, KindsQueued
<1> HIDE DEF h
<1>5. TypeOK'
  BY <1>1, <1>3 DEF IInv, TypeOK
<1>6. StagesFit'
  BY <1>1, <1>3 DEF IInv, StagesFit, Runs
<1>7. LoopHeld'
  <2>1. NotQueued' <=> NotQueued
    BY <1>3, <1>4 DEF NotQueued
  <2>2. NotRearming' <=> NotRearming
    BY <1>3 DEF NotRearming
  <2> QED
    BY <1>1, <1>3, <2>1, <2>2 DEF IInv, LoopHeld
<1>8. AcceptedAreNew'
  BY <1>1, <1>3 DEF IInv, AcceptedAreNew, IsNew
<1>9. SessionsHeld'
  <2>1. \A i \in DOMAIN ready' :
          /\ ready'[i].op = "read" => session'[ready'[i].strand] = "read"
          /\ ready'[i].op = "write" => session'[ready'[i].strand] = "written"
    BY <1>1, <1>3 DEF IInv, SessionsHeld
  <2>2. \A f \in Executors :
          at'[f] \in {"hash", "save", "send"} => session'[doing'[f].strand] = "read"
    BY <1>1, <1>3 DEF IInv, SessionsHeld
  <2> QED
    BY <1>1, <1>3, <2>1, <2>2 DEF IInv, SessionsHeld
<1>10. RequestsHeld'
  <2>1. \A c \in Connections : session'[c] \in {"none", "reading"} => Untouched(c)'
    BY <1>1 DEF IInv, RequestsHeld, Untouched
  <2>2. \A i \in DOMAIN ready' : ready'[i].op = "read" => Untouched(ready[i].strand)'
    BY <1>1, <1>3 DEF IInv, RequestsHeld, Untouched
  <2>3. \A f \in Executors :
           Serves(f)' => f # e /\ Serves(f) /\ doing'[f] = doing[f] /\ at'[f] = at[f]
    BY <1>3 DEF Serves
  <2>4. \A f \in Executors : Serves(f) => Serves(f)' /\ doing'[f] = doing[f]
    BY <1>3 DEF Serves
  <2> QED
    BY <1>1, <2>1, <2>2, <2>3, <2>4 DEF IInv, RequestsHeld
<1>11. SignalsHeld' /\ EndIsQuiet'
  BY <1>1, <1>3 DEF IInv, SignalsHeld, EndIsQuiet
<1> QED
  BY <1>3, <1>5, <1>6, <1>7, <1>8, <1>9, <1>10, <1>11 DEF IInv

\* A request is taken up.
LEMMA DispatchKeeps ==
    ASSUME IInv, NEW e \in Executors, Dispatch(e)
    PROVE  IInv'
<1> DEFINE h == Head(ready)
           c == h.strand
           r == h.result
           answer == IF ControllerOf(FromBeast(r)) = "registration"
                     THEN InputError(FromBeast(r).body)
                     ELSE StatelessStatus(ControllerOf(FromBeast(r)))
<1>1. /\ Begins(e, "read") /\ r \notin {Failed, WrongVersion}
      /\ request' = [request EXCEPT ![c] = r]
      /\ UNCHANGED <<listening, main, stopped, promise, signal, accepting, session,
                     saved, reply>>
  BY DEF Dispatch, IsDropped, process
<1>2. PICK to \in {"hash", "send"} :
        /\ Goes(e, "run", to)
        /\ to = "hash" => NeedsHash(FromBeast(r)) /\ response' = response
        /\ to = "send" =>
              ~NeedsHash(FromBeast(r)) /\ response' = [response EXCEPT ![c] = answer]
  BY DEF Dispatch
<1>3. to \in Stages \ {"unborn", "run", "done"}
  BY DEF Stages
<1>4. /\ StrandsHeld'
      /\ ready' \in Seq(Handlers) /\ busy' = busy /\ waiting' = waiting
      /\ doing' \in [Executors -> Handlers \cup {None}]
      /\ at' \in [Executors -> Stages]
      /\ main # "returned"
      /\ 1 \in DOMAIN ready /\ h = ready[1] /\ h.op = "read"
      /\ h # None /\ at[e] = "run" /\ ~Runs(e)
      /\ \A f \in Executors :
            /\ at'[f] = IF f = e THEN to ELSE at[f]
            /\ doing'[f] = IF f = e THEN h ELSE doing[f]
      /\ \A i \in DOMAIN ready' :
            /\ ready'[i].strand # c
            /\ \E j \in DOMAIN ready : j # 1 /\ ready'[i] = ready[j]
      /\ \A j \in DOMAIN ready : j # 1 => \E i \in DOMAIN ready' : ready'[i] = ready[j]
      /\ \A f \in Executors \ {e} : Runs(f) => doing[f].strand # c
  BY <1>1, <1>2, <1>3, Started
<1>5. c # "acceptor" /\ c \in Connections /\ r \in Requests /\ r # None
  BY <1>1, <1>4, KindsQueued, ResultsAssumption
<1>6. session[c] = "read" /\ Untouched(c)
  BY <1>4 DEF IInv, SessionsHeld, RequestsHeld
<1>7. to = "send" => answer \in Promised!Answers(r, FALSE) /\ answer \in Statuses
  <2>1. FromBeast(r).body = r.body
    BY DEF FromBeast
  <2> QED
    BY <1>2, <1>5, <2>1, AnswersFit
<1> HIDE DEF h, r, c, answer
<1>8. /\ \A d \in Connections : request'[d] = IF d = c THEN r ELSE request[d]
      /\ request' \in [Connections -> Requests \cup {None}]
      /\ response' \in [Connections -> Statuses \cup {None}]
      /\ to = "send" => response'[c] = answer
      /\ \A d \in Connections : d # c => response'[d] = response[d]
  <2>1. /\ request \in [Connections -> Requests \cup {None}]
        /\ response \in [Connections -> Statuses \cup {None}]
    BY DEF IInv, TypeOK
  <2>2. /\ \A d \in Connections : request'[d] = IF d = c THEN r ELSE request[d]
        /\ request' \in [Connections -> Requests \cup {None}]
    BY <1>1, <1>5, <2>1
  <2>3. CASE to = "hash"
    BY <1>2, <2>1, <2>2, <2>3
  <2>4. CASE to = "send"
    BY <1>2, <1>5, <1>7, <2>1, <2>2, <2>4
  <2> QED
    BY <2>3, <2>4
<1>9. TypeOK'
  BY <1>1, <1>4, <1>8 DEF IInv, TypeOK
<1>10. StagesFit'
  <2>1. \A f \in Executors \ {e} : at'[f] = at[f] /\ doing'[f] = doing[f]
    BY <1>4
  <2>2. /\ at'[e] = to /\ doing'[e] = h /\ h # None /\ h.op = "read"
    BY <1>4
  <2>3. ASSUME NEW f \in Executors \ {e}
        PROVE  /\ doing'[f] # None <=> at'[f] \notin {"unborn", "run", "done"}
               /\ at'[f] = "rearm" => doing'[f].op = "accept"
               /\ at'[f] \in {"hash", "save", "send"} => doing'[f].op = "read"
               /\ at'[f] = "promise" => doing'[f].op = "signal"
    BY <2>1 DEF IInv, StagesFit, Runs
  <2>4. /\ doing'[e] # None <=> at'[e] \notin {"unborn", "run", "done"}
        /\ at'[e] = "rearm" => doing'[e].op = "accept"
        /\ at'[e] \in {"hash", "save", "send"} => doing'[e].op = "read"
        /\ at'[e] = "promise" => doing'[e].op = "signal"
    BY <2>2
  <2> QED
    BY <2>3, <2>4 DEF StagesFit, Runs
<1>11. LoopHeld'
  <2>1. NotQueued' <=> NotQueued
    BY <1>4, <1>5 DEF NotQueued, c
  <2>2. NotRearming' <=> NotRearming
    BY <1>4 DEF NotRearming
  <2> QED
    BY <1>1, <1>4, <2>1, <2>2 DEF IInv, LoopHeld
<1>12. AcceptedAreNew'
  BY <1>1, <1>4 DEF IInv, AcceptedAreNew, IsNew
<1>13. SessionsHeld'
  BY <1>1, <1>4, <1>6 DEF IInv, SessionsHeld, c
<1>14. RequestsHeld'
  <2>1. \A d \in Connections : session'[d] \in {"none", "reading"} => Untouched(d)'
    BY <1>1, <1>6, <1>8 DEF IInv, RequestsHeld, Untouched
  <2>2. \A i \in DOMAIN ready' : ready'[i].op = "read" => Untouched(ready[i].strand)'
    BY <1>1, <1>4, <1>5, <1>8, KindsQueued DEF IInv, RequestsHeld, Untouched
  <2>3. ASSUME NEW f \in Executors, Serves(f)'
        PROVE  LET d == doing'[f].strand IN
               /\ request'[d] = doing'[f].result /\ request'[d] \in Requests
               /\ reply'[d] = None
               /\ at'[f] \in {"hash", "save"} =>
                     NeedsHash(FromBeast(request'[d])) /\ d \notin saved'
               /\ at'[f] = "send" =>
                     /\ response'[d] # None
                     /\ response'[d] \in Promised!Answers(request'[d], d \in saved')
    <3>1. CASE f = e
      <4>1. /\ doing'[f].strand = c /\ doing'[f].result = r /\ at'[f] = to
            /\ request'[c] = r /\ reply'[c] = None /\ saved' = saved /\ c \notin saved
        BY <1>1, <1>4, <1>5, <1>6, <1>8, <3>1 DEF Untouched, c, r
      <4>2. None \notin Statuses
        BY ResultsAssumption
      <4>3. (c \in saved') = FALSE
        BY <4>1
      <4>4. to = "hash" => NeedsHash(FromBeast(request'[c])) /\ c \notin saved'
        BY <1>2, <4>1
      <4>5. to = "send" => response'[c] # None
        BY <1>7, <1>8, <4>2
      <4>6. to = "send" => response'[c] \in Promised!Answers(request'[c], c \in saved')
        BY <1>7, <1>8, <4>1, <4>3
      <4>7. request'[c] \in Requests /\ to \in {"hash", "send"}
        BY <1>5, <4>1
      <4> QED
        BY <4>1, <4>4, <4>5, <4>6, <4>7
    <3>2. CASE f # e
      <4>1. /\ Serves(f) /\ doing'[f] = doing[f] /\ at'[f] = at[f]
            /\ doing[f].strand \in Connections /\ doing[f].strand # c
        BY <1>4, <2>3, <3>2, KindsQueued DEF Serves
      <4> QED
        BY <1>1, <1>8, <4>1 DEF IInv, RequestsHeld
    <3> QED
      BY <3>1, <3>2
  <2>4. ASSUME NEW d \in Connections, request'[d] # None, reply'[d] = None
        PROVE  \E f \in Executors : Serves(f)' /\ doing'[f].strand = d
    <3>1. CASE d = c
      BY <1>4, <3>1 DEF Serves, c
    <3>2. CASE d # c
      <4>1. PICK f \in Executors : Serves(f) /\ doing[f].strand = d
        BY <1>1, <1>8, <2>4, <3>2 DEF IInv, RequestsHeld
      <4> QED
        BY <1>4, <4>1 DEF Serves
    <3> QED
      BY <3>1, <3>2
  <2> QED
    BY <2>1, <2>2, <2>3, <2>4 DEF RequestsHeld
<1>15. SignalsHeld' /\ EndIsQuiet'
  BY <1>1, <1>4 DEF IInv, SignalsHeld, EndIsQuiet
<1> QED
  BY <1>4, <1>9, <1>10, <1>11, <1>12, <1>13, <1>14, <1>15 DEF IInv

-----------------------------------------------------------------------------
(* Steps within a handler, and the threads.                                *)

\* What a step keeps that leaves the scheduler, the handlers and the session
\* of every connection alone.
LEMMA WithinHandler ==
    ASSUME IInv, NEW e \in Executors, NEW from \in Stages, NEW to \in Stages, Goes(e, from, to),
           from \in {"unborn", "run", "done"} <=> to \in {"unborn", "run", "done"},
           UNCHANGED <<listening, main, doing, ready, busy, waiting, signal>>,
           from # "done"
    PROVE  /\ main # "returned"
           /\ at[e] = from
           /\ at' \in [Executors -> Stages]
           /\ \A f \in Executors : at'[f] = IF f = e THEN to ELSE at[f]
           /\ StrandsHeld'
           /\ to \notin {"rearm", "hash", "save", "send", "promise"} => StagesFit'
           /\ SignalsHeld' /\ EndIsQuiet'
<1>1. at[e] = from /\ at' = [at EXCEPT ![e] = to] /\ main # "returned"
  BY DEF Goes, IInv, EndIsQuiet, AllLeft
<1>2. at' \in [Executors -> Stages] /\ \A f \in Executors : at'[f] = IF f = e THEN to ELSE at[f]
  BY <1>1 DEF IInv, TypeOK
<1>3. StrandsHeld'
  BY DEF IInv, StrandsHeld, StrandSerial, Runs
<1>4. to \notin {"rearm", "hash", "save", "send", "promise"} => StagesFit'
  BY <1>1, <1>2 DEF IInv, StagesFit, Runs
<1>5. SignalsHeld' /\ EndIsQuiet'
  BY <1>1 DEF IInv, SignalsHeld, EndIsQuiet
<1> QED
  BY <1>1, <1>2, <1>3, <1>4, <1>5

LEMMA RearmKeeps ==
    ASSUME IInv, NEW e \in Executors, Rearm(e)
    PROVE  IInv'
<1>1. /\ Goes(e, "rearm", "return") /\ accepting' = accepting + 1
      /\ UNCHANGED <<listening, main, stopped, promise, signal, doing, ready, busy, waiting,
                     session, request, response, saved, reply>>
  BY DEF Rearm, process, scheduler, exchange
<1>2. "rearm" \in Stages /\ "return" \in Stages
  BY DEF Stages
<1>3. /\ main # "returned" /\ at[e] = "rearm" /\ at' \in [Executors -> Stages]
      /\ \A f \in Executors : at'[f] = IF f = e THEN "return" ELSE at[f]
      /\ StrandsHeld' /\ StagesFit' /\ SignalsHeld' /\ EndIsQuiet'
  BY <1>1, <1>2, WithinHandler
<1>4. /\ accepting = 0 /\ NotQueued /\ waiting["acceptor"] = <<>>
      /\ \A f \in Executors : at[f] = "rearm" => f = e
  <2>1. ~NotRearming
    BY <1>3 DEF NotRearming
  <2>2. \A f \in Executors : at[f] = "rearm" => Runs(f) /\ doing[f].strand = "acceptor"
    BY KindsQueued DEF IInv, StagesFit
  <2> QED
    BY <1>3, <2>1, <2>2 DEF IInv, LoopHeld, StrandsHeld, StrandSerial, Runs
<1>5. TypeOK'
  BY <1>1, <1>3, <1>4 DEF IInv, TypeOK
<1>6. LoopHeld'
  BY <1>1, <1>3, <1>4 DEF LoopHeld, NotQueued, NotRearming
<1>7. AcceptedAreNew'
  BY <1>1 DEF IInv, AcceptedAreNew, IsNew
<1>8. SessionsHeld'
  BY <1>1, <1>3 DEF IInv, SessionsHeld
<1>9. RequestsHeld'
  BY <1>1, <1>3 DEF IInv, RequestsHeld, Untouched, Serves
<1> QED
  BY <1>3, <1>5, <1>6, <1>7, <1>8, <1>9 DEF IInv

\* The threads: one starts, one leaves run(), the signal's promise is kept.
LEMMA ThreadsKeep ==
    ASSUME IInv, NEW e \in Executors, StartExecutor(e) \/ LeaveRun(e) \/ SetPromise(e)
    PROVE  IInv'
<1>1. PICK from \in {"unborn", "run", "promise"}, to \in {"run", "done", "return"} :
        /\ Goes(e, from, to) /\ promise' \in BOOLEAN
        /\ from = "promise" <=> to = "return"
        /\ UNCHANGED <<listening, main, stopped, signal, doing, ready, busy, waiting,
                       accepting, session, request, response, saved, reply>>
  BY DEF StartExecutor, LeaveRun, SetPromise, process, scheduler, exchange, IInv, TypeOK
<1>2. from \in Stages /\ to \in Stages
  BY DEF Stages
<1>3. /\ main # "returned" /\ at[e] = from /\ at' \in [Executors -> Stages]
      /\ \A f \in Executors : at'[f] = IF f = e THEN to ELSE at[f]
      /\ StrandsHeld' /\ StagesFit' /\ SignalsHeld' /\ EndIsQuiet'
  BY <1>1, <1>2, WithinHandler
<1>4. TypeOK'
  BY <1>1, <1>3 DEF IInv, TypeOK
<1>5. LoopHeld'
  BY <1>1, <1>3 DEF IInv, LoopHeld, NotQueued, NotRearming
<1>6. AcceptedAreNew'
  BY <1>1 DEF IInv, AcceptedAreNew, IsNew
<1>7. SessionsHeld'
  BY <1>1, <1>3 DEF IInv, SessionsHeld
<1>8. RequestsHeld'
  BY <1>1, <1>3 DEF IInv, RequestsHeld, Untouched, Serves
<1> QED
  BY <1>3, <1>4, <1>5, <1>6, <1>7, <1>8 DEF IInv

LEMMA GetSignalKeeps ==
    ASSUME IInv, GetSignal
    PROVE  IInv'
<1>1. /\ main' = "joining" /\ main = "starting"
      /\ UNCHANGED <<listening, stopped, promise, signal, at, doing, ready, busy, waiting,
                     accepting, session, request, response, saved, reply>>
  BY DEF GetSignal, scheduler, exchange
<1>2. TypeOK'
  BY <1>1 DEF IInv, TypeOK
<1>3. StrandsHeld' /\ StagesFit'
  BY <1>1 DEF IInv, StrandsHeld, StrandSerial, Runs, StagesFit
<1>4. LoopHeld' /\ AcceptedAreNew'
  BY <1>1 DEF IInv, LoopHeld, NotQueued, NotRearming, AcceptedAreNew, IsNew
<1>5. SessionsHeld'
  BY <1>1 DEF IInv, SessionsHeld
<1>6. RequestsHeld'
  BY <1>1 DEF IInv, RequestsHeld, Untouched, Serves
<1>7. SignalsHeld' /\ EndIsQuiet'
  BY <1>1 DEF IInv, SignalsHeld, EndIsQuiet
<1> QED
  BY <1>2, <1>3, <1>4, <1>5, <1>6, <1>7 DEF IInv

\* The io_context is destroyed.
LEMMA JoinExecutorsKeeps ==
    ASSUME IInv, JoinExecutors
    PROVE  IInv'
<1>1. /\ main' = "returned" /\ AllLeft
      /\ ready' = <<>> /\ busy' = {} /\ waiting' = [s \in Strands |-> <<>>] /\ accepting' = 0
      /\ session' = [c \in Connections |-> IF session[c] = "none" THEN "none" ELSE "closed"]
      /\ UNCHANGED <<listening, stopped, promise, signal, at, doing,
                     request, response, saved, reply>>
  BY DEF JoinExecutors, exchange
<1>2. <<>> \in Seq(Handlers) /\ DOMAIN ready' = {}
  BY <1>1, EmptySeq
<1>3. \A e \in Executors : at[e] = "done" /\ ~Runs(e) /\ ~Serves(e)
  BY <1>1 DEF AllLeft, IInv, StagesFit, Serves
<1>4. /\ \A s \in Strands : waiting'[s] = <<>>
      /\ \A c \in Connections : c \in Strands
      /\ "acceptor" \in Strands /\ "signals" \in Strands
  BY <1>1 DEF Strands
<1>5. \A c \in Connections : session'[c] = IF session[c] = "none" THEN "none" ELSE "closed"
  BY <1>1
<1>6. TypeOK'
  BY <1>1, <1>2 DEF IInv, TypeOK
<1>7. StrandsHeld'
  BY <1>1, <1>2, <1>3, <1>4 DEF StrandsHeld, StrandSerial, Runs
<1>8. StagesFit'
  BY <1>1 DEF IInv, StagesFit, Runs
<1>9. LoopHeld' /\ AcceptedAreNew'
  BY <1>1, <1>2, <1>4 DEF LoopHeld, AcceptedAreNew
<1>10. SessionsHeld'
  BY <1>1, <1>2, <1>3, <1>4, <1>5 DEF SessionsHeld
<1>11. RequestsHeld'
  BY <1>1, <1>2, <1>3, <1>5 DEF IInv, RequestsHeld, Untouched, Serves
<1>12. SignalsHeld' /\ EndIsQuiet'
  BY <1>1, <1>4, <1>5 DEF SignalsHeld, EndIsQuiet, AllLeft
<1> QED
  BY <1>6, <1>7, <1>8, <1>9, <1>10, <1>11, <1>12 DEF IInv

\* The executors that have a request to reply to serve different connections.
LEMMA ServesOne ==
    ASSUME IInv, NEW e \in Executors, Serves(e)
    PROVE  /\ doing[e].strand \in Connections /\ doing[e].op = "read"
           /\ session[doing[e].strand] = "read"
           /\ request[doing[e].strand] = doing[e].result
           /\ request[doing[e].strand] \in Requests
           /\ reply[doing[e].strand] = None
           /\ at[e] \in {"hash", "save"} =>
                 /\ NeedsHash(FromBeast(request[doing[e].strand]))
                 /\ doing[e].strand \notin saved
           /\ at[e] = "send" =>
                 /\ response[doing[e].strand] # None
                 /\ response[doing[e].strand] \in
                       Promised!Answers(request[doing[e].strand], doing[e].strand \in saved)
           /\ \A f \in Executors \ {e} : Runs(f) => doing[f].strand # doing[e].strand
           /\ \A i \in DOMAIN ready : ready[i].strand # doing[e].strand
<1>1. doing[e].strand \in Connections /\ Runs(e) /\ doing[e].op = "read"
  BY KindsQueued DEF IInv, StagesFit, Serves
<1>2. /\ \A f \in Executors \ {e} : Runs(f) => doing[f].strand # doing[e].strand
      /\ \A i \in DOMAIN ready : ready[i].strand # doing[e].strand
  BY <1>1 DEF IInv, StrandsHeld, StrandSerial, Runs
<1> QED
  BY <1>1, <1>2 DEF IInv, SessionsHeld, RequestsHeld, Serves

\* No connection that an accept handler brings becomes old without it.
LEMMA StillNew ==
    ASSUME IInv, waiting'["acceptor"] = waiting["acceptor"],
           \A i \in DOMAIN ready' : \E j \in DOMAIN ready : ready'[i] = ready[j],
           \A c \in Connections : session[c] = "none" => session'[c] = "none"
    PROVE  AcceptedAreNew'
<1>1. ASSUME NEW g \in Handlers, IsNew(g)
      PROVE  g.op = "accept" /\ g.result # Failed => session'[g.result] = "none"
  BY <1>1, HandlerKinds DEF IsNew
<1>2. ASSUME NEW i \in DOMAIN ready'
      PROVE  ready'[i].op = "accept" /\ ready'[i].result # Failed
                 => session'[ready'[i].result] = "none"
  <2>1. PICK j \in DOMAIN ready : ready'[i] = ready[j]
    OBVIOUS
  <2>2. ready[j] \in Handlers /\ IsNew(ready[j])
    BY KindsQueued DEF IInv, AcceptedAreNew
  <2> QED
    BY <1>1, <2>1, <2>2
<1>3. ASSUME waiting["acceptor"] # <<>>
      PROVE  waiting["acceptor"][1] \in Handlers /\ IsNew(waiting["acceptor"][1])
  BY <1>3, TypesOfHandlers DEF IInv, AcceptedAreNew, Strands
<1>4. ASSUME waiting["acceptor"] # <<>>
      PROVE  waiting["acceptor"][1].op = "accept" /\ waiting["acceptor"][1].result # Failed
                 => session'[waiting["acceptor"][1].result] = "none"
  BY <1>1, <1>3, <1>4
<1> QED
  BY <1>2, <1>4 DEF AcceptedAreNew, IsNew

\* The steps of the RegistrationController (registration_controller.cpp) and the
\* reply (session.h).
LEMMA ServiceKeeps ==
    ASSUME IInv, NEW e \in Executors, HashPassword(e) \/ SaveIdentity(e) \/ Send(e)
    PROVE  IInv'
<1> DEFINE c == doing[e].strand
<1>1. PICK from \in {"hash", "save", "send"}, to \in {"save", "send", "return"} :
        /\ Goes(e, from, to)
        /\ to = "return" <=> from = "send"
        /\ UNCHANGED <<listening, main, stopped, promise, signal, doing, ready, busy, waiting,
                       accepting, request>>
        /\ to = "save" => UNCHANGED <<session, response, saved, reply>> /\ from = "hash"
        /\ to = "send" =>
              /\ UNCHANGED <<session, reply>>
              /\ \/ response' = [response EXCEPT ![c] = 500] /\ saved' = saved /\ from = "hash"
                 \/ response' = [response EXCEPT ![c] = 201] /\ saved' = saved \cup {c}
        /\ to = "return" =>
              /\ session' = [session EXCEPT ![c] = "writing"]
              /\ reply' = [reply EXCEPT ![c] = response[c]]
              /\ UNCHANGED <<response, saved>>
  <2>1. CASE HashPassword(e)
    <3>1. CASE Goes(e, "hash", "save")
      BY <2>1, <3>1 DEF HashPassword, Goes, process, scheduler
    <3>2. CASE Goes(e, "hash", "send") /\ response' = [response EXCEPT ![c] = 500]
      BY <2>1, <3>2 DEF HashPassword, process, scheduler
    <3> QED
      BY <2>1, <3>1, <3>2 DEF HashPassword
  <2>2. CASE SaveIdentity(e)
    BY <2>2 DEF SaveIdentity, process, scheduler
  <2>3. CASE Send(e)
    BY <2>3 DEF Send, process, scheduler
  <2> QED
    BY <2>1, <2>2, <2>3
<1>2. from \in Stages /\ to \in Stages
  BY DEF Stages
<1>3. /\ main # "returned" /\ at[e] = from /\ at' \in [Executors -> Stages]
      /\ \A f \in Executors : at'[f] = IF f = e THEN to ELSE at[f]
      /\ StrandsHeld' /\ SignalsHeld' /\ EndIsQuiet'
  BY <1>1, <1>2, WithinHandler
<1>4. Serves(e)
  BY <1>3 DEF Serves
<1>5. /\ c \in Connections /\ doing[e].op = "read"
      /\ session[c] = "read"
      /\ request[c] = doing[e].result /\ request[c] \in Requests
      /\ reply[c] = None
      /\ at[e] \in {"hash", "save"} => NeedsHash(FromBeast(request[c])) /\ c \notin saved
      /\ at[e] = "send" =>
            response[c] # None /\ response[c] \in Promised!Answers(request[c], c \in saved)
      /\ \A f \in Executors \ {e} : Runs(f) => doing[f].strand # c
      /\ \A i \in DOMAIN ready : ready[i].strand # c
  BY <1>4, ServesOne
<1>6. c \in busy /\ waiting[c] = <<>>
  BY <1>5 DEF IInv, SessionsHeld
<1> HIDE DEF c
<1>7. /\ response' \in [Connections -> Statuses \cup {None}]
      /\ \A d \in Connections : d # c => response'[d] = response[d]
      /\ saved' \subseteq Connections
      /\ \A d \in Connections : d # c => (d \in saved' <=> d \in saved)
      /\ reply' \in [Connections -> Statuses \cup {None}]
      /\ \A d \in Connections : d # c => reply'[d] = reply[d]
      /\ to # "return" => reply' = reply
      /\ to = "return" => reply'[c] # None
      /\ session' \in [Connections ->
             {"none", "reading", "read", "writing", "written", "closed"}]
      /\ \A d \in Connections :
            session'[d] = IF to = "return" /\ d = c THEN "writing" ELSE session[d]
  <2>1. 500 \in Statuses /\ 201 \in Statuses
    BY DEF Statuses
  <2>2. /\ response \in [Connections -> Statuses \cup {None}]
        /\ reply \in [Connections -> Statuses \cup {None}]
        /\ saved \subseteq Connections
        /\ session \in [Connections ->
               {"none", "reading", "read", "writing", "written", "closed"}]
    BY DEF IInv, TypeOK
  <2>3. CASE to = "save"
    BY <1>1, <2>2, <2>3
  <2>4. CASE to = "send"
    <3>1. session' = session /\ reply' = reply
      BY <1>1, <2>4
    <3>2. /\ response' \in [Connections -> Statuses \cup {None}]
          /\ \A d \in Connections : d # c => response'[d] = response[d]
      BY <1>1, <2>1, <2>2, <2>4
    <3>3. /\ saved' \subseteq Connections
          /\ \A d \in Connections : d # c => (d \in saved' <=> d \in saved)
      BY <1>1, <1>5, <2>2, <2>4
    <3> QED
      BY <2>2, <2>4, <3>1, <3>2, <3>3
  <2>5. CASE to = "return"
    <3>1. /\ response' = response /\ saved' = saved
          /\ session' = [session EXCEPT ![c] = "writing"]
          /\ reply' = [reply EXCEPT ![c] = response[c]]
      BY <1>1, <2>5
    <3>2. response[c] # None /\ response[c] \in Statuses
      BY <1>1, <1>3, <1>5, <2>2, <2>5
    <3>3. /\ reply' \in [Connections -> Statuses \cup {None}]
          /\ reply'[c] = response[c]
          /\ \A d \in Connections : d # c => reply'[d] = reply[d]
      BY <1>5, <2>2, <3>1, <3>2
    <3>4. /\ session' \in [Connections ->
                {"none", "reading", "read", "writing", "written", "closed"}]
          /\ \A d \in Connections : session'[d] = IF d = c THEN "writing" ELSE session[d]
      BY <1>5, <2>2, <3>1
    <3> QED
      BY <2>2, <2>5, <3>1, <3>2, <3>3, <3>4
  <2> QED
    BY <2>3, <2>4, <2>5
<1>8. TypeOK'
  BY <1>1, <1>3, <1>7 DEF IInv, TypeOK
<1>9. StagesFit'
  BY <1>1, <1>3, <1>5 DEF IInv, StagesFit, Runs
<1>10. LoopHeld'
  BY <1>1, <1>3 DEF IInv, LoopHeld, NotQueued, NotRearming
<1>11. AcceptedAreNew'
  BY <1>1, <1>5, <1>7, StillNew
<1>12. SessionsHeld'
  <2>1. \A d \in Connections :
          /\ session'[d] \in {"none", "reading", "closed"} => d \notin busy'
          /\ session'[d] \in {"read", "written"} => d \in busy'
          /\ waiting'[d] # <<>> => session'[d] = "written" /\ waiting'[d][1].op = "write"
    BY <1>1, <1>6, <1>7 DEF IInv, SessionsHeld
  <2>2. \A i \in DOMAIN ready' :
          /\ ready'[i].op = "read" => session'[ready'[i].strand] = "read"
          /\ ready'[i].op = "write" => session'[ready'[i].strand] = "written"
    BY <1>1, <1>5, <1>7, KindsQueued DEF IInv, SessionsHeld
  <2>3. \A f \in Executors :
          at'[f] \in {"hash", "save", "send"} => session'[doing'[f].strand] = "read"
    <3> SUFFICES ASSUME NEW f \in Executors, at'[f] \in {"hash", "save", "send"}
                 PROVE  session'[doing'[f].strand] = "read"
      OBVIOUS
    <3>1. CASE f = e
      BY <1>1, <1>3, <1>5, <1>7, <3>1 DEF c
    <3>2. CASE f # e
      <4>1. Serves(f) /\ Runs(f) /\ doing[f].strand \in Connections
        BY <1>3, <3>2, KindsQueued DEF Serves
      <4> QED
        BY <1>1, <1>5, <1>7, <3>2, <4>1, ServesOne
    <3> QED
      BY <3>1, <3>2
  <2> QED
    BY <2>1, <2>2, <2>3 DEF SessionsHeld
<1>13. RequestsHeld'
  <2>1. \A d \in Connections : session'[d] \in {"none", "reading"} => Untouched(d)'
    BY <1>1, <1>5, <1>7 DEF IInv, RequestsHeld, Untouched
  <2>2. \A i \in DOMAIN ready' : ready'[i].op = "read" => Untouched(ready[i].strand)'
    BY <1>1, <1>5, <1>7, KindsQueued DEF IInv, RequestsHeld, Untouched
  <2>3. ASSUME NEW f \in Executors, Serves(f)'
        PROVE  LET d == doing'[f].strand IN
               /\ request'[d] = doing'[f].result /\ request'[d] \in Requests
               /\ reply'[d] = None
               /\ at'[f] \in {"hash", "save"} =>
                     NeedsHash(FromBeast(request'[d])) /\ d \notin saved'
               /\ at'[f] = "send" =>
                     /\ response'[d] # None
                     /\ response'[d] \in Promised!Answers(request'[d], d \in saved')
    <3>1. CASE f = e
      <4>1. doing'[f] = doing[e] /\ at'[f] = to /\ to \in {"save", "send"}
        BY <1>1, <1>3, <2>3, <3>1 DEF Serves
      <4>2. NeedsHash(FromBeast(request[c])) /\ c \notin saved
        BY <1>1, <1>3, <1>5, <4>1
      <4>3. 500 \in Promised!Answers(request[c], FALSE) /\ 201 \in Promised!Answers(request[c], TRUE)
        BY <1>5, <4>2, AnswersFit
      <4>4. 500 # None /\ 201 # None
        BY ResultsAssumption DEF Statuses
      <4>5. /\ doing'[f].strand = c /\ doing'[f].result = request'[c]
            /\ request'[c] = request[c] /\ request'[c] \in Requests
            /\ reply'[c] = None
        BY <1>1, <1>5, <1>7, <4>1 DEF c
      <4>8. CASE to = "save"
        BY <1>1, <4>1, <4>2, <4>5, <4>8
      <4>6. CASE to = "send" /\ response' = [response EXCEPT ![c] = 500] /\ saved' = saved
        <5>1. response'[c] = 500 /\ (c \in saved') = FALSE
          BY <1>5, <4>2, <4>6 DEF IInv, TypeOK
        <5>2. 500 \in Promised!Answers(request'[c], FALSE)
          BY <4>3, <4>5
        <5>3. response'[c] \in Promised!Answers(request'[c], c \in saved')
          BY <5>1, <5>2
        <5> QED
          BY <4>1, <4>4, <4>5, <4>6, <5>1, <5>3
      <4>7. CASE to = "send" /\ response' = [response EXCEPT ![c] = 201]
                 /\ saved' = saved \cup {c}
        <5>1. response'[c] = 201 /\ c \in saved'
          BY <1>5, <4>7 DEF IInv, TypeOK
        <5>2. Promised!Answers(request'[c], c \in saved') = Promised!Answers(request'[c], TRUE)
          BY <5>1 DEF Promised!Answers
        <5>3. 201 \in Promised!Answers(request'[c], TRUE)
          BY <4>3, <4>5
        <5>4. response'[c] \in Promised!Answers(request'[c], c \in saved')
          BY <5>1, <5>2, <5>3
        <5> QED
          BY <4>1, <4>4, <4>5, <4>7, <5>1, <5>4
      <4> QED
        BY <1>1, <4>1, <4>6, <4>7, <4>8
    <3>2. CASE f # e
      <4>1. /\ Serves(f) /\ Runs(f) /\ doing[f].strand \in Connections /\ doing[f].strand # c
            /\ at'[f] = at[f]
        BY <1>3, <1>5, <2>3, <3>2, KindsQueued DEF Serves
      <4>2. (doing[f].strand \in saved') = (doing[f].strand \in saved)
        BY <1>7, <4>1
      <4> QED
        BY <1>1, <1>7, <4>1, <4>2, ServesOne
    <3> QED
      BY <3>1, <3>2
  <2>4. ASSUME NEW d \in Connections, request'[d] # None, reply'[d] = None
        PROVE  \E f \in Executors : Serves(f)' /\ doing'[f].strand = d
    <3>1. CASE d = c
      <4>1. to # "return"
        BY <1>7, <2>4, <3>1
      <4> QED
        BY <1>1, <1>3, <3>1, <4>1 DEF Serves, c
    <3>2. CASE d # c
      <4>1. PICK f \in Executors : Serves(f) /\ doing[f].strand = d
        BY <1>1, <1>7, <2>4, <3>2 DEF IInv, RequestsHeld
      <4>2. f # e
        BY <3>2, <4>1 DEF c
      <4> QED
        BY <1>1, <1>3, <4>1, <4>2 DEF Serves
    <3> QED
      BY <3>1, <3>2
  <2> QED
    BY <2>1, <2>2, <2>3, <2>4 DEF RequestsHeld
<1> QED
  BY <1>3, <1>8, <1>9, <1>10, <1>11, <1>12, <1>13 DEF IInv

\* A handler ends.
LEMMA ReturnKeeps ==
    ASSUME IInv, NEW e \in Executors, Return(e)
    PROVE  IInv'
<1> DEFINE s == doing[e].strand
           h == waiting[s][1]
<1>1. /\ Goes(e, "return", "run") /\ doing' = [doing EXCEPT ![e] = None]
      /\ session' = IF s \in Connections /\ LastReference(s)
                    THEN [session EXCEPT ![s] = "closed"] ELSE session
      /\ UNCHANGED <<listening, main, stopped, promise, signal, accepting,
                     request, response, saved, reply>>
  BY DEF Return, process, exchange
<1>2. /\ at[e] = "return" /\ at' = [at EXCEPT ![e] = "run"] /\ main # "returned"
      /\ at' \in [Executors -> Stages]
      /\ \A f \in Executors : at'[f] = IF f = e THEN "run" ELSE at[f]
  BY <1>1 DEF Goes, IInv, EndIsQuiet, AllLeft, TypeOK, Stages
<1>3. /\ StrandsHeld'
      /\ Runs(e) /\ s \in Strands
      /\ doing' \in [Executors -> Handlers \cup {None}]
      /\ ready' \in Seq(Handlers)
      /\ busy' \subseteq busy
      /\ waiting' \in [Strands -> {<<>>} \cup {<<g>> : g \in Handlers}]
      /\ waiting' = [waiting EXCEPT ![s] = <<>>]
      /\ waiting[s] = <<>> => ready' = ready /\ busy' = busy \ {s}
      /\ waiting[s] # <<>> => busy' = busy /\ \E i \in DOMAIN ready' : ready'[i] = h
      /\ \A i \in DOMAIN ready : i \in DOMAIN ready' /\ ready'[i] = ready[i]
      /\ \A i \in DOMAIN ready' :
            \/ i \in DOMAIN ready /\ ready'[i] = ready[i]
            \/ waiting[s] # <<>> /\ ready'[i] = h
      /\ \A i \in DOMAIN ready : ready[i].strand # s
      /\ \A f \in Executors : f # e /\ Runs(f) => doing[f].strand # s
  BY ReturnHolds DEF IInv
<1>4. waiting[s] # <<>> => h.strand = s /\ h \in Handlers
  BY <1>3, TypesOfHandlers DEF IInv, StrandsHeld
<1>5. /\ \A f \in Executors : doing'[f] = IF f = e THEN None ELSE doing[f]
      /\ \A t \in Strands : waiting'[t] = IF t = s THEN <<>> ELSE waiting[t]
  BY <1>1, <1>3 DEF IInv, TypeOK
<1>6. /\ "acceptor" \in Strands /\ "signals" \in Strands
      /\ \A c \in Connections : c \in Strands /\ c # "acceptor" /\ c # "signals"
  BY ConnectionsAssumption DEF Strands
<1>7. waiting[s] # <<>> =>
        /\ h.op = "accept" <=> s = "acceptor"
        /\ h.op = "accept" => h.result \in Connections \cup {Failed}
        /\ h.op \in {"read", "write"} <=> s \in Connections
        /\ s \in Connections => h.op = "write" /\ session[s] = "written"
  BY <1>4, HandlerKinds DEF IInv, SessionsHeld
<1> HIDE DEF s, h
<1>8. /\ session' \in [Connections ->
             {"none", "reading", "read", "writing", "written", "closed"}]
      /\ \A c \in Connections :
            session'[c] = IF c = s /\ session[s] \in {"read", "written"} /\ waiting[s] = <<>>
                          THEN "closed" ELSE session[c]
  BY <1>1 DEF IInv, TypeOK, LastReference
<1>9. TypeOK'
  BY <1>1, <1>2, <1>3, <1>8 DEF IInv, TypeOK
<1>10. StagesFit'
  BY <1>2, <1>5 DEF IInv, StagesFit, Runs
<1>11. LoopHeld'
  <2>1. NotRearming' <=> NotRearming
    BY <1>2 DEF NotRearming
  <2>2. CASE s = "acceptor" /\ waiting[s] # <<>>
    BY <1>1, <1>2, <1>3, <1>4, <1>5, <1>6, <2>1, <2>2 DEF IInv, LoopHeld, NotQueued
  <2>3. CASE ~(s = "acceptor" /\ waiting[s] # <<>>)
    <3>1. waiting'["acceptor"] = waiting["acceptor"]
      BY <1>5, <1>6, <2>3
    <3>2. NotQueued' <=> NotQueued
      BY <1>3, <1>4, <2>3 DEF NotQueued
    <3> QED
      BY <1>1, <2>1, <3>1, <3>2 DEF IInv, LoopHeld
  <2> QED
    BY <2>2, <2>3
<1>12. AcceptedAreNew'
  <2>1. CASE s = "acceptor" /\ waiting[s] # <<>>
    <3>1. IsNew(h) /\ h.result \in Connections \cup {Failed}
      BY <1>6, <1>7, <2>1 DEF IInv, AcceptedAreNew, h
    <3>2. \A i \in DOMAIN ready' : ready'[i].op = "accept" => ready'[i] = h
      BY <1>3, <1>7, <2>1, KindsQueued
    <3>3. waiting'["acceptor"] = <<>>
      BY <1>5, <1>6, <2>1
    <3> QED
      BY <1>8, <3>1, <3>2, <3>3 DEF AcceptedAreNew, IsNew
  <2>2. CASE ~(s = "acceptor" /\ waiting[s] # <<>>)
    <3>1. waiting'["acceptor"] = waiting["acceptor"]
      BY <1>5, <1>6, <2>2
    <3>2. ASSUME NEW g \in Handlers, IsNew(g)
          PROVE  g.op = "accept" /\ g.result # Failed => session'[g.result] = "none"
      BY <1>8, <3>2, HandlerKinds DEF IsNew
    <3>3. \A i \in DOMAIN ready' :
             ready'[i].op = "accept" => i \in DOMAIN ready /\ ready'[i] = ready[i]
      BY <1>3, <1>7, <2>2
    <3>4. \A i \in DOMAIN ready : ready[i] \in Handlers /\ IsNew(ready[i])
      BY KindsQueued DEF IInv, AcceptedAreNew
    <3>5. \A i \in DOMAIN ready' :
             ready'[i].op = "accept" /\ ready'[i].result # Failed
                 => session'[ready'[i].result] = "none"
      BY <3>2, <3>3, <3>4
    <3>6. ASSUME waiting["acceptor"] # <<>>
          PROVE  waiting["acceptor"][1] \in Handlers /\ IsNew(waiting["acceptor"][1])
      BY <1>6, <3>6, TypesOfHandlers DEF IInv, AcceptedAreNew
    <3>7. ASSUME waiting["acceptor"] # <<>>
          PROVE  waiting["acceptor"][1].op = "accept" /\ waiting["acceptor"][1].result # Failed
                     => session'[waiting["acceptor"][1].result] = "none"
      BY <3>2, <3>6, <3>7
    <3> QED
      BY <3>1, <3>5, <3>7 DEF AcceptedAreNew, IsNew
  <2> QED
    BY <2>1, <2>2
<1>13. SessionsHeld'
  <2>1. ASSUME NEW c \in Connections
        PROVE  /\ session'[c] \in {"none", "reading", "closed"} => c \notin busy'
               /\ session'[c] \in {"read", "written"} => c \in busy'
               /\ waiting'[c] # <<>> => session'[c] = "written" /\ waiting'[c][1].op = "write"
    <3>1. CASE c # s
      <4>1. c \in busy' <=> c \in busy
        BY <1>3, <3>1
      <4> QED
        BY <1>5, <1>6, <1>8, <3>1, <4>1 DEF IInv, SessionsHeld
    <3>2. CASE c = s
      <4>1. s \in busy
        BY <1>3 DEF IInv, StrandsHeld, s
      <4>2. session[s] \in {"read", "writing", "written"}
        BY <3>2, <4>1 DEF IInv, SessionsHeld, TypeOK
      <4> QED
        BY <1>3, <1>5, <1>6, <1>7, <1>8, <3>2, <4>1, <4>2
    <3> QED
      BY <3>1, <3>2
  <2>2. \A i \in DOMAIN ready' :
          /\ ready'[i].op = "read" => session'[ready'[i].strand] = "read"
          /\ ready'[i].op = "write" => session'[ready'[i].strand] = "written"
    <3> TAKE i \in DOMAIN ready'
    <3>1. CASE i \in DOMAIN ready /\ ready'[i] = ready[i]
      BY <1>3, <1>8, <3>1, KindsQueued DEF IInv, SessionsHeld
    <3>2. CASE waiting[s] # <<>> /\ ready'[i] = h
      BY <1>4, <1>7, <1>8, <3>2
    <3> QED
      BY <1>3, <3>1, <3>2
  <2>3. \A f \in Executors :
          at'[f] \in {"hash", "save", "send"} => session'[doing'[f].strand] = "read"
    <3> SUFFICES ASSUME NEW f \in Executors, at'[f] \in {"hash", "save", "send"}
                 PROVE  session'[doing'[f].strand] = "read"
      OBVIOUS
    <3>1. f # e /\ Serves(f) /\ doing'[f] = doing[f]
      BY <1>2, <1>5 DEF Serves
    <3>2. Runs(f) /\ doing[f].strand \in Connections /\ session[doing[f].strand] = "read"
      BY <3>1, KindsQueued, ServesOne
    <3> QED
      BY <1>3, <1>8, <3>1, <3>2
  <2> QED
    BY <2>1, <2>2, <2>3 DEF SessionsHeld
<1>14. RequestsHeld'
  <2>1. \A c \in Connections : session'[c] \in {"none", "reading"} => Untouched(c)'
    BY <1>1, <1>8 DEF IInv, RequestsHeld, Untouched
  <2>2. \A i \in DOMAIN ready' : ready'[i].op = "read" => Untouched(ready[i].strand)'
    <3> TAKE i \in DOMAIN ready'
    <3>1. CASE i \in DOMAIN ready /\ ready'[i] = ready[i]
      BY <1>1, <3>1 DEF IInv, RequestsHeld, Untouched
    <3>2. CASE waiting[s] # <<>> /\ ready'[i] = h
      BY <1>7, <3>2
    <3> QED
      BY <1>3, <3>1, <3>2
  <2>3. \A f \in Executors :
           Serves(f)' => f # e /\ Serves(f) /\ doing'[f] = doing[f] /\ at'[f] = at[f]
    BY <1>2, <1>5 DEF Serves
  <2>4. \A f \in Executors : Serves(f) => Serves(f)' /\ doing'[f] = doing[f]
    BY <1>2, <1>5 DEF Serves
  <2> QED
    BY <1>1, <2>1, <2>2, <2>3, <2>4 DEF IInv, RequestsHeld
<1>15. SignalsHeld' /\ EndIsQuiet'
  BY <1>1, <1>2, <1>3, <1>5, <1>6 DEF IInv, SignalsHeld, EndIsQuiet
<1> QED
  BY <1>3, <1>9, <1>10, <1>11, <1>12, <1>13, <1>14, <1>15 DEF IInv

-----------------------------------------------------------------------------
(* The invariant and what follows from it.                                 *)

LEMMA IInvStep == IInv /\ [Next]_vars => IInv'
<1> SUFFICES ASSUME IInv, [Next]_vars PROVE IInv'
  OBVIOUS
<1>1. CASE Completions
  BY <1>1, AcceptCompletesKeeps, ReadCompletesKeeps, WriteCompletesKeeps, SignalArrivesKeeps
  DEF Completions
<1>2. ASSUME NEW e \in Executors, Executor(e)
      PROVE  IInv'
  BY <1>2, OnAcceptKeeps, RearmKeeps, DropWriteSignalKeeps, DispatchKeeps, ServiceKeeps,
     ThreadsKeep, ReturnKeeps
  DEF Executor
<1>3. CASE Main
  BY <1>3, ThreadsKeep, GetSignalKeeps, JoinExecutorsKeeps DEF Main
<1>4. CASE UNCHANGED vars
  <2> USE <1>4 DEF vars
  <2>1. TypeOK'
    BY DEF IInv, TypeOK
  <2>2. StrandsHeld' /\ StagesFit'
    BY DEF IInv, StrandsHeld, StrandSerial, Runs, StagesFit
  <2>3. LoopHeld' /\ AcceptedAreNew'
    BY DEF IInv, LoopHeld, NotQueued, NotRearming, AcceptedAreNew, IsNew
  <2>4. SessionsHeld'
    BY DEF IInv, SessionsHeld
  <2>5. RequestsHeld'
    BY DEF IInv, RequestsHeld, Untouched, Serves
  <2>6. SignalsHeld' /\ EndIsQuiet'
    BY DEF IInv, SignalsHeld, EndIsQuiet, AllLeft
  <2> QED
    BY <2>1, <2>2, <2>3, <2>4, <2>5, <2>6 DEF IInv
<1> QED
  BY <1>1, <1>2, <1>3, <1>4 DEF Next, Returned

LEMMA IInvAlways == Spec => []IInv
  BY InitIInv, IInvStep, PTL DEF Spec

\* The variables of the server and of the io_context keep their types: a strand
\* keeps one handler back at most, one async_accept is outstanding at most.
THEOREM ServerTypeCorrect == Spec => []TypeOK
<1>1. IInv => TypeOK
  BY DEF IInv
<1> QED
  BY <1>1, IInvAlways, PTL

\* Two handlers of one session, or of the listener, never run at the same time,
\* whatever the number of executors (listener.h, session.h: make_strand).
THEOREM StrandsAreSerial == Spec => []StrandSerial
<1>1. IInv => StrandSerial
  BY DEF IInv, StrandsHeld
<1> QED
  BY <1>1, IInvAlways, PTL

\* A set none of whose members differ has the cardinality 0 or 1.
LEMMA AtMostOne ==
    ASSUME NEW S, \A x, y \in S : x = y
    PROVE  (S = {} => Cardinality(S) = 0) /\ (S # {} => Cardinality(S) = 1)
<1>1. S = {} => Cardinality(S) = 0
  BY FS_EmptySet
<1>2. ASSUME S # {} PROVE Cardinality(S) = 1
  <2>1. PICK x \in S : S = {x}
    BY <1>2
  <2> QED
    BY <2>1, FS_Singleton
<1> QED
  BY <1>1, <1>2

\* The accept loop never dies and never doubles: one async_accept, queued
\* handler or running handler goes on with it (listener.h: do_accept).
THEOREM LoopIsOne == Spec => []OneAccept
<1>1. IInv => OneAccept
  <2> SUFFICES ASSUME IInv, main # "returned"
               PROVE  accepting + Cardinality(QueuedFor("acceptor")) + Len(waiting["acceptor"])
                          + Cardinality({e \in Executors : at[e] = "rearm"}) = 1
    BY DEF OneAccept
  <2> DEFINE Q == QueuedFor("acceptor")
             R == {e \in Executors : at[e] = "rearm"}
  <2>1. \A i, j \in Q : i = j
    BY DEF QueuedFor, IInv, StrandsHeld
  <2>2. \A e, f \in R : e = f
    <3>1. \A e \in R : Runs(e) /\ doing[e].strand = "acceptor"
      BY KindsQueued DEF IInv, StagesFit
    <3> QED
      BY <3>1 DEF IInv, StrandsHeld, StrandSerial, Runs
  <2>3. (NotQueued <=> Q = {}) /\ (NotRearming <=> R = {})
    BY DEF NotQueued, NotRearming, QueuedFor
  <2>4. /\ waiting["acceptor"] = <<>> => Len(waiting["acceptor"]) = 0
        /\ waiting["acceptor"] # <<>> => Len(waiting["acceptor"]) = 1
    <3>1. \A h \in Handlers : Len(<<h>>) = 1
      OBVIOUS
    <3> QED
      BY <3>1 DEF IInv, TypeOK, Strands
  <2> HIDE DEF Q, R
  <2>5. (Q = {} => Cardinality(Q) = 0) /\ (Q # {} => Cardinality(Q) = 1)
    BY <2>1, AtMostOne
  <2>6. (R = {} => Cardinality(R) = 0) /\ (R # {} => Cardinality(R) = 1)
    BY <2>2, AtMostOne
  <2>7. accepting + Cardinality(Q) + Len(waiting["acceptor"]) + Cardinality(R) = 1
    <3> DEFINE q == Cardinality(Q)
               w == Len(waiting["acceptor"])
               r == Cardinality(R)
    <3>1. \/ accepting = 1 /\ q = 0 /\ w = 0 /\ r = 0
          \/ accepting = 0 /\ q = 1 /\ w = 0 /\ r = 0
          \/ accepting = 0 /\ q = 0 /\ w = 1 /\ r = 0
          \/ accepting = 0 /\ q = 0 /\ w = 0 /\ r = 1
      BY <2>3, <2>4, <2>5, <2>6 DEF IInv, LoopHeld
    <3> HIDE DEF q, w, r
    <3>2. accepting + q + w + r = 1
      BY <3>1
    <3> QED
      BY <3>2 DEF q, w, r
  <2> QED
    BY <2>7 DEF Q, R
<1> QED
  BY <1>1, IInvAlways, PTL

\* A Session lives exactly as long as an operation or a handler refers to it
\* (session.h: shared_from_this in every handler).
THEOREM SessionsAreOwned == Spec => []SessionOwned
<1>1. IInv => SessionOwned
  <2> SUFFICES ASSUME IInv, NEW c \in Connections
               PROVE  LET handlers == QueuedFor(c) # {} \/ waiting[c] # <<>> \/ Running(c) # {} IN
                      /\ session[c] \in {"none", "closed"} => ~handlers
                      /\ session[c] \in {"read", "written"} => handlers
    BY DEF SessionOwned
  <2>1. c \notin busy => QueuedFor(c) = {} /\ waiting[c] = <<>> /\ Running(c) = {}
    BY DEF IInv, StrandsHeld, QueuedFor, Running, Runs, Strands
  <2>2. c \in busy => QueuedFor(c) # {} \/ Running(c) # {}
    BY DEF IInv, StrandsHeld, QueuedFor, Running, Runs
  <2> QED
    BY <2>1, <2>2 DEF IInv, SessionsHeld
<1> QED
  BY <1>1, IInvAlways, PTL

\* When run() returns, no executor is in a handler and every request that was
\* dispatched has its reply (prapancha.cpp: stop, join).
THEOREM ReturnIsQuiet == Spec => []QuietAtReturn
<1>1. IInv => QuietAtReturn
  <2> SUFFICES ASSUME IInv, main = "returned"
               PROVE  /\ \A e \in Executors : at[e] = "done" /\ doing[e] = None
                      /\ \A c \in Connections : request[c] # None => reply[c] # None
    BY DEF QuietAtReturn
  <2>1. \A e \in Executors : at[e] = "done"
    BY DEF IInv, EndIsQuiet, AllLeft
  <2>2. \A e \in Executors : doing[e] = None
    BY <2>1 DEF IInv, StagesFit, Runs
  <2>3. \A c \in Connections : request[c] # None => reply[c] # None
    BY <2>1 DEF IInv, RequestsHeld, Serves
  <2> QED
    BY <2>1, <2>2, <2>3
<1> QED
  BY <1>1, IInvAlways, PTL

-----------------------------------------------------------------------------
(* The server keeps the promises of Exchange.                              *)

\* Every step is a step that Exchange allows, or none of its business.
LEMMA StepKeepsPromise ==
    ASSUME IInv, [Next]_vars
    PROVE  [Promised!Next]_(Promised!vars)
<1> USE DEF Promised!vars
<1>1. ASSUME NEW e \in Executors, Dispatch(e)
      PROVE  Promised!Next
  <2> DEFINE c == Head(ready).strand
             r == Head(ready).result
  <2>1. /\ ~stopped /\ at[e] = "run" /\ Head(ready).op = "read"
        /\ r \notin {Failed, WrongVersion}
        /\ request' = [request EXCEPT ![c] = r]
        /\ UNCHANGED <<saved, reply, stopped>>
        /\ ready # <<>>
    BY <1>1 DEF Dispatch, Begins, IsDropped, process
  <2>2. Head(ready) = ready[1] /\ 1 \in DOMAIN ready
    BY <2>1, Taken DEF IInv, TypeOK
  <2>3. c \in Connections /\ r \in Requests
    BY <2>1, <2>2, KindsQueued
  <2>4. request[c] = None
    BY <2>1, <2>2 DEF IInv, RequestsHeld, Untouched
  <2> HIDE DEF c, r
  <2>5. Promised!Take(c, r)
    BY <2>1, <2>4 DEF Promised!Take
  <2> QED
    BY <2>3, <2>5 DEF Promised!Next
<1>2. ASSUME NEW e \in Executors, SaveIdentity(e)
      PROVE  Promised!Next
  <2> DEFINE c == doing[e].strand
  <2>1. /\ at[e] = "save" /\ saved' = saved \cup {c}
        /\ UNCHANGED <<request, reply, stopped>>
    BY <1>2 DEF SaveIdentity, Goes, process
  <2>2. /\ c \in Connections /\ request[c] \in Requests /\ reply[c] = None
        /\ NeedsHash(FromBeast(request[c])) /\ c \notin saved
    BY <2>1, ServesOne DEF Serves
  <2> HIDE DEF c
  <2>3. Promised!MaySave(request[c]) /\ request[c] # None
    BY <2>2, AnswersFit, ResultsAssumption
  <2>4. Promised!Save(c)
    BY <2>1, <2>2, <2>3 DEF Promised!Save
  <2> QED
    BY <2>2, <2>4 DEF Promised!Next
<1>3. ASSUME NEW e \in Executors, Send(e)
      PROVE  Promised!Next
  <2> DEFINE c == doing[e].strand
  <2>1. /\ at[e] = "send" /\ reply' = [reply EXCEPT ![c] = response[c]]
        /\ UNCHANGED <<request, saved, stopped>>
    BY <1>3 DEF Send, Goes, process
  <2>2. /\ c \in Connections /\ request[c] \in Requests /\ reply[c] = None
        /\ response[c] \in Promised!Answers(request[c], c \in saved)
    BY <2>1, ServesOne DEF Serves
  <2> HIDE DEF c
  <2>3. request[c] # None
    BY <2>2, ResultsAssumption
  <2>4. Promised!Reply(c)
    BY <2>1, <2>2, <2>3 DEF Promised!Reply
  <2> QED
    BY <2>2, <2>4 DEF Promised!Next
<1>4. ASSUME NEW e \in Executors, OnSignal(e)
      PROVE  Promised!Next
  <2>1. ~stopped /\ stopped' /\ UNCHANGED <<request, saved, reply>>
    BY <1>4 DEF OnSignal, Begins, exchange
  <2>2. Promised!Stop
    BY <2>1 DEF Promised!Stop
  <2> QED
    BY <2>2 DEF Promised!Next
<1>5. ASSUME NEW e \in Executors,
             \/ OnAccept(e) \/ Rearm(e) \/ DropRead(e) \/ HashPassword(e) \/ OnWrite(e)
             \/ SetPromise(e) \/ Return(e) \/ LeaveRun(e)
      PROVE  UNCHANGED <<request, saved, reply, stopped>>
  BY <1>5 DEF OnAccept, Rearm, DropRead, HashPassword, OnWrite, SetPromise, Return, LeaveRun,
              process, exchange
<1>6. Completions \/ Main \/ UNCHANGED vars => UNCHANGED <<request, saved, reply, stopped>>
  BY DEF Completions, AcceptCompletes, ReadCompletes, WriteCompletes, SignalArrives,
         Main, StartExecutor, GetSignal, JoinExecutors, vars, process, exchange
<1> QED
  BY <1>1, <1>2, <1>3, <1>4, <1>5, <1>6 DEF Next, Executor, Returned

\* What the server does with requests, saved accounts and replies is what
\* Exchange promises the clients.
THEOREM ExchangeImplemented == Spec => ImplementsExchange
<1>1. Init => Promised!Init
  BY DEF Init, Promised!Init
<1>2. IInv /\ [Next]_vars => [Promised!Next]_(Promised!vars)
  BY StepKeepsPromise
<1> QED
  BY <1>1, <1>2, IInvAlways, PTL DEF Spec, Promised!Spec, ImplementsExchange
=============================================================================
