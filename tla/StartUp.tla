------------------------------- MODULE StartUp -------------------------------
(***************************************************************************)
(* run() (prapancha.cpp) from its first line to the executors: arguments,  *)
(* the active configuration, the directory of the records, the Listener's  *)
(* constructor (listener.h) and the threads.                               *)
(***************************************************************************)
EXTENDS Configuration

CONSTANTS Cores,     \* what hardware_concurrency() may be; 0 for unknown
          Ephemeral  \* a port that the system picks

ASSUME CoresAssumption == Cores \subseteq 0..MaxThreadCount

ASSUME EphemeralAssumption == Ephemeral # None /\ Ephemeral \notin 0..MaxPort

VARIABLES phase,     \* how far run() has come
          active,    \* what configuration::Active points to
          directory, \* the directory of the records exists
          acceptor,  \* the Listener's acceptor
          failed,    \* the calls in the Listener's constructor that failed (history)
          executors  \* the number of executors started

vars == <<cli, phase, active, directory, acceptor, failed, executors>>

Phases == {"parse", "prepare", "open", "bind", "listen", "start", "running", "terminated"}

TypeOK ==
    /\ args \in Seq(Words)
    /\ i \in 1..(MaxArgs + 2)
    /\ config \in Configurations
    /\ state \in {"parsing", "parsed", "exited"}
    /\ phase \in Phases
    /\ active \in Configurations \cup {None}
    /\ directory \in BOOLEAN
    /\ acceptor \in [open : BOOLEAN, port : (0..MaxPort) \cup {Ephemeral, None}, listens : BOOLEAN]
    /\ failed \subseteq {"open", "bind", "listen"}
    /\ executors \in 0..MaxThreadCount

-----------------------------------------------------------------------------
StartInit ==
    /\ Init
    /\ phase = "parse"
    /\ active = None
    /\ directory \in BOOLEAN
    /\ acceptor = [open |-> FALSE, port |-> None, listens |-> FALSE]
    /\ failed = {}
    /\ executors = 0

ParseArguments ==
    /\ Parse
    /\ UNCHANGED <<phase, active, directory, acceptor, failed, executors>>

Goes(from, to) ==
    /\ phase = from
    /\ phase' = to
    /\ UNCHANGED cli

\* initialize(): only its first call counts.
Initialize ==
    /\ state = "parsed"
    /\ Goes("parse", "prepare")
    /\ active' = IF active = None THEN config ELSE active
    /\ UNCHANGED <<directory, acceptor, failed, executors>>

\* Mutant: create_directories with an error_code that nobody looks at.
MakeDirectoryUnchecked ==
    /\ Goes("prepare", "open")
    /\ directory' \in {directory, TRUE}
    /\ UNCHANGED <<active, acceptor, failed, executors>>

\* PersistenceRegistry::initialize_user_identity.
MakeDirectory ==
    /\ Goes("prepare", "open")
    /\ directory' = TRUE
    /\ UNCHANGED <<active, acceptor, failed, executors>>

\* create_directories throws, and nothing catches it.
MakeDirectoryThrows ==
    /\ ~directory
    /\ Goes("prepare", "terminated")
    /\ UNCHANGED <<active, directory, acceptor, failed, executors>>

\* A call of the constructor fails; the next one overwrites its error.
Fails(call, to) ==
    /\ Goes(call, to)
    /\ failed' = failed \cup {call}
    /\ UNCHANGED <<active, directory, acceptor, executors>>

\* open() and set_option().
Open ==
    \/ Fails("open", "bind")
    \/ /\ Goes("open", "bind")
       /\ acceptor' = [acceptor EXCEPT !.open = TRUE]
       /\ UNCHANGED <<active, directory, failed, executors>>

Bind ==
    \/ Fails("bind", "listen")
    \/ /\ acceptor.open
       /\ Goes("bind", "listen")
       /\ acceptor' = [acceptor EXCEPT !.port =
             IF active.port = 0 THEN Ephemeral ELSE active.port]
       /\ UNCHANGED <<active, directory, failed, executors>>

\* A socket without a port gets one when it listens.  Then async_accept, the
\* signals, and the line that says which port the server starts on.
Listen ==
    \/ Fails("listen", "start")
    \/ /\ acceptor.open
       /\ Goes("listen", "start")
       /\ acceptor' = [acceptor EXCEPT !.listens = TRUE,
             !.port = IF @ = None THEN Ephemeral ELSE @]
       /\ UNCHANGED <<active, directory, failed, executors>>

\* Mutant: as many as there are cores.
AutoDetectCores(cores) == cores

\* hardware_concurrency() may be 0.
AutoDetect(cores) == IF cores > 1 THEN cores ELSE 1

\* What thread_count may be.
ThreadCounts ==
    IF active.thread_count = AutoDetectThreads THEN {AutoDetect(cores) : cores \in Cores}
    ELSE {active.thread_count}

\* All executors are started.
Start ==
    /\ Goes("start", "running")
    /\ \E n \in ThreadCounts : n >= 0 /\ executors' = n
    /\ UNCHANGED <<active, directory, acceptor, failed>>

\* reserve() throws for a negative number; or a thread cannot be made, and those
\* before it are destroyed while they run.
StartThrows ==
    /\ Goes("start", "terminated")
    /\ \E n \in ThreadCounts :
          executors' \in IF n < 0 THEN {0} ELSE {k \in 0..n : k < n}
    /\ UNCHANGED <<active, directory, acceptor, failed>>

Next ==
    \/ ParseArguments \/ Initialize
    \/ MakeDirectory \/ MakeDirectoryThrows
    \/ Open \/ Bind \/ Listen
    \/ Start \/ StartThrows

Spec == StartInit /\ [][Next]_vars
-----------------------------------------------------------------------------
(* Properties.                                                             *)

(* A server that runs has an executor, whatever the arguments and the machine:
   without one it could neither serve nor be stopped (prapancha.cpp:27-30,
   54-59). *)
RunningHasExecutor == phase = "running" => executors >= 1

(* Before the first client can connect, though no executor exists yet, what the
   handlers rely on is there: the directory of the records and the
   configuration, which is the one of the arguments (prapancha.cpp:25-38). *)
ReadyBeforeClients ==
    acceptor.listens => directory /\ active = config /\ state = "parsed"

(* "--port <number>      Set the network listener port" (configuration.cpp:67):
   a server that runs listens there.  The code violates it: a port that cannot
   be bound leaves the acceptor to listen on any other. *)
ListensOnPort ==
    phase = "running" => acceptor.listens /\ acceptor.port \in {active.port, Ephemeral}
                         /\ (acceptor.port = Ephemeral => active.port = 0)
=============================================================================
