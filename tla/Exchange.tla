------------------------------ MODULE Exchange ------------------------------
(***************************************************************************)
(* What the server promises its clients: a connection carries at most one  *)
(* request and gets at most one reply, made for that request; an account   *)
(* is saved at most once, only for a registration that asks for it and     *)
(* before the reply, which says 201 exactly then; after a stop no request  *)
(* is taken up any more, while one already taken up may be finished.       *)
(*                                                                         *)
(* Which request is which is said here in the terms of the client, apart   *)
(* from the routes and controllers that the server looks it up in.         *)
(***************************************************************************)
EXTENDS Naturals, Sequences

CONSTANTS Connections,  \* client connections
          Requests,     \* what a client may send
          None          \* no request or no reply yet

VARIABLES request,      \* request[c]: the request taken up on connection c
          saved,        \* connections whose registration has been saved
          reply,        \* reply[c]: the status replied on c
          open          \* requests are still taken up

vars == <<request, saved, reply, open>>

\* Request r is of this method, for this path with or without a query.
Asks(r, verb, path) ==
    /\ r.verb = verb
    /\ r.target # <<>>
    /\ r.target[1] = path
    /\ Len(r.target) > 1 => r.target[2] = "?"

IsRegistration(r) == Asks(r, "POST", "/api/v1/register")

IsPage(r) == Asks(r, "GET", "/") \/ Asks(r, "GET", "/api/v1/status")

IsAnnounced(r) ==
    \/ Asks(r, "DELETE", "/api/v1/deregister")
    \/ Asks(r, "POST", "/api/v1/login")
    \/ Asks(r, "POST", "/api/v1/logout")

MaySave(r) == IsRegistration(r) /\ r.body = "complete"

\* The statuses that may answer request r, given whether it was saved.
Answers(r, isSaved) ==
    CASE isSaved -> {201}
      [] MaySave(r) /\ ~isSaved -> {500}
      [] IsRegistration(r) /\ r.body = "incomplete" -> {422}
      [] IsRegistration(r) /\ r.body = "malformed" -> {400}
      [] IsPage(r) -> {200}
      [] IsAnnounced(r) -> {501}
      [] OTHER -> {404}

Init ==
    /\ request = [c \in Connections |-> None]
    /\ saved = {}
    /\ reply = [c \in Connections |-> None]
    /\ open = TRUE

Take(c, r) ==
    /\ open
    /\ request[c] = None
    /\ request' = [request EXCEPT ![c] = r]
    /\ UNCHANGED <<saved, reply, open>>

Save(c) ==
    /\ request[c] # None
    /\ MaySave(request[c])
    /\ c \notin saved
    /\ reply[c] = None
    /\ saved' = saved \cup {c}
    /\ UNCHANGED <<request, reply, open>>

Reply(c) ==
    /\ request[c] # None
    /\ reply[c] = None
    /\ \E s \in Answers(request[c], c \in saved) :
          reply' = [reply EXCEPT ![c] = s]
    /\ UNCHANGED <<request, saved, open>>

Stop ==
    /\ open
    /\ open' = FALSE
    /\ UNCHANGED <<request, saved, reply>>

Next ==
    \/ \E c \in Connections : \/ \E r \in Requests : Take(c, r)
                              \/ Save(c)
                              \/ Reply(c)
    \/ Stop

Spec == Init /\ [][Next]_vars
=============================================================================
