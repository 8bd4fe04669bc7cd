------------------------------ MODULE MCServer ------------------------------
\* Server on a small instance.
EXTENDS Server

CONSTANTS e1, e2, c1, c2

TwoExecutors == {e1, e2}
TwoConnections == {c1, c2}

Request(verb, target, body) == [verb |-> verb, target |-> target, body |-> body]

\* A registration that goes all the way.
Complete == Request("POST", <<"/api/v1/register">>, "complete")

\* One request for every way a handler can go, and near misses: a
\* query, a route of another method.
AllRequests ==
    {Request("POST", <<"/api/v1/register", "?", "a", "?">>, "complete"),
     Request("POST", <<"/api/v1/register">>, "incomplete"),
     Request("POST", <<"/api/v1/register">>, "malformed"),
     Request("GET", <<"/", "?">>, "malformed"),
     Request("HEAD", <<"/">>, "malformed"),
     Request("DELETE", <<"/api/v1/deregister">>, "complete")}

\* Another client registers at the same time.
SomeRequests == [c \in TwoConnections |-> IF c = c1 THEN AllRequests ELSE {Complete}]
=============================================================================
