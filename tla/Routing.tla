------------------------------- MODULE Routing -------------------------------
(***************************************************************************)
(* What the server answers to a request: the route table (routes.h), the   *)
(* dispatcher (router.h), the policy pipeline every controller runs first  *)
(* (base_controller.h, policy.h) and the decisions of the controllers.     *)
(*                                                                         *)
(* A request as Beast parsed it is a record of its verb, its target and the *)
(* kind of body it carries.  A target is a sequence of parts, one of them   *)
(* perhaps "?".  No controller reads a header, and all set the same one.    *)
(***************************************************************************)
EXTENDS Naturals, Sequences

\* Bodies as the registration controller tells them apart: not a JSON object;
\* an object without a string "username" or "password"; one with both.
Bodies == {"malformed", "incomplete", "complete"}

\* Ok, Created, BadRequest, NotFound, UnprocessableEntity, InternalServerError
\* and NotImplemented.
Statuses == {200, 201, 400, 404, 422, 500, 501}

\* Every other verb is Unknown, which no route has.
MethodOf(verb) ==
    IF verb \in {"DELETE", "GET", "HEAD", "OPTIONS", "PATCH", "POST", "PUT"}
    THEN verb ELSE "UNKNOWN"

FromBeast(r) == [method |-> MethodOf(r.verb), target |-> r.target, body |-> r.body]

\* The target up to its first "?".
PathOf(target) ==
    LET marks == {i \in DOMAIN target : target[i] = "?"} IN
    IF marks = {} THEN target
    ELSE SubSeq(target, 1, (CHOOSE i \in marks : \A j \in marks : i <= j) - 1)

Route(path, method, controller) ==
    [path |-> <<path>>, method |-> method, controller |-> controller]

Routes ==
    {Route("/", "GET", "root"),
     Route("/api/v1/status", "GET", "status"),
     Route("/api/v1/register", "POST", "registration"),
     Route("/api/v1/deregister", "DELETE", "deregistration"),
     Route("/api/v1/login", "POST", "login"),
     Route("/api/v1/logout", "POST", "logout")}

\* No two routes match the same request, so "the first that matches" is "the one".
Matches(request) ==
    {r \in Routes : r.path = PathOf(request.target) /\ r.method = request.method}

ControllerOf(request) ==
    IF Matches(request) = {} THEN "void"
    ELSE (CHOOSE r \in Matches(request) : TRUE).controller

\* RequiredTraits of every controller is WithRequest, whose policy always
\* succeeds: handle() is reached for every request.  What it answers where it
\* keeps no state:
RootController == 200
StatusController == 200
VoidController == 404
IdentityController == 501

StatelessStatus(controller) ==
    CASE controller = "root" -> RootController
      [] controller = "status" -> StatusController
      [] controller = "void" -> VoidController
      [] controller \in {"deregistration", "login", "logout"} -> IdentityController

\* The body decodes to a JSON object.
IsObject(body) == body # "malformed"

\* It has both members of a registration, and they are strings.
HasCredentials(body) == body = "complete"

\* RegistrationController::handle up to the password hash: the input errors it
\* answers at once.
InputError(body) == IF IsObject(body) THEN 422 ELSE 400
=============================================================================
