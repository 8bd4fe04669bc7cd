---------------------------- MODULE RoutingProofs ----------------------------
(***************************************************************************)
(* Proofs about Routing, for every request: which target has the path of a *)
(* route, and which controller a request comes to.  They also hold the     *)
(* principle of the least number, for other modules.                       *)
(***************************************************************************)
EXTENDS Routing, FiniteSetTheorems, SequenceTheorems, TLAPS

BeastRequests == [verb : STRING, target : Seq(STRING), body : Bodies]

\* Request r has this method and this path, with or without a query.
AsksFor(r, verb, path) ==
    /\ r.verb = verb
    /\ r.target # <<>>
    /\ r.target[1] = path
    /\ Len(r.target) > 1 => r.target[2] = "?"

\* A set of numbers that is not empty has a least one: of the intervals that
\* end in its members, one contains no other.
LEMMA LeastNumber ==
    ASSUME NEW T \in SUBSET Nat, T # {}
    PROVE  \E m \in T : \A k \in T : m <= k
<1> DEFINE Below == {1..n : n \in T}
           Order == StrictSubsetOrdering(Nat)
<1>1. Below \subseteq FiniteSubsetsOf(Nat) /\ Below # {}
  <2>1. \A n \in T : 1..n \subseteq Nat /\ IsFiniteSet(1..n)
    BY FS_Interval
  <2> QED
    BY <2>1 DEF FiniteSubsetsOf
<1>2. IsWellFoundedOn(Order, FiniteSubsetsOf(Nat))
  BY FS_StrictSubsetOrderingWellFounded
<1>3. \E x \in Below : \A y \in Below : ~(<<y, x>> \in Order)
  <2> HIDE DEF Below, Order
  <2> QED
    BY <1>1, <1>2, WFMin
<1>4. PICK m \in T : \A y \in Below : ~(<<y, 1..m>> \in Order)
  BY <1>3
<1>5. ASSUME NEW k \in T, k < m
      PROVE  FALSE
  <2>1. 1..k \in Below /\ 1..k \subseteq Nat /\ 1..m \subseteq Nat
    BY <1>5
  <2>2. 1..k \subseteq 1..m /\ m \in 1..m /\ m \notin 1..k
    BY <1>5
  <2>3. <<1..k, 1..m>> \in Order
    BY <2>1, <2>2 DEF StrictSubsetOrdering
  <2> QED
    BY <1>4, <2>1, <2>3
<1> QED
  BY <1>5

\* A target has the path of a route exactly if its first part is that path and
\* nothing but a query follows (router.cpp, HttpRequest::path).
LEMMA PathIs ==
    ASSUME NEW S, NEW t \in Seq(S), NEW path, path # "?"
    PROVE  PathOf(t) = <<path>>
               <=> t # <<>> /\ t[1] = path /\ (Len(t) > 1 => t[2] = "?")
<1> DEFINE marks == {i \in DOMAIN t : t[i] = "?"}
           T == S \cup {path}
<1>0. t \in Seq(T)
  BY SeqMonotonic
<1>1. Len(t) \in Nat /\ DOMAIN t = 1..Len(t) /\ (t # <<>> <=> Len(t) >= 1)
  BY <1>0, LenProperties, EmptySeq
<1>2. <<path>> \in Seq(T) /\ Len(<<path>>) = 1 /\ <<path>>[1] = path
  OBVIOUS
<1>3. CASE marks = {}
  <2>1. PathOf(t) = t
    BY <1>3 DEF PathOf
  <2>2. t = <<path>> => Len(t) = 1 /\ t[1] = path
    BY <1>2
  <2>3. ASSUME Len(t) = 1, t[1] = path
        PROVE  t = <<path>>
    <3>1. \A i \in 1..Len(t) : t[i] = <<path>>[i]
      BY <1>2, <2>3
    <3> QED
      BY <1>0, <1>2, <2>3, <3>1, SeqEqual
  <2> QED
    BY <1>1, <1>3, <2>1, <2>2, <2>3
<1>4. CASE marks # {}
  <2>1. marks \in SUBSET Nat
    BY <1>1
  <2>2. PICK m \in marks : \A j \in marks : m <= j
    <3> HIDE DEF marks
    <3> QED
      BY <1>4, <2>1, LeastNumber
  <2>3. (CHOOSE i \in marks : \A j \in marks : i <= j) = m
    <3>1. \A i \in marks : (\A j \in marks : i <= j) => i = m
      BY <2>1, <2>2
    <3> HIDE DEF marks
    <3> QED
      BY <2>2, <3>1
  <2>4. PathOf(t) = SubSeq(t, 1, m - 1)
    BY <1>4, <2>3 DEF PathOf
  <2>5. m \in 1..Len(t) /\ t[m] = "?" /\ \A j \in 1..(m - 1) : t[j] # "?"
    BY <1>1, <2>2
  <2>6. /\ PathOf(t) \in Seq(T)
        /\ Len(PathOf(t)) = m - 1
        /\ \A i \in 1..(m - 1) : PathOf(t)[i] = t[i]
    <3>1. \A i \in 1..(m - 1) : t[i] \in T
      BY <1>0, <1>1, <2>5, ElementOfSeq
    <3>2. /\ m - 1 \in Int
          /\ 1 <= m - 1 => (m - 1) - 1 + 1 = m - 1
          /\ ~(1 <= m - 1) => m - 1 = 0
      BY <1>1, <2>5
    <3> QED
      BY <1>1, <2>4, <2>5, <3>1, <3>2, SubSeqProperties
  <2>7. PathOf(t) = <<path>> <=> m = 2 /\ t[1] = path
    BY <1>1, <1>2, <2>5, <2>6, SeqEqual
  <2> QED
    BY <1>1, <2>2, <2>5, <2>7
<1> QED
  BY <1>3, <1>4

\* The controllers, by what a request asks for (routes.h): every request comes
\* to the one of its route, and those without a route to the VoidController.
THEOREM RoutedRight ==
    ASSUME NEW r \in BeastRequests
    PROVE  /\ ControllerOf(FromBeast(r)) = "root" <=> AsksFor(r, "GET", "/")
           /\ ControllerOf(FromBeast(r)) = "status" <=> AsksFor(r, "GET", "/api/v1/status")
           /\ ControllerOf(FromBeast(r)) = "registration"
                  <=> AsksFor(r, "POST", "/api/v1/register")
           /\ ControllerOf(FromBeast(r)) = "deregistration"
                  <=> AsksFor(r, "DELETE", "/api/v1/deregister")
           /\ ControllerOf(FromBeast(r)) = "login" <=> AsksFor(r, "POST", "/api/v1/login")
           /\ ControllerOf(FromBeast(r)) = "logout" <=> AsksFor(r, "POST", "/api/v1/logout")
           /\ ControllerOf(FromBeast(r)) \in
                 {"root", "status", "registration", "deregistration", "login", "logout", "void"}
<1> DEFINE q == FromBeast(r)
           path == PathOf(r.target)
           method == MethodOf(r.verb)
<1>1. /\ r.verb \in STRING /\ r.target \in Seq(STRING)
      /\ q.method = method /\ q.target = r.target
  BY DEF BeastRequests, FromBeast
<1>2. \A m \in {"GET", "POST", "DELETE"} : method = m <=> r.verb = m
  BY DEF MethodOf
<1>3. \A p \in {"/", "/api/v1/status", "/api/v1/register", "/api/v1/deregister",
                 "/api/v1/login", "/api/v1/logout"} :
         path = <<p>> <=> r.target # <<>> /\ r.target[1] = p
                              /\ (Len(r.target) > 1 => r.target[2] = "?")
  <2> TAKE p \in {"/", "/api/v1/status", "/api/v1/register", "/api/v1/deregister",
                  "/api/v1/login", "/api/v1/logout"}
  <2>1. p # "?"
    OBVIOUS
  <2> QED
    BY <1>1, <2>1, PathIs
<1>4. \A x \in Routes : x \in Matches(q) <=> x.path = path /\ x.method = method
  BY <1>1 DEF Matches
<1>5. \A x, y \in Routes : x.path = y.path /\ x.method = y.method => x = y
  BY DEF Routes, Route
<1>6. ASSUME NEW x \in Routes, x.path = path, x.method = method
      PROVE  ControllerOf(q) = x.controller
  <2>1. Matches(q) = {x}
    BY <1>4, <1>5, <1>6 DEF Matches
  <2> QED
    BY <2>1 DEF ControllerOf
<1>7. (\A x \in Routes : ~(x.path = path /\ x.method = method)) => ControllerOf(q) = "void"
  BY <1>4 DEF Matches, ControllerOf
<1> HIDE DEF q, path, method
<1>8. ASSUME NEW p, NEW m, NEW c, Route(p, m, c) \in Routes, path = <<p>>, method = m
      PROVE  ControllerOf(q) = c
  BY <1>6, <1>8 DEF Route
<1>9. /\ path = <<"/">> /\ method = "GET" => ControllerOf(q) = "root"
      /\ path = <<"/api/v1/status">> /\ method = "GET" => ControllerOf(q) = "status"
      /\ path = <<"/api/v1/register">> /\ method = "POST" => ControllerOf(q) = "registration"
      /\ path = <<"/api/v1/deregister">> /\ method = "DELETE"
             => ControllerOf(q) = "deregistration"
      /\ path = <<"/api/v1/login">> /\ method = "POST" => ControllerOf(q) = "login"
      /\ path = <<"/api/v1/logout">> /\ method = "POST" => ControllerOf(q) = "logout"
  BY <1>8 DEF Routes
<1>10. \/ \E x \in Routes : x.path = path /\ x.method = method
       \/ ControllerOf(q) = "void"
  BY <1>7
<1>11. ASSUME NEW x \in Routes, x.path = path, x.method = method
       PROVE  \/ path = <<"/">> /\ method = "GET"
              \/ path = <<"/api/v1/status">> /\ method = "GET"
              \/ path = <<"/api/v1/register">> /\ method = "POST"
              \/ path = <<"/api/v1/deregister">> /\ method = "DELETE"
              \/ path = <<"/api/v1/login">> /\ method = "POST"
              \/ path = <<"/api/v1/logout">> /\ method = "POST"
  BY <1>11 DEF Routes, Route
<1> QED
  BY <1>2, <1>3, <1>9, <1>10, <1>11 DEF AsksFor, q, path, method
=============================================================================
