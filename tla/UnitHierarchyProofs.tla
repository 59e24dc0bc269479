------------------------- MODULE UnitHierarchyProofs -------------------------
(***************************************************************************)
(* The walk of UnitHierarchy is exact for every Unit table.  The invariant *)
(* of the loop: what is queued or visited can be reached, the start is one *)
(* of them, and so is every child of a visited unit.  When the queue is    *)
(* empty the visited units are closed under children, hence all that can   *)
(* be reached.                                                             *)
(***************************************************************************)
EXTENDS UnitHierarchy, TLAPS

-----------------------------------------------------------------------------
(* Reachability *)

\* A unit reaches itself.
LEMMA ReachSelf ==
  ASSUME NEW h, NEW u \in DOMAIN h
  PROVE  u \in Reach(h, u)
BY DEF Reach

\* The children of a unit that is reached are reached.
LEMMA ReachChildren ==
  ASSUME NEW h, NEW u, NEW v \in DOMAIN h, h[v] \in Reach(h, u)
  PROVE  v \in Reach(h, u)
<1>1. SUFFICES ASSUME NEW S \in SUBSET DOMAIN h, u \in S, Closed(h, S)
               PROVE  v \in S
  BY DEF Reach
<1>2. h[v] \in S
  BY <1>1 DEF Reach
<1> QED BY <1>1, <1>2 DEF Closed

\* A closed set of units that has u has all that u reaches.
LEMMA ReachLeast ==
  ASSUME NEW h, NEW u, NEW S \in SUBSET DOMAIN h, u \in S, Closed(h, S)
  PROVE  Reach(h, u) \subseteq S
BY DEF Reach

LEMMA ReachKnown ==
  ASSUME NEW h, NEW u
  PROVE  Reach(h, u) \subseteq DOMAIN h
BY DEF Reach

LEMMA EmptyDomain == DOMAIN Empty = {}
BY DEF Empty

-----------------------------------------------------------------------------
(* Lists *)

\* A list holds exactly the members of S, each once.
Lists(list, S) ==
  /\ \A v \in Ids : Within(list, v) <=> v \in S
  /\ \A i, j \in DOMAIN list : list[i] = list[j] => i = j

LEMMA ListsNothing == Lists(<<>>, {})
BY DEF Lists, Within

LEMMA ListsOne ==
  ASSUME NEW u PROVE Lists(<<u>>, {u})
BY DEF Lists, Within

LEMMA ListsAppend ==
  ASSUME NEW list \in Seq(Units), NEW S \in SUBSET Units, Lists(list, S),
         NEW u \in Units, u \notin S
  PROVE  /\ Append(list, u) \in Seq(Units)
         /\ Lists(Append(list, u), S \union {u})
<1> DEFINE n == Len(list)
           more == Append(list, u)
<1>1. /\ more \in Seq(Units)
      /\ n \in Nat
      /\ DOMAIN list = 1..n
      /\ DOMAIN more = 1..(n+1)
      /\ \A i \in 1..n : more[i] = list[i]
      /\ more[n+1] = u
  OBVIOUS
<1>2. \A i \in 1..n : list[i] \in S
  <2>1. SUFFICES ASSUME NEW i \in 1..n PROVE list[i] \in S
    OBVIOUS
  <2>2. list[i] \in Ids /\ Within(list, list[i])
    BY <1>1 DEF Within, Ids
  <2> QED BY <2>2 DEF Lists
<1>3. ASSUME NEW v \in Ids PROVE Within(more, v) <=> v \in S \union {u}
  <2>1. Within(list, v) <=> v \in S
    BY DEF Lists
  <2>2. Within(more, v) <=> (Within(list, v) \/ v = u)
    BY <1>1 DEF Within
  <2> QED BY <2>1, <2>2
<1>4. ASSUME NEW i \in DOMAIN more, NEW j \in DOMAIN more, more[i] = more[j]
      PROVE  i = j
  <2>1. CASE i \in 1..n /\ j \in 1..n
    BY <1>1, <1>4, <2>1 DEF Lists
  <2>2. CASE i = n+1 /\ j \in 1..n
    BY <1>1, <1>2, <1>4, <2>2
  <2>3. CASE i \in 1..n /\ j = n+1
    BY <1>1, <1>2, <1>4, <2>3
  <2> QED BY <1>1, <2>1, <2>2, <2>3
<1> QED BY <1>1, <1>3, <1>4 DEF Lists

-----------------------------------------------------------------------------
(* The inductive invariant *)

OneWalk ==
  \A r, s \in Requests : req[r].pc = "walking" /\ req[s].pc = "walking" => r = s

WalkOK(r) ==
  req[r].pc = "walking" =>
    /\ req[r].role = "supervisor"
    /\ req[r].unit \in DOMAIN units
    /\ req[r].seen = units
    /\ walk.queue \union walk.visited \subseteq Reach(units, req[r].unit)
    /\ req[r].unit \in walk.queue \union walk.visited
    /\ \A v \in DOMAIN units :
         units[v] \in walk.visited => v \in walk.queue \union walk.visited
    /\ Lists(walk.descendants, walk.visited)

ScopeOK(r) ==
  req[r].pc \in {"scoped", "granted", "denied"} /\ ~Unrestricted(req[r].role) =>
    Lists(req[r].scope, Visible(req[r].seen, req[r].role, req[r].unit))

AccessOK(r) ==
  req[r].pc \in {"granted", "denied"} /\ req[r].kind # "lookup" =>
    (req[r].pc = "granted") =
      \/ Unrestricted(req[r].role)
      \/ /\ ~req[r].failed
         /\ Visible(req[r].seen, req[r].role, req[r].unit) # {}
         /\ \/ req[r].station \in Visible(req[r].seen, req[r].role, req[r].unit)
            \/ req[r].kind = "case" /\ req[r].mine

LookupOK(r) ==
  /\ req[r].pc \in {"granted", "denied"} /\ req[r].kind = "lookup" /\ ~req[r].failed =>
       (req[r].pc = "granted") = (req[r].station \in Units)
  /\ req[r].pc = "looking" =>
       /\ req[r].kind = "lookup" /\ req[r].role = "investigator"
       /\ req[r].scope = <<>> /\ req[r].unit = NoUnit
  /\ req[r].pc \in {"walking", "scoped"} => req[r].kind # "lookup" /\ ~req[r].failed
  /\ req[r].pc # "idle" /\ req[r].kind = "lookup" =>
       req[r].row = IF req[r].seen = Empty THEN {req[r].asked} ELSE {"UnitID"}

RequestOK(r) == WalkOK(r) /\ ScopeOK(r) /\ AccessOK(r) /\ LookupOK(r)

IInv == TypeOK /\ OneWalk /\ \A r \in Requests : RequestOK(r)

LEMMA VisibleKnown ==
  ASSUME TypeOK, NEW r \in Requests
  PROVE  Visible(req[r].seen, req[r].role, req[r].unit) \subseteq Ids
<1>1. DOMAIN req[r].seen \subseteq Units
  BY EmptyDomain DEF TypeOK, Hierarchies
<1>2. req[r].unit \in Ids \union {NoUnit}
  BY DEF TypeOK, Hierarchies
<1> QED BY <1>1, <1>2, ReachKnown DEF Visible, Ids

\* What is listed for an own unit.
LEMMA OwnUnitListed ==
  ASSUME NEW h, NEW role \in Roles, NEW unit,
         ~(role = "supervisor" /\ unit \in DOMAIN h)
  PROVE  Lists(OwnUnit(unit), Visible(h, role, unit))
BY ListsNothing, ListsOne DEF OwnUnit, Visible

LEMMA InitOK == Init => IInv
<1> SUFFICES ASSUME Init PROVE IInv
  OBVIOUS
<1>1. TypeOK
  BY DEF Init, TypeOK, Hierarchies, NoWalk, NoRequest, Stages, Roles, Kinds, Checks, Ids, Columns,
         Empty
<1>2. \A r \in Requests : req[r].pc = "idle"
  BY DEF Init, Hierarchies, NoRequest
<1> QED BY <1>1, <1>2 DEF IInv, OneWalk, RequestOK, WalkOK, ScopeOK, AccessOK, LookupOK

\* A request whose record stays and which is not walking, or whose walk and
\* units stay, keeps what the invariant says of it.
LEMMA Untouched ==
  ASSUME NEW s \in Requests, RequestOK(s), req'[s] = req[s],
         \/ req[s].pc # "walking"
         \/ walk' = walk /\ units' = units
  PROVE  RequestOK(s)'
<1>1. WalkOK(s)'
  BY DEF RequestOK, WalkOK
<1>2. ScopeOK(s)'
  BY DEF RequestOK, ScopeOK, Lists, Within
<1>3. AccessOK(s)'
  <2>1. AccessOK(s)
    BY DEF RequestOK
  <2>2. AccessOK(s)' = AccessOK(s)
    BY DEF AccessOK, Visible, Reach, Closed, Unrestricted
  <2> QED BY <2>1, <2>2
<1>4. LookupOK(s)'
  BY DEF RequestOK, LookupOK
<1> QED BY <1>1, <1>2, <1>3, <1>4 DEF RequestOK

-----------------------------------------------------------------------------
(* The steps that load the tables, and the requests' own *)

LEMMA LoadStep ==
  ASSUME IInv, LoadTable \/ LoadFails
  PROVE  IInv'
<1>1. TypeOK'
  <2>1. units' \in {Empty, table} /\ UNCHANGED <<table, walk, req>>
    BY DEF IInv, TypeOK, Hierarchies, LoadTable, LoadFails
  <2>2. loader' \in 1..4
    <3>1. loader \in 1..4 /\ loader # 4
      BY DEF IInv, TypeOK, Hierarchies, LoadTable, LoadFails, Tables
    <3> QED BY <3>1 DEF LoadTable, LoadFails
  <2> QED BY <2>1, <2>2 DEF IInv, TypeOK, Hierarchies
<1>2. OneWalk'
  BY DEF IInv, OneWalk, LoadTable, LoadFails
<1>3. ASSUME NEW s \in Requests PROVE RequestOK(s)'
  <2>1. req[s].pc # "walking" /\ req'[s] = req[s]
    BY DEF LoadTable, LoadFails, Running
  <2> QED BY <2>1, Untouched DEF IInv
<1> QED BY <1>1, <1>2, <1>3 DEF IInv

LEMMA RestartStep ==
  ASSUME IInv, Restart
  PROVE  IInv'
<1>1. TypeOK'
  BY DEF IInv, TypeOK, Hierarchies, Restart, NoWalk, NoRequest, Stages, Roles,
         Kinds, Checks, Ids, Columns,
         Empty
<1>2. \A r \in Requests : req'[r].pc = "idle"
  BY DEF Restart, NoRequest
<1> QED BY <1>1, <1>2 DEF IInv, OneWalk, RequestOK, WalkOK, ScopeOK, AccessOK, LookupOK

\* What remains to be shown of a step of one request that leaves the loader alone
\* and during which no other request walks.
LEMMA RequestStep ==
  ASSUME IInv, NEW r \in Requests, NEW q,
         req' = [req EXCEPT ![r] = q],
         UNCHANGED <<table, units, loader>>,
         \A s \in Requests \ {r} : req[s].pc # "walking",
         q \in [pc : Stages, role : Roles, unit : Ids \union {NoUnit}, kind : Kinds,
                station : Ids, mine : BOOLEAN, scope : Seq(Ids), seen : {Empty, table},
                failed : BOOLEAN, asked : Columns, row : SUBSET Columns],
         walk' \in [queue : SUBSET Units, visited : SUBSET Units, descendants : Seq(Units)],
         RequestOK(r)'
  PROVE  IInv'
<1>1. req'[r] = q /\ \A s \in Requests \ {r} : req'[s] = req[s]
  BY DEF IInv, TypeOK, Hierarchies
<1>2. TypeOK'
  BY DEF IInv, TypeOK, Hierarchies
<1>3. OneWalk'
  BY <1>1 DEF OneWalk
<1>4. ASSUME NEW s \in Requests \ {r} PROVE RequestOK(s)'
  BY <1>1, Untouched DEF IInv
<1> QED BY <1>2, <1>3, <1>4 DEF IInv

LEMMA AskStep ==
  ASSUME IInv, NEW r \in Requests, Ask(r)
  PROVE  IInv'
<1>1. PICK role \in Roles, unit \in Ids \union {NoUnit}, kind \in Checks,
           station \in Ids, mine \in BOOLEAN : AskAs(r, role, unit, kind, station, mine)
  BY DEF Ask, Checks, Ids
<1> DEFINE q == [pc |-> IF Walks(role, unit) THEN "walking" ELSE "scoped",
                 role |-> role, unit |-> unit, kind |-> kind, station |-> station,
                 mine |-> mine, seen |-> units, failed |-> FALSE,
                 asked |-> "UnitID", row |-> {},
                 scope |-> IF Walks(role, unit) \/ Unrestricted(role)
                           THEN <<>> ELSE OwnUnit(unit)]
<1>2. UNCHANGED <<table, units, loader>> /\ \A s \in Requests : req[s].pc # "walking"
  BY DEF Ask, Running
<1>3. OwnUnit(unit) \in Seq(Ids)
  BY DEF OwnUnit, Ids
<1>4. q.pc \in Stages /\ q.scope \in Seq(Ids) /\ units \in {Empty, table} /\ kind \in Kinds
  BY <1>3 DEF Stages, IInv, TypeOK, Hierarchies, Kinds
<1>5. q \in [pc : Stages, role : Roles, unit : Ids \union {NoUnit}, kind : Kinds,
             station : Ids, mine : BOOLEAN, scope : Seq(Ids), seen : {Empty, table},
             failed : BOOLEAN, asked : Columns, row : SUBSET Columns]
  BY <1>4 DEF Columns
<1>6. req'[r] = q
  BY <1>1 DEF IInv, TypeOK, Hierarchies, AskAs
<1>7. kind # "lookup"
  BY DEF Checks
<1>8. CASE Walks(role, unit)
  <2>1. unit \in DOMAIN units /\ role = "supervisor" /\ DOMAIN units \subseteq Units
    BY <1>8, EmptyDomain DEF Walks, IInv, TypeOK, Hierarchies
  <2>2. walk' = [queue |-> {unit}, visited |-> {}, descendants |-> <<>>]
    BY <1>1, <1>8 DEF NoWalk, AskAs
  <2>3. walk' \in [queue : SUBSET Units, visited : SUBSET Units, descendants : Seq(Units)]
    BY <2>1, <2>2
  <2>4. q.pc = "walking"
    BY <1>8
  <2>5. WalkOK(r)'
    BY <1>2, <1>6, <2>1, <2>2, <2>4, ReachSelf, ListsNothing DEF WalkOK
  <2>6. ScopeOK(r)' /\ AccessOK(r)' /\ LookupOK(r)'
    BY <1>6, <1>7, <2>4 DEF ScopeOK, AccessOK, LookupOK
  <2>7. RequestOK(r)'
    BY <2>5, <2>6 DEF RequestOK
  <2> HIDE DEF q
  <2> QED BY <1>1, <1>2, <1>5, <2>3, <2>7, RequestStep DEF q, AskAs
<1>9. CASE ~Walks(role, unit)
  <2>1. walk' \in [queue : SUBSET Units, visited : SUBSET Units, descendants : Seq(Units)]
    BY <1>1, <1>9 DEF NoWalk, AskAs
  <2>2. q.pc = "scoped"
    BY <1>9
  <2>3. WalkOK(r)' /\ AccessOK(r)' /\ LookupOK(r)'
    BY <1>6, <1>7, <2>2 DEF WalkOK, AccessOK, LookupOK
  <2>4. ScopeOK(r)'
    <3>1. SUFFICES ASSUME ~Unrestricted(role)
                   PROVE  Lists(q.scope, Visible(units, role, unit))
      BY <1>6 DEF ScopeOK, Lists, Within
    <3>2. q.scope = OwnUnit(unit)
      BY <1>9, <3>1
    <3> QED BY <1>9, <3>2, OwnUnitListed DEF Walks
  <2>5. RequestOK(r)'
    BY <2>3, <2>4 DEF RequestOK
  <2> HIDE DEF q
  <2> QED BY <1>1, <1>2, <1>5, <2>1, <2>5, RequestStep DEF q, AskAs
<1> QED BY <1>8, <1>9

-----------------------------------------------------------------------------
(* The walk *)

\* What a walking request knows.
LEMMA Walking ==
  ASSUME IInv, NEW r \in Requests, req[r].pc = "walking"
  PROVE  /\ WalkOK(r) /\ LookupOK(r)
         /\ DOMAIN units \subseteq Units
         /\ req[r].role = "supervisor" /\ req[r].unit \in DOMAIN units
         /\ \A s \in Requests \ {r} : req[s].pc # "walking"
         /\ walk \in [queue : SUBSET Units, visited : SUBSET Units, descendants : Seq(Units)]
         /\ walk.queue \union walk.visited \subseteq Reach(units, req[r].unit)
         /\ req[r].unit \in walk.queue \union walk.visited
         /\ \A v \in DOMAIN units :
              units[v] \in walk.visited => v \in walk.queue \union walk.visited
         /\ Lists(walk.descendants, walk.visited)
<1>1. WalkOK(r) /\ LookupOK(r)
  BY DEF IInv, RequestOK
<1>2. DOMAIN units \subseteq Units
  BY EmptyDomain DEF IInv, TypeOK, Hierarchies
<1>3. \A s \in Requests \ {r} : req[s].pc # "walking"
  BY DEF IInv, OneWalk
<1>4. walk \in [queue : SUBSET Units, visited : SUBSET Units, descendants : Seq(Units)]
  BY DEF IInv, TypeOK, Hierarchies
<1>5. req[r].role = "supervisor" /\ req[r].unit \in DOMAIN units
  BY <1>1 DEF WalkOK
<1>6. /\ walk.queue \union walk.visited \subseteq Reach(units, req[r].unit)
      /\ req[r].unit \in walk.queue \union walk.visited
      /\ \A v \in DOMAIN units :
           units[v] \in walk.visited => v \in walk.queue \union walk.visited
      /\ Lists(walk.descendants, walk.visited)
  BY <1>1 DEF WalkOK
<1> QED BY <1>1, <1>2, <1>3, <1>4, <1>5, <1>6

\* A walk that went a step on and left the request as it was.
LEMMA WalkGoesOn ==
  ASSUME IInv, NEW r \in Requests, req[r].pc = "walking",
         UNCHANGED <<table, units, loader, req>>,
         walk' \in [queue : SUBSET Units, visited : SUBSET Units, descendants : Seq(Units)],
         walk'.queue \union walk'.visited \subseteq Reach(units, req[r].unit),
         req[r].unit \in walk'.queue \union walk'.visited,
         \A v \in DOMAIN units :
           units[v] \in walk'.visited => v \in walk'.queue \union walk'.visited,
         Lists(walk'.descendants, walk'.visited)
  PROVE  IInv'
<1>1. WalkOK(r)'
  BY Walking DEF WalkOK
<1>2. ScopeOK(r)' /\ AccessOK(r)'
  BY DEF ScopeOK, AccessOK
<1>3. LookupOK(r)'
  BY Walking DEF LookupOK
<1>4. RequestOK(r)'
  BY <1>1, <1>2, <1>3 DEF RequestOK
<1>5. req' = [req EXCEPT ![r] = req[r]]
  BY DEF IInv, TypeOK, Hierarchies
<1>6. req[r] \in [pc : Stages, role : Roles, unit : Ids \union {NoUnit}, kind : Kinds,
                 station : Ids, mine : BOOLEAN, scope : Seq(Ids), seen : {Empty, table},
                 failed : BOOLEAN, asked : Columns, row : SUBSET Columns]
  BY DEF IInv, TypeOK, Hierarchies
<1> QED BY <1>4, <1>5, <1>6, Walking, RequestStep

LEMMA VisitStep ==
  ASSUME IInv, NEW r \in Requests, Visit(r)
  PROVE  IInv'
<1>1. req[r].pc = "walking" /\ UNCHANGED <<table, units, loader, req>>
  BY DEF Visit
<1>2. PICK u \in walk.queue \ walk.visited :
        walk' = [queue |-> (walk.queue \ {u}) \union Children(units, u),
                 visited |-> walk.visited \union {u},
                 descendants |-> Append(walk.descendants, u)]
  BY DEF Visit
<1>3. Children(units, u) \subseteq Units /\ u \in Units
  BY <1>1, Walking DEF Children
<1>4. /\ Append(walk.descendants, u) \in Seq(Units)
      /\ Lists(Append(walk.descendants, u), walk.visited \union {u})
  BY <1>1, <1>2, <1>3, Walking, ListsAppend
<1>5. walk' \in [queue : SUBSET Units, visited : SUBSET Units, descendants : Seq(Units)]
  BY <1>1, <1>2, <1>3, <1>4, Walking
<1>6. u \in Reach(units, req[r].unit)
  BY <1>1, <1>2, Walking
<1>7. Children(units, u) \subseteq Reach(units, req[r].unit)
  BY <1>6, ReachChildren DEF Children
<1>8. walk'.queue \union walk'.visited \subseteq Reach(units, req[r].unit)
  BY <1>1, <1>2, <1>6, <1>7, Walking
<1>9. req[r].unit \in walk'.queue \union walk'.visited
  BY <1>1, <1>2, Walking
<1>10. ASSUME NEW v \in DOMAIN units, units[v] \in walk'.visited
       PROVE  v \in walk'.queue \union walk'.visited
  <2>1. CASE units[v] = u
    BY <1>2, <2>1 DEF Children
  <2>2. CASE units[v] \in walk.visited
    <3>1. v \in walk.queue \union walk.visited
      BY <1>1, <2>2, Walking
    <3> QED BY <1>2, <3>1
  <2> QED BY <1>2, <1>10, <2>1, <2>2
<1>11. Lists(walk'.descendants, walk'.visited)
  BY <1>2, <1>4
<1> QED BY <1>1, <1>5, <1>8, <1>9, <1>10, <1>11, WalkGoesOn

LEMMA SkipStep ==
  ASSUME IInv, NEW r \in Requests, Skip(r)
  PROVE  IInv'
<1>1. req[r].pc = "walking" /\ UNCHANGED <<table, units, loader, req>>
  BY DEF Skip
<1>2. PICK u \in walk.queue \intersect walk.visited :
        walk' = [walk EXCEPT !.queue = @ \ {u}]
  BY DEF Skip
<1>3. walk \in [queue : SUBSET Units, visited : SUBSET Units, descendants : Seq(Units)]
  BY <1>1, Walking
<1>4. /\ walk'.queue = walk.queue \ {u}
      /\ walk'.visited = walk.visited
      /\ walk'.descendants = walk.descendants
  BY <1>2, <1>3
<1>5. walk' \in [queue : SUBSET Units, visited : SUBSET Units, descendants : Seq(Units)]
  BY <1>2, <1>3
<1>6. walk'.queue \union walk'.visited = walk.queue \union walk.visited
  BY <1>2, <1>4
<1>7. /\ walk'.queue \union walk'.visited \subseteq Reach(units, req[r].unit)
      /\ req[r].unit \in walk'.queue \union walk'.visited
      /\ \A v \in DOMAIN units :
           units[v] \in walk'.visited => v \in walk'.queue \union walk'.visited
      /\ Lists(walk'.descendants, walk'.visited)
  BY <1>1, <1>4, <1>6, Walking
<1> QED BY <1>1, <1>5, <1>7, WalkGoesOn

\* The queue is empty: the visited units are closed and hold the start.
LEMMA VisitedAll ==
  ASSUME IInv, NEW r \in Requests, req[r].pc = "walking", walk.queue = {}
  PROVE  walk.visited = Reach(units, req[r].unit)
<1>1. walk.visited \subseteq Reach(units, req[r].unit) /\ req[r].unit \in walk.visited
  BY Walking
<1>2. walk.visited \in SUBSET DOMAIN units
  BY <1>1, ReachKnown
<1>3. Closed(units, walk.visited)
  BY Walking DEF Closed
<1> QED BY <1>1, <1>2, <1>3, ReachLeast

LEMMA ReturnStep ==
  ASSUME IInv, NEW r \in Requests, Return(r)
  PROVE  IInv'
<1> DEFINE q == [req[r] EXCEPT !.pc = "scoped", !.scope = walk.descendants]
<1>1. /\ req[r].pc = "walking" /\ walk.queue = {} /\ walk' = NoWalk
      /\ UNCHANGED <<table, units, loader>>
      /\ req' = [req EXCEPT ![r] = q]
  BY DEF Return
<1>2. req[r] \in [pc : Stages, role : Roles, unit : Ids \union {NoUnit}, kind : Kinds,
                 station : Ids, mine : BOOLEAN, scope : Seq(Ids), seen : {Empty, table},
                 failed : BOOLEAN, asked : Columns, row : SUBSET Columns]
  BY DEF IInv, TypeOK, Hierarchies
<1>3. walk.descendants \in Seq(Ids)
  BY <1>1, Walking DEF Ids
<1>4. q \in [pc : Stages, role : Roles, unit : Ids \union {NoUnit}, kind : Kinds,
             station : Ids, mine : BOOLEAN, scope : Seq(Ids), seen : {Empty, table},
             failed : BOOLEAN, asked : Columns, row : SUBSET Columns]
  BY <1>2, <1>3 DEF Stages
<1>5. walk' \in [queue : SUBSET Units, visited : SUBSET Units, descendants : Seq(Units)]
  BY <1>1 DEF NoWalk
<1>6. /\ q.pc = "scoped" /\ q.scope = walk.descendants /\ q.kind = req[r].kind
      /\ q.role = req[r].role /\ q.unit = req[r].unit /\ q.seen = req[r].seen
  BY <1>2
<1>7. req'[r] = q
  BY <1>1 DEF IInv, TypeOK, Hierarchies
<1>8. Lists(q.scope, Visible(q.seen, q.role, q.unit))
  <2>1. q.seen = units /\ q.role = "supervisor" /\ q.unit \in DOMAIN units
    BY <1>1, <1>6, Walking DEF WalkOK
  <2>2. Visible(q.seen, q.role, q.unit) = walk.visited
    BY <1>1, <1>6, <2>1, VisitedAll DEF Visible
  <2> QED BY <1>1, <1>6, <2>2, Walking
<1>9. WalkOK(r)' /\ AccessOK(r)'
  BY <1>6, <1>7 DEF WalkOK, AccessOK
<1>10. LookupOK(r)'
  BY <1>1, <1>6, <1>7, Walking DEF LookupOK
<1>11. ScopeOK(r)'
  BY <1>7, <1>8 DEF ScopeOK, Lists, Within
<1>12. RequestOK(r)'
  BY <1>9, <1>10, <1>11 DEF RequestOK
<1> HIDE DEF q
<1> QED BY <1>1, <1>4, <1>5, <1>12, Walking, RequestStep

-----------------------------------------------------------------------------
(* Decisions and lookups *)

\* A step that gives a request its verdict, and may note a failure, has only to
\* show that the verdict is right.
LEMMA VerdictStep ==
  ASSUME IInv, NEW r \in Requests, ~Running, NEW verdict \in {"granted", "denied"},
         NEW failed \in BOOLEAN,
         req[r].pc \in {"scoped", "looking"},
         req' = [req EXCEPT ![r] = [req[r] EXCEPT !.pc = verdict, !.failed = failed]],
         UNCHANGED <<table, units, loader, walk>>,
         req[r].pc = "scoped" =>
           (verdict = "granted") =
             \/ Unrestricted(req[r].role)
             \/ /\ ~failed
                /\ Visible(req[r].seen, req[r].role, req[r].unit) # {}
                /\ \/ req[r].station \in Visible(req[r].seen, req[r].role, req[r].unit)
                   \/ req[r].kind = "case" /\ req[r].mine,
         req[r].pc = "looking" /\ ~failed =>
           (verdict = "granted") = (req[r].station \in Units)
  PROVE  IInv'
<1> DEFINE q == [req[r] EXCEPT !.pc = verdict, !.failed = failed]
<1>1. req[r] \in [pc : Stages, role : Roles, unit : Ids \union {NoUnit}, kind : Kinds,
                 station : Ids, mine : BOOLEAN, scope : Seq(Ids), seen : {Empty, table},
                 failed : BOOLEAN, asked : Columns, row : SUBSET Columns]
  BY DEF IInv, TypeOK, Hierarchies
<1>2. q \in [pc : Stages, role : Roles, unit : Ids \union {NoUnit}, kind : Kinds,
             station : Ids, mine : BOOLEAN, scope : Seq(Ids), seen : {Empty, table},
             failed : BOOLEAN, asked : Columns, row : SUBSET Columns]
  BY <1>1 DEF Stages
<1>3. /\ q.pc = verdict /\ q.failed = failed /\ q.kind = req[r].kind
      /\ q.role = req[r].role /\ q.unit = req[r].unit /\ q.seen = req[r].seen
      /\ q.scope = req[r].scope /\ q.station = req[r].station /\ q.mine = req[r].mine
      /\ q.asked = req[r].asked /\ q.row = req[r].row
  BY <1>1
<1>4. req'[r] = q
  BY DEF IInv, TypeOK, Hierarchies
<1>5. ScopeOK(r) /\ AccessOK(r) /\ LookupOK(r)
  BY DEF IInv, RequestOK
<1>6. \A s \in Requests \ {r} : req[s].pc # "walking"
  BY DEF Running
<1>7. walk' \in [queue : SUBSET Units, visited : SUBSET Units, descendants : Seq(Units)]
  BY DEF IInv, TypeOK, Hierarchies
<1> HIDE DEF q
<1>8. WalkOK(r)'
  BY <1>3, <1>4 DEF WalkOK
<1>9. CASE req[r].pc = "scoped"
  <2>1. req[r].kind # "lookup"
    BY <1>5, <1>9 DEF LookupOK
  <2>2. ScopeOK(r)'
    BY <1>3, <1>4, <1>5, <1>9 DEF ScopeOK, Lists, Within
  <2>3. AccessOK(r)'
    BY <1>3, <1>4, <1>9, <2>1 DEF AccessOK
  <2>4. LookupOK(r)'
    BY <1>3, <1>4, <2>1 DEF LookupOK
  <2>5. RequestOK(r)'
    BY <1>8, <2>2, <2>3, <2>4 DEF RequestOK
  <2>6. req' = [req EXCEPT ![r] = q] /\ UNCHANGED <<table, units, loader>>
    BY DEF q
  <2> QED BY <1>2, <1>6, <1>7, <2>5, <2>6, RequestStep
<1>10. CASE req[r].pc = "looking"
  <2>1. req[r].kind = "lookup"
    BY <1>5, <1>10 DEF LookupOK
  <2>2. ScopeOK(r)'
    <3>1. req[r].role = "investigator" /\ req[r].scope = <<>> /\ req[r].unit = NoUnit
      BY <1>5, <1>10 DEF LookupOK
    <3>2. req'[r].role = "investigator" /\ req'[r].scope = <<>> /\ req'[r].unit = NoUnit
      BY <1>3, <1>4, <3>1
    <3>3. Visible(req'[r].seen, req'[r].role, req'[r].unit) = {}
      BY <3>2 DEF Visible
    <3> QED BY <3>2, <3>3, ListsNothing DEF ScopeOK
  <2>3. AccessOK(r)'
    BY <1>3, <1>4, <2>1 DEF AccessOK
  <2>4. LookupOK(r)'
    BY <1>3, <1>4, <1>5, <1>10, <2>1 DEF LookupOK
  <2>5. RequestOK(r)'
    BY <1>8, <2>2, <2>3, <2>4 DEF RequestOK
  <2>6. req' = [req EXCEPT ![r] = q] /\ UNCHANGED <<table, units, loader>>
    BY DEF q
  <2> QED BY <1>2, <1>6, <1>7, <2>5, <2>6, RequestStep
<1> QED BY <1>9, <1>10

\* For a restricted role the list is empty exactly if it may see nothing.
LEMMA ListNonEmpty ==
  ASSUME IInv, NEW r \in Requests, req[r].pc = "scoped", ~Unrestricted(req[r].role)
  PROVE  /\ (req[r].scope = <<>>) <=> Visible(req[r].seen, req[r].role, req[r].unit) = {}
         /\ Within(req[r].scope, req[r].station)
              <=> req[r].station \in Visible(req[r].seen, req[r].role, req[r].unit)
<1> DEFINE V == Visible(req[r].seen, req[r].role, req[r].unit)
<1>1. Lists(req[r].scope, V)
  BY DEF IInv, RequestOK, ScopeOK
<1>2. V \subseteq Ids
  BY VisibleKnown DEF IInv
<1>3. req[r].scope \in Seq(Ids) /\ req[r].station \in Ids
  BY DEF IInv, TypeOK, Hierarchies
<1> HIDE DEF V
<1>4. ASSUME req[r].scope = <<>> PROVE V = {}
  BY <1>1, <1>2, <1>4 DEF Lists, Within
<1>5. ASSUME req[r].scope # <<>> PROVE V # {}
  <2>1. 1 \in DOMAIN req[r].scope /\ req[r].scope[1] \in Ids
    BY <1>3, <1>5
  <2>2. Within(req[r].scope, req[r].scope[1])
    BY <2>1 DEF Within
  <2> QED BY <1>1, <2>1, <2>2 DEF Lists
<1>6. Within(req[r].scope, req[r].station) <=> req[r].station \in V
  BY <1>1, <1>3 DEF Lists
<1> QED BY <1>4, <1>5, <1>6 DEF V

LEMMA DecideStep ==
  ASSUME IInv, NEW r \in Requests, DecideByRole(r) \/ DecideByRow(r) \/ DecideOnError(r)
  PROVE  IInv'
<1> DEFINE V == Visible(req[r].seen, req[r].role, req[r].unit)
           mine == req[r].kind = "case" /\ req[r].mine
<1>1. req[r].pc = "scoped" /\ ~Running /\ UNCHANGED <<table, units, loader, walk>>
  BY DEF DecideByRole, DecideByRow, DecideOnError, Asks, Queries, Decided
<1>2. /\ req \in [Requests -> [pc : Stages, role : Roles, unit : Ids \union {NoUnit},
                    kind : Kinds, station : Ids, mine : BOOLEAN, scope : Seq(Ids),
                    seen : {Empty, table}, failed : BOOLEAN, asked : Columns,
                    row : SUBSET Columns]]
      /\ req[r].failed \in BOOLEAN
      /\ [req[r] EXCEPT !.failed = req[r].failed] = req[r]
  BY DEF IInv, TypeOK, Hierarchies
<1>3. CASE DecideByRole(r)
  <2> DEFINE v == IF Unrestricted(req[r].role) THEN "granted" ELSE "denied"
  <2>1. req' = [req EXCEPT ![r] = [req[r] EXCEPT !.pc = v, !.failed = req[r].failed]]
    BY <1>2, <1>3 DEF DecideByRole, Decided
  <2>2. v \in {"granted", "denied"}
    OBVIOUS
  <2>3. (v = "granted") = (\/ Unrestricted(req[r].role)
                           \/ ~req[r].failed /\ V # {} /\ (req[r].station \in V \/ mine))
    <3>1. CASE Unrestricted(req[r].role)
      BY <3>1
    <3>2. CASE ~Unrestricted(req[r].role)
      <4>1. V = {}
        BY <1>1, <1>3, <3>2, ListNonEmpty DEF DecideByRole
      <4>2. v = "denied"
        BY <3>2
      <4> QED BY <3>2, <4>1, <4>2
    <3> QED BY <3>1, <3>2
  <2> HIDE DEF v
  <2> QED BY <1>1, <1>2, <2>1, <2>2, <2>3, VerdictStep
<1>4. CASE DecideByRow(r)
  <2> DEFINE g == Within(req[r].scope, req[r].station) \/ mine
             v == IF g THEN "granted" ELSE "denied"
  <2>1. req' = [req EXCEPT ![r] = [req[r] EXCEPT !.pc = v, !.failed = req[r].failed]]
    BY <1>2, <1>4 DEF DecideByRow, Decided
  <2>2. v \in {"granted", "denied"} /\ (v = "granted" <=> g)
    OBVIOUS
  <2>3. ~Unrestricted(req[r].role) /\ req[r].scope # <<>>
    BY <1>4 DEF DecideByRow, Queries
  <2>4. V # {} /\ (Within(req[r].scope, req[r].station) <=> req[r].station \in V)
    BY <1>1, <2>3, ListNonEmpty
  <2>5. ~req[r].failed
    BY <1>1 DEF IInv, RequestOK, LookupOK
  <2>6. (v = "granted") = (\/ Unrestricted(req[r].role)
                           \/ ~req[r].failed /\ V # {} /\ (req[r].station \in V \/ mine))
    BY <2>2, <2>3, <2>4, <2>5
  <2> HIDE DEF v
  <2> QED BY <1>1, <1>2, <2>1, <2>2, <2>6, VerdictStep
<1>5. CASE DecideOnError(r)
  <2>1. req' = [req EXCEPT ![r] = [req[r] EXCEPT !.pc = "denied", !.failed = TRUE]]
    BY <1>2, <1>5 DEF DecideOnError
  <2>2. ~Unrestricted(req[r].role)
    BY <1>5 DEF DecideOnError, Queries
  <2> QED BY <1>1, <2>1, <2>2, VerdictStep
<1> QED BY <1>3, <1>4, <1>5

LEMMA FinishStep ==
  ASSUME IInv, NEW r \in Requests, Finish(r)
  PROVE  IInv'
<1>1. /\ req' = [req EXCEPT ![r] = NoRequest]
      /\ UNCHANGED <<table, units, loader, walk>>
      /\ \A s \in Requests : req[s].pc # "walking"
  BY DEF Finish, Running
<1>2. NoRequest \in [pc : Stages, role : Roles, unit : Ids \union {NoUnit}, kind : Kinds,
                    station : Ids, mine : BOOLEAN, scope : Seq(Ids), seen : {Empty, table},
                    failed : BOOLEAN, asked : Columns, row : SUBSET Columns]
  BY DEF NoRequest, Stages, Roles, Kinds, Checks, Ids, Columns
<1>3. walk' \in [queue : SUBSET Units, visited : SUBSET Units, descendants : Seq(Units)]
  BY <1>1 DEF IInv, TypeOK, Hierarchies
<1>4. req'[r].pc = "idle"
  BY <1>1 DEF IInv, TypeOK, Hierarchies, NoRequest
<1>5. RequestOK(r)'
  BY <1>4 DEF RequestOK, WalkOK, ScopeOK, AccessOK, LookupOK
<1> QED BY <1>1, <1>2, <1>3, <1>5, RequestStep

LEMMA LookupStep ==
  ASSUME IInv, NEW r \in Requests, Lookup(r)
  PROVE  IInv'
<1>1. /\ UNCHANGED <<table, units, loader, walk>>
      /\ \A s \in Requests : req[s].pc # "walking"
  BY DEF Lookup, Running
<1>2. PICK id \in Ids, column \in Columns :
        Looks(r, id, column, IF units = Empty THEN "looking"
                             ELSE IF id \in DOMAIN units THEN "granted" ELSE "denied")
  BY DEF Lookup
<1> DEFINE stage == IF units = Empty THEN "looking"
                    ELSE IF id \in DOMAIN units THEN "granted" ELSE "denied"
           q == [pc |-> stage, role |-> "investigator", unit |-> NoUnit, kind |-> "lookup",
                 station |-> id, mine |-> FALSE, scope |-> <<>>, seen |-> units,
                 failed |-> FALSE, asked |-> column,
                 row |-> IF stage = "looking" THEN {column} ELSE {"UnitID"}]
<1>3. req' = [req EXCEPT ![r] = q]
  BY <1>2 DEF Looks
<1>4. stage \in Stages /\ units \in {Empty, table}
  BY DEF Stages, IInv, TypeOK, Hierarchies
<1>5. q \in [pc : Stages, role : Roles, unit : Ids \union {NoUnit}, kind : Kinds,
             station : Ids, mine : BOOLEAN, scope : Seq(Ids), seen : {Empty, table},
             failed : BOOLEAN, asked : Columns, row : SUBSET Columns]
  <2>1. "investigator" \in Roles /\ "lookup" \in Kinds
    BY DEF Roles, Kinds
  <2>2. (IF stage = "looking" THEN {column} ELSE {"UnitID"}) \in SUBSET Columns
    BY DEF Columns
  <2> HIDE DEF stage
  <2> QED BY <1>4, <2>1, <2>2
<1>6. /\ q.pc = stage /\ q.kind = "lookup" /\ q.station = id /\ q.role = "investigator"
      /\ q.unit = NoUnit /\ q.scope = <<>> /\ q.seen = units
      /\ q.asked = column
      /\ q.row = IF stage = "looking" THEN {column} ELSE {"UnitID"}
      /\ (stage = "looking") = (units = Empty)
  OBVIOUS
<1>7. req'[r] = q
  BY <1>3 DEF IInv, TypeOK, Hierarchies
<1>8. walk' \in [queue : SUBSET Units, visited : SUBSET Units, descendants : Seq(Units)]
  BY <1>1 DEF IInv, TypeOK, Hierarchies
<1>9. units # Empty => DOMAIN units = Units
  BY DEF IInv, TypeOK, Hierarchies
<1>10. stage \in {"looking", "granted", "denied"}
       /\ (stage # "looking" => (stage = "granted") = (id \in Units))
  BY <1>9
<1> HIDE DEF q, stage
<1>11. Visible(q.seen, q.role, q.unit) = {}
  BY <1>6 DEF Visible
<1>12. ScopeOK(r)'
  BY <1>6, <1>7, <1>11, ListsNothing DEF ScopeOK
<1>13. WalkOK(r)' /\ AccessOK(r)' /\ LookupOK(r)'
  BY <1>6, <1>7, <1>10 DEF WalkOK, AccessOK, LookupOK
<1>14. RequestOK(r)'
  BY <1>12, <1>13 DEF RequestOK
<1> QED BY <1>1, <1>3, <1>5, <1>8, <1>14, RequestStep

LEMMA LookupAnswerStep ==
  ASSUME IInv, NEW r \in Requests, LookupReply(r) \/ LookupFails(r)
  PROVE  IInv'
<1>1. req[r].pc = "looking" /\ ~Running /\ UNCHANGED <<table, units, loader, walk>>
  BY DEF LookupReply, LookupFails, Decided
<1>2. /\ req \in [Requests -> [pc : Stages, role : Roles, unit : Ids \union {NoUnit},
                    kind : Kinds, station : Ids, mine : BOOLEAN, scope : Seq(Ids),
                    seen : {Empty, table}, failed : BOOLEAN, asked : Columns,
                    row : SUBSET Columns]]
      /\ req[r].failed \in BOOLEAN
  BY DEF IInv, TypeOK, Hierarchies
<1>3. CASE LookupReply(r)
  <2> DEFINE v == IF req[r].station \in Units THEN "granted" ELSE "denied"
  <2>1. req' = [req EXCEPT ![r] = [req[r] EXCEPT !.pc = v, !.failed = req[r].failed]]
    BY <1>2, <1>3 DEF LookupReply, Decided
  <2>2. v \in {"granted", "denied"} /\ (v = "granted") = (req[r].station \in Units)
    OBVIOUS
  <2> HIDE DEF v
  <2> QED BY <1>1, <1>2, <2>1, <2>2, VerdictStep
<1>4. CASE LookupFails(r)
  <2>1. req' = [req EXCEPT ![r] = [req[r] EXCEPT !.pc = "denied", !.failed = TRUE]]
    BY <1>2, <1>4 DEF LookupFails
  <2> QED BY <1>1, <2>1, VerdictStep
<1> QED BY <1>3, <1>4

-----------------------------------------------------------------------------
(* The theorems *)

LEMMA StepOK == IInv /\ [Next]_vars => IInv'
<1> SUFFICES ASSUME IInv, [Next]_vars PROVE IInv'
  OBVIOUS
<1>1. CASE LoadTable \/ LoadFails
  BY <1>1, LoadStep
<1>2. CASE Restart
  BY <1>2, RestartStep
<1>3. ASSUME NEW r \in Requests, Ask(r) \/ Visit(r) \/ Skip(r) \/ Return(r)
      PROVE  IInv'
  BY <1>3, AskStep, VisitStep, SkipStep, ReturnStep
<1>4. ASSUME NEW r \in Requests, DecideByRole(r) \/ DecideByRow(r) \/ DecideOnError(r)
      PROVE  IInv'
  BY <1>4, DecideStep
<1>5. ASSUME NEW r \in Requests,
             Finish(r) \/ Lookup(r) \/ LookupReply(r) \/ LookupFails(r)
      PROVE  IInv'
  BY <1>5, FinishStep, LookupStep, LookupAnswerStep
<1>6. CASE UNCHANGED vars
  <2>1. TypeOK' /\ OneWalk'
    BY <1>6 DEF vars, IInv, TypeOK, Hierarchies, OneWalk
  <2>2. ASSUME NEW s \in Requests PROVE RequestOK(s)'
    <3>1. req'[s] = req[s] /\ walk' = walk /\ units' = units /\ RequestOK(s)
      BY <1>6 DEF vars, IInv
    <3> QED BY <3>1, Untouched
  <2> QED BY <2>1, <2>2 DEF IInv
<1> QED BY <1>1, <1>2, <1>3, <1>4, <1>5, <1>6 DEF Next

\* The inductive invariant holds always, for every Unit table.
THEOREM Inductive == Spec => []IInv
BY InitOK, StepOK, PTL DEF Spec

\* Every variable stays in its type, whatever the table and the requests.
THEOREM TypeCorrect == Spec => []TypeOK
<1>1. IInv => TypeOK
  BY DEF IInv
<1> QED BY <1>1, Inductive, PTL

\* For every set of units and every table of parents, with cycles or not, the
\* walk's list is exactly what can be reached, each unit once.
THEOREM WalkExact == Spec => []ScopeIsReach
<1>1. IInv => ScopeIsReach
  BY DEF IInv, RequestOK, ScopeOK, Lists, ScopeIsReach
<1> QED BY <1>1, Inductive, PTL

\* A case or an accused is shown to those whose units cover it, and a case to the
\* officer in charge who has a unit, and to nobody else: the guards as they are,
\* which refuse an officer in charge without a unit.
THEOREM AccessHolds == Spec => []AccessExact
<1>1. IInv => AccessExact
  BY DEF IInv, RequestOK, AccessOK, AccessExact
<1> QED BY <1>1, Inductive, PTL

\* A lookup answered in memory finds a row exactly when the table has one, and
\* the same one when it asks for the id.
THEOREM LookupHolds == Spec => []LookupAgrees
<1>1. IInv => LookupAgrees
  BY DEF IInv, RequestOK, LookupOK, LookupAgrees
<1> QED BY <1>1, Inductive, PTL

-----------------------------------------------------------------------------
(* The refinement: every step is one of the abstract service, or none *)

\* A step of one request changes what the service has of it, and of no other.
LEMMA OneView ==
  ASSUME IInv, NEW r \in Requests, NEW q, req' = [req EXCEPT ![r] = q]
  PROVE  /\ questions' = [questions EXCEPT ![r] = QuestionOf(r)']
         /\ scopes' = [scopes EXCEPT ![r] = ScopeOf(r)']
         /\ verdicts' = [verdicts EXCEPT ![r] = VerdictOf(r)']
         /\ req'[r] = q
<1>1. req'[r] = q /\ \A s \in Requests \ {r} : req'[s] = req[s]
  BY DEF IInv, TypeOK
<1>2. \A s \in Requests \ {r} :
        /\ QuestionOf(s)' = QuestionOf(s)
        /\ ScopeOf(s)' = ScopeOf(s)
        /\ VerdictOf(s)' = VerdictOf(s)
  BY <1>1 DEF QuestionOf, ScopeOf, VerdictOf, Guarded, Within
<1>3. questions' = [questions EXCEPT ![r] = QuestionOf(r)']
  BY <1>2 DEF questions
<1>4. scopes' = [scopes EXCEPT ![r] = ScopeOf(r)']
  BY <1>2 DEF scopes
<1>5. verdicts' = [verdicts EXCEPT ![r] = VerdictOf(r)']
  BY <1>2 DEF verdicts
<1> QED BY <1>1, <1>3, <1>4, <1>5

\* A step after which the service has the same of the request is no step of its.
LEMMA NoView ==
  ASSUME IInv, NEW r \in Requests, NEW q, req' = [req EXCEPT ![r] = q],
         UNCHANGED <<table, units>>,
         QuestionOf(r)' = QuestionOf(r), ScopeOf(r)' = ScopeOf(r),
         VerdictOf(r)' = VerdictOf(r)
  PROVE  UNCHANGED Service!serviceVars
<1>1. questions' = questions
  BY OneView DEF questions
<1>2. scopes' = scopes
  BY OneView DEF scopes
<1>3. verdicts' = verdicts
  BY OneView DEF verdicts
<1> QED BY <1>1, <1>2, <1>3 DEF Service!serviceVars

\* What a list of the invariant shows to the service.
LEMMA ListedScope ==
  ASSUME IInv, NEW r \in Requests, Guarded(r), ~Unrestricted(req[r].role),
         req[r].pc \in {"scoped", "granted", "denied"}
  PROVE  ScopeOf(r) = Visible(req[r].seen, req[r].role, req[r].unit)
<1>1. Lists(req[r].scope, Visible(req[r].seen, req[r].role, req[r].unit))
  BY DEF IInv, RequestOK, ScopeOK
<1>2. Visible(req[r].seen, req[r].role, req[r].unit) \subseteq Ids
  BY VisibleKnown DEF IInv
<1> QED BY <1>1, <1>2 DEF ScopeOf, Lists

LEMMA InitRefines == Init => Service!ServiceInit
<1> SUFFICES ASSUME Init PROVE Service!ServiceInit
  OBVIOUS
<1>1. \A r \in Requests :
        /\ QuestionOf(r) = Service!Nobody
        /\ ScopeOf(r) = {}
        /\ VerdictOf(r) = "none"
  BY DEF Init, NoRequest, QuestionOf, ScopeOf, VerdictOf, Guarded, Service!Nobody
<1> QED BY <1>1 DEF Init, Service!ServiceInit, questions, scopes, verdicts,
                    Hierarchies, Service!Hierarchies, Empty, Service!Empty, Ids, Service!Ids

\* The service's own operators are those of the hierarchy.
LEMMA SameTree ==
  /\ Service!Hierarchies = Hierarchies /\ Service!Empty = Empty
  /\ Service!Ids = Ids /\ Service!Roles = Roles
  /\ \A role : Service!Unrestricted(role) <=> Unrestricted(role)
  /\ \A h, role, unit : Service!Visible(h, role, unit) = Visible(h, role, unit)
<1>1. /\ Service!Hierarchies = Hierarchies /\ Service!Empty = Empty
      /\ Service!Ids = Ids /\ Service!Roles = Roles
  BY DEF Hierarchies, Service!Hierarchies, Empty, Service!Empty, Ids, Service!Ids,
         Roles, Service!Roles
<1>2. \A role : Service!Unrestricted(role) <=> Unrestricted(role)
  BY DEF Unrestricted, Service!Unrestricted
<1>3. \A h, u : Service!Reach(h, u) = Reach(h, u)
  BY DEF Reach, Service!Reach, Closed, Service!Closed
<1>4. \A h, role, unit : Service!Visible(h, role, unit) = Visible(h, role, unit)
  BY <1>3 DEF Visible, Service!Visible
<1> QED BY <1>1, <1>2, <1>4

LEMMA AskRefines ==
  ASSUME IInv, IInv', NEW r \in Requests, Ask(r)
  PROVE  Service!Put(r)
<1>1. PICK role \in Roles, unit \in Ids \union {NoUnit}, kind \in Checks,
           station \in Ids, mine \in BOOLEAN : AskAs(r, role, unit, kind, station, mine)
  BY DEF Ask, Checks, Ids
<1> DEFINE q == [pc |-> IF Walks(role, unit) THEN "walking" ELSE "scoped",
                 role |-> role, unit |-> unit, kind |-> kind, station |-> station,
                 mine |-> mine, seen |-> units, failed |-> FALSE,
                 asked |-> "UnitID", row |-> {},
                 scope |-> IF Walks(role, unit) \/ Unrestricted(role)
                           THEN <<>> ELSE OwnUnit(unit)]
<1> DEFINE s == [role |-> role, unit |-> unit, station |-> station, mine |-> mine]
<1>2. req' = [req EXCEPT ![r] = q] /\ kind # "lookup"
  BY <1>1 DEF AskAs, Checks
<1> HIDE DEF q
<1>3. /\ questions' = [questions EXCEPT ![r] = QuestionOf(r)']
      /\ scopes' = [scopes EXCEPT ![r] = ScopeOf(r)']
      /\ verdicts' = [verdicts EXCEPT ![r] = VerdictOf(r)']
      /\ req'[r] = q
  BY <1>2, OneView
<1>4. verdicts[r] = "none" /\ scopes[r] = {} /\ UNCHANGED <<table, units>>
  BY DEF Ask, verdicts, scopes, VerdictOf, ScopeOf, Guarded
<1>5. Guarded(r)' /\ QuestionOf(r)' = s
  BY <1>2, <1>3 DEF Guarded, QuestionOf, q
<1>6. s \in Service!Questions
  BY SameTree DEF Service!Questions
<1>7. CASE Walks(role, unit)
  <2>1. ScopeOf(r)' = {} /\ VerdictOf(r)' = "asked"
    BY <1>3, <1>5, <1>7 DEF ScopeOf, VerdictOf, Within, q
  <2>2. scopes' = scopes
    BY <1>3, <1>4, <2>1 DEF scopes
  <2> HIDE DEF s
  <2> QED BY <1>3, <1>4, <1>5, <1>6, <2>1, <2>2 DEF Service!Put
<1>8. CASE ~Walks(role, unit)
  <2>1. VerdictOf(r)' = "found" /\ req'[r].pc = "scoped"
    BY <1>3, <1>5, <1>8 DEF VerdictOf, q
  <2>2. ScopeOf(r)' = Service!Found(units, s)
    <3>1. CASE Unrestricted(role)
      BY <1>3, <1>5, <3>1, SameTree DEF ScopeOf, Within, Service!Found, q
    <3>2. CASE ~Unrestricted(role)
      <4>1. ScopeOf(r)' = Visible(units, role, unit)
        <5>1. /\ ~Unrestricted(req'[r].role) /\ req'[r].role = role
              /\ req'[r].unit = unit /\ req'[r].seen = units
          BY <1>3, <3>2 DEF q
        <5>2. RequestOK(r)' /\ TypeOK'
          BY DEF IInv
        <5>3. Lists(req'[r].scope, Visible(units, role, unit))
          BY <2>1, <5>1, <5>2 DEF RequestOK, ScopeOK, Lists, Within
        <5>4. Visible(units, role, unit) \subseteq Ids
          <6>1. DOMAIN units \subseteq Units
            BY EmptyDomain DEF IInv, TypeOK, Hierarchies
          <6> QED BY <6>1, ReachKnown DEF Visible, Ids
        <5> QED BY <1>5, <5>3, <5>4 DEF ScopeOf, Lists, Within
      <4> QED BY <3>2, <4>1, SameTree DEF Service!Found
    <3> QED BY <3>1, <3>2
  <2> HIDE DEF s
  <2> QED BY <1>3, <1>4, <1>5, <1>6, <2>1, <2>2 DEF Service!Put
<1> QED BY <1>7, <1>8

LEMMA ReturnRefines ==
  ASSUME IInv, IInv', NEW r \in Requests, Return(r)
  PROVE  Service!Find(r)
<1> DEFINE q == [req[r] EXCEPT !.pc = "scoped", !.scope = walk.descendants]
<1>1. req' = [req EXCEPT ![r] = q] /\ UNCHANGED <<table, units>>
  BY DEF Return
<1>2. req[r].role = "supervisor" /\ req[r].seen = units /\ req[r].kind # "lookup"
  BY Walking DEF Return, WalkOK, LookupOK
<1>3. /\ req'[r].pc = "scoped" /\ req'[r].role = req[r].role
      /\ req'[r].unit = req[r].unit /\ req'[r].station = req[r].station
      /\ req'[r].mine = req[r].mine /\ req'[r].kind = req[r].kind
      /\ req'[r].seen = req[r].seen
  BY <1>1 DEF IInv, TypeOK
<1> HIDE DEF q
<1>4. /\ questions' = [questions EXCEPT ![r] = QuestionOf(r)']
      /\ scopes' = [scopes EXCEPT ![r] = ScopeOf(r)']
      /\ verdicts' = [verdicts EXCEPT ![r] = VerdictOf(r)']
  BY <1>1, OneView
<1>5. /\ Guarded(r) /\ Guarded(r)' /\ QuestionOf(r)' = QuestionOf(r)
      /\ VerdictOf(r) = "asked" /\ VerdictOf(r)' = "found"
      /\ questions[r].role = req[r].role /\ questions[r].unit = req[r].unit
  BY <1>2, <1>3 DEF Return, Guarded, QuestionOf, VerdictOf, questions
<1>6. questions' = questions /\ verdicts[r] = "asked"
  BY <1>4, <1>5 DEF questions, verdicts
<1>7. ScopeOf(r)' = Service!Found(units, questions[r])
  <2>1. RequestOK(r)' /\ TypeOK' /\ ~Unrestricted(req[r].role)
    BY <1>2 DEF IInv, Unrestricted
  <2>2. Lists(req'[r].scope, Visible(units, req[r].role, req[r].unit))
    BY <1>2, <1>3, <2>1 DEF RequestOK, ScopeOK, Lists, Within
  <2>3. Visible(units, req[r].role, req[r].unit) \subseteq Ids
    BY <1>2, VisibleKnown DEF IInv
  <2>4. ScopeOf(r)' = Visible(units, req[r].role, req[r].unit)
    BY <1>5, <2>2, <2>3 DEF ScopeOf, Lists, Within
  <2> QED BY <1>5, <2>1, <2>4, SameTree DEF Service!Found
<1> QED BY <1>1, <1>4, <1>5, <1>6, <1>7 DEF Service!Find

\* The three decisions: the case is shown only if the service would show it, and
\* hidden only from a role that is restricted.
LEMMA DecideRefines ==
  ASSUME IInv, IInv', NEW r \in Requests,
         DecideByRole(r) \/ DecideByRow(r) \/ DecideOnError(r)
  PROVE  Service!Grant(r) \/ Service!Deny(r)
<1> DEFINE q == req'[r]
           V == Visible(req[r].seen, req[r].role, req[r].unit)
<1>1. /\ req[r].pc = "scoped" /\ req[r].kind # "scope" /\ UNCHANGED <<table, units>>
      /\ req[r].kind # "lookup"
  BY DEF DecideByRole, DecideByRow, DecideOnError, Asks, Queries, Decided,
         IInv, RequestOK, LookupOK
<1>2. /\ req' = [req EXCEPT ![r] = q]
      /\ q.pc \in {"granted", "denied"}
      /\ q.role = req[r].role /\ q.unit = req[r].unit /\ q.kind = req[r].kind
      /\ q.station = req[r].station /\ q.mine = req[r].mine
      /\ q.scope = req[r].scope /\ q.seen = req[r].seen
  <2>1. CASE DecideByRole(r)
    BY <2>1 DEF DecideByRole, Decided, IInv, TypeOK
  <2>2. CASE DecideByRow(r)
    BY <2>2 DEF DecideByRow, Decided, IInv, TypeOK
  <2>3. CASE DecideOnError(r)
    BY <2>3 DEF DecideOnError, IInv, TypeOK
  <2> QED BY <2>1, <2>2, <2>3
<1>3. AccessOK(r)'
  BY DEF IInv, RequestOK
<1>4. q.pc = "granted" <=>
        (\/ Unrestricted(req[r].role)
         \/ ~q.failed /\ V # {} /\ (req[r].station \in V \/ (req[r].kind = "case" /\ req[r].mine)))
  BY <1>1, <1>2, <1>3 DEF AccessOK
<1>5. QuestionOf(r)' = QuestionOf(r) /\ ScopeOf(r)' = ScopeOf(r)
  BY <1>1, <1>2 DEF QuestionOf, ScopeOf, Guarded, Within
<1>6. VerdictOf(r) = "found" /\ VerdictOf(r)' = q.pc
  BY <1>1, <1>2 DEF VerdictOf, Guarded
<1>7. ~Unrestricted(req[r].role) => ScopeOf(r) = V
  BY <1>1, ListedScope DEF Guarded
<1>8. questions[r] = [role |-> req[r].role, unit |-> req[r].unit,
                      station |-> req[r].station, mine |-> req[r].mine]
  BY <1>1 DEF questions, QuestionOf, Guarded
<1> HIDE DEF q, V
<1>9. /\ questions' = questions /\ scopes' = scopes /\ verdicts[r] = "found"
      /\ verdicts' = [verdicts EXCEPT ![r] = q.pc]
      /\ scopes[r] = ScopeOf(r)
  <2>1. /\ questions' = [questions EXCEPT ![r] = QuestionOf(r)]
        /\ scopes' = [scopes EXCEPT ![r] = ScopeOf(r)]
        /\ verdicts' = [verdicts EXCEPT ![r] = q.pc]
    BY <1>2, <1>5, <1>6, OneView
  <2> QED BY <2>1, <1>6 DEF questions, scopes, verdicts
<1>10. CASE q.pc = "granted"
  <2>1. Service!Covered(r)
    BY <1>4, <1>7, <1>8, <1>9, <1>10
    DEF Service!Covered, Unrestricted, Service!Unrestricted
  <2> QED BY <1>1, <1>9, <1>10, <2>1 DEF Service!Grant
<1>11. CASE q.pc = "denied"
  <2>1. ~Service!Unrestricted(questions[r].role)
    BY <1>4, <1>8, <1>11 DEF Unrestricted, Service!Unrestricted
  <2> QED BY <1>1, <1>9, <1>11, <2>1 DEF Service!Deny
<1> QED BY <1>2, <1>10, <1>11

LEMMA FinishRefines ==
  ASSUME IInv, NEW r \in Requests, Finish(r)
  PROVE  Service!Leave(r) \/ UNCHANGED Service!serviceVars
<1>1. /\ req' = [req EXCEPT ![r] = NoRequest]
      /\ UNCHANGED <<table, units>>
      /\ req[r].pc \in {"scoped", "granted", "denied"}
  BY DEF Finish
<1>2. QuestionOf(r)' = Service!Nobody /\ ScopeOf(r)' = {} /\ VerdictOf(r)' = "none"
  <2>1. req'[r].pc = "idle"
    BY <1>1 DEF IInv, TypeOK, NoRequest
  <2> QED BY <2>1 DEF QuestionOf, ScopeOf, VerdictOf, Guarded, Service!Nobody
<1>3. CASE req[r].kind = "lookup"
  <2>1. QuestionOf(r) = Service!Nobody /\ ScopeOf(r) = {} /\ VerdictOf(r) = "none"
    BY <1>3 DEF QuestionOf, ScopeOf, VerdictOf, Guarded, Service!Nobody
  <2> QED BY <1>1, <1>2, <2>1, NoView
<1>4. CASE req[r].kind # "lookup"
  <2>1. verdicts[r] \in {"found", "granted", "denied"}
    BY <1>1, <1>4 DEF verdicts, VerdictOf, Guarded
  <2> QED BY <1>1, <1>2, <2>1, OneView DEF Service!Leave
<1> QED BY <1>3, <1>4

\* A query of the Unit table is not the service's business.
LEMMA LookupRefines ==
  ASSUME IInv, NEW r \in Requests, Lookup(r) \/ LookupReply(r) \/ LookupFails(r)
  PROVE  UNCHANGED Service!serviceVars
<1> DEFINE q == req'[r]
<1>1. /\ req' = [req EXCEPT ![r] = q] /\ q.kind = "lookup"
      /\ UNCHANGED <<table, units>>
      /\ req[r].pc = "idle" \/ req[r].kind = "lookup"
  <2>1. CASE Lookup(r)
    BY <2>1 DEF Lookup, Looks, IInv, TypeOK
  <2>2. CASE LookupReply(r)
    <3>1. req[r].kind = "lookup"
      BY <2>2 DEF LookupReply, IInv, RequestOK, LookupOK
    <3> QED BY <2>2, <3>1 DEF LookupReply, Decided, IInv, TypeOK
  <2>3. CASE LookupFails(r)
    <3>1. req[r].kind = "lookup"
      BY <2>3 DEF LookupFails, IInv, RequestOK, LookupOK
    <3> QED BY <2>3, <3>1 DEF LookupFails, IInv, TypeOK
  <2> QED BY <2>1, <2>2, <2>3
<1>2. ~Guarded(r) /\ ~Guarded(r)'
  BY <1>1 DEF Guarded
<1>3. QuestionOf(r)' = QuestionOf(r) /\ ScopeOf(r)' = ScopeOf(r)
      /\ VerdictOf(r)' = VerdictOf(r)
  BY <1>2 DEF QuestionOf, ScopeOf, VerdictOf
<1> HIDE DEF q
<1> QED BY <1>1, <1>3, NoView

\* Steps that change none of the requests.
LEMMA SameViews ==
  ASSUME req' = req
  PROVE  UNCHANGED <<questions, scopes, verdicts>>
BY DEF questions, scopes, verdicts, QuestionOf, ScopeOf, VerdictOf, Guarded, Within

LEMMA StepRefines ==
  IInv /\ IInv' /\ [Next]_vars => [Service!ServiceNext]_(Service!serviceVars)
<1> SUFFICES ASSUME IInv, IInv', [Next]_vars
             PROVE  Service!ServiceNext \/ UNCHANGED Service!serviceVars
  OBVIOUS
<1>1. CASE LoadTable
  <2>1. units' = table \/ units' = units
    BY <1>1 DEF LoadTable
  <2>2. UNCHANGED <<table, questions, scopes, verdicts>>
    BY <1>1, SameViews DEF LoadTable
  <2> QED BY <2>1, <2>2 DEF Service!ServiceNext, Service!Load, Service!serviceVars
<1>2. CASE LoadFails
  BY <1>2, SameViews DEF LoadFails, Service!serviceVars
<1>3. CASE Restart
  <2>1. \A r \in Requests : /\ QuestionOf(r)' = Service!Nobody
                            /\ ScopeOf(r)' = {} /\ VerdictOf(r)' = "none"
    BY <1>3 DEF Restart, NoRequest, QuestionOf, ScopeOf, VerdictOf, Guarded, Service!Nobody
  <2>2. Service!Forget
    BY <1>3, <2>1, SameTree DEF Restart, Service!Forget, questions, scopes, verdicts
  <2> QED BY <2>2 DEF Service!ServiceNext
<1>4. ASSUME NEW r \in Requests, Ask(r) PROVE Service!ServiceNext
  BY <1>4, AskRefines DEF Service!ServiceNext
<1>5. ASSUME NEW r \in Requests, Visit(r) \/ Skip(r) PROVE UNCHANGED Service!serviceVars
  BY <1>5, SameViews DEF Visit, Skip, Service!serviceVars
<1>6. ASSUME NEW r \in Requests, Return(r) PROVE Service!ServiceNext
  BY <1>6, ReturnRefines DEF Service!ServiceNext
<1>7. ASSUME NEW r \in Requests, DecideByRole(r) \/ DecideByRow(r) \/ DecideOnError(r)
      PROVE  Service!ServiceNext
  BY <1>7, DecideRefines DEF Service!ServiceNext
<1>8. ASSUME NEW r \in Requests, Finish(r)
      PROVE  Service!ServiceNext \/ UNCHANGED Service!serviceVars
  BY <1>8, FinishRefines DEF Service!ServiceNext
<1>9. ASSUME NEW r \in Requests, Lookup(r) \/ LookupReply(r) \/ LookupFails(r)
      PROVE  UNCHANGED Service!serviceVars
  BY <1>9, LookupRefines
<1>10. CASE UNCHANGED vars
  BY <1>10, SameViews DEF vars, Service!serviceVars
<1> QED BY <1>1, <1>2, <1>3, <1>4, <1>5, <1>6, <1>7, <1>8, <1>9, <1>10 DEF Next

\* The walk, loop iteration by loop iteration, implements a service that answers
\* at once with all that is visible and shows a case only to those it covers.
THEOREM RefinesService == Spec => ImplementsService
<1>1. IInv /\ IInv' /\ [Next]_vars => [Service!ServiceNext]_(Service!serviceVars)
  BY StepRefines
<1>2. Init => Service!ServiceInit
  BY InitRefines
<1> QED BY <1>1, <1>2, Inductive, PTL DEF Spec, ImplementsService, Service!ServiceSpec

=============================================================================
