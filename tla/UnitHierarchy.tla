---------------------------- MODULE UnitHierarchy ----------------------------
(***************************************************************************)
(* The lookup tables a process keeps in memory (db/lookup_cache.py) and    *)
(* what is decided by them: the units a role may see, with the walk down   *)
(* the Unit tree one loop iteration per step, and access to one case or    *)
(* one accused (auth/role_guard.py).                                       *)
(*                                                                         *)
(* The walk has no await: while it runs, nothing else of the process does. *)
(***************************************************************************)
EXTENDS UnitTree, Naturals, Sequences

VARIABLES
  table,   \* ParentUnit of each unit in MySQL; cycles and unknown parents occur
  units,   \* _units: empty until the table was read
  loader,  \* the table init_lookup_cache reads next, or "done"
  walk,    \* locals of the walk in progress
  req      \* the requests

vars == <<table, units, loader, walk, req>>

Tables == <<"Unit", "CrimeSubHead", "CaseStatusMaster", "done">>
Checks == {"scope", "case", "accused"}
Kinds == Checks \union {"lookup"}
Stages == {"idle", "walking", "scoped", "looking", "granted", "denied"}

\* Columns of the Unit table that queries by id ask for.
Columns == {"UnitID", "UnitName"}

\* One request: who asks what, the units found, the column a lookup asks for and
\* those of the row it gets, if there is one, and for the properties the hierarchy
\* the units were found in and whether the database failed.
NoRequest == [pc |-> "idle", role |-> "investigator", unit |-> NoUnit, kind |-> "scope",
              station |-> Elsewhere, mine |-> FALSE, scope |-> <<>>,
              seen |-> Empty, failed |-> FALSE, asked |-> "UnitID", row |-> {}]

NoWalk == [queue |-> {}, visited |-> {}, descendants |-> <<>>]

Init ==
  /\ table \in Hierarchies
  /\ units = Empty
  /\ loader = 1
  /\ walk = NoWalk
  /\ req = [r \in Requests |-> NoRequest]

Running == \E r \in Requests : req[r].pc = "walking"

-----------------------------------------------------------------------------
(* init_lookup_cache: three tables, each kept as it is when its query fails *)

LoadTable ==
  /\ ~Running
  /\ Tables[loader] # "done"
  /\ units' = IF Tables[loader] = "Unit" THEN table ELSE units
  /\ loader' = loader + 1
  /\ UNCHANGED <<table, walk, req>>

LoadFails ==
  /\ ~Running
  /\ Tables[loader] # "done"
  /\ loader' = loader + 1
  /\ UNCHANGED <<table, units, walk, req>>

-----------------------------------------------------------------------------
(* get_scoped_unit_ids and get_descendant_units_mem *)

\* A supervisor whose unit is in the table has the tree walked.
Walks(role, unit) == role = "supervisor" /\ unit \in DOMAIN units

OwnUnit(unit) == IF unit = NoUnit THEN <<>> ELSE <<unit>>

\* A supervisor's walk begins; any other scope is there at once.
AskAs(r, role, unit, kind, station, mine) ==
  /\ req' = [req EXCEPT ![r] =
       [pc |-> IF Walks(role, unit) THEN "walking" ELSE "scoped",
        role |-> role, unit |-> unit, kind |-> kind, station |-> station,
        mine |-> mine, seen |-> units, failed |-> FALSE, asked |-> "UnitID", row |-> {},
        scope |-> IF Walks(role, unit) \/ Unrestricted(role)
                  THEN <<>> ELSE OwnUnit(unit)]]
  /\ walk' = IF Walks(role, unit) THEN [NoWalk EXCEPT !.queue = {unit}] ELSE NoWalk

Ask(r) ==
  /\ ~Running
  /\ req[r].pc = "idle"
  /\ \E role \in Roles, unit \in Ids \union {NoUnit}, station \in Ids, mine \in BOOLEAN :
       \/ AskAs(r, role, unit, "scope", Elsewhere, FALSE)
       \/ AskAs(r, role, unit, "case", station, mine)
       \/ AskAs(r, role, unit, "accused", station, FALSE)
  /\ UNCHANGED <<table, units, loader>>

\* Slip: the walk stops at the children.
VisitShallow(r) ==
  /\ req[r].pc = "walking"
  /\ \E u \in walk.queue \ walk.visited :
       walk' = [queue |-> (walk.queue \ {u}) \union
                           IF u = req[r].unit THEN Children(units, u) ELSE {},
                visited |-> walk.visited \union {u},
                descendants |-> Append(walk.descendants, u)]
  /\ UNCHANGED <<table, units, loader, req>>

Visit(r) ==
  /\ req[r].pc = "walking"
  /\ \E u \in walk.queue \ walk.visited :
       walk' = [queue |-> (walk.queue \ {u}) \union Children(units, u),
                visited |-> walk.visited \union {u},
                descendants |-> Append(walk.descendants, u)]
  /\ UNCHANGED <<table, units, loader, req>>

\* Slip: a unit met again is left in the queue.
SkipStays(r) ==
  /\ req[r].pc = "walking"
  /\ \E u \in walk.queue \intersect walk.visited : walk' = walk
  /\ UNCHANGED <<table, units, loader, req>>

\* A unit met again, as in a cycle of parents.
Skip(r) ==
  /\ req[r].pc = "walking"
  /\ \E u \in walk.queue \intersect walk.visited :
       walk' = [walk EXCEPT !.queue = @ \ {u}]
  /\ UNCHANGED <<table, units, loader, req>>

Return(r) ==
  /\ req[r].pc = "walking"
  /\ walk.queue = {}
  /\ req' = [req EXCEPT ![r].pc = "scoped", ![r].scope = walk.descendants]
  /\ walk' = NoWalk
  /\ UNCHANGED <<table, units, loader>>

-----------------------------------------------------------------------------
(* officer_can_access_case and officer_can_access_accused *)

Within(list, u) == \E i \in DOMAIN list : list[i] = u

Asks(r) == req[r].pc = "scoped" /\ req[r].kind # "scope" /\ ~Running

Decided(r, granted) ==
  /\ req' = [req EXCEPT ![r].pc = IF granted THEN "granted" ELSE "denied"]
  /\ UNCHANGED <<table, units, loader, walk>>

\* Roles that need no query: unrestricted, or nothing to look in.
DecideByRole(r) ==
  /\ Asks(r)
  /\ Unrestricted(req[r].role) \/ req[r].scope = <<>>
  /\ Decided(r, Unrestricted(req[r].role))

Queries(r) == Asks(r) /\ ~Unrestricted(req[r].role) /\ req[r].scope # <<>>

\* The row is found: its station is in the list, or for a case the officer is
\* the one it is assigned to.
DecideByRow(r) ==
  /\ Queries(r)
  /\ Decided(r, Within(req[r].scope, req[r].station)
                \/ (req[r].kind = "case" /\ req[r].mine))

\* Slip: a failed query lets the officer through.
DecideOnErrorOpen(r) ==
  /\ Queries(r)
  /\ req' = [req EXCEPT ![r].pc = "granted", ![r].failed = TRUE]
  /\ UNCHANGED <<table, units, loader, walk>>

DecideOnError(r) ==
  /\ Queries(r)
  /\ req' = [req EXCEPT ![r].pc = "denied", ![r].failed = TRUE]
  /\ UNCHANGED <<table, units, loader, walk>>

-----------------------------------------------------------------------------
(* intercept_lookup_query: a query of the Unit table by id *)

\* Memory answers with the id alone, whatever the query asks for; MySQL with what
\* it asks for.
Looks(r, id, column, stage) ==
  req' = [req EXCEPT ![r] =
    [pc |-> stage, role |-> "investigator", unit |-> NoUnit, kind |-> "lookup", station |-> id,
     mine |-> FALSE, scope |-> <<>>, seen |-> units, failed |-> FALSE, asked |-> column,
     row |-> IF stage = "looking" THEN {column} ELSE {"UnitID"}]]

\* Slip: the query is answered from memory before there is anything in it.
LookupUnloaded(r) ==
  /\ ~Running
  /\ req[r].pc = "idle"
  /\ \E id \in Ids, column \in Columns :
       Looks(r, id, column, IF id \in DOMAIN units THEN "granted" ELSE "denied")
  /\ UNCHANGED <<table, units, loader, walk>>

\* From memory once it is loaded, from MySQL before.
Lookup(r) ==
  /\ ~Running
  /\ req[r].pc = "idle"
  /\ \E id \in Ids, column \in Columns :
       Looks(r, id, column, IF units = Empty THEN "looking"
                            ELSE IF id \in DOMAIN units THEN "granted" ELSE "denied")
  /\ UNCHANGED <<table, units, loader, walk>>

LookupReply(r) ==
  /\ req[r].pc = "looking"
  /\ ~Running
  /\ Decided(r, req[r].station \in Units)

LookupFails(r) ==
  /\ req[r].pc = "looking"
  /\ ~Running
  /\ req' = [req EXCEPT ![r].pc = "denied", ![r].failed = TRUE]
  /\ UNCHANGED <<table, units, loader, walk>>

-----------------------------------------------------------------------------

\* The response is sent.
Finish(r) ==
  /\ ~Running
  /\ \/ req[r].pc \in {"granted", "denied"}
     \/ req[r].pc = "scoped" /\ req[r].kind = "scope"
  /\ req' = [req EXCEPT ![r] = NoRequest]
  /\ UNCHANGED <<table, units, loader, walk>>

\* The process starts anew, with nothing in memory.
Restart ==
  /\ units' = Empty
  /\ loader' = 1
  /\ walk' = NoWalk
  /\ req' = [r \in Requests |-> NoRequest]
  /\ UNCHANGED table

WalkStep(r) == Visit(r) \/ Skip(r) \/ Return(r)

Next ==
  \/ LoadTable \/ LoadFails \/ Restart
  \/ \E r \in Requests :
       \/ Ask(r) \/ Visit(r) \/ Skip(r) \/ Return(r)
       \/ DecideByRole(r) \/ DecideByRow(r) \/ DecideOnError(r) \/ Finish(r)
       \/ Lookup(r) \/ LookupReply(r) \/ LookupFails(r)

\* The loop runs on: there is no await in it.
Spec == Init /\ [][Next]_vars /\ \A r \in Requests : WF_vars(WalkStep(r))

-----------------------------------------------------------------------------
(* Properties *)

\* Every variable is of its type (lookup_cache.py:5, :67-69).
TypeOK ==
  /\ table \in Hierarchies
  /\ units \in {Empty, table}
  /\ loader \in 1..4
  /\ walk \in [queue : SUBSET Units, visited : SUBSET Units, descendants : Seq(Units)]
  /\ req \in [Requests ->
       [pc : Stages, role : Roles, unit : Ids \union {NoUnit}, kind : Kinds,
        station : Ids, mine : BOOLEAN, scope : Seq(Ids), seen : {Empty, table},
        failed : BOOLEAN, asked : Columns, row : SUBSET Columns]]

\* Whatever the table looks like - chains, trees, cycles, parents that do not
\* exist - the list a restricted role gets holds exactly the units below its own
\* in the table then in memory, each of them once; before the table is loaded, or
\* if it does not know the unit, its own unit (get_descendant_units_mem, :54-92).
ScopeIsReach ==
  \A r \in Requests :
    req[r].pc \in {"scoped", "granted", "denied"} /\ ~Unrestricted(req[r].role) =>
      /\ \A v \in Ids : Within(req[r].scope, v)
                          <=> v \in Visible(req[r].seen, req[r].role, req[r].unit)
      /\ \A i, j \in DOMAIN req[r].scope : req[r].scope[i] = req[r].scope[j] => i = j

\* A case or an accused is shown exactly to the unrestricted roles and, as long as
\* the query does not fail, to those with a unit below which its station is or who,
\* with some unit, are in charge of the case: without a unit nothing is looked up,
\* an own case neither (officer_can_access_case, :88-89, and _accused).
AccessExact ==
  \A r \in Requests :
    req[r].pc \in {"granted", "denied"} /\ req[r].kind # "lookup" =>
      (req[r].pc = "granted") =
        \/ Unrestricted(req[r].role)
        \/ /\ ~req[r].failed
           /\ Visible(req[r].seen, req[r].role, req[r].unit) # {}
           /\ \/ req[r].station \in Visible(req[r].seen, req[r].role, req[r].unit)
              \/ req[r].kind = "case" /\ req[r].mine

\* A query for a unit answered in memory finds a row exactly when MySQL would, at
\* every moment of loading, and for a query of the id the same row
\* (intercept_lookup_query, :108-117). A query of another column has its column
\* as long as the table is not in memory, and then the id in its place: the comment
\* at :112 has queries of the id in mind, the test at :113 takes any by id.
LookupAgrees ==
  \A r \in Requests :
    req[r].pc \in {"granted", "denied"} /\ req[r].kind = "lookup" /\ ~req[r].failed =>
      /\ (req[r].pc = "granted") = (req[r].station \in Units)
      /\ req[r].pc = "granted" =>
           req[r].row = IF req[r].seen = Empty THEN {req[r].asked} ELSE {"UnitID"}

\* The walk ends, in a cycle of parents too (the visited set, :73-75).
EveryWalkEnds ==
  \A r \in Requests : req[r].pc = "walking" ~> req[r].pc # "walking"

-----------------------------------------------------------------------------
(* Refinement *)

\* A query of the Unit table asks for no scope, and is nobody's question.
Guarded(r) == req[r].kind # "lookup" /\ req[r].pc # "idle"

QuestionOf(r) ==
  IF Guarded(r)
  THEN [role |-> req[r].role, unit |-> req[r].unit,
        station |-> req[r].station, mine |-> req[r].mine]
  ELSE [role |-> "investigator", unit |-> NoUnit, station |-> Elsewhere, mine |-> FALSE]

ScopeOf(r) == IF Guarded(r) THEN {u \in Ids : Within(req[r].scope, u)} ELSE {}

VerdictOf(r) ==
  IF ~Guarded(r) THEN "none"
  ELSE IF req[r].pc = "walking" THEN "asked"
  ELSE IF req[r].pc = "scoped" THEN "found" ELSE req[r].pc

questions == [r \in Requests |-> QuestionOf(r)]
scopes == [r \in Requests |-> ScopeOf(r)]
verdicts == [r \in Requests |-> VerdictOf(r)]

Service == INSTANCE ScopeService WITH
  hierarchy <- units, question <- questions, scope <- scopes, verdict <- verdicts

\* The walk, its queue and its tests are a step of the abstract service, which
\* answers with the whole of what is visible in the hierarchy then in memory,
\* and shows a case only to those it covers (get_scoped_unit_ids and the two
\* guards of role_guard.py on top of lookup_cache.py).
ImplementsService == Service!ServiceSpec

=============================================================================
