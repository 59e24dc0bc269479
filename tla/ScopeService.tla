---------------------------- MODULE ScopeService ----------------------------
(***************************************************************************)
(* What auth/role_guard.py promises its callers: a request asks for its    *)
(* officer's units, gets at once those of the hierarchy then in memory,    *)
(* and may be shown one case or accused only if they cover its station or  *)
(* the officer, with some unit, is in charge. The hierarchy is read once   *)
(* per process.                                                            *)
(***************************************************************************)
EXTENDS UnitTree

VARIABLES
  table,      \* the Unit table in MySQL
  hierarchy,  \* the one in memory
  question,   \* who asks, per request
  scope,      \* the units found, once they are
  verdict     \* whether the case is shown

serviceVars == <<table, hierarchy, question, scope, verdict>>

Nobody == [role |-> "investigator", unit |-> NoUnit, station |-> Elsewhere, mine |-> FALSE]
Questions == [role : Roles, unit : Ids \union {NoUnit}, station : Ids, mine : BOOLEAN]


ServiceInit ==
  /\ table \in Hierarchies
  /\ hierarchy = Empty
  /\ question = [r \in Requests |-> Nobody]
  /\ scope = [r \in Requests |-> {}]
  /\ verdict = [r \in Requests |-> "none"]

Load ==
  /\ hierarchy' = table
  /\ UNCHANGED <<table, question, scope, verdict>>

\* Restart: memory and requests are gone.
Forget ==
  /\ hierarchy' = Empty
  /\ question' = [r \in Requests |-> Nobody]
  /\ scope' = [r \in Requests |-> {}]
  /\ verdict' = [r \in Requests |-> "none"]
  /\ UNCHANGED table

\* What the role of q sees in h: everything is said by no list at all.
Found(h, q) == IF Unrestricted(q.role) THEN {} ELSE Visible(h, q.role, q.unit)

\* The units are found at once, or the request waits for them ...
Put(r) ==
  /\ verdict[r] = "none"
  /\ \E q \in Questions :
       /\ question' = [question EXCEPT ![r] = q]
       /\ \/ /\ scope' = [scope EXCEPT ![r] = Found(hierarchy, q)]
             /\ verdict' = [verdict EXCEPT ![r] = "found"]
          \/ /\ scope' = scope
             /\ verdict' = [verdict EXCEPT ![r] = "asked"]
  /\ UNCHANGED <<table, hierarchy>>

\* ... and gets those of the hierarchy in memory when it does.
Find(r) ==
  /\ verdict[r] = "asked"
  /\ scope' = [scope EXCEPT ![r] = Found(hierarchy, question[r])]
  /\ verdict' = [verdict EXCEPT ![r] = "found"]
  /\ UNCHANGED <<table, hierarchy, question>>

Covered(r) ==
  \/ Unrestricted(question[r].role)
  \/ scope[r] # {} /\ (question[r].station \in scope[r] \/ question[r].mine)

Grant(r) ==
  /\ verdict[r] = "found"
  /\ Covered(r)
  /\ verdict' = [verdict EXCEPT ![r] = "granted"]
  /\ UNCHANGED <<table, hierarchy, question, scope>>

\* Not covered, or the query failed; an unrestricted role needs no query.
Deny(r) ==
  /\ verdict[r] = "found"
  /\ ~Unrestricted(question[r].role)
  /\ verdict' = [verdict EXCEPT ![r] = "denied"]
  /\ UNCHANGED <<table, hierarchy, question, scope>>

Leave(r) ==
  /\ verdict[r] \in {"found", "granted", "denied"}
  /\ question' = [question EXCEPT ![r] = Nobody]
  /\ scope' = [scope EXCEPT ![r] = {}]
  /\ verdict' = [verdict EXCEPT ![r] = "none"]
  /\ UNCHANGED <<table, hierarchy>>

ServiceNext ==
  \/ Load \/ Forget
  \/ \E r \in Requests :
       Put(r) \/ Find(r) \/ Grant(r) \/ Deny(r) \/ Leave(r)

ServiceSpec == ServiceInit /\ [][ServiceNext]_serviceVars

=============================================================================
