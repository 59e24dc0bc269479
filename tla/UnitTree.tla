------------------------------ MODULE UnitTree ------------------------------
(***************************************************************************)
(* The Unit table as a hierarchy, and what the roles of auth/role_guard.py *)
(* are meant to see of it, said without a walk.                            *)
(***************************************************************************)

CONSTANTS Units,        \* ids in the Unit table
          Elsewhere,    \* an id that is not in the table
          NoUnit,       \* NULL, or an officer without a unit
          Requests      \* requests the process handles at once

ASSUME HierarchyAssumption ==
  /\ Elsewhere \notin Units
  /\ NoUnit \notin Units \union {Elsewhere}

Empty == [u \in {} |-> NoUnit]
Ids == Units \union {Elsewhere}
Hierarchies == [Units -> Units \union {Elsewhere, NoUnit}]

\* An unknown role is treated as an investigator.
Roles == {"investigator", "supervisor", "analyst"}
Unrestricted(role) == role = "analyst"      \* analyst and policymaker

Children(h, u) == {v \in DOMAIN h : h[v] = u}

\* The smallest set with u that contains the children of its members.
Closed(h, S) == \A v \in DOMAIN h : h[v] \in S => v \in S
Reach(h, u) ==
  {v \in DOMAIN h : \A S \in SUBSET DOMAIN h : u \in S /\ Closed(h, S) => v \in S}

\* The units a restricted role should see, in a hierarchy h.
Visible(h, role, unit) ==
  IF role = "supervisor" /\ unit \in DOMAIN h THEN Reach(h, unit)
  ELSE IF unit = NoUnit THEN {} ELSE {unit}

=============================================================================
