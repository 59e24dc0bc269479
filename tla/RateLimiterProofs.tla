------------------------- MODULE RateLimiterProofs -------------------------
(***************************************************************************)
(* What holds of RateLimiter for every number of processes, stations,       *)
(* windows and requests.                                                    *)
(***************************************************************************)
EXTENDS RateLimiter, FiniteSetTheorems, TLAPS

\* The pass has a station in hand only inside its per-station part, and the
\* stations it has still to visit keep an entry: the hot path replaces one, and
\* only the pass removes one.
PassHolds ==
    \A i \in Instances :
        /\ \A u \in sync[i].todo : slot[i][u] # NoWindow
        /\ sync[i].pc # "idle" => sync[i].cur \in Windows /\ sync[i].cur <= now
        /\ sync[i].pc \notin {"idle", "pass"} =>
             /\ sync[i].unit \in Units
             /\ sync[i].win \in Windows
             /\ sync[i].win < now \/ slot[i][sync[i].unit] = sync[i].win

\* What the pass is writing is part of what the entry still owes.
CapturedOwed ==
    \A i \in Instances :
        sync[i].pc \in {"insert", "inserted"} => sync[i].captured <= Held(i).unflushed

\* A process has let nothing through in a window it has no entry for yet.
NothingAhead ==
    \A i \in Instances, u \in Units :
        /\ slot[i][u] # NoWindow => slot[i][u] <= now
        /\ \A w \in Windows :
             w > now \/ (w = now /\ slot[i][u] # now) => own[i][u][w] = 0

\* What a process let through is in the table or still owed to it.
OwnAccounted ==
    \A i \in Instances, u \in Units, w \in Windows :
        own[i][u][w] + InFlight(i, u, w) <= rate[u][w] + entry[i][u][w].unflushed

\* The shared total the pass has read already covers what it does not owe.
SharedCovers ==
    \A i \in Instances :
        sync[i].pc = "selected" =>
            own[i][sync[i].unit][sync[i].win] <= sync[i].shared + Held(i).unflushed

IInv ==
    /\ TypeOK
    /\ PassHolds
    /\ CapturedOwed
    /\ NothingAhead
    /\ OwnAccounted
    /\ SharedCovers
    /\ OwnCounted

-----------------------------------------------------------------------------
\* One update of a function of three arguments: it stays in its type and
\* changes at one point only.
LEMMA Update3 ==
    ASSUME NEW A, NEW B, NEW C, NEW D, NEW f \in [A -> [B -> [C -> D]]],
           NEW a \in A, NEW b \in B, NEW c \in C, NEW d \in D,
           NEW g, g = [f EXCEPT ![a][b][c] = d]
    PROVE  /\ g \in [A -> [B -> [C -> D]]]
           /\ \A x \in A, y \in B, z \in C :
                g[x][y][z] = IF x = a /\ y = b /\ z = c THEN d ELSE f[x][y][z]
  OBVIOUS

\* The same for two arguments.
LEMMA Update2 ==
    ASSUME NEW A, NEW B, NEW D, NEW f \in [A -> [B -> D]],
           NEW a \in A, NEW b \in B, NEW d \in D,
           NEW g, g = [f EXCEPT ![a][b] = d]
    PROVE  /\ g \in [A -> [B -> D]]
           /\ \A x \in A, y \in B : g[x][y] = IF x = a /\ y = b THEN d ELSE f[x][y]
  OBVIOUS

\* The windows are numbers, and NoWindow is none of them.
LEMMA WindowFacts ==
    /\ Windows \subseteq Nat
    /\ NoWindow \notin Windows
  BY ConstantsAssumption DEF Windows

\* The type invariant, component by component.
LEMMA Types ==
    ASSUME TypeOK
    PROVE  /\ now \in Windows
           /\ \A i \in Instances : sync[i] \in PassState
           /\ \A i \in Instances, u \in Units :
                /\ slot[i][u] \in Windows \cup {NoWindow}
                /\ \A w \in Windows :
                     /\ entry[i][u][w] \in Entry
                     /\ own[i][u][w] \in Nat
                     /\ rate[u][w] \in Nat
  BY DEF TypeOK

\* The fields of the two records.
LEMMA Fields ==
    /\ \A e \in Entry :
         e.count \in Nat /\ e.unflushed \in Nat /\ e.cap \in Caps \cup {NoCap}
    /\ \A s \in PassState :
         /\ s.captured \in Nat /\ s.shared \in Nat /\ s.todo \subseteq Units
         /\ s.unit \in Units \cup {NoWindow}
         /\ s.win \in Windows \cup {NoWindow}
         /\ s.cur \in Windows \cup {NoWindow}
  BY DEF Entry, PassState

\* Counting one more request.
LEMMA Counting ==
    ASSUME NEW r \in Entry, NEW e, e = [r EXCEPT !.count = @ + 1, !.unflushed = @ + 1]
    PROVE  /\ e \in Entry
           /\ e.count = r.count + 1
           /\ e.unflushed = r.unflushed + 1
           /\ e.cap = r.cap
  <1>1. r.count \in Nat /\ r.unflushed \in Nat /\ r.cap \in Caps \cup {NoCap}
    BY Fields
  <1>2. e = [count |-> r.count + 1, unflushed |-> r.unflushed + 1, cap |-> r.cap]
    BY DEF Entry
  <1> QED
    BY <1>1, <1>2 DEF Entry

\* What is in flight is a number, and part of what the entry owes.
LEMMA InFlightFacts ==
    ASSUME TypeOK, CapturedOwed, NEW i \in Instances, NEW u \in Units, NEW w \in Windows
    PROVE  InFlight(i, u, w) \in Nat /\ InFlight(i, u, w) <= entry[i][u][w].unflushed
  <1>1. CASE sync[i].pc = "inserted" /\ sync[i].unit = u /\ sync[i].win = w
    BY <1>1, Types, Fields DEF CapturedOwed, InFlight, Held
  <1>2. CASE ~(sync[i].pc = "inserted" /\ sync[i].unit = u /\ sync[i].win = w)
    BY <1>2, Types, Fields DEF InFlight
  <1> QED
    BY <1>1, <1>2

\* The initial state satisfies the inductive invariant.
LEMMA InitIInv == Init => IInv
  <1> SUFFICES ASSUME Init PROVE IInv
    OBVIOUS
  <1> USE ConstantsAssumption DEF Init
  <1>1. TypeOK
    BY DEF TypeOK, Windows, PassState, Idle, Blank, Fresh, Caps, Entry
  <1>2. PassHolds /\ CapturedOwed /\ SharedCovers
    BY DEF PassHolds, CapturedOwed, SharedCovers, Idle
  <1>3. NothingAhead /\ OwnAccounted /\ OwnCounted
    BY DEF NothingAhead, OwnAccounted, OwnCounted, InFlight, Idle, Blank, Fresh
  <1> QED
    BY <1>1, <1>2, <1>3 DEF IInv

\* A request that is let through keeps the inductive invariant.
LEMMA AdmitIInv ==
    ASSUME IInv, NEW i \in Instances, NEW u \in Units, Admit(i, u)
    PROVE  IInv'
  <1> USE ConstantsAssumption
  <1> DEFINE e == [HotEntry(i, u) EXCEPT !.count = @ + 1, !.unflushed = @ + 1]
  <1>0. /\ TypeOK /\ PassHolds /\ CapturedOwed /\ NothingAhead /\ OwnAccounted
        /\ SharedCovers /\ OwnCounted
    BY DEF IInv
  <1>1. /\ now \in Windows
        /\ HotEntry(i, u) \in Entry
        /\ slot[i][u] = now => HotEntry(i, u) = entry[i][u][now]
        /\ slot[i][u] # now => HotEntry(i, u).count = 0 /\ HotEntry(i, u).unflushed = 0
    <2>1. PrevCap(i, u) \in Caps \cup {NoCap}
      BY <1>0, Types, Fields DEF PrevCap
    <2> QED
      BY <1>0, <2>1, Types DEF HotEntry, Fresh, Entry
  <1>2. /\ e \in Entry
        /\ e.count = HotEntry(i, u).count + 1
        /\ e.unflushed = HotEntry(i, u).unflushed + 1
    BY <1>1, Counting
  <1> HIDE DEF e
  <1>3. /\ entry' \in [Instances -> [Units -> [Windows -> Entry]]]
        /\ \A x \in Instances, y \in Units, z \in Windows :
             entry'[x][y][z] = IF x = i /\ y = u /\ z = now THEN e ELSE entry[x][y][z]
    <2>1. entry' = [entry EXCEPT ![i][u][now] = e]
      BY DEF Admit, Install, e
    <2>2. entry \in [Instances -> [Units -> [Windows -> Entry]]]
      BY <1>0 DEF TypeOK
    <2>3. i \in Instances /\ u \in Units /\ now \in Windows /\ e \in Entry
      BY <1>1, <1>2
    <2> QED
      BY <2>1, <2>2, <2>3, SMTT(30)
  <1>4. /\ own' \in [Instances -> [Units -> [Windows -> Nat]]]
        /\ \A x \in Instances, y \in Units, z \in Windows :
             own'[x][y][z] = IF x = i /\ y = u /\ z = now THEN own[i][u][now] + 1 ELSE own[x][y][z]
    BY <1>0, <1>1, Types, Update3 DEF Admit, TypeOK
  <1>5. /\ slot' \in [Instances -> [Units -> Windows \cup {NoWindow}]]
        /\ \A x \in Instances, y \in Units :
             slot'[x][y] = IF x = i /\ y = u THEN now ELSE slot[x][y]
    BY <1>0, <1>1, Update2 DEF Admit, Install, TypeOK
  <1>6. UNCHANGED <<now, phase, sync, rate, faults, restarts, replayed, discarded>>
    BY DEF Admit
  <1>7. TypeOK'
    BY <1>0, <1>1, <1>3, <1>4, <1>5, <1>6 DEF TypeOK, Admit
  <1>8. PassHolds'
    <2> SUFFICES ASSUME NEW j \in Instances
                 PROVE  (/\ \A v \in sync[j].todo : slot[j][v] # NoWindow
                         /\ sync[j].pc # "idle" => sync[j].cur \in Windows /\ sync[j].cur <= now
                         /\ sync[j].pc \notin {"idle", "pass"} =>
                              /\ sync[j].unit \in Units
                              /\ sync[j].win \in Windows
                              /\ sync[j].win < now \/ slot[j][sync[j].unit] = sync[j].win)'
      BY DEF PassHolds
    <2>1. sync[j] \in PassState /\ sync[j].todo \subseteq Units
      BY <1>0, Types, Fields
    <2>2. \A v \in sync[j].todo : slot'[j][v] # NoWindow
      BY <2>1, <1>0, <1>1, <1>5, WindowFacts DEF PassHolds
    <2>3. ASSUME sync[j].pc \notin {"idle", "pass"}
          PROVE  sync[j].win < now \/ slot'[j][sync[j].unit] = sync[j].win
      <3>1. /\ sync[j].unit \in Units
            /\ sync[j].win \in Windows
            /\ sync[j].win < now \/ slot[j][sync[j].unit] = sync[j].win
        BY <2>3, <1>0 DEF PassHolds
      <3>2. slot[j][sync[j].unit] # NoWindow => slot[j][sync[j].unit] <= now
        BY <3>1, <1>0 DEF NothingAhead
      <3>3. sync[j].win \in Nat /\ now \in Nat /\ sync[j].win # NoWindow
        BY <3>1, <1>1, WindowFacts
      <3>4. sync[j].win < now \/ sync[j].win = now
        BY <3>1, <3>2, <3>3
      <3> QED
        BY <3>1, <3>4, <1>5
    <2> QED
      BY <2>2, <2>3, <1>0, <1>6 DEF PassHolds
  <1>9. CapturedOwed'
    <2> SUFFICES ASSUME NEW j \in Instances, sync[j].pc \in {"insert", "inserted"}
                 PROVE  sync[j].captured <= entry'[j][sync[j].unit][sync[j].win].unflushed
      BY <1>6 DEF CapturedOwed, Held
    <2>1. /\ sync[j].unit \in Units /\ sync[j].win \in Windows
          /\ sync[j].win < now \/ slot[j][sync[j].unit] = sync[j].win
          /\ sync[j].captured <= entry[j][sync[j].unit][sync[j].win].unflushed
      BY <1>0 DEF PassHolds, CapturedOwed, Held
    <2>2. /\ sync[j].captured \in Nat
          /\ entry[j][sync[j].unit][sync[j].win].unflushed \in Nat
          /\ now \in Nat
      BY <2>1, <1>0, <1>1, Types, Fields, WindowFacts
    <2>3. CASE j = i /\ sync[j].unit = u /\ sync[j].win = now
      <3>1. HotEntry(i, u) = entry[i][u][now]
        BY <2>1, <2>2, <2>3, <1>1
      <3> QED
        BY <2>1, <2>2, <2>3, <3>1, <1>2, <1>3
    <2>4. CASE ~(j = i /\ sync[j].unit = u /\ sync[j].win = now)
      BY <2>1, <2>4, <1>3
    <2> QED
      BY <2>3, <2>4
  <1>10. NothingAhead'
    <2> SUFFICES ASSUME NEW j \in Instances, NEW v \in Units
                 PROVE  (/\ slot[j][v] # NoWindow => slot[j][v] <= now
                         /\ \A w \in Windows :
                              w > now \/ (w = now /\ slot[j][v] # now) => own[j][v][w] = 0)'
      BY DEF NothingAhead
    <2>1. now \in Nat /\ now' = now
      BY <1>1, <1>6, WindowFacts
    <2>2. slot'[j][v] # NoWindow => slot'[j][v] <= now
      BY <2>1, <1>0, <1>5 DEF NothingAhead
    <2>3. ASSUME NEW w \in Windows, w > now \/ (w = now /\ slot'[j][v] # now)
          PROVE  own'[j][v][w] = 0
      <3>1. ~(j = i /\ v = u /\ w = now)
        BY <2>1, <2>3, <1>5, WindowFacts
      <3>2. w > now \/ (w = now /\ slot[j][v] # now)
        BY <2>3, <3>1, <1>5
      <3>3. own[j][v][w] = 0
        BY <3>2, <1>0 DEF NothingAhead
      <3> QED
        BY <3>1, <3>3, <1>4
    <2> QED
      BY <2>1, <2>2, <2>3
  <1>11. OwnAccounted'
    <2> SUFFICES ASSUME NEW x \in Instances, NEW y \in Units, NEW z \in Windows
                 PROVE  (own[x][y][z] + InFlight(x, y, z) <= rate[y][z] + entry[x][y][z].unflushed)'
      BY DEF OwnAccounted
    <2>1. InFlight(x, y, z)' = InFlight(x, y, z) /\ rate'[y][z] = rate[y][z]
      BY <1>6 DEF InFlight
    <2>2. CASE x = i /\ y = u /\ z = now
      <3>1. own[x][y][z] + InFlight(x, y, z) <= rate[y][z] + HotEntry(i, u).unflushed
        <4>1. CASE slot[i][u] = now
          BY <2>2, <4>1, <1>0, <1>1 DEF OwnAccounted
        <4>2. CASE slot[i][u] # now
          <5>1. own[i][u][now] = 0
            BY <4>2, <1>0, <1>1 DEF NothingAhead
          <5>2. InFlight(i, u, now) = 0
            BY <4>2, <1>0, <1>1, WindowFacts DEF PassHolds, InFlight
          <5> QED
            BY <2>2, <4>2, <5>1, <5>2, <1>0, <1>1, Types
        <4> QED
          BY <4>1, <4>2
      <3> QED
        <4>1. /\ own[x][y][z] \in Nat /\ rate[y][z] \in Nat
              /\ HotEntry(i, u).unflushed \in Nat /\ InFlight(x, y, z) \in Nat
          BY <1>0, <1>1, Types, Fields, InFlightFacts
        <4>2. own'[x][y][z] = own[x][y][z] + 1
          BY <2>2, <1>4
        <4>3. entry'[x][y][z].unflushed = HotEntry(i, u).unflushed + 1
          BY <2>2, <1>2, <1>3
        <4> QED
          BY <2>1, <3>1, <4>1, <4>2, <4>3
    <2>3. CASE ~(x = i /\ y = u /\ z = now)
      <3>1. own[x][y][z] + InFlight(x, y, z) <= rate[y][z] + entry[x][y][z].unflushed
        BY <1>0 DEF OwnAccounted
      <3>2. own'[x][y][z] = own[x][y][z] /\ entry'[x][y][z] = entry[x][y][z]
        BY <2>3, <1>3, <1>4
      <3> QED
        BY <2>1, <3>1, <3>2
    <2> QED
      BY <2>2, <2>3
  <1>12. SharedCovers'
    <2> SUFFICES ASSUME NEW j \in Instances, sync[j].pc = "selected"
                 PROVE  own'[j][sync[j].unit][sync[j].win]
                          <= sync[j].shared + entry'[j][sync[j].unit][sync[j].win].unflushed
      BY <1>6 DEF SharedCovers, Held
    <2>1. /\ sync[j].unit \in Units /\ sync[j].win \in Windows
          /\ sync[j].win < now \/ slot[j][sync[j].unit] = sync[j].win
          /\ own[j][sync[j].unit][sync[j].win]
                <= sync[j].shared + entry[j][sync[j].unit][sync[j].win].unflushed
      BY <1>0 DEF PassHolds, SharedCovers, Held
    <2>2. /\ sync[j].shared \in Nat
          /\ entry[j][sync[j].unit][sync[j].win].unflushed \in Nat
          /\ own[j][sync[j].unit][sync[j].win] \in Nat
          /\ now \in Nat
      BY <2>1, <1>0, <1>1, Types, Fields, WindowFacts
    <2>3. CASE j = i /\ sync[j].unit = u /\ sync[j].win = now
      <3>1. HotEntry(i, u) = entry[i][u][now]
        BY <2>1, <2>2, <2>3, <1>1
      <3> QED
        BY <2>1, <2>2, <2>3, <3>1, <1>2, <1>3, <1>4
    <2>4. CASE ~(j = i /\ sync[j].unit = u /\ sync[j].win = now)
      BY <2>1, <2>4, <1>3, <1>4, SMTT(30)
    <2> QED
      BY <2>3, <2>4
  <1>13. OwnCounted'
    <2> SUFFICES ASSUME NEW x \in Instances, NEW y \in Units, NEW z \in Windows
                 PROVE  (own[x][y][z] <= entry[x][y][z].count)'
      BY DEF OwnCounted
    <2>1. CASE x = i /\ y = u /\ z = now
      <3>1. own[i][u][now] <= HotEntry(i, u).count
        <4>1. CASE slot[i][u] = now
          BY <4>1, <1>0, <1>1 DEF OwnCounted
        <4>2. CASE slot[i][u] # now
          <5>1. own[i][u][now] = 0
            BY <4>2, <1>0, <1>1 DEF NothingAhead
          <5> QED
            BY <4>2, <5>1, <1>1
        <4> QED
          BY <4>1, <4>2
      <3>2. own[i][u][now] \in Nat /\ HotEntry(i, u).count \in Nat
        BY <1>0, <1>1, Types, Fields
      <3> QED
        BY <2>1, <3>1, <3>2, <1>1, <1>2, <1>3, <1>4
    <2>2. CASE ~(x = i /\ y = u /\ z = now)
      <3>1. own[x][y][z] <= entry[x][y][z].count
        BY <1>0 DEF OwnCounted
      <3>2. own'[x][y][z] = own[x][y][z] /\ entry'[x][y][z] = entry[x][y][z]
        BY <2>2, <1>3, <1>4
      <3> QED
        BY <3>1, <3>2
    <2> QED
      BY <2>1, <2>2
  <1> QED
    BY <1>7, <1>8, <1>9, <1>10, <1>11, <1>12, <1>13 DEF IInv

\* A refusal changes nothing: a new entry has a count of zero and every cap
\* is positive, so only an entry in place refuses.
LEMMA DenyStutters ==
    ASSUME IInv, NEW i \in Instances, NEW u \in Units, Deny(i, u)
    PROVE  UNCHANGED vars
  <1>1. slot[i][u] = now
    <2> SUFFICES ASSUME slot[i][u] # now PROVE FALSE
      OBVIOUS
    <2>1. HotEntry(i, u) = [count |-> 0, unflushed |-> 0, cap |-> PrevCap(i, u)]
      BY DEF HotEntry, Fresh
    <2>2. PrevCap(i, u) \in Caps \cup {NoCap}
      BY Types, Fields DEF IInv, PrevCap
    <2>3. PrevCap(i, u) # NoCap /\ 0 >= PrevCap(i, u)
      BY <2>1 DEF Deny, OverBudget
    <2> QED
      BY <2>2, <2>3 DEF Caps
  <1>2. slot' = slot /\ entry' = entry
    BY <1>1 DEF IInv, TypeOK, Deny, Install, HotEntry
  <1> QED
    BY <1>2 DEF Deny, vars, ghosts

\* What the position s of a pass must satisfy when the step into it writes
\* neither the table nor an entry.
Placed(i, s) ==
    /\ \A u \in s.todo : slot[i][u] # NoWindow
    /\ s.pc # "idle" => s.cur \in Windows /\ s.cur <= now
    /\ s.pc \notin {"idle", "pass"} =>
         /\ s.unit \in Units
         /\ s.win \in Windows
         /\ s.win < now \/ slot[i][s.unit] = s.win
    /\ s.pc \notin {"insert", "inserted"}
    /\ s.pc = "selected" => s.shared = rate[s.unit][s.win]
    /\ s.pc = "selected" => sync[i].pc # "inserted"

\* A step of one process that changes neither entries nor slots nor the table:
\* only its life phase and the position of its pass.
LEMMA ControlIInv ==
    ASSUME IInv, NEW i \in Instances, NEW s \in PassState,
           Set(i, s), Placed(i, s),
           phase' \in [Instances -> {"up", "draining", "final", "down"}],
           replayed' \in [Units -> [Windows -> Nat]],
           faults' \in Nat, restarts' \in Nat,
           UNCHANGED <<now, slot, entry, rate, own, admitted, discarded>>
    PROVE  IInv'
  <1>1. TypeOK'
    BY DEF IInv, Set, TypeOK
  <1>2. PassHolds'
    BY DEF IInv, Set, Placed, PassHolds, TypeOK
  <1>3. CapturedOwed'
    BY DEF IInv, Set, Placed, CapturedOwed, TypeOK, Held
  <1>4. NothingAhead'
    BY DEF IInv, NothingAhead
  <1>5. OwnAccounted'
    <2> SUFFICES ASSUME NEW x \in Instances, NEW y \in Units, NEW z \in Windows
                 PROVE  (own[x][y][z] + InFlight(x, y, z) <= rate[y][z] + entry[x][y][z].unflushed)'
      BY DEF OwnAccounted
    <2>1. InFlight(x, y, z) \in Nat /\ InFlight(x, y, z)' \in Nat
      BY <1>1 DEF IInv, TypeOK, PassState, InFlight
    <2>2. InFlight(x, y, z)' <= InFlight(x, y, z)
      BY <2>1 DEF IInv, Set, Placed, TypeOK, InFlight
    <2>3. own[x][y][z] \in Nat /\ rate[y][z] \in Nat /\ entry[x][y][z].unflushed \in Nat
      BY DEF IInv, TypeOK, Entry
    <2> QED
      BY <2>1, <2>2, <2>3 DEF IInv, OwnAccounted
  <1>6. SharedCovers'
    <2> SUFFICES ASSUME NEW x \in Instances, sync'[x].pc = "selected"
                 PROVE  (own[x][sync[x].unit][sync[x].win] <= sync[x].shared + Held(x).unflushed)'
      BY DEF SharedCovers
    <2>1. CASE x = i
      <3>1. sync'[i] = s
        BY DEF IInv, Set, TypeOK
      <3>2. InFlight(i, s.unit, s.win) = 0
        BY <2>1, <3>1 DEF Placed, InFlight
      <3>3. /\ s.unit \in Units /\ s.win \in Windows /\ s.shared = rate[s.unit][s.win]
            /\ own[i][s.unit][s.win] + 0 <= rate[s.unit][s.win] + entry[i][s.unit][s.win].unflushed
        BY <2>1, <3>1, <3>2 DEF IInv, Placed, OwnAccounted
      <3>4. own[i][s.unit][s.win] \in Nat
        BY <2>1, <3>1, <3>3 DEF IInv, TypeOK
      <3> QED
        BY <2>1, <3>1, <3>3, <3>4 DEF Held
    <2>2. CASE x # i
      BY <2>2 DEF IInv, Set, SharedCovers, Held, TypeOK
    <2> QED
      BY <2>1, <2>2
  <1>7. OwnCounted'
    BY DEF IInv, OwnCounted
  <1> QED
    BY <1>1, <1>2, <1>3, <1>4, <1>5, <1>6, <1>7 DEF IInv

\* A step of the pass that assigns the entry it holds.
LEMMA AssignIInv ==
    ASSUME IInv, NEW i \in Instances, NEW e \in Entry, NEW s \in PassState,
           sync[i].pc \notin {"idle", "pass"},
           Assign(i, e), Set(i, s),
           UNCHANGED <<now, phase, slot, rate, restarts, ghosts>>, faults' \in Nat,
           s.todo = sync[i].todo, s.unit = sync[i].unit,
           s.win = sync[i].win, s.cur = sync[i].cur,
           s.pc # "selected", s.pc # "inserted",
           s.pc = "insert" => s.captured <= e.unflushed,
           own[i][s.unit][s.win] <= rate[s.unit][s.win] + e.unflushed,
           own[i][s.unit][s.win] <= e.count
    PROVE  IInv'
  <1>0. /\ TypeOK /\ PassHolds /\ CapturedOwed /\ NothingAhead /\ OwnAccounted
        /\ SharedCovers /\ OwnCounted
    BY DEF IInv
  <1>1. /\ s.unit \in Units /\ s.win \in Windows
        /\ s.win < now \/ slot[i][s.unit] = s.win
        /\ s.cur \in Windows /\ s.cur <= now
    BY <1>0 DEF PassHolds
  <1>2. /\ entry' \in [Instances -> [Units -> [Windows -> Entry]]]
        /\ \A x \in Instances, y \in Units, z \in Windows :
             entry'[x][y][z] = IF x = i /\ y = s.unit /\ z = s.win THEN e ELSE entry[x][y][z]
    <2>1. entry' = [entry EXCEPT ![i][s.unit][s.win] = e]
      BY DEF Assign
    <2>2. entry \in [Instances -> [Units -> [Windows -> Entry]]]
      BY <1>0 DEF TypeOK
    <2>3. i \in Instances /\ s.unit \in Units /\ s.win \in Windows /\ e \in Entry
      BY <1>1
    <2> DEFINE row == [entry[i][s.unit] EXCEPT ![s.win] = e]
               tab == [entry[i] EXCEPT ![s.unit] = row]
    <2>4. /\ row \in [Windows -> Entry]
          /\ \A z \in Windows : row[z] = IF z = s.win THEN e ELSE entry[i][s.unit][z]
      BY <2>2, <2>3
    <2>5. entry' = [entry EXCEPT ![i] = tab]
      BY <2>1
    <2> HIDE DEF row
    <2>6. /\ tab \in [Units -> [Windows -> Entry]]
          /\ \A y \in Units : tab[y] = IF y = s.unit THEN row ELSE entry[i][y]
      BY <2>2, <2>3, <2>4
    <2> HIDE DEF tab
    <2>7. /\ entry' \in [Instances -> [Units -> [Windows -> Entry]]]
          /\ \A x \in Instances : entry'[x] = IF x = i THEN tab ELSE entry[x]
      BY <2>2, <2>5, <2>6
    <2>8. ASSUME NEW x \in Instances, NEW y \in Units, NEW z \in Windows
          PROVE  entry'[x][y][z] = IF x = i /\ y = s.unit /\ z = s.win THEN e ELSE entry[x][y][z]
      <3>1. CASE x # i
        BY <2>7, <3>1
      <3>2. CASE x = i /\ y # s.unit
        BY <2>6, <2>7, <3>2
      <3>3. CASE x = i /\ y = s.unit
        <4>1. entry'[x][y] = row
          BY <2>6, <2>7, <3>3
        <4> QED
          BY <2>4, <3>3, <4>1
      <3> QED
        BY <3>1, <3>2, <3>3
    <2> QED
      BY <2>7, <2>8
  <1>3. /\ sync' \in [Instances -> PassState]
        /\ sync'[i] = s
        /\ \A x \in Instances : x # i => sync'[x] = sync[x]
    BY <1>0 DEF Set, TypeOK
  <1>4. UNCHANGED <<now, phase, slot, rate, restarts, admitted, own, replayed, discarded>>
    BY DEF ghosts
  <1>5. TypeOK'
    BY <1>0, <1>2, <1>3, <1>4 DEF TypeOK
  <1>6. PassHolds'
    BY <1>0, <1>1, <1>3, <1>4, SMTT(30) DEF PassHolds
  <1>7. CapturedOwed'
    <2> SUFFICES ASSUME NEW x \in Instances, sync'[x].pc \in {"insert", "inserted"}
                 PROVE  sync'[x].captured <= entry'[x][sync'[x].unit][sync'[x].win].unflushed
      BY DEF CapturedOwed, Held
    <2>1. CASE x = i
      BY <2>1, <1>1, <1>2, <1>3
    <2>2. CASE x # i
      <3>1. /\ sync[x].unit \in Units /\ sync[x].win \in Windows
            /\ sync[x].captured <= entry[x][sync[x].unit][sync[x].win].unflushed
        BY <2>2, <1>0, <1>3 DEF PassHolds, CapturedOwed, Held
      <3> QED
        BY <2>2, <3>1, <1>2, <1>3, SMTT(30)
    <2> QED
      BY <2>1, <2>2
  <1>8. NothingAhead'
    BY <1>0, <1>4 DEF NothingAhead
  <1>9. OwnAccounted'
    <2> SUFFICES ASSUME NEW x \in Instances, NEW y \in Units, NEW z \in Windows
                 PROVE  (own[x][y][z] + InFlight(x, y, z) <= rate[y][z] + entry[x][y][z].unflushed)'
      BY DEF OwnAccounted
    <2>1. own[x][y][z] + InFlight(x, y, z) <= rate[y][z] + entry[x][y][z].unflushed
      BY <1>0 DEF OwnAccounted
    <2>2. own[x][y][z] \in Nat /\ rate[y][z] \in Nat /\ InFlight(x, y, z) \in Nat
          /\ entry[x][y][z].unflushed \in Nat
      BY <1>0, Types, Fields, InFlightFacts
    <2>3. CASE x = i
      <3>1. InFlight(x, y, z)' = 0
        BY <2>3, <1>3 DEF InFlight
      <3>2. CASE y = s.unit /\ z = s.win
        <4>1. entry'[x][y][z] = e
          BY <2>3, <3>2, <1>2
        <4>2. own'[x][y][z] <= rate'[y][z] + e.unflushed
          BY <2>3, <3>2, <1>4
        <4>3. own'[x][y][z] + 0 = own'[x][y][z]
          BY <2>2, <1>4
        <4> QED
          BY <3>1, <4>1, <4>2, <4>3
      <3>3. CASE ~(y = s.unit /\ z = s.win)
        BY <2>1, <2>2, <2>3, <3>1, <3>3, <1>2, <1>4
      <3> QED
        BY <3>2, <3>3
    <2>4. CASE x # i
      <3>1. InFlight(x, y, z)' = InFlight(x, y, z)
        BY <2>4, <1>3 DEF InFlight
      <3> QED
        BY <2>1, <2>4, <3>1, <1>2, <1>4
    <2> QED
      BY <2>3, <2>4
  <1>10. SharedCovers'
    <2> SUFFICES ASSUME NEW x \in Instances, sync'[x].pc = "selected"
                 PROVE  own'[x][sync'[x].unit][sync'[x].win]
                          <= sync'[x].shared + entry'[x][sync'[x].unit][sync'[x].win].unflushed
      BY DEF SharedCovers, Held
    <2>1. x # i
      BY <1>3
    <2>2. /\ sync[x].unit \in Units /\ sync[x].win \in Windows
          /\ own[x][sync[x].unit][sync[x].win]
                <= sync[x].shared + entry[x][sync[x].unit][sync[x].win].unflushed
      BY <2>1, <1>0, <1>3 DEF PassHolds, SharedCovers, Held
    <2> QED
      BY <2>1, <2>2, <1>2, <1>3, <1>4, SMTT(30)
  <1>11. OwnCounted'
    <2> SUFFICES ASSUME NEW x \in Instances, NEW y \in Units, NEW z \in Windows
                 PROVE  own[x][y][z] <= entry'[x][y][z].count
      BY <1>4 DEF OwnCounted
    <2>1. CASE x = i /\ y = s.unit /\ z = s.win
      BY <2>1, <1>2
    <2>2. CASE ~(x = i /\ y = s.unit /\ z = s.win)
      BY <2>2, <1>0, <1>2 DEF OwnCounted
    <2> QED
      BY <2>1, <2>2
  <1> QED
    BY <1>5, <1>6, <1>7, <1>8, <1>9, <1>10, <1>11 DEF IInv

\* The process ends and its memory is gone.
LEMMA VanishIInv ==
    ASSUME IInv, NEW i \in Instances, Vanish(i), restarts' \in Nat
    PROVE  IInv'
  <1>0. /\ TypeOK /\ PassHolds /\ CapturedOwed /\ NothingAhead /\ OwnAccounted
        /\ SharedCovers /\ OwnCounted
    BY DEF IInv
  <1>1. UNCHANGED <<now, rate, faults, admitted, replayed>>
    BY DEF Vanish
  <1>2. /\ sync' \in [Instances -> PassState]
        /\ sync'[i] = Idle
        /\ \A x \in Instances : x # i => sync'[x] = sync[x]
    BY <1>0 DEF Vanish, TypeOK, Idle, PassState
  <1>3. /\ slot' \in [Instances -> [Units -> Windows \cup {NoWindow}]]
        /\ \A y \in Units : slot'[i][y] = NoWindow
        /\ \A x \in Instances : x # i => slot'[x] = slot[x]
    BY <1>0 DEF Vanish, TypeOK
  <1>4. /\ entry' \in [Instances -> [Units -> [Windows -> Entry]]]
        /\ \A y \in Units, z \in Windows : entry'[i][y][z] = Fresh(NoCap)
        /\ \A x \in Instances : x # i => entry'[x] = entry[x]
    <2>1. Blank \in [Windows -> Entry] /\ \A z \in Windows : Blank[z] = Fresh(NoCap)
      BY DEF Blank, Fresh, Entry
    <2> QED
      BY <2>1, <1>0 DEF Vanish, TypeOK
  <1>5. /\ own' \in [Instances -> [Units -> [Windows -> Nat]]]
        /\ \A y \in Units, z \in Windows : own'[i][y][z] = 0
        /\ \A x \in Instances : x # i => own'[x] = own[x]
    BY <1>0 DEF Vanish, TypeOK
  <1>6. discarded' \in [Units -> [Windows -> Nat]]
    <2>1. ASSUME NEW y \in Units, NEW z \in Windows
          PROVE  discarded[y][z] + entry[i][y][z].unflushed - InFlight(i, y, z) \in Nat
      <3>1. discarded[y][z] \in Nat
        BY <1>0 DEF TypeOK
      <3>2. /\ entry[i][y][z].unflushed \in Nat /\ InFlight(i, y, z) \in Nat
            /\ InFlight(i, y, z) <= entry[i][y][z].unflushed
        BY <1>0, Types, Fields, InFlightFacts
      <3> QED
        BY <3>1, <3>2
    <2> QED
      BY <2>1 DEF Vanish
  <1>7. TypeOK'
    BY <1>0, <1>1, <1>2, <1>3, <1>4, <1>5, <1>6 DEF TypeOK, Vanish
  <1>8. PassHolds'
    BY <1>0, <1>1, <1>2, <1>3 DEF PassHolds, Idle
  <1>9. CapturedOwed' /\ SharedCovers'
    <2>1. sync'[i].pc = "idle"
      BY <1>2 DEF Idle
    <2>2. ASSUME NEW x \in Instances, x # i
          PROVE  sync'[x] = sync[x] /\ entry'[x] = entry[x] /\ own'[x] = own[x]
      BY <2>2, <1>2, <1>4, <1>5
    <2>3. CapturedOwed'
      <3> SUFFICES ASSUME NEW x \in Instances, sync'[x].pc \in {"insert", "inserted"}
                   PROVE  sync'[x].captured <= entry'[x][sync'[x].unit][sync'[x].win].unflushed
        BY DEF CapturedOwed, Held
      <3>1. x # i
        BY <2>1
      <3> QED
        BY <3>1, <2>2, <1>0 DEF CapturedOwed, Held
    <2>4. SharedCovers'
      <3> SUFFICES ASSUME NEW x \in Instances, sync'[x].pc = "selected"
                   PROVE  own'[x][sync'[x].unit][sync'[x].win]
                            <= sync'[x].shared + entry'[x][sync'[x].unit][sync'[x].win].unflushed
        BY DEF SharedCovers, Held
      <3>1. x # i
        BY <2>1
      <3> QED
        BY <3>1, <2>2, <1>0 DEF SharedCovers, Held
    <2> QED
      BY <2>3, <2>4
  <1>10. NothingAhead'
    <2> SUFFICES ASSUME NEW x \in Instances, NEW y \in Units
                 PROVE  (/\ slot[x][y] # NoWindow => slot[x][y] <= now
                         /\ \A w \in Windows :
                              w > now \/ (w = now /\ slot[x][y] # now) => own[x][y][w] = 0)'
      BY DEF NothingAhead
    <2>1. CASE x = i
      BY <2>1, <1>3, <1>5
    <2>2. CASE x # i
      <3>1. slot'[x] = slot[x] /\ own'[x] = own[x] /\ now' = now
        BY <2>2, <1>1, <1>3, <1>5
      <3> QED
        BY <3>1, <1>0 DEF NothingAhead
    <2> QED
      BY <2>1, <2>2
  <1>11. OwnAccounted' /\ OwnCounted'
    <2> SUFFICES ASSUME NEW x \in Instances, NEW y \in Units, NEW z \in Windows
                 PROVE  /\ (own[x][y][z] + InFlight(x, y, z)
                               <= rate[y][z] + entry[x][y][z].unflushed)'
                        /\ (own[x][y][z] <= entry[x][y][z].count)'
      BY DEF OwnAccounted, OwnCounted
    <2>1. CASE x = i
      <3>1. InFlight(x, y, z)' = 0 /\ own'[x][y][z] = 0
        BY <2>1, <1>2, <1>5 DEF InFlight, Idle
      <3>2. entry'[x][y][z].unflushed = 0 /\ entry'[x][y][z].count = 0
        BY <2>1, <1>4 DEF Fresh
      <3> QED
        BY <3>1, <3>2, <1>0, <1>1, Types
    <2>2. CASE x # i
      <3>1. InFlight(x, y, z)' = InFlight(x, y, z)
        BY <2>2, <1>2 DEF InFlight
      <3> QED
        BY <2>2, <3>1, <1>0, <1>1, <1>4, <1>5 DEF OwnAccounted, OwnCounted
    <2> QED
      BY <2>1, <2>2
  <1> QED
    BY <1>7, <1>8, <1>9, <1>10, <1>11 DEF IInv

\* A process begins to stop, or starts again.
LEMMA PhaseIInv ==
    ASSUME IInv, NEW i \in Instances, NEW p \in {"up", "draining", "final", "down"},
           phase' = [phase EXCEPT ![i] = p], restarts' \in Nat,
           UNCHANGED <<now, slot, entry, sync, rate, faults, ghosts>>
    PROVE  IInv'
  <1>1. TypeOK'
    BY DEF IInv, TypeOK, ghosts
  <1>2. PassHolds' /\ NothingAhead' /\ OwnCounted'
    BY DEF IInv, PassHolds, NothingAhead, OwnCounted, ghosts
  <1>3. CapturedOwed' /\ OwnAccounted' /\ SharedCovers'
    BY DEF IInv, CapturedOwed, OwnAccounted, SharedCovers, Held, InFlight, ghosts
  <1> QED
    BY <1>1, <1>2, <1>3 DEF IInv

\* The next window begins.
LEMMA TickIInv == IInv /\ Tick => IInv'
  <1> SUFFICES ASSUME IInv, Tick PROVE IInv'
    OBVIOUS
  <1>0. TypeOK /\ PassHolds /\ NothingAhead
    BY DEF IInv
  <1>1. now \in Nat /\ now' = now + 1 /\ now' \in Windows
    BY <1>0, ConstantsAssumption DEF Tick, TypeOK, Windows
  <1>2. UNCHANGED <<phase, slot, entry, sync, rate, faults, restarts, ghosts>>
    BY DEF Tick
  <1>3. TypeOK'
    BY <1>0, <1>1, <1>2 DEF TypeOK, ghosts
  <1>4. PassHolds'
    <2> SUFFICES ASSUME NEW x \in Instances
                 PROVE  (/\ \A v \in sync[x].todo : slot[x][v] # NoWindow
                         /\ sync[x].pc # "idle" => sync[x].cur \in Windows /\ sync[x].cur <= now
                         /\ sync[x].pc \notin {"idle", "pass"} =>
                              /\ sync[x].unit \in Units
                              /\ sync[x].win \in Windows
                              /\ sync[x].win < now \/ slot[x][sync[x].unit] = sync[x].win)'
      BY DEF PassHolds
    <2>1. /\ \A v \in sync[x].todo : slot[x][v] # NoWindow
          /\ sync[x].pc # "idle" => sync[x].cur \in Windows /\ sync[x].cur <= now
          /\ sync[x].pc \notin {"idle", "pass"} =>
               /\ sync[x].unit \in Units
               /\ sync[x].win \in Windows
               /\ sync[x].win < now \/ slot[x][sync[x].unit] = sync[x].win
      BY <1>0 DEF PassHolds
    <2>2. sync[x].cur \in Windows => sync[x].cur \in Nat
      BY WindowFacts
    <2>3. sync[x].win \in Windows => sync[x].win \in Nat
      BY WindowFacts
    <2>4. sync[x].pc # "idle" => sync[x].cur \in Windows /\ sync[x].cur <= now'
      BY <2>1, <2>2, <1>1
    <2>5. ASSUME sync[x].pc \notin {"idle", "pass"}
          PROVE  sync[x].win < now' \/ slot[x][sync[x].unit] = sync[x].win
      BY <2>1, <2>3, <2>5, <1>1
    <2> QED
      BY <2>1, <2>4, <2>5, <1>2
  <1>5. NothingAhead'
    <2> SUFFICES ASSUME NEW x \in Instances, NEW y \in Units
                 PROVE  /\ slot[x][y] # NoWindow => slot[x][y] <= now'
                        /\ \A w \in Windows :
                             w > now' \/ (w = now' /\ slot[x][y] # now') => own[x][y][w] = 0
      BY <1>2 DEF NothingAhead, ghosts
    <2>1. /\ slot[x][y] # NoWindow => slot[x][y] <= now
          /\ \A w \in Windows : w > now => own[x][y][w] = 0
      BY <1>0 DEF NothingAhead
    <2>2. slot[x][y] \in Windows \cup {NoWindow}
      BY <1>0, Types
    <2> QED
      <3>1. slot[x][y] # NoWindow => slot[x][y] \in Nat
        BY <2>2, WindowFacts
      <3>2. slot[x][y] # NoWindow => slot[x][y] <= now'
        BY <2>1, <3>1, <1>1
      <3>3. ASSUME NEW w \in Windows, w > now' \/ w = now'
            PROVE  own[x][y][w] = 0
        <4>1. w \in Nat
          BY WindowFacts
        <4>2. w > now
          BY <3>3, <4>1, <1>1
        <4> QED
          BY <2>1, <4>2
      <3> QED
        BY <3>2, <3>3
  <1>6. CapturedOwed' /\ OwnAccounted' /\ SharedCovers' /\ OwnCounted'
    BY <1>2 DEF IInv, CapturedOwed, OwnAccounted, SharedCovers, OwnCounted, Held, InFlight, ghosts
  <1> QED
    BY <1>3, <1>4, <1>5, <1>6 DEF IInv

\* A finished counter leaves _local.
LEMMA DropIInv ==
    ASSUME IInv, NEW i \in Instances, NEW u \in Units, SyncDrop(i, u)
    PROVE  IInv'
  <1>0. TypeOK /\ PassHolds /\ NothingAhead
    BY DEF IInv
  <1> DEFINE s == [sync[i] EXCEPT !.todo = @ \ {u}]
  <1>1. /\ s \in PassState /\ s.pc = "pass" /\ sync[i].pc = "pass"
        /\ s.todo = sync[i].todo \ {u} /\ s.cur = sync[i].cur
    BY <1>0, ZenonT(60) DEF TypeOK, PassState, SyncDrop
  <1> HIDE DEF s
  <1>2. /\ sync' \in [Instances -> PassState]
        /\ sync'[i] = s
        /\ \A x \in Instances : x # i => sync'[x] = sync[x]
    BY <1>0, <1>1 DEF SyncDrop, Set, TypeOK, s
  <1>3. /\ slot' \in [Instances -> [Units -> Windows \cup {NoWindow}]]
        /\ \A x \in Instances, y \in Units :
             slot'[x][y] = IF x = i /\ y = u THEN NoWindow ELSE slot[x][y]
    BY <1>0, Update2 DEF SyncDrop, TypeOK
  <1>4. UNCHANGED <<now, phase, entry, rate, faults, restarts, ghosts>>
    BY DEF SyncDrop
  <1>5. TypeOK'
    BY <1>0, <1>2, <1>3, <1>4 DEF TypeOK, ghosts
  <1>6. PassHolds'
    <2> SUFFICES ASSUME NEW x \in Instances
                 PROVE  (/\ \A v \in sync[x].todo : slot[x][v] # NoWindow
                         /\ sync[x].pc # "idle" => sync[x].cur \in Windows /\ sync[x].cur <= now
                         /\ sync[x].pc \notin {"idle", "pass"} =>
                              /\ sync[x].unit \in Units
                              /\ sync[x].win \in Windows
                              /\ sync[x].win < now \/ slot[x][sync[x].unit] = sync[x].win)'
      BY DEF PassHolds
    <2>1. sync[x].todo \subseteq Units
      BY <1>0, Types, Fields
    <2>2. /\ \A v \in sync[x].todo : slot[x][v] # NoWindow
          /\ sync[x].pc # "idle" => sync[x].cur \in Windows /\ sync[x].cur <= now
          /\ sync[x].pc \notin {"idle", "pass"} =>
               /\ sync[x].unit \in Units
               /\ sync[x].win \in Windows
               /\ sync[x].win < now \/ slot[x][sync[x].unit] = sync[x].win
      BY <1>0 DEF PassHolds
    <2>3. CASE x = i
      BY <2>1, <2>2, <2>3, <1>1, <1>2, <1>3, <1>4
    <2>4. CASE x # i
      BY <2>1, <2>2, <2>4, <1>2, <1>3, <1>4
    <2> QED
      BY <2>3, <2>4
  <1>7. NothingAhead'
    <2> SUFFICES ASSUME NEW x \in Instances, NEW y \in Units
                 PROVE  /\ slot'[x][y] # NoWindow => slot'[x][y] <= now
                        /\ \A w \in Windows :
                             w > now \/ (w = now /\ slot'[x][y] # now) => own[x][y][w] = 0
      BY <1>4 DEF NothingAhead, ghosts
    <2>1. slot[i][u] # now
      <3>1. slot[i][u] < sync[i].cur /\ u \in sync[i].todo
        BY DEF SyncDrop, Stale
      <3>2. slot[i][u] \in Nat /\ sync[i].cur \in Nat /\ sync[i].cur <= now /\ now \in Nat
        BY <3>1, <1>0, <1>1, Types, WindowFacts DEF PassHolds
      <3> QED
        BY <3>1, <3>2
    <2>2. CASE x = i /\ y = u
      BY <2>1, <2>2, <1>0, <1>3 DEF NothingAhead
    <2>3. CASE ~(x = i /\ y = u)
      <3>1. slot'[x][y] = slot[x][y]
        BY <2>3, <1>3
      <3> QED
        BY <3>1, <1>0 DEF NothingAhead
    <2> QED
      BY <2>2, <2>3
  <1>8. ASSUME NEW x \in Instances
        PROVE  \/ sync'[x].pc = "pass" /\ sync[x].pc = "pass"
               \/ sync'[x] = sync[x]
    BY <1>1, <1>2
  <1>9. CapturedOwed' /\ SharedCovers'
    <2>1. entry' = entry /\ own' = own
      BY <1>4 DEF ghosts
    <2>2. CapturedOwed'
      BY <1>8, <2>1 DEF IInv, CapturedOwed, Held
    <2>3. SharedCovers'
      BY <1>8, <2>1 DEF IInv, SharedCovers, Held
    <2> QED
      BY <2>2, <2>3
  <1>10. OwnAccounted' /\ OwnCounted'
    <2>1. ASSUME NEW x \in Instances, NEW y \in Units, NEW w \in Windows
          PROVE  InFlight(x, y, w)' = InFlight(x, y, w)
      BY <1>8 DEF InFlight
    <2> QED
      BY <2>1, <1>4 DEF IInv, OwnAccounted, OwnCounted, ghosts
  <1> QED
    BY <1>5, <1>6, <1>7, <1>9, <1>10 DEF IInv

\* The cap is stored, whatever positive cap was computed.
LEMMA StoreCapIInv ==
    ASSUME IInv, NEW i \in Instances, NEW cap \in Caps, sync[i].pc = "cap", StoreCap(i, cap),
           UNCHANGED <<now, phase, slot, rate, restarts, ghosts>>, faults' \in Nat
    PROVE  IInv'
  <1> DEFINE e == [Held(i) EXCEPT !.cap = cap]
             s == [sync[i] EXCEPT !.captured = Held(i).unflushed,
                                  !.pc = IF Held(i).unflushed > 0 THEN "insert" ELSE "select"]
  <1>1. /\ TypeOK /\ OwnAccounted /\ OwnCounted
        /\ sync[i].unit \in Units /\ sync[i].win \in Windows
    BY DEF IInv, PassHolds
  <1>2. Held(i) \in Entry
    BY <1>1, Types DEF Held
  <1>3. e \in Entry /\ e.unflushed = Held(i).unflushed /\ e.count = Held(i).count
    BY <1>2, Fields DEF Entry
  <1>4. /\ s \in PassState
        /\ s.todo = sync[i].todo /\ s.unit = sync[i].unit
        /\ s.win = sync[i].win /\ s.cur = sync[i].cur
        /\ s.pc \in {"insert", "select"} /\ s.captured = Held(i).unflushed
    BY <1>1, <1>2, Fields, Types DEF PassState
  <1>5. Assign(i, e) /\ Set(i, s)
    BY DEF StoreCap
  <1> HIDE DEF e, s
  <1>6. own[i][s.unit][s.win] + InFlight(i, s.unit, s.win) <= rate[s.unit][s.win] + e.unflushed
    BY <1>1, <1>3, <1>4 DEF OwnAccounted, Held
  <1>7. InFlight(i, s.unit, s.win) = 0
    BY DEF InFlight
  <1>8. own[i][s.unit][s.win] <= e.count
    BY <1>1, <1>3, <1>4 DEF OwnCounted, Held
  <1>9. own[i][s.unit][s.win] \in Nat /\ e.unflushed \in Nat
    BY <1>1, <1>3, <1>4, Types, Fields
  <1>10. own[i][s.unit][s.win] <= rate[s.unit][s.win] + e.unflushed
    BY <1>6, <1>7, <1>9
  <1>11. s.pc # "selected" /\ s.pc # "inserted" /\ s.captured <= e.unflushed
    BY <1>3, <1>4, <1>9
  <1> QED
    BY <1>3, <1>4, <1>5, <1>8, <1>10, <1>11, AssignIInv

\* The captured increments, now in the table, are subtracted.
LEMMA InsertReplyIInv ==
    ASSUME IInv, NEW i \in Instances, InsertReply(i)
    PROVE  IInv'
  <1> DEFINE e == [Held(i) EXCEPT !.unflushed = @ - sync[i].captured]
             s == [sync[i] EXCEPT !.pc = "select"]
  <1>1. /\ TypeOK /\ OwnAccounted /\ OwnCounted /\ sync[i].pc = "inserted"
        /\ sync[i].unit \in Units /\ sync[i].win \in Windows
        /\ sync[i].captured <= Held(i).unflushed
    BY DEF IInv, PassHolds, CapturedOwed, InsertReply
  <1>2. Held(i) \in Entry /\ sync[i].captured \in Nat
    BY <1>1, Types, Fields DEF Held
  <1>3. Held(i).unflushed - sync[i].captured \in Nat
    BY <1>1, <1>2, Fields
  <1>4. /\ e \in Entry /\ e.count = Held(i).count
        /\ e.unflushed = Held(i).unflushed - sync[i].captured
    BY <1>2, <1>3 DEF Entry
  <1>5. /\ s \in PassState
        /\ s.todo = sync[i].todo /\ s.unit = sync[i].unit
        /\ s.win = sync[i].win /\ s.cur = sync[i].cur
        /\ s.pc = "select"
    BY <1>1, Types DEF PassState
  <1>6. Assign(i, e) /\ Set(i, s)
    BY DEF InsertReply
  <1> HIDE DEF e, s
  <1>7. own[i][s.unit][s.win] + InFlight(i, s.unit, s.win)
           <= rate[s.unit][s.win] + Held(i).unflushed
    BY <1>1, <1>5 DEF OwnAccounted, Held
  <1>8. InFlight(i, s.unit, s.win) = sync[i].captured
    BY <1>1, <1>5 DEF InFlight
  <1>9. own[i][s.unit][s.win] \in Nat /\ rate[s.unit][s.win] \in Nat /\ Held(i).unflushed \in Nat
    BY <1>1, <1>2, <1>5, Types, Fields
  <1>10. own[i][s.unit][s.win] <= rate[s.unit][s.win] + e.unflushed
    BY <1>2, <1>4, <1>7, <1>8, <1>9
  <1>11. own[i][s.unit][s.win] <= e.count
    BY <1>1, <1>4, <1>5 DEF OwnCounted, Held
  <1>12. UNCHANGED <<now, phase, slot, rate, restarts, ghosts>> /\ faults' \in Nat
    BY <1>1 DEF InsertReply, TypeOK
  <1>13. sync[i].pc \notin {"idle", "pass"} /\ s.pc \notin {"selected", "inserted", "insert"}
    BY <1>1, <1>5
  <1> QED
    BY <1>4, <1>5, <1>6, <1>10, <1>11, <1>12, <1>13, AssignIInv

\* The counter adopts the shared total.
LEMMA SelectReplyIInv ==
    ASSUME IInv, NEW i \in Instances, SelectReply(i)
    PROVE  IInv'
  <1> DEFINE e == [Held(i) EXCEPT !.count = sync[i].shared + Held(i).unflushed]
             s == [sync[i] EXCEPT !.pc = "pass"]
  <1>1. /\ TypeOK /\ OwnAccounted /\ OwnCounted /\ sync[i].pc = "selected"
        /\ sync[i].unit \in Units /\ sync[i].win \in Windows
        /\ own[i][sync[i].unit][sync[i].win] <= sync[i].shared + Held(i).unflushed
    BY DEF IInv, PassHolds, SharedCovers, SelectReply
  <1>2. Held(i) \in Entry /\ sync[i].shared \in Nat
    BY <1>1, Types, Fields DEF Held
  <1>3. sync[i].shared + Held(i).unflushed \in Nat
    BY <1>1, <1>2, Fields
  <1>4. /\ e \in Entry /\ e.count = sync[i].shared + Held(i).unflushed
        /\ e.unflushed = Held(i).unflushed
    BY <1>2, <1>3 DEF Entry
  <1>5. /\ s \in PassState
        /\ s.todo = sync[i].todo /\ s.unit = sync[i].unit
        /\ s.win = sync[i].win /\ s.cur = sync[i].cur
        /\ s.pc = "pass"
    BY <1>1, Types DEF PassState
  <1>6. Assign(i, e) /\ Set(i, s)
    BY DEF SelectReply
  <1> HIDE DEF e, s
  <1>7. own[i][s.unit][s.win] + InFlight(i, s.unit, s.win) <= rate[s.unit][s.win] + e.unflushed
    BY <1>1, <1>4, <1>5 DEF OwnAccounted, Held
  <1>8. InFlight(i, s.unit, s.win) = 0
    BY <1>1 DEF InFlight
  <1>9. own[i][s.unit][s.win] \in Nat
    BY <1>1, <1>5, Types
  <1>10. own[i][s.unit][s.win] <= rate[s.unit][s.win] + e.unflushed
    BY <1>7, <1>8, <1>9
  <1>11. own[i][s.unit][s.win] <= e.count
    BY <1>1, <1>4, <1>5
  <1>12. UNCHANGED <<now, phase, slot, rate, restarts, ghosts>> /\ faults' \in Nat
    BY <1>1 DEF SelectReply, TypeOK
  <1>13. sync[i].pc \notin {"idle", "pass"} /\ s.pc \notin {"selected", "inserted", "insert"}
    BY <1>1, <1>5
  <1> QED
    BY <1>4, <1>5, <1>6, <1>10, <1>11, <1>12, <1>13, AssignIInv

\* The server adds the captured increments to the shared row.
LEMMA InsertCommitsIInv ==
    ASSUME IInv, NEW i \in Instances, InsertCommits(i)
    PROVE  IInv'
  <1> DEFINE s == [sync[i] EXCEPT !.pc = "inserted"]
  <1>0. /\ TypeOK /\ PassHolds /\ CapturedOwed /\ NothingAhead /\ OwnAccounted
        /\ SharedCovers /\ OwnCounted
    BY DEF IInv
  <1>1. /\ sync[i].pc = "insert"
        /\ sync[i].unit \in Units /\ sync[i].win \in Windows /\ sync[i].captured \in Nat
    BY <1>0, Types, Fields DEF InsertCommits, PassHolds
  <1>2. /\ s \in PassState
        /\ s.todo = sync[i].todo /\ s.unit = sync[i].unit /\ s.win = sync[i].win
        /\ s.cur = sync[i].cur /\ s.captured = sync[i].captured /\ s.pc = "inserted"
    BY <1>0, Types DEF PassState
  <1>3. /\ sync' \in [Instances -> PassState]
        /\ sync'[i] = s
        /\ \A x \in Instances : x # i => sync'[x] = sync[x]
    BY <1>0, <1>2 DEF InsertCommits, Set, TypeOK
  <1> HIDE DEF s
  <1>4. rate[sync[i].unit][sync[i].win] + sync[i].captured \in Nat
    BY <1>0, <1>1, Types
  <1>5. /\ rate' \in [Units -> [Windows -> Nat]]
        /\ \A y \in Units, z \in Windows :
             rate'[y][z] = IF y = sync[i].unit /\ z = sync[i].win
                             THEN rate[y][z] + sync[i].captured ELSE rate[y][z]
    <2>1. rate \in [Units -> [Windows -> Nat]]
      BY <1>0 DEF TypeOK
    <2>2. rate' = [rate EXCEPT ![sync[i].unit][sync[i].win] =
                     rate[sync[i].unit][sync[i].win] + sync[i].captured]
      BY DEF InsertCommits
    <2> QED
      BY <2>1, <2>2, <1>1, <1>4, Update2
  <1>6. UNCHANGED <<now, phase, slot, entry, faults, restarts, admitted, own, replayed, discarded>>
    BY DEF InsertCommits, ghosts
  <1>7. TypeOK'
    BY <1>0, <1>3, <1>5, <1>6 DEF TypeOK
  <1>8. PassHolds'
    BY <1>0, <1>1, <1>2, <1>3, <1>6 DEF PassHolds
  <1>9. CapturedOwed'
    BY <1>0, <1>1, <1>2, <1>3, <1>6 DEF CapturedOwed, Held
  <1>10. NothingAhead' /\ OwnCounted'
    BY <1>0, <1>6 DEF NothingAhead, OwnCounted
  <1>11. OwnAccounted'
    <2> SUFFICES ASSUME NEW x \in Instances, NEW y \in Units, NEW z \in Windows
                 PROVE  (own[x][y][z] + InFlight(x, y, z) <= rate[y][z] + entry[x][y][z].unflushed)'
      BY DEF OwnAccounted
    <2>1. own[x][y][z] + InFlight(x, y, z) <= rate[y][z] + entry[x][y][z].unflushed
      BY <1>0 DEF OwnAccounted
    <2>2. /\ own[x][y][z] \in Nat /\ rate[y][z] \in Nat
          /\ InFlight(x, y, z) \in Nat /\ entry[x][y][z].unflushed \in Nat
      BY <1>0, Types, Fields, InFlightFacts
    <2>3. rate'[y][z] \in Nat /\ rate[y][z] <= rate'[y][z]
      BY <2>2, <1>1, <1>5
    <2>4. CASE x = i /\ y = sync[i].unit /\ z = sync[i].win
      <3>1. InFlight(x, y, z) = 0
        BY <2>4, <1>1 DEF InFlight
      <3>2. InFlight(x, y, z)' = sync[i].captured
        BY <2>4, <1>2, <1>3 DEF InFlight
      <3>3. rate'[y][z] = rate[y][z] + sync[i].captured
        BY <2>4, <1>5
      <3> QED
        BY <2>1, <2>2, <3>1, <3>2, <3>3, <1>1, <1>6
    <2>5. CASE x = i /\ ~(y = sync[i].unit /\ z = sync[i].win)
      <3>1. InFlight(x, y, z)' = 0
        BY <2>5, <1>2, <1>3 DEF InFlight
      <3> QED
        BY <2>1, <2>2, <2>3, <3>1, <1>6
    <2>6. CASE x # i
      <3>1. InFlight(x, y, z)' = InFlight(x, y, z)
        BY <2>6, <1>3 DEF InFlight
      <3> QED
        BY <2>1, <2>2, <2>3, <3>1, <1>6
    <2> QED
      BY <2>4, <2>5, <2>6
  <1>12. SharedCovers'
    BY <1>0, <1>2, <1>3, <1>6 DEF SharedCovers, Held
  <1> QED
    BY <1>7, <1>8, <1>9, <1>10, <1>11, <1>12 DEF IInv

\* The steps that only move the position of a pass.
LEMMA PositionIInv ==
    ASSUME IInv, NEW i \in Instances,
           \/ SyncBegin(i)
           \/ \E u \in Units : SyncVisit(i, u)
           \/ SelectReads(i)
           \/ SelectFails(i)
           \/ InsertFails(i)
           \/ SyncEnd(i)
           \/ CancelPass(i)
           \/ FinalPass(i)
    PROVE  IInv'
  <1>0. /\ TypeOK /\ PassHolds /\ NothingAhead
        /\ sync[i] \in PassState /\ now \in Windows
        /\ phase[i] \in {"up", "draining", "final", "down"}
        /\ phase \in [Instances -> {"up", "draining", "final", "down"}]
        /\ faults \in Nat /\ restarts \in Nat
        /\ replayed \in [Units -> [Windows -> Nat]]
    BY DEF IInv, TypeOK
  <1>1. now <= now
    BY <1>0, WindowFacts
  <1> DEFINE begin == [Idle EXCEPT !.pc = "pass", !.cur = now,
                                   !.todo = {u \in Units : slot[i][u] # NoWindow}]
  <1>2. /\ begin \in PassState /\ begin.pc = "pass" /\ begin.cur = now
        /\ begin.todo = {u \in Units : slot[i][u] # NoWindow}
    BY <1>0 DEF Idle, PassState
  <1>3. Idle \in PassState /\ Idle.pc = "idle" /\ Idle.todo = {}
    BY DEF Idle, PassState
  <1> DEFINE again == IF sync[i].pc = "inserted"
                        THEN [replayed EXCEPT ![sync[i].unit][sync[i].win] = @ + sync[i].captured]
                        ELSE replayed
  <1>4. again \in [Units -> [Windows -> Nat]]
    <2>1. CASE sync[i].pc = "inserted"
      <3>1. sync[i].unit \in Units /\ sync[i].win \in Windows /\ sync[i].captured \in Nat
        BY <2>1, <1>0, Fields DEF PassHolds
      <3>2. replayed[sync[i].unit][sync[i].win] + sync[i].captured \in Nat
        BY <3>1, <1>0
      <3> QED
        BY <2>1, <3>1, <3>2, <1>0
    <2>2. CASE sync[i].pc # "inserted"
      BY <2>2, <1>0
    <2> QED
      BY <2>1, <2>2
  <1>5. CASE SyncBegin(i)
    <2>1. Set(i, begin)
      BY <1>5 DEF SyncBegin, BeginPass
    <2> HIDE DEF begin
    <2>2. Placed(i, begin)
      BY <1>0, <1>1, <1>2 DEF Placed
    <2>3. UNCHANGED <<now, phase, slot, entry, rate, faults, restarts, own, admitted, replayed, discarded>>
      BY <1>5 DEF SyncBegin, ghosts
    <2> QED
      BY <1>0, <1>2, <2>1, <2>2, <2>3, ControlIInv
  <1>6. ASSUME NEW u \in Units, SyncVisit(i, u)
        PROVE  IInv'
    <2> DEFINE s == [sync[i] EXCEPT !.pc = "cap", !.todo = @ \ {u}, !.unit = u, !.win = slot[i][u]]
    <2>1. slot[i][u] \in Windows /\ slot[i][u] <= now
      <3>1. slot[i][u] # NoWindow
        BY <1>0, <1>6 DEF SyncVisit, PassHolds
      <3> QED
        BY <3>1, <1>0, Types DEF NothingAhead
    <2>2. /\ s \in PassState /\ s.pc = "cap" /\ s.todo = sync[i].todo \ {u}
          /\ s.unit = u /\ s.win = slot[i][u] /\ s.cur = sync[i].cur
      BY <1>0, <2>1 DEF PassState
    <2>3. Set(i, s)
      BY <1>6 DEF SyncVisit
    <2> HIDE DEF s
    <2>4. /\ \A v \in s.todo : slot[i][v] # NoWindow
          /\ s.cur \in Windows /\ s.cur <= now
      BY <2>2, <1>0, <1>6 DEF SyncVisit, PassHolds
    <2>5. s.unit \in Units /\ s.win \in Windows /\ slot[i][s.unit] = s.win
      BY <2>1, <2>2
    <2>6. Placed(i, s)
      BY <2>2, <2>4, <2>5 DEF Placed
    <2>7. UNCHANGED <<now, phase, slot, entry, rate, faults, restarts, own, admitted, replayed, discarded>>
      BY <1>6 DEF SyncVisit, ghosts
    <2> QED
      BY <1>0, <2>2, <2>3, <2>6, <2>7, ControlIInv
  <1>7. CASE SelectReads(i)
    <2> DEFINE s == [sync[i] EXCEPT !.pc = "selected", !.shared = rate[sync[i].unit][sync[i].win]]
    <2>1. /\ sync[i].unit \in Units /\ sync[i].win \in Windows
          /\ sync[i].win < now \/ slot[i][sync[i].unit] = sync[i].win
          /\ \A v \in sync[i].todo : slot[i][v] # NoWindow
          /\ sync[i].cur \in Windows /\ sync[i].cur <= now
      BY <1>0, <1>7 DEF SelectReads, PassHolds
    <2>2. rate[sync[i].unit][sync[i].win] \in Nat
      BY <2>1, <1>0 DEF TypeOK
    <2>3. /\ s \in PassState /\ s.pc = "selected" /\ s.todo = sync[i].todo
          /\ s.unit = sync[i].unit /\ s.win = sync[i].win /\ s.cur = sync[i].cur
          /\ s.shared = rate[sync[i].unit][sync[i].win]
      BY <1>0, <2>2 DEF PassState
    <2>4. Set(i, s) /\ sync[i].pc # "inserted"
      BY <1>7 DEF SelectReads
    <2> HIDE DEF s
    <2>5. Placed(i, s)
      BY <2>1, <2>3, <2>4 DEF Placed
    <2>6. UNCHANGED <<now, phase, slot, entry, rate, faults, restarts, own, admitted, replayed, discarded>>
      BY <1>7 DEF SelectReads, ghosts
    <2> QED
      BY <1>0, <2>3, <2>4, <2>5, <2>6, ControlIInv
  <1>8. ASSUME NEW s \in PassState, Set(i, s), s.pc = "pass",
               s.todo = sync[i].todo, s.cur = sync[i].cur, sync[i].pc # "idle",
               UNCHANGED <<now, phase, slot, entry, rate, own, admitted, discarded>>,
               replayed' \in [Units -> [Windows -> Nat]], faults' \in Nat, restarts' \in Nat
        PROVE  IInv'
    <2>1. /\ \A v \in s.todo : slot[i][v] # NoWindow
          /\ s.cur \in Windows /\ s.cur <= now
      BY <1>0, <1>8 DEF PassHolds
    <2>2. Placed(i, s)
      BY <1>8, <2>1 DEF Placed
    <2> QED
      BY <1>0, <1>8, <2>2, ControlIInv
  <1>9. CASE SelectFails(i)
    <2> DEFINE s == [sync[i] EXCEPT !.pc = "pass"]
    <2>1. s \in PassState /\ s.pc = "pass" /\ s.todo = sync[i].todo /\ s.cur = sync[i].cur
      BY <1>0 DEF PassState
    <2>2. Set(i, s) /\ sync[i].pc # "idle"
      BY <1>9 DEF SelectFails
    <2> HIDE DEF s
    <2> QED
      BY <1>0, <1>8, <1>9, <2>1, <2>2 DEF SelectFails, ghosts
  <1>10. CASE InsertFails(i)
    <2> DEFINE s == [sync[i] EXCEPT !.pc = "pass", !.clean = FALSE]
    <2>1. s \in PassState /\ s.pc = "pass" /\ s.todo = sync[i].todo /\ s.cur = sync[i].cur
      BY <1>0 DEF PassState
    <2>2. Set(i, s) /\ sync[i].pc # "idle" /\ replayed' = again
      BY <1>10 DEF InsertFails
    <2> HIDE DEF s, again
    <2>3. /\ UNCHANGED <<now, phase, slot, entry, rate, own, admitted, discarded, restarts>>
          /\ faults' = faults + 1
      BY <1>10 DEF InsertFails
    <2>4. replayed' \in [Units -> [Windows -> Nat]] /\ faults' \in Nat /\ restarts' \in Nat
      BY <1>0, <1>4, <2>2, <2>3
    <2> QED
      BY <1>8, <2>1, <2>2, <2>3, <2>4
  <1>11. ASSUME NEW s \in PassState, Set(i, s), s.pc = "idle", s.todo = {},
                UNCHANGED <<now, phase, slot, entry, rate, own, admitted, discarded>>,
                replayed' \in [Units -> [Windows -> Nat]], faults' \in Nat, restarts' \in Nat
         PROVE  IInv'
    <2>1. Placed(i, s)
      BY <1>11 DEF Placed
    <2> QED
      BY <1>0, <1>11, <2>1, ControlIInv
  <1>12. CASE SyncEnd(i)
    <2> DEFINE s == [Idle EXCEPT !.clean = sync[i].clean]
    <2>1. s \in PassState /\ s.pc = "idle" /\ s.todo = {}
      BY <1>0 DEF Idle, PassState
    <2>2. Set(i, s)
      BY <1>12 DEF SyncEnd
    <2> HIDE DEF s
    <2> QED
      BY <1>0, <1>11, <1>12, <2>1, <2>2 DEF SyncEnd, ghosts
  <1>13. CASE CancelPass(i)
    <2>1. Set(i, Idle) /\ replayed' = again
      BY <1>13 DEF CancelPass
    <2> HIDE DEF again
    <2> QED
      BY <1>0, <1>3, <1>4, <1>11, <1>13, <2>1 DEF CancelPass
  <1>14. CASE FinalPass(i)
    <2>1. Set(i, begin) /\ phase' = [phase EXCEPT ![i] = "final"]
      BY <1>14 DEF FinalPass, BeginPass
    <2> HIDE DEF begin
    <2>2. Placed(i, begin)
      BY <1>0, <1>1, <1>2 DEF Placed
    <2>3. UNCHANGED <<now, slot, entry, rate, faults, restarts, own, admitted, replayed, discarded>>
      BY <1>14 DEF FinalPass, ghosts
    <2>4. phase' \in [Instances -> {"up", "draining", "final", "down"}]
      BY <1>0, <2>1
    <2> QED
      BY <1>0, <1>2, <2>1, <2>2, <2>3, <2>4, ControlIInv
  <1> QED
    BY <1>5, <1>6, <1>7, <1>9, <1>10, <1>12, <1>13, <1>14

\* The cap computed from a headcount is positive.
LEMMA CapForPositive == \A h \in Nat : CapFor(h) \in Caps
  <1> SUFFICES ASSUME NEW h \in Nat PROVE CapFor(h) \in Caps
    OBVIOUS
  <1> DEFINE n == IF h < 1 THEN 1 ELSE h
  <1>1. n \in Nat \ {0}
    OBVIOUS
  <1> HIDE DEF n
  <1>2. n * Quota \in Nat /\ n * Quota > 0
    BY <1>1, ConstantsAssumption
  <1> QED
    BY <1>2 DEF CapFor, Caps, n

\* Every step keeps the inductive invariant.
LEMMA NextIInv == IInv /\ [Next]_vars => IInv'
  <1> SUFFICES ASSUME IInv, [Next]_vars PROVE IInv'
    OBVIOUS
  <1>0. TypeOK
    BY DEF IInv
  <1>1. CASE UNCHANGED vars
    <2>1. TypeOK'
      BY <1>0, <1>1 DEF vars, TypeOK
    <2>2. PassHolds' /\ CapturedOwed'
      BY <1>1 DEF IInv, vars, PassHolds, CapturedOwed, Held
    <2>3. NothingAhead' /\ SharedCovers'
      BY <1>1 DEF IInv, vars, NothingAhead, SharedCovers, Held
    <2>4. OwnAccounted' /\ OwnCounted'
      BY <1>1 DEF IInv, vars, OwnAccounted, OwnCounted, InFlight
    <2> QED
      BY <2>1, <2>2, <2>3, <2>4 DEF IInv
  <1>2. CASE Tick
    BY <1>2, TickIInv
  <1>3. ASSUME NEW i \in Instances, NEW u \in Units, Admit(i, u)
        PROVE  IInv'
    BY <1>3, AdmitIInv
  <1>4. ASSUME NEW i \in Instances, NEW u \in Units, Deny(i, u)
        PROVE  IInv'
    BY <1>4, <1>1, DenyStutters
  <1>5. ASSUME NEW i \in Instances, Pass(i)
        PROVE  IInv'
    <2>1. CASE \E u \in Units : SyncDrop(i, u)
      BY <2>1, DropIInv
    <2>2. ASSUME NEW h \in Headcounts, CapRefresh(i, h)
          PROVE  IInv'
      <3>1. CapFor(h) \in Caps
        BY CapForPositive, ConstantsAssumption
      <3> QED
        BY <2>2, <3>1, <1>0, StoreCapIInv DEF CapRefresh, TypeOK
    <2>3. CASE InsertCommits(i)
      BY <2>3, InsertCommitsIInv
    <2>4. CASE InsertReply(i)
      BY <2>4, InsertReplyIInv
    <2>5. CASE SelectReply(i)
      BY <2>5, SelectReplyIInv
    <2> QED
      BY <1>5, <2>1, <2>2, <2>3, <2>4, <2>5, PositionIInv DEF Pass
  <1>6. ASSUME NEW i \in Instances, CapQueryFails(i)
        PROVE  IInv'
    <2>1. CapFor(1) \in Caps
      BY CapForPositive
    <2>2. faults' \in Nat
      BY <1>0, <1>6 DEF CapQueryFails, TypeOK
    <2> QED
      BY <1>6, <2>1, <2>2, StoreCapIInv DEF CapQueryFails
  <1>7. ASSUME NEW i \in Instances,
               InsertFails(i) \/ SelectFails(i) \/ CancelPass(i) \/ FinalPass(i)
        PROVE  IInv'
    BY <1>7, PositionIInv
  <1>8. ASSUME NEW i \in Instances, Stop(i) \/ Start(i)
        PROVE  IInv'
    <2>1. restarts' \in Nat
      BY <1>0, <1>8 DEF Stop, Start, TypeOK
    <2> QED
      BY <1>8, <2>1, PhaseIInv DEF Stop, Start
  <1>9. ASSUME NEW i \in Instances, Exit(i) \/ Crash(i)
        PROVE  IInv'
    <2>1. restarts' \in Nat /\ Vanish(i)
      BY <1>0, <1>9 DEF Exit, Crash, TypeOK
    <2> QED
      BY <2>1, VanishIInv
  <1> QED
    BY <1>1, <1>2, <1>3, <1>4, <1>5, <1>6, <1>7, <1>8, <1>9 DEF Next

\* The inductive invariant holds in every reachable state.
THEOREM Inductive == Spec => []IInv
  BY InitIInv, NextIInv, PTL DEF Spec

\* The variables keep their types: in particular subtracting a captured count
\* never takes unflushed below zero.
THEOREM TypeCorrect == Spec => []TypeOK
  <1>1. IInv => TypeOK
    BY DEF IInv
  <1> QED
    BY <1>1, Inductive, PTL

\* No flush, failure, timeout or rollover makes a process forget a request it
\* let through itself.
THEOREM OwnRequestsCounted == Spec => []OwnCounted
  <1>1. IInv => OwnCounted
    BY DEF IInv
  <1> QED
    BY <1>1, Inductive, PTL

\* With a cap known, a process never lets a station past it by itself.
THEOREM BudgetKept == Spec => AdmitWithinBudget
  <1> DEFINE A == \A i \in Instances, u \in Units :
                    /\ own'[i][u][now] > own[i][u][now]
                    /\ PrevCap(i, u) # NoCap
                    => own[i][u][now] < PrevCap(i, u)
  <1>1. IInv /\ [Next]_vars => [A]_vars
    <2> SUFFICES ASSUME IInv, Next, NEW i \in Instances, NEW u \in Units,
                        own'[i][u][now] > own[i][u][now], PrevCap(i, u) # NoCap
                 PROVE  own[i][u][now] < PrevCap(i, u)
      OBVIOUS
    <2>0. TypeOK /\ OwnCounted /\ NothingAhead /\ now \in Windows
      BY DEF IInv, TypeOK
    <2>1. own[i][u][now] \in Nat
      BY <2>0, Types
    <2>2. PrevCap(i, u) \in Caps \cup {NoCap}
      BY <2>0, Types, Fields DEF PrevCap
    <2>3. Admit(i, u)
      <3>1. ASSUME own' = own PROVE FALSE
        BY <2>1, <3>1
      <3>2. ASSUME NEW j \in Instances, Vanish(j) PROVE FALSE
        <4>1. own'[i][u][now] = IF i = j THEN 0 ELSE own[i][u][now]
          BY <2>0, <3>2 DEF Vanish, TypeOK
        <4> QED
          BY <4>1, <2>1
      <3>3. \E j \in Instances, v \in Units : Admit(j, v)
        BY <3>1, <3>2, ZenonT(60)
        DEF Next, Tick, Deny, Pass, SyncBegin, SyncDrop, SyncVisit, CapRefresh, InsertCommits,
            InsertReply, SelectReads, SelectReply, SyncEnd, CapQueryFails, InsertFails,
            SelectFails, Stop, CancelPass, FinalPass, Exit, Crash, Start, ghosts
      <3>4. PICK j \in Instances, v \in Units : Admit(j, v)
        BY <3>3
      <3>5. own'[i][u][now] = IF i = j /\ u = v THEN own[i][u][now] + 1 ELSE own[i][u][now]
        BY <2>0, <3>4 DEF Admit, TypeOK
      <3> QED
        BY <3>4, <3>5, <2>1
    <2>4. CASE slot[i][u] = now
      <3>1. HotEntry(i, u) = entry[i][u][now] /\ PrevCap(i, u) = entry[i][u][now].cap
        BY <2>4, <2>0, WindowFacts DEF HotEntry, PrevCap
      <3>2. ~(entry[i][u][now].count >= PrevCap(i, u))
        BY <2>3, <3>1 DEF Admit, OverBudget
      <3>3. own[i][u][now] <= entry[i][u][now].count /\ entry[i][u][now].count \in Nat
        BY <2>0, Types, Fields DEF OwnCounted
      <3> QED
        BY <2>1, <2>2, <3>2, <3>3 DEF Caps
    <2>5. CASE slot[i][u] # now
      <3>1. own[i][u][now] = 0
        BY <2>0, <2>5 DEF NothingAhead
      <3> QED
        BY <2>2, <3>1 DEF Caps
    <2> QED
      BY <2>4, <2>5
  <1> QED
    BY <1>1, Inductive, PTL DEF Spec, AdmitWithinBudget

-----------------------------------------------------------------------------
(* The accounts: what is let through, written, owed and lost.               *)

\* A tally with one number changed changes by as much, and stays finite.
LEMMA TallyChanged ==
    ASSUME NEW S, NEW f \in [S -> Nat], NEW g \in [S -> Nat], NEW x \in S,
           \A y \in S : y # x => g[y] = f[y],
           IsFiniteSet(Tally(f))
    PROVE  /\ IsFiniteSet(Tally(g))
           /\ Cardinality(Tally(g)) \in Nat
           /\ Cardinality(Tally(g)) + f[x] = Cardinality(Tally(f)) + g[x]
           /\ f[x] <= Cardinality(Tally(f))
  <1> DEFINE Rest == UNION {{y} \X (1..f[y]) : y \in S \ {x}}
             Part(n) == {x} \X (1..n)
  <1>1. Tally(f) = Rest \cup Part(f[x])
    BY DEF Tally
  <1>2. Tally(g) = Rest \cup Part(g[x])
    <2>1. Rest = UNION {{y} \X (1..g[y]) : y \in S \ {x}}
      OBVIOUS
    <2> QED
      BY <2>1 DEF Tally
  <1>3. ASSUME NEW n \in Nat
        PROVE  /\ IsFiniteSet(Part(n))
               /\ Cardinality(Part(n)) = n
               /\ Rest \cap Part(n) = {}
    <2>1. IsFiniteSet(1..n) /\ Cardinality(1..n) = n
      <3>1. 1 \in Int /\ n \in Int
        OBVIOUS
      <3>2. /\ IsFiniteSet(1..n)
            /\ Cardinality(1..n) = IF 1 > n THEN 0 ELSE n - 1 + 1
        BY <3>1, FS_Interval, Zenon
      <3> QED
        BY <3>2
    <2>2. IsFiniteSet({x}) /\ Cardinality({x}) = 1
      BY FS_Singleton
    <2>3. IsFiniteSet(Part(n)) /\ Cardinality(Part(n)) = Cardinality({x}) * Cardinality(1..n)
      BY <2>1, <2>2, FS_Product
    <2> QED
      BY <2>1, <2>2, <2>3
  <1> HIDE DEF Part
  <1>4. Rest \subseteq Tally(f)
    BY <1>1
  <1> HIDE DEF Rest
  <1>5. IsFiniteSet(Rest) /\ Cardinality(Rest) \in Nat
    BY <1>4, FS_Subset, FS_CardinalityType
  <1>6. ASSUME NEW n \in Nat
        PROVE  /\ IsFiniteSet(Rest \cup Part(n))
               /\ Cardinality(Rest \cup Part(n)) = Cardinality(Rest) + n
    <2>1. /\ IsFiniteSet(Rest \cup Part(n))
          /\ Cardinality(Rest \cup Part(n))
               = Cardinality(Rest) + Cardinality(Part(n)) - Cardinality(Rest \cap Part(n))
      BY <1>3, <1>5, FS_Union
    <2>2. Cardinality(Rest \cap Part(n)) = 0
      BY <1>3, FS_EmptySet
    <2> QED
      BY <1>3, <1>5, <2>1, <2>2
  <1>7. f[x] \in Nat /\ g[x] \in Nat
    OBVIOUS
  <1>8. /\ IsFiniteSet(Tally(g))
        /\ Cardinality(Tally(f)) = Cardinality(Rest) + f[x]
        /\ Cardinality(Tally(g)) = Cardinality(Rest) + g[x]
    BY <1>1, <1>2, <1>6, <1>7
  <1> QED
    BY <1>5, <1>7, <1>8

\* What process i has not written of row (u, w), in an object some code can
\* still get at or not, and the like of all processes.
Pending(i, u, w) == entry[i][u][w].unflushed - InFlight(i, u, w)

Outstanding(u, w) == Tally([i \in Instances |-> Pending(i, u, w)])

\* Conservation with what is owed and what is orphaned taken together.
Balanced ==
    \A u \in Units, w \in Windows :
        rate[u][w] + discarded[u][w] + Cardinality(Outstanding(u, w))
          = admitted[u][w] + replayed[u][w]

\* Nothing is owed for a window a process has no entry for yet.
NothingOwedAhead ==
    \A i \in Instances, u \in Units, w \in Windows :
        w > now \/ (w = now /\ slot[i][u] # now) => entry[i][u][w].unflushed = 0

\* Every total of what is owed is a number.
OutstandingFinite == \A u \in Units, w \in Windows : IsFiniteSet(Outstanding(u, w))

\* The shared total the pass has read, with what the process owes besides, is
\* made of requests let through and of increments written twice.
SharedBacked ==
    \A i \in Instances :
        sync[i].pc = "selected" =>
            sync[i].shared + Held(i).unflushed
              <= admitted[sync[i].unit][sync[i].win] + replayed[sync[i].unit][sync[i].win]

\* CountBacked for every entry, also of a window that is over.
EveryCountBacked ==
    \A i \in Instances, u \in Units, w \in Windows :
        entry[i][u][w].count <= admitted[u][w] + replayed[u][w]

AInv ==
    /\ NothingOwedAhead
    /\ OutstandingFinite
    /\ Balanced
    /\ SharedBacked
    /\ EveryCountBacked

\* What a process has still to write is a number, at most what its entry holds.
LEMMA PendingFacts ==
    ASSUME IInv, NEW i \in Instances, NEW u \in Units, NEW w \in Windows
    PROVE  /\ Pending(i, u, w) \in Nat
           /\ InFlight(i, u, w) \in Nat
           /\ entry[i][u][w].unflushed \in Nat
           /\ Pending(i, u, w) + InFlight(i, u, w) = entry[i][u][w].unflushed
  <1>1. TypeOK /\ CapturedOwed
    BY DEF IInv
  <1>2. entry[i][u][w].unflushed \in Nat
    BY <1>1, Types, Fields
  <1>3. InFlight(i, u, w) \in Nat /\ InFlight(i, u, w) <= entry[i][u][w].unflushed
    BY <1>1, InFlightFacts
  <1> QED
    BY <1>2, <1>3 DEF Pending

\* The counters of the accounts are numbers.
LEMMA Accounts ==
    ASSUME TypeOK, NEW u \in Units, NEW w \in Windows
    PROVE  /\ rate[u][w] \in Nat /\ discarded[u][w] \in Nat
           /\ admitted[u][w] \in Nat /\ replayed[u][w] \in Nat
  BY DEF TypeOK

\* The same two facts in the next state.
LEMMA PendingFactsNext ==
    ASSUME IInv', NEW i \in Instances, NEW u \in Units, NEW w \in Windows
    PROVE  /\ Pending(i, u, w)' \in Nat
           /\ InFlight(i, u, w)' \in Nat
           /\ entry'[i][u][w].unflushed \in Nat
           /\ Pending(i, u, w)' + InFlight(i, u, w)' = entry'[i][u][w].unflushed
           /\ rate'[u][w] \in Nat /\ discarded'[u][w] \in Nat
           /\ admitted'[u][w] \in Nat /\ replayed'[u][w] \in Nat
  <1>1. TypeOK' /\ CapturedOwed'
    BY DEF IInv
  <1>2. /\ rate'[u][w] \in Nat /\ discarded'[u][w] \in Nat
        /\ admitted'[u][w] \in Nat /\ replayed'[u][w] \in Nat
    BY <1>1 DEF TypeOK
  <1>3. entry'[i][u][w] \in Entry /\ sync'[i] \in PassState
    BY <1>1 DEF TypeOK
  <1>4. entry'[i][u][w].unflushed \in Nat /\ sync'[i].captured \in Nat
    BY <1>3, Fields
  <1>5. InFlight(i, u, w)' \in Nat /\ InFlight(i, u, w)' <= entry'[i][u][w].unflushed
    <2>1. CASE sync'[i].pc = "inserted" /\ sync'[i].unit = u /\ sync'[i].win = w
      BY <1>1, <1>4, <2>1 DEF CapturedOwed, InFlight, Held
    <2>2. CASE ~(sync'[i].pc = "inserted" /\ sync'[i].unit = u /\ sync'[i].win = w)
      BY <1>4, <2>2 DEF InFlight
    <2> QED
      BY <2>1, <2>2
  <1> QED
    BY <1>2, <1>4, <1>5 DEF Pending

\* What one process owes is part of the total.
LEMMA PendingCounted ==
    ASSUME IInv, OutstandingFinite, Balanced,
           NEW i \in Instances, NEW u \in Units, NEW w \in Windows
    PROVE  rate[u][w] + Pending(i, u, w) <= admitted[u][w] + replayed[u][w]
  <1> DEFINE f == [j \in Instances |-> Pending(j, u, w)]
             n == Cardinality(Tally(f))
  <1>1. f \in [Instances -> Nat] /\ f[i] = Pending(i, u, w)
    BY PendingFacts
  <1>2. IsFiniteSet(Tally(f)) /\ rate[u][w] + discarded[u][w] + n = admitted[u][w] + replayed[u][w]
    BY DEF OutstandingFinite, Balanced, Outstanding
  <1>3. /\ rate[u][w] \in Nat /\ discarded[u][w] \in Nat
        /\ admitted[u][w] \in Nat /\ replayed[u][w] \in Nat
    BY Accounts DEF IInv
  <1> HIDE DEF f
  <1>4. f[i] <= n /\ n \in Nat /\ f[i] \in Nat
    BY <1>1, <1>2, TallyChanged
  <1> HIDE DEF n
  <1> QED
    BY <1>1, <1>2, <1>3, <1>4

\* A step of one process that writes, counts or loses what it owes of a row
\* keeps the account of that row.
LEMMA RowBalanced ==
    ASSUME IInv, IInv', OutstandingFinite, Balanced,
           NEW i \in Instances, NEW u \in Units, NEW w \in Windows,
           \A j \in Instances : j # i => Pending(j, u, w)' = Pending(j, u, w),
           rate'[u][w] + discarded'[u][w] + Pending(i, u, w)' + admitted[u][w] + replayed[u][w]
             = rate[u][w] + discarded[u][w] + Pending(i, u, w) + admitted'[u][w] + replayed'[u][w]
    PROVE  /\ IsFiniteSet(Outstanding(u, w)')
           /\ (rate[u][w] + discarded[u][w] + Cardinality(Outstanding(u, w))
                 = admitted[u][w] + replayed[u][w])'
  <1> DEFINE f == [j \in Instances |-> Pending(j, u, w)]
             g == [j \in Instances |-> Pending(j, u, w)']
             m == Cardinality(Tally(f))
             n == Cardinality(Tally(g))
  <1>1. f \in [Instances -> Nat] /\ f[i] = Pending(i, u, w)
    BY PendingFacts
  <1>2. g \in [Instances -> Nat] /\ g[i] = Pending(i, u, w)'
    BY PendingFactsNext
  <1>3. \A j \in Instances : j # i => g[j] = f[j]
    OBVIOUS
  <1>4. IsFiniteSet(Tally(f)) /\ rate[u][w] + discarded[u][w] + m = admitted[u][w] + replayed[u][w]
    BY DEF OutstandingFinite, Balanced, Outstanding
  <1>5. Outstanding(u, w)' = Tally(g)
    BY DEF Outstanding, Tally
  <1> HIDE DEF f, g
  <1>6. IsFiniteSet(Tally(g)) /\ n \in Nat /\ n + f[i] = m + g[i]
    BY <1>1, <1>2, <1>3, <1>4, TallyChanged
  <1>7. m \in Nat
    BY <1>4, FS_CardinalityType
  <1>8. /\ rate[u][w] \in Nat /\ discarded[u][w] \in Nat
        /\ admitted[u][w] \in Nat /\ replayed[u][w] \in Nat
    BY Accounts DEF IInv
  <1>9. /\ rate'[u][w] \in Nat /\ discarded'[u][w] \in Nat
        /\ admitted'[u][w] \in Nat /\ replayed'[u][w] \in Nat
    BY PendingFactsNext
  <1>10. f[i] \in Nat /\ g[i] \in Nat
    BY <1>1, <1>2
  <1>11. Cardinality(Outstanding(u, w)') = n
    BY <1>5
  <1>12. rate'[u][w] + discarded'[u][w] + n = admitted'[u][w] + replayed'[u][w]
    <2> DEFINE r1 == rate[u][w]
               d1 == discarded[u][w]
               a1 == admitted[u][w]
               p1 == replayed[u][w]
               r2 == rate'[u][w]
               d2 == discarded'[u][w]
               a2 == admitted'[u][w]
               p2 == replayed'[u][w]
               x == f[i]
               y == g[i]
    <2>1. r2 + d2 + y + a1 + p1 = r1 + d1 + x + a2 + p2
      BY <1>1, <1>2
    <2>2. r1 + d1 + m = a1 + p1
      BY <1>4
    <2>3. n + x = m + y
      BY <1>6
    <2>4. /\ r1 \in Nat /\ d1 \in Nat /\ a1 \in Nat /\ p1 \in Nat
          /\ r2 \in Nat /\ d2 \in Nat /\ a2 \in Nat /\ p2 \in Nat
          /\ m \in Nat /\ n \in Nat /\ x \in Nat /\ y \in Nat
      BY <1>6, <1>7, <1>8, <1>9, <1>10
    <2> HIDE DEF r1, d1, a1, p1, r2, d2, a2, p2, x, y, m, n
    <2>5. r2 + d2 + n = a2 + p2
      BY <2>1, <2>2, <2>3, <2>4
    <2> QED
      BY <2>5 DEF r2, d2, a2, p2
  <1> QED
    BY <1>5, <1>6, <1>11, <1>12

\* What a step has to keep: it is a step of process i alone, it balances every
\* row, and what i counts and what i has read stay backed.
LEMMA StepAInv ==
    ASSUME IInv, IInv', AInv, NEW i \in Instances,
           \A j \in Instances : j # i =>
             /\ sync'[j] = sync[j]
             /\ \A u \in Units, w \in Windows : entry'[j][u][w] = entry[j][u][w],
           \A u \in Units, w \in Windows :
             rate'[u][w] + discarded'[u][w] + Pending(i, u, w)' + admitted[u][w] + replayed[u][w]
               = rate[u][w] + discarded[u][w] + Pending(i, u, w) + admitted'[u][w] + replayed'[u][w],
           \A u \in Units, w \in Windows :
             admitted[u][w] + replayed[u][w] <= admitted'[u][w] + replayed'[u][w],
           \A u \in Units, w \in Windows :
             entry'[i][u][w].count <= admitted'[u][w] + replayed'[u][w],
           sync'[i].pc = "selected" =>
             sync'[i].shared + Held(i)'.unflushed
               <= admitted'[sync'[i].unit][sync'[i].win] + replayed'[sync'[i].unit][sync'[i].win],
           NothingOwedAhead'
    PROVE  AInv'
  <1>0. OutstandingFinite /\ Balanced /\ SharedBacked /\ EveryCountBacked
    BY DEF AInv
  <1>1. OutstandingFinite' /\ Balanced'
    <2> SUFFICES ASSUME NEW u \in Units, NEW w \in Windows
                 PROVE  /\ IsFiniteSet(Outstanding(u, w)')
                        /\ (rate[u][w] + discarded[u][w] + Cardinality(Outstanding(u, w))
                              = admitted[u][w] + replayed[u][w])'
      BY DEF OutstandingFinite, Balanced
    <2>1. \A j \in Instances : j # i => Pending(j, u, w)' = Pending(j, u, w)
      BY DEF Pending, InFlight
    <2> QED
      BY <1>0, <2>1, RowBalanced
  <1>2. ASSUME NEW u \in Units, NEW w \in Windows, NEW n \in Nat,
               n <= admitted[u][w] + replayed[u][w]
        PROVE  n <= admitted'[u][w] + replayed'[u][w]
    <2>1. /\ admitted[u][w] \in Nat /\ replayed[u][w] \in Nat
          /\ admitted'[u][w] \in Nat /\ replayed'[u][w] \in Nat
      BY Accounts, PendingFactsNext DEF IInv
    <2>2. admitted[u][w] + replayed[u][w] <= admitted'[u][w] + replayed'[u][w]
      OBVIOUS
    <2> QED
      BY <1>2, <2>1, <2>2
  <1>3. EveryCountBacked'
    <2> SUFFICES ASSUME NEW j \in Instances, NEW u \in Units, NEW w \in Windows
                 PROVE  entry'[j][u][w].count <= admitted'[u][w] + replayed'[u][w]
      BY DEF EveryCountBacked
    <2>1. CASE j = i
      BY <2>1
    <2>2. CASE j # i
      <3>1. entry'[j][u][w] = entry[j][u][w] /\ entry[j][u][w].count \in Nat
        BY <2>2, Types, Fields DEF IInv
      <3>2. entry[j][u][w].count <= admitted[u][w] + replayed[u][w]
        BY <1>0 DEF EveryCountBacked
      <3> QED
        BY <3>1, <3>2, <1>2
    <2> QED
      BY <2>1, <2>2
  <1>4. SharedBacked'
    <2> SUFFICES ASSUME NEW j \in Instances, sync'[j].pc = "selected"
                 PROVE  sync'[j].shared + Held(j)'.unflushed
                          <= admitted'[sync'[j].unit][sync'[j].win]
                               + replayed'[sync'[j].unit][sync'[j].win]
      BY DEF SharedBacked
    <2>1. CASE j = i
      BY <2>1
    <2>2. CASE j # i
      <3>1. sync'[j] = sync[j] /\ sync[j].pc = "selected"
        BY <2>2
      <3>2. sync[j].unit \in Units /\ sync[j].win \in Windows
        BY <3>1 DEF IInv, PassHolds
      <3>3. Held(j)' = Held(j)
        BY <2>2, <3>1, <3>2 DEF Held
      <3>4. sync[j].shared \in Nat /\ Held(j).unflushed \in Nat
        BY <3>2, Types, Fields DEF IInv, Held
      <3>5. sync[j].shared + Held(j).unflushed \in Nat
        BY <3>4
      <3>6. sync[j].shared + Held(j).unflushed
              <= admitted[sync[j].unit][sync[j].win] + replayed[sync[j].unit][sync[j].win]
        BY <1>0, <3>1 DEF SharedBacked
      <3> QED
        BY <3>1, <3>2, <3>3, <3>5, <3>6, <1>2
    <2> QED
      BY <2>1, <2>2
  <1> QED
    BY <1>1, <1>3, <1>4 DEF AInv

\* A step that leaves the entries and the accounts alone.
LEMMA QuietAInv ==
    ASSUME IInv, IInv', AInv, NEW i \in Instances,
           UNCHANGED <<entry, rate, admitted, replayed, discarded>>,
           \A j \in Instances : j # i => sync'[j] = sync[j],
           sync[i].pc # "inserted" \/ sync'[i] = sync[i],
           sync'[i].pc # "inserted" \/ sync'[i] = sync[i],
           sync'[i].pc = "selected" /\ sync'[i] # sync[i] =>
             /\ sync[i].pc # "inserted"
             /\ sync'[i].shared = rate[sync'[i].unit][sync'[i].win],
           NothingOwedAhead'
    PROVE  AInv'
  <1>0. OutstandingFinite /\ Balanced /\ SharedBacked /\ EveryCountBacked
    BY DEF AInv
  <1>1. ASSUME NEW u \in Units, NEW w \in Windows
        PROVE  Pending(i, u, w)' = Pending(i, u, w)
    <2>1. InFlight(i, u, w)' = InFlight(i, u, w)
      BY DEF InFlight
    <2> QED
      BY <2>1 DEF Pending
  <1>2. ASSUME NEW u \in Units, NEW w \in Windows
        PROVE  /\ admitted[u][w] + replayed[u][w] <= admitted'[u][w] + replayed'[u][w]
               /\ rate'[u][w] + discarded'[u][w] + Pending(i, u, w)' + admitted[u][w] + replayed[u][w]
                    = rate[u][w] + discarded[u][w] + Pending(i, u, w)
                        + admitted'[u][w] + replayed'[u][w]
    <2>1. admitted[u][w] \in Nat /\ replayed[u][w] \in Nat
      BY Accounts DEF IInv
    <2> QED
      BY <2>1, <1>1
  <1>3. \A u \in Units, w \in Windows :
          entry'[i][u][w].count <= admitted'[u][w] + replayed'[u][w]
    BY <1>0 DEF EveryCountBacked
  <1>4. ASSUME sync'[i].pc = "selected"
        PROVE  sync'[i].shared + Held(i)'.unflushed
                 <= admitted'[sync'[i].unit][sync'[i].win]
                      + replayed'[sync'[i].unit][sync'[i].win]
    <2> DEFINE u == sync'[i].unit
               w == sync'[i].win
    <2>1. u \in Units /\ w \in Windows
      BY <1>4 DEF IInv, PassHolds
    <2>2. CASE sync'[i] = sync[i]
      BY <2>2, <1>4, <1>0 DEF SharedBacked, Held
    <2>3. CASE sync'[i] # sync[i]
      <3>1. sync'[i].shared = rate[u][w] /\ sync[i].pc # "inserted"
        BY <2>3, <1>4
      <3>2. Held(i)'.unflushed = entry[i][u][w].unflushed
        BY DEF Held
      <3> HIDE DEF u, w
      <3>3. Pending(i, u, w) = entry[i][u][w].unflushed
        <4>1. InFlight(i, u, w) = 0
          BY <3>1 DEF InFlight
        <4> QED
          BY <4>1, <2>1, PendingFacts DEF Pending
      <3>4. rate[u][w] + Pending(i, u, w) <= admitted[u][w] + replayed[u][w]
        BY <2>1, <1>0, PendingCounted
      <3> QED
        BY <3>1, <3>2, <3>3, <3>4 DEF u, w
    <2> QED
      BY <2>2, <2>3
  <1> QED
    BY <1>1, <1>2, <1>3, <1>4, StepAInv

\* A request that is let through is owed by its process and counted as let
\* through; the entry of a window that ended is not the one it is counted in.
LEMMA AdmitAInv ==
    ASSUME IInv, IInv', AInv, NEW i \in Instances, NEW u \in Units, Admit(i, u)
    PROVE  AInv'
  <1> DEFINE e == [HotEntry(i, u) EXCEPT !.count = @ + 1, !.unflushed = @ + 1]
  <1>0. /\ TypeOK /\ PassHolds /\ NothingAhead
        /\ OutstandingFinite /\ Balanced /\ SharedBacked /\ EveryCountBacked /\ NothingOwedAhead
    BY DEF IInv, AInv
  <1>1. /\ now \in Windows /\ now \in Nat
        /\ HotEntry(i, u) \in Entry
        /\ HotEntry(i, u).unflushed = entry[i][u][now].unflushed
        /\ HotEntry(i, u).count <= admitted[u][now] + replayed[u][now]
    <2>1. now \in Windows /\ now \in Nat
      BY <1>0, WindowFacts DEF TypeOK
    <2>2. CASE slot[i][u] = now
      BY <2>1, <2>2, <1>0, Types DEF HotEntry, EveryCountBacked
    <2>3. CASE slot[i][u] # now
      <3>1. PrevCap(i, u) \in Caps \cup {NoCap}
        BY <1>0, Types, Fields DEF PrevCap
      <3>2. /\ HotEntry(i, u) \in Entry
            /\ HotEntry(i, u).unflushed = 0 /\ HotEntry(i, u).count = 0
        BY <2>3, <3>1 DEF HotEntry, Fresh, Entry
      <3>3. entry[i][u][now].unflushed = 0
        BY <2>1, <2>3, <1>0 DEF NothingOwedAhead
      <3>4. admitted[u][now] \in Nat /\ replayed[u][now] \in Nat
        BY <2>1, <1>0, Accounts
      <3> QED
        BY <2>1, <3>2, <3>3, <3>4
    <2> QED
      BY <2>1, <2>2, <2>3
  <1>2. /\ e \in Entry
        /\ e.count = HotEntry(i, u).count + 1
        /\ e.unflushed = entry[i][u][now].unflushed + 1
    <2>1. /\ e \in Entry
          /\ e.count = HotEntry(i, u).count + 1
          /\ e.unflushed = HotEntry(i, u).unflushed + 1
      BY <1>1, Counting
    <2> QED
      BY <2>1, <1>1
  <1> HIDE DEF e
  <1>3. \A x \in Instances, y \in Units, z \in Windows :
          entry'[x][y][z] = IF x = i /\ y = u /\ z = now THEN e ELSE entry[x][y][z]
    <2>1. entry' = [entry EXCEPT ![i][u][now] = e]
      BY DEF Admit, Install, e
    <2>2. entry \in [Instances -> [Units -> [Windows -> Entry]]]
      BY <1>0 DEF TypeOK
    <2> QED
      BY <2>1, <2>2, <1>1, <1>2, SMTT(30)
  <1>4. /\ \A y \in Units, z \in Windows :
             admitted'[y][z] = IF y = u /\ z = now THEN admitted[y][z] + 1 ELSE admitted[y][z]
        /\ UNCHANGED <<now, sync, rate, replayed, discarded>>
    <2>1. admitted[u][now] + 1 \in Nat
      BY <1>0, <1>1, Accounts
    <2>2. admitted' = [admitted EXCEPT ![u][now] = admitted[u][now] + 1]
      BY DEF Admit
    <2>3. admitted \in [Units -> [Windows -> Nat]]
      BY <1>0 DEF TypeOK
    <2>4. \A y \in Units, z \in Windows :
            admitted'[y][z] = IF y = u /\ z = now THEN admitted[u][now] + 1 ELSE admitted[y][z]
      BY <2>1, <2>2, <2>3, <1>1, Update2
    <2> QED
      BY <2>4 DEF Admit
  <1>5. \A x \in Instances, y \in Units :
          slot'[x][y] = IF x = i /\ y = u THEN now ELSE slot[x][y]
    BY <1>0, <1>1, Update2 DEF Admit, Install, TypeOK
  <1>6. NothingOwedAhead'
    <2> SUFFICES ASSUME NEW x \in Instances, NEW y \in Units, NEW z \in Windows,
                        z > now \/ (z = now /\ slot'[x][y] # now)
                 PROVE  entry'[x][y][z].unflushed = 0
      BY <1>4 DEF NothingOwedAhead
    <2>1. z \in Nat
      BY WindowFacts
    <2>2. ~(x = i /\ y = u /\ z = now)
      BY <1>1, <1>5, <2>1
    <2>3. z > now \/ (z = now /\ slot[x][y] # now)
      BY <1>5, <2>2
    <2>4. entry[x][y][z].unflushed = 0
      BY <2>3, <1>0 DEF NothingOwedAhead
    <2> QED
      BY <2>2, <2>4, <1>3
  <1>7. \A j \in Instances : j # i =>
          /\ sync'[j] = sync[j]
          /\ \A y \in Units, z \in Windows : entry'[j][y][z] = entry[j][y][z]
    BY <1>3, <1>4
  <1>8. ASSUME NEW y \in Units, NEW z \in Windows
        PROVE  /\ rate'[y][z] + discarded'[y][z] + Pending(i, y, z)' + admitted[y][z] + replayed[y][z]
                    = rate[y][z] + discarded[y][z] + Pending(i, y, z)
                        + admitted'[y][z] + replayed'[y][z]
               /\ admitted[y][z] + replayed[y][z] <= admitted'[y][z] + replayed'[y][z]
               /\ entry'[i][y][z].count <= admitted'[y][z] + replayed'[y][z]
    <2>1. /\ rate[y][z] \in Nat /\ discarded[y][z] \in Nat
          /\ admitted[y][z] \in Nat /\ replayed[y][z] \in Nat
          /\ Pending(i, y, z) \in Nat /\ InFlight(i, y, z) \in Nat
          /\ entry[i][y][z].unflushed \in Nat /\ entry[i][y][z].count \in Nat
          /\ HotEntry(i, u).count \in Nat
      BY <1>0, <1>1, Accounts, PendingFacts, Types, Fields
    <2>2. InFlight(i, y, z)' = InFlight(i, y, z)
      BY <1>4 DEF InFlight
    <2>3. CASE y = u /\ z = now
      <3>1. entry'[i][y][z] = e /\ admitted'[y][z] = admitted[y][z] + 1
        BY <2>3, <1>3, <1>4
      <3>2. Pending(i, y, z)' = Pending(i, y, z) + 1
        BY <2>1, <2>2, <2>3, <3>1, <1>2 DEF Pending
      <3>3. e.count <= admitted[y][z] + 1 + replayed[y][z]
        BY <2>1, <2>3, <1>1, <1>2
      <3> QED
        BY <2>1, <3>1, <3>2, <3>3, <1>4
    <2>4. CASE ~(y = u /\ z = now)
      <3>1. entry'[i][y][z] = entry[i][y][z] /\ admitted'[y][z] = admitted[y][z]
        BY <2>4, <1>3, <1>4
      <3>2. Pending(i, y, z)' = Pending(i, y, z)
        BY <2>2, <3>1 DEF Pending
      <3>3. entry[i][y][z].count <= admitted[y][z] + replayed[y][z]
        BY <1>0 DEF EveryCountBacked
      <3> QED
        BY <2>1, <3>1, <3>2, <3>3, <1>4
    <2> QED
      BY <2>3, <2>4
  <1>9. ASSUME sync'[i].pc = "selected"
        PROVE  sync'[i].shared + Held(i)'.unflushed
                 <= admitted'[sync'[i].unit][sync'[i].win]
                      + replayed'[sync'[i].unit][sync'[i].win]
    <2> DEFINE y == sync[i].unit
               z == sync[i].win
    <2>1. sync' = sync /\ sync[i].pc = "selected" /\ replayed' = replayed
      BY <1>4, <1>9
    <2>2. y \in Units /\ z \in Windows /\ sync[i].shared \in Nat
      BY <2>1, <1>0, Types, Fields DEF PassHolds
    <2>3. sync[i].shared + entry[i][y][z].unflushed <= admitted[y][z] + replayed[y][z]
      BY <2>1, <1>0 DEF SharedBacked, Held
    <2>4. Held(i)' = entry'[i][y][z]
      BY <2>1 DEF Held
    <2> HIDE DEF y, z
    <2>5. /\ admitted[y][z] \in Nat /\ replayed[y][z] \in Nat
          /\ entry[i][y][z].unflushed \in Nat
      BY <2>2, <1>0, Accounts, Types, Fields
    <2>6. sync[i].shared + entry'[i][y][z].unflushed <= admitted'[y][z] + replayed[y][z]
      <3>1. CASE y = u /\ z = now
        BY <2>2, <2>3, <2>5, <3>1, <1>2, <1>3, <1>4
      <3>2. CASE ~(y = u /\ z = now)
        BY <2>2, <2>3, <3>2, <1>3, <1>4
      <3> QED
        BY <3>1, <3>2
    <2> QED
      BY <2>1, <2>4, <2>6 DEF y, z
  <1> QED
    BY <1>6, <1>7, <1>8, <1>9, StepAInv

\* What an assignment to the entry the pass holds changes.
LEMMA AssignedEntry ==
    ASSUME TypeOK, NEW i \in Instances, NEW e \in Entry, Assign(i, e),
           sync[i].unit \in Units, sync[i].win \in Windows
    PROVE  \A x \in Instances, y \in Units, z \in Windows :
             entry'[x][y][z] =
               IF x = i /\ y = sync[i].unit /\ z = sync[i].win THEN e ELSE entry[x][y][z]
  <1> DEFINE u == sync[i].unit
             w == sync[i].win
  <1>1. entry' = [entry EXCEPT ![i][u][w] = e]
    BY DEF Assign
  <1>2. entry \in [Instances -> [Units -> [Windows -> Entry]]]
    BY DEF TypeOK
  <1>3. u \in Units /\ w \in Windows
    OBVIOUS
  <1> HIDE DEF u, w
  <1>4. \A x \in Instances, y \in Units, z \in Windows :
          entry'[x][y][z] = IF x = i /\ y = u /\ z = w THEN e ELSE entry[x][y][z]
    BY <1>1, <1>2, <1>3, SMTT(30)
  <1> QED
    BY <1>4 DEF u, w

\* A reply that writes to the entry the pass holds.
LEMMA AssignAInv ==
    ASSUME IInv, IInv', AInv, NEW i \in Instances, NEW e \in Entry, NEW s \in PassState,
           sync[i].pc \notin {"idle", "pass"},
           Assign(i, e), Set(i, s),
           s.unit = sync[i].unit, s.win = sync[i].win,
           s.pc # "selected", s.pc # "inserted",
           e.unflushed = Pending(i, s.unit, s.win),
           e.count <= admitted[s.unit][s.win] + replayed[s.unit][s.win],
           UNCHANGED <<now, slot, rate, ghosts>>
    PROVE  AInv'
  <1> DEFINE u == s.unit
             w == s.win
  <1>0. /\ TypeOK /\ PassHolds /\ NothingAhead /\ NothingOwedAhead /\ EveryCountBacked
    BY DEF IInv, AInv
  <1>1. /\ u \in Units /\ w \in Windows
        /\ w < now \/ slot[i][u] = w
        /\ w \in Nat /\ now \in Nat
    BY <1>0, WindowFacts DEF PassHolds, TypeOK
  <1>2. \A x \in Instances, y \in Units, z \in Windows :
          entry'[x][y][z] = IF x = i /\ y = u /\ z = w THEN e ELSE entry[x][y][z]
    BY <1>0, <1>1, AssignedEntry
  <1>3. sync'[i] = s /\ \A j \in Instances : j # i => sync'[j] = sync[j]
    BY <1>0 DEF Set, TypeOK
  <1>4. \A j \in Instances : j # i =>
          /\ sync'[j] = sync[j]
          /\ \A y \in Units, z \in Windows : entry'[j][y][z] = entry[j][y][z]
    BY <1>2, <1>3
  <1>5. UNCHANGED <<now, slot, rate, admitted, replayed, discarded>>
    BY DEF ghosts
  <1>6. e.unflushed = Pending(i, u, w) /\ e.count <= admitted[u][w] + replayed[u][w]
    OBVIOUS
  <1>7. sync[i].unit = u /\ sync[i].win = w
    OBVIOUS
  <1> HIDE DEF u, w
  <1>8. NothingOwedAhead'
    <2> SUFFICES ASSUME NEW x \in Instances, NEW y \in Units, NEW z \in Windows,
                        z > now \/ (z = now /\ slot[x][y] # now)
                 PROVE  entry'[x][y][z].unflushed = 0
      BY <1>5 DEF NothingOwedAhead
    <2>1. z \in Nat
      BY WindowFacts
    <2>2. ~(x = i /\ y = u /\ z = w)
      <3> SUFFICES ASSUME x = i, y = u, z = w PROVE FALSE
        OBVIOUS
      <3>1. slot[i][u] = w
        BY <1>1, <2>1
      <3>2. w <= now
        BY <1>0, <1>1, <3>1, WindowFacts DEF NothingAhead
      <3> QED
        BY <1>1, <3>1, <3>2
    <2> QED
      BY <2>2, <1>0, <1>2 DEF NothingOwedAhead
  <1>9. ASSUME NEW y \in Units, NEW z \in Windows
        PROVE  /\ Pending(i, y, z)' = Pending(i, y, z)
               /\ entry'[i][y][z].count <= admitted[y][z] + replayed[y][z]
    <2>1. InFlight(i, y, z)' = 0
      BY <1>3 DEF InFlight
    <2>2. CASE y = u /\ z = w
      <3>1. entry'[i][y][z] = e
        BY <2>2, <1>2
      <3>2. e.unflushed \in Nat
        BY Fields
      <3> QED
        BY <2>1, <2>2, <3>1, <3>2, <1>6 DEF Pending
    <2>3. CASE ~(y = u /\ z = w)
      <3>1. entry'[i][y][z] = entry[i][y][z]
        BY <2>3, <1>2
      <3>2. InFlight(i, y, z) = 0
        BY <2>3, <1>7 DEF InFlight
      <3>3. entry[i][y][z].count <= admitted[y][z] + replayed[y][z]
        BY <1>0 DEF EveryCountBacked
      <3> QED
        BY <2>1, <3>1, <3>2, <3>3 DEF Pending
    <2> QED
      BY <2>2, <2>3
  <1>10. ASSUME NEW y \in Units, NEW z \in Windows
         PROVE  /\ admitted[y][z] + replayed[y][z] <= admitted'[y][z] + replayed'[y][z]
                /\ rate'[y][z] + discarded'[y][z] + Pending(i, y, z)' + admitted[y][z] + replayed[y][z]
                    = rate[y][z] + discarded[y][z] + Pending(i, y, z)
                        + admitted'[y][z] + replayed'[y][z]
                /\ entry'[i][y][z].count <= admitted'[y][z] + replayed'[y][z]
    <2>1. admitted[y][z] \in Nat /\ replayed[y][z] \in Nat
      BY <1>0, Accounts
    <2> QED
      BY <2>1, <1>5, <1>9
  <1>11. sync'[i].pc # "selected"
    BY <1>3
  <1> QED
    BY <1>4, <1>8, <1>10, <1>11, StepAInv

\* The cap is stored; nothing is counted or owed more for it.
LEMMA StoreCapAInv ==
    ASSUME IInv, IInv', AInv, NEW i \in Instances, NEW cap \in Caps,
           sync[i].pc = "cap", StoreCap(i, cap), UNCHANGED <<now, slot, rate, ghosts>>
    PROVE  AInv'
  <1> DEFINE e == [Held(i) EXCEPT !.cap = cap]
             s == [sync[i] EXCEPT !.captured = Held(i).unflushed,
                                  !.pc = IF Held(i).unflushed > 0 THEN "insert" ELSE "select"]
  <1>1. /\ TypeOK /\ EveryCountBacked
        /\ sync[i].unit \in Units /\ sync[i].win \in Windows
    BY DEF IInv, AInv, PassHolds
  <1>2. Held(i) \in Entry
    BY <1>1, Types DEF Held
  <1>3. e \in Entry /\ e.unflushed = Held(i).unflushed /\ e.count = Held(i).count
    BY <1>2, Fields DEF Entry
  <1>4. /\ s \in PassState /\ s.unit = sync[i].unit /\ s.win = sync[i].win
        /\ s.pc \in {"insert", "select"}
    BY <1>1, <1>2, Fields, Types DEF PassState
  <1>5. Assign(i, e) /\ Set(i, s)
    BY DEF StoreCap
  <1> HIDE DEF e, s
  <1>6. e.unflushed = Pending(i, s.unit, s.win)
    <2>1. InFlight(i, s.unit, s.win) = 0
      BY DEF InFlight
    <2> QED
      BY <2>1, <1>1, <1>3, <1>4, PendingFacts DEF Pending, Held
  <1>7. e.count <= admitted[s.unit][s.win] + replayed[s.unit][s.win]
    BY <1>1, <1>3, <1>4 DEF EveryCountBacked, Held
  <1>8. s.pc # "selected" /\ s.pc # "inserted" /\ sync[i].pc \notin {"idle", "pass"}
    BY <1>4
  <1> QED
    BY <1>3, <1>4, <1>5, <1>6, <1>7, <1>8, AssignAInv

\* What the table has counted is no longer in flight.
LEMMA InsertReplyAInv ==
    ASSUME IInv, IInv', AInv, NEW i \in Instances, InsertReply(i)
    PROVE  AInv'
  <1> DEFINE e == [Held(i) EXCEPT !.unflushed = @ - sync[i].captured]
             s == [sync[i] EXCEPT !.pc = "select"]
  <1>1. /\ TypeOK /\ EveryCountBacked /\ sync[i].pc = "inserted"
        /\ sync[i].unit \in Units /\ sync[i].win \in Windows
        /\ sync[i].captured <= Held(i).unflushed
    BY DEF IInv, AInv, PassHolds, CapturedOwed, InsertReply
  <1>2. Held(i) \in Entry /\ sync[i].captured \in Nat
    BY <1>1, Types, Fields DEF Held
  <1>3. Held(i).unflushed - sync[i].captured \in Nat
    BY <1>1, <1>2, Fields
  <1>4. /\ e \in Entry /\ e.count = Held(i).count
        /\ e.unflushed = Held(i).unflushed - sync[i].captured
    BY <1>2, <1>3 DEF Entry
  <1>5. /\ s \in PassState /\ s.unit = sync[i].unit /\ s.win = sync[i].win /\ s.pc = "select"
    BY <1>1, Types DEF PassState
  <1>6. Assign(i, e) /\ Set(i, s)
    BY DEF InsertReply
  <1> HIDE DEF e, s
  <1>7. e.unflushed = Pending(i, s.unit, s.win)
    <2>1. InFlight(i, s.unit, s.win) = sync[i].captured
      BY <1>1, <1>5 DEF InFlight
    <2> QED
      BY <2>1, <1>4, <1>5 DEF Pending, Held
  <1>8. e.count <= admitted[s.unit][s.win] + replayed[s.unit][s.win]
    BY <1>1, <1>4, <1>5 DEF EveryCountBacked, Held
  <1>9. s.pc # "selected" /\ s.pc # "inserted" /\ sync[i].pc \notin {"idle", "pass"}
    BY <1>1, <1>5
  <1>10. UNCHANGED <<now, slot, rate, ghosts>>
    BY DEF InsertReply
  <1> QED
    BY <1>4, <1>5, <1>6, <1>7, <1>8, <1>9, <1>10, AssignAInv

\* The total the counter adopts is backed.
LEMMA SelectReplyAInv ==
    ASSUME IInv, IInv', AInv, NEW i \in Instances, SelectReply(i)
    PROVE  AInv'
  <1> DEFINE e == [Held(i) EXCEPT !.count = sync[i].shared + Held(i).unflushed]
             s == [sync[i] EXCEPT !.pc = "pass"]
  <1>1. /\ TypeOK /\ sync[i].pc = "selected"
        /\ sync[i].unit \in Units /\ sync[i].win \in Windows
        /\ sync[i].shared + Held(i).unflushed
             <= admitted[sync[i].unit][sync[i].win] + replayed[sync[i].unit][sync[i].win]
    BY DEF IInv, AInv, PassHolds, SharedBacked, SelectReply
  <1>2. Held(i) \in Entry /\ sync[i].shared \in Nat
    BY <1>1, Types, Fields DEF Held
  <1>3. sync[i].shared + Held(i).unflushed \in Nat
    BY <1>1, <1>2, Fields
  <1>4. /\ e \in Entry /\ e.count = sync[i].shared + Held(i).unflushed
        /\ e.unflushed = Held(i).unflushed
    BY <1>2, <1>3 DEF Entry
  <1>5. /\ s \in PassState /\ s.unit = sync[i].unit /\ s.win = sync[i].win /\ s.pc = "pass"
    BY <1>1, Types DEF PassState
  <1>6. Assign(i, e) /\ Set(i, s)
    BY DEF SelectReply
  <1> HIDE DEF e, s
  <1>7. e.unflushed = Pending(i, s.unit, s.win)
    <2>1. InFlight(i, s.unit, s.win) = 0
      BY <1>1 DEF InFlight
    <2> QED
      BY <2>1, <1>1, <1>4, <1>5, PendingFacts DEF Pending, Held
  <1>8. e.count <= admitted[s.unit][s.win] + replayed[s.unit][s.win]
    BY <1>1, <1>4, <1>5
  <1>9. s.pc # "selected" /\ s.pc # "inserted" /\ sync[i].pc \notin {"idle", "pass"}
    BY <1>1, <1>5
  <1>10. UNCHANGED <<now, slot, rate, ghosts>>
    BY DEF SelectReply
  <1> QED
    BY <1>4, <1>5, <1>6, <1>7, <1>8, <1>9, <1>10, AssignAInv

\* The row gains what the process stops owing.
LEMMA InsertCommitsAInv ==
    ASSUME IInv, IInv', AInv, NEW i \in Instances, InsertCommits(i)
    PROVE  AInv'
  <1> DEFINE u == sync[i].unit
             w == sync[i].win
             c == sync[i].captured
  <1>0. TypeOK /\ NothingOwedAhead /\ EveryCountBacked
    BY DEF IInv, AInv
  <1>1. /\ sync[i].pc = "insert" /\ u \in Units /\ w \in Windows /\ c \in Nat
    BY <1>0, Types, Fields DEF IInv, PassHolds, InsertCommits
  <1>2. /\ sync'[i] = [sync[i] EXCEPT !.pc = "inserted"]
        /\ \A j \in Instances : j # i => sync'[j] = sync[j]
    BY <1>0 DEF InsertCommits, Set, TypeOK
  <1>3. /\ sync'[i].pc = "inserted" /\ sync'[i].unit = u
        /\ sync'[i].win = w /\ sync'[i].captured = c
    BY <1>0, <1>2, Types DEF PassState
  <1>4. rate' = [rate EXCEPT ![u][w] = rate[u][w] + c]
    BY DEF InsertCommits
  <1>5. UNCHANGED <<now, slot, entry, admitted, replayed, discarded>>
    BY DEF InsertCommits, ghosts
  <1>6. sync[i].unit = u /\ sync[i].win = w
    OBVIOUS
  <1> HIDE DEF u, w, c
  <1>7. \A y \in Units, z \in Windows :
          rate'[y][z] = IF y = u /\ z = w THEN rate[u][w] + c ELSE rate[y][z]
    <2>1. rate[u][w] + c \in Nat
      BY <1>0, <1>1, Accounts
    <2>2. rate \in [Units -> [Windows -> Nat]]
      BY <1>0 DEF TypeOK
    <2> QED
      BY <2>1, <2>2, <1>1, <1>4, Update2
  <1>8. ASSUME NEW y \in Units, NEW z \in Windows
        PROVE  /\ admitted[y][z] + replayed[y][z] <= admitted'[y][z] + replayed'[y][z]
               /\ rate'[y][z] + discarded'[y][z] + Pending(i, y, z)' + admitted[y][z] + replayed[y][z]
                    = rate[y][z] + discarded[y][z] + Pending(i, y, z)
                        + admitted'[y][z] + replayed'[y][z]
               /\ entry'[i][y][z].count <= admitted'[y][z] + replayed'[y][z]
    <2>1. /\ rate[y][z] \in Nat /\ discarded[y][z] \in Nat
          /\ admitted[y][z] \in Nat /\ replayed[y][z] \in Nat
          /\ entry[i][y][z].unflushed \in Nat
      BY <1>0, Accounts, Types, Fields
    <2>2. InFlight(i, y, z) = 0
      BY <1>1 DEF InFlight
    <2>3. InFlight(i, y, z)' = IF y = u /\ z = w THEN c ELSE 0
      BY <1>3 DEF InFlight
    <2>4. rate'[y][z] + Pending(i, y, z)' = rate[y][z] + Pending(i, y, z) /\ Pending(i, y, z)' \in Int
      <3>1. CASE y = u /\ z = w
        BY <2>1, <2>2, <2>3, <3>1, <1>1, <1>5, <1>7 DEF Pending
      <3>2. CASE ~(y = u /\ z = w)
        BY <2>1, <2>2, <2>3, <3>2, <1>5, <1>7 DEF Pending
      <3> QED
        BY <3>1, <3>2
    <2>5. rate'[y][z] \in Nat /\ Pending(i, y, z) \in Nat
      BY PendingFacts, PendingFactsNext
    <2> HIDE DEF Pending
    <2>6. /\ admitted[y][z] + replayed[y][z] <= admitted'[y][z] + replayed'[y][z]
          /\ rate'[y][z] + discarded'[y][z] + Pending(i, y, z)' + admitted[y][z] + replayed[y][z]
               = rate[y][z] + discarded[y][z] + Pending(i, y, z)
                   + admitted'[y][z] + replayed'[y][z]
      BY <2>1, <2>4, <2>5, <1>5
    <2> QED
      BY <2>6, <1>0, <1>5 DEF EveryCountBacked
  <1>9. NothingOwedAhead' /\ sync'[i].pc # "selected"
    BY <1>0, <1>3, <1>5 DEF NothingOwedAhead
  <1>10. \A j \in Instances : j # i =>
           /\ sync'[j] = sync[j]
           /\ \A y \in Units, z \in Windows : entry'[j][y][z] = entry[j][y][z]
    BY <1>2, <1>5
  <1> QED
    BY <1>8, <1>9, <1>10, StepAInv

\* A write whose reply never came is owed again, and counted as written twice.
LEMMA ReplayAInv ==
    ASSUME IInv, IInv', AInv, NEW i \in Instances, sync[i].pc = "inserted",
           sync'[i].pc \in {"idle", "pass"},
           \A j \in Instances : j # i => sync'[j] = sync[j],
           replayed' = [replayed EXCEPT ![sync[i].unit][sync[i].win] = @ + sync[i].captured],
           UNCHANGED <<now, slot, entry, rate, admitted, discarded>>
    PROVE  AInv'
  <1> DEFINE u == sync[i].unit
             w == sync[i].win
             c == sync[i].captured
  <1>0. TypeOK /\ NothingOwedAhead /\ EveryCountBacked
    BY DEF IInv, AInv
  <1>1. /\ u \in Units /\ w \in Windows /\ c \in Nat
    BY <1>0, Types, Fields DEF IInv, PassHolds
  <1>2. replayed' = [replayed EXCEPT ![u][w] = replayed[u][w] + c]
    OBVIOUS
  <1>3. \A y \in Units, z \in Windows : InFlight(i, y, z) = IF y = u /\ z = w THEN c ELSE 0
    BY DEF InFlight
  <1> HIDE DEF u, w, c
  <1>4. \A y \in Units, z \in Windows :
          replayed'[y][z] = IF y = u /\ z = w THEN replayed[u][w] + c ELSE replayed[y][z]
    <2>1. replayed[u][w] + c \in Nat
      BY <1>0, <1>1, Accounts
    <2>2. replayed \in [Units -> [Windows -> Nat]]
      BY <1>0 DEF TypeOK
    <2> QED
      BY <2>1, <2>2, <1>1, <1>2, Update2
  <1>5. ASSUME NEW y \in Units, NEW z \in Windows
        PROVE  /\ admitted[y][z] + replayed[y][z] <= admitted'[y][z] + replayed'[y][z]
               /\ rate'[y][z] + discarded'[y][z] + Pending(i, y, z)' + admitted[y][z] + replayed[y][z]
                    = rate[y][z] + discarded[y][z] + Pending(i, y, z)
                        + admitted'[y][z] + replayed'[y][z]
               /\ entry'[i][y][z].count <= admitted'[y][z] + replayed'[y][z]
    <2>1. /\ rate[y][z] \in Nat /\ discarded[y][z] \in Nat
          /\ admitted[y][z] \in Nat /\ replayed[y][z] \in Nat
          /\ entry[i][y][z].unflushed \in Nat /\ entry[i][y][z].count \in Nat
      BY <1>0, Accounts, Types, Fields
    <2>2. InFlight(i, y, z)' = 0
      BY DEF InFlight
    <2>3. /\ replayed'[y][z] = replayed[y][z] + InFlight(i, y, z)
          /\ InFlight(i, y, z) \in Nat
      <3>1. CASE y = u /\ z = w
        BY <3>1, <1>1, <1>3, <1>4
      <3>2. CASE ~(y = u /\ z = w)
        BY <3>2, <2>1, <1>3, <1>4
      <3> QED
        BY <3>1, <3>2
    <2>4. Pending(i, y, z)' = Pending(i, y, z) + InFlight(i, y, z) /\ Pending(i, y, z) \in Nat
      BY <2>1, <2>2, <2>3, PendingFacts DEF Pending
    <2>5. entry[i][y][z].count <= admitted[y][z] + replayed[y][z]
      BY <1>0 DEF EveryCountBacked
    <2> QED
      BY <2>1, <2>3, <2>4, <2>5
  <1>6. NothingOwedAhead' /\ sync'[i].pc # "selected"
    BY <1>0 DEF NothingOwedAhead
  <1>7. \A j \in Instances : j # i =>
          /\ sync'[j] = sync[j]
          /\ \A y \in Units, z \in Windows : entry'[j][y][z] = entry[j][y][z]
    OBVIOUS
  <1> QED
    BY <1>5, <1>6, <1>7, StepAInv

\* What a process owed when it went is discarded, all of it and no more.
LEMMA VanishAInv ==
    ASSUME IInv, IInv', AInv, NEW i \in Instances, Vanish(i)
    PROVE  AInv'
  <1>0. TypeOK /\ NothingOwedAhead /\ EveryCountBacked
    BY DEF IInv, AInv
  <1>1. UNCHANGED <<now, rate, admitted, replayed>>
    BY DEF Vanish
  <1>2. sync'[i].pc = "idle" /\ \A j \in Instances : j # i => sync'[j] = sync[j]
    BY <1>0 DEF Vanish, TypeOK, Idle
  <1>3. /\ \A y \in Units, z \in Windows :
             entry'[i][y][z].count = 0 /\ entry'[i][y][z].unflushed = 0
        /\ \A j \in Instances : j # i => entry'[j] = entry[j] /\ slot'[j] = slot[j]
    BY <1>0 DEF Vanish, TypeOK, Blank, Fresh
  <1>4. ASSUME NEW y \in Units, NEW z \in Windows
        PROVE  /\ admitted[y][z] + replayed[y][z] <= admitted'[y][z] + replayed'[y][z]
               /\ rate'[y][z] + discarded'[y][z] + Pending(i, y, z)' + admitted[y][z] + replayed[y][z]
                    = rate[y][z] + discarded[y][z] + Pending(i, y, z)
                        + admitted'[y][z] + replayed'[y][z]
               /\ entry'[i][y][z].count <= admitted'[y][z] + replayed'[y][z]
    <2>1. /\ rate[y][z] \in Nat /\ discarded[y][z] \in Nat
          /\ admitted[y][z] \in Nat /\ replayed[y][z] \in Nat
      BY <1>0, Accounts
    <2>2. InFlight(i, y, z)' = 0
      BY <1>2 DEF InFlight
    <2>3. Pending(i, y, z)' = 0 /\ entry'[i][y][z].count = 0
      BY <2>2, <1>3 DEF Pending
    <2>4. discarded'[y][z] = discarded[y][z] + Pending(i, y, z) /\ Pending(i, y, z) \in Nat
      <3>1. discarded'[y][z] = discarded[y][z] + entry[i][y][z].unflushed - InFlight(i, y, z)
        BY DEF Vanish
      <3>2. /\ Pending(i, y, z) \in Nat /\ InFlight(i, y, z) \in Nat
            /\ entry[i][y][z].unflushed \in Nat
            /\ Pending(i, y, z) = entry[i][y][z].unflushed - InFlight(i, y, z)
        BY PendingFacts DEF Pending
      <3> QED
        BY <2>1, <3>1, <3>2
    <2> QED
      BY <2>1, <2>3, <2>4, <1>1
  <1>5. NothingOwedAhead'
    BY <1>0, <1>1, <1>3 DEF NothingOwedAhead
  <1>6. \A j \in Instances : j # i =>
          /\ sync'[j] = sync[j]
          /\ \A y \in Units, z \in Windows : entry'[j][y][z] = entry[j][y][z]
    BY <1>2, <1>3
  <1> QED
    BY <1>2, <1>4, <1>5, <1>6, StepAInv

\* The steps that only move the position of a pass, a write given up included.
LEMMA PositionAInv ==
    ASSUME IInv, IInv', AInv, NEW i \in Instances,
           \/ SyncBegin(i)
           \/ \E u \in Units : SyncDrop(i, u) \/ SyncVisit(i, u)
           \/ SelectReads(i)
           \/ SelectFails(i)
           \/ InsertFails(i)
           \/ SyncEnd(i)
           \/ CancelPass(i)
           \/ FinalPass(i)
    PROVE  AInv'
  <1>0. /\ TypeOK /\ PassHolds /\ NothingAhead /\ NothingOwedAhead
        /\ sync \in [Instances -> PassState] /\ sync[i] \in PassState
    BY DEF IInv, AInv, TypeOK
  <1>1. CASE \/ SyncBegin(i)
             \/ \E u \in Units : SyncVisit(i, u)
             \/ SelectReads(i)
             \/ SelectFails(i)
             \/ SyncEnd(i)
             \/ FinalPass(i)
    <2>1. /\ UNCHANGED <<now, slot, entry, rate, admitted, replayed, discarded>>
          /\ \A j \in Instances : j # i => sync'[j] = sync[j]
          /\ sync[i].pc # "inserted" /\ sync'[i].pc # "inserted"
          /\ sync'[i].pc = "selected" =>
               sync'[i].shared = rate[sync'[i].unit][sync'[i].win]
      <3>1. ASSUME NEW s \in PassState, Set(i, s)
            PROVE  sync'[i] = s /\ \A j \in Instances : j # i => sync'[j] = sync[j]
        BY <1>0, <3>1 DEF Set
      <3>2. CASE SyncBegin(i) \/ FinalPass(i)
        <4> DEFINE s == [Idle EXCEPT !.pc = "pass", !.cur = now,
                                     !.todo = {u \in Units : slot[i][u] # NoWindow}]
        <4>1. now \in Windows
          BY <1>0 DEF TypeOK
        <4>2. s \in PassState /\ s.pc = "pass"
          BY <4>1 DEF Idle, PassState
        <4>3. Set(i, s)
          BY <3>2 DEF SyncBegin, FinalPass, BeginPass
        <4> HIDE DEF s
        <4>4. UNCHANGED <<now, slot, entry, rate, ghosts>> /\ sync[i].pc = "idle"
          BY <3>2 DEF SyncBegin, FinalPass
        <4> QED
          BY <3>1, <4>2, <4>3, <4>4 DEF ghosts
      <3>3. ASSUME NEW u \in Units, SyncVisit(i, u)
            PROVE  /\ UNCHANGED <<now, slot, entry, rate, admitted, replayed, discarded>>
                   /\ \A j \in Instances : j # i => sync'[j] = sync[j]
                   /\ sync[i].pc # "inserted" /\ sync'[i].pc # "inserted"
                   /\ sync'[i].pc = "selected" =>
                        sync'[i].shared = rate[sync'[i].unit][sync'[i].win]
        <4> DEFINE s == [sync[i] EXCEPT !.pc = "cap", !.todo = @ \ {u}, !.unit = u,
                                        !.win = slot[i][u]]
        <4>1. slot[i][u] \in Windows \cup {NoWindow}
          BY <1>0 DEF TypeOK
        <4>2. s \in PassState /\ s.pc = "cap"
          BY <1>0, <4>1 DEF PassState
        <4>3. Set(i, s)
          BY <3>3 DEF SyncVisit
        <4> HIDE DEF s
        <4> QED
          BY <3>1, <3>3, <4>2, <4>3 DEF SyncVisit, ghosts
      <3>4. CASE SelectReads(i)
        <4> DEFINE s == [sync[i] EXCEPT !.pc = "selected",
                                        !.shared = rate[sync[i].unit][sync[i].win]]
        <4>1. rate[sync[i].unit][sync[i].win] \in Nat
          BY <1>0, <3>4, Accounts DEF SelectReads, PassHolds
        <4>2. /\ s \in PassState /\ s.pc = "selected"
              /\ s.shared = rate[s.unit][s.win]
          BY <1>0, <4>1 DEF PassState
        <4>3. Set(i, s)
          BY <3>4 DEF SelectReads
        <4> HIDE DEF s
        <4> QED
          BY <3>1, <3>4, <4>2, <4>3 DEF SelectReads, ghosts
      <3>5. CASE SelectFails(i)
        <4> DEFINE s == [sync[i] EXCEPT !.pc = "pass"]
        <4>1. s \in PassState /\ s.pc = "pass"
          BY <1>0 DEF PassState
        <4>2. Set(i, s)
          BY <3>5 DEF SelectFails
        <4> HIDE DEF s
        <4> QED
          BY <3>1, <3>5, <4>1, <4>2 DEF SelectFails, ghosts
      <3>6. CASE SyncEnd(i)
        <4> DEFINE s == [Idle EXCEPT !.clean = sync[i].clean]
        <4>1. s \in PassState /\ s.pc = "idle"
          BY <1>0 DEF PassState, Idle
        <4>2. Set(i, s)
          BY <3>6 DEF SyncEnd
        <4> HIDE DEF s
        <4> QED
          BY <3>1, <3>6, <4>1, <4>2 DEF SyncEnd, ghosts
      <3> QED
        BY <1>1, <3>2, <3>3, <3>4, <3>5, <3>6
    <2>2. NothingOwedAhead'
      BY <1>0, <2>1 DEF NothingOwedAhead
    <2> QED
      BY <2>1, <2>2, QuietAInv
  <1>2. ASSUME NEW u \in Units, SyncDrop(i, u)
        PROVE  AInv'
    <2>1. /\ UNCHANGED <<now, entry, rate, admitted, replayed, discarded>>
          /\ \A j \in Instances : j # i => sync'[j] = sync[j]
          /\ sync[i].pc = "pass" /\ sync'[i].pc = "pass"
      BY <1>0, <1>2 DEF SyncDrop, Set, PassState, ghosts
    <2>2. slot[i][u] # now
      <3>1. slot[i][u] < sync[i].cur /\ u \in sync[i].todo /\ sync[i].pc = "pass"
        BY <1>2 DEF SyncDrop, Stale
      <3>2. slot[i][u] \in Nat /\ sync[i].cur \in Nat /\ sync[i].cur <= now /\ now \in Nat
        BY <3>1, <1>0, Types, WindowFacts DEF PassHolds
      <3> QED
        BY <3>1, <3>2
    <2>3. \A x \in Instances, y \in Units :
            slot'[x][y] = IF x = i /\ y = u THEN NoWindow ELSE slot[x][y]
      BY <1>0, <1>2, Update2 DEF SyncDrop, TypeOK
    <2>4. NothingOwedAhead'
      <3> SUFFICES ASSUME NEW x \in Instances, NEW y \in Units, NEW z \in Windows,
                          z > now \/ (z = now /\ slot'[x][y] # now)
                   PROVE  entry[x][y][z].unflushed = 0
        BY <2>1 DEF NothingOwedAhead
      <3>1. z > now \/ (z = now /\ slot[x][y] # now)
        BY <2>2, <2>3
      <3> QED
        BY <3>1, <1>0 DEF NothingOwedAhead
    <2>5. /\ sync[i].pc # "inserted" /\ sync'[i].pc # "inserted"
          /\ sync'[i].pc # "selected"
      BY <2>1
    <2> QED
      BY <2>1, <2>4, <2>5, QuietAInv
  <1>3. CASE InsertFails(i) \/ CancelPass(i)
    <2>1. /\ UNCHANGED <<now, slot, entry, rate, admitted, discarded>>
          /\ \A j \in Instances : j # i => sync'[j] = sync[j]
          /\ sync'[i].pc \in {"idle", "pass"}
          /\ replayed' = IF sync[i].pc = "inserted"
                           THEN [replayed EXCEPT ![sync[i].unit][sync[i].win] =
                                   @ + sync[i].captured]
                           ELSE replayed
      <3>1. CASE InsertFails(i)
        <4>1. sync' = [sync EXCEPT ![i] = [sync[i] EXCEPT !.pc = "pass", !.clean = FALSE]]
          BY <3>1 DEF InsertFails, Set
        <4>2. sync'[i].pc = "pass" /\ \A j \in Instances : j # i => sync'[j] = sync[j]
          BY <1>0, <4>1 DEF PassState
        <4> QED
          BY <3>1, <4>2 DEF InsertFails
      <3>2. CASE CancelPass(i)
        <4>1. sync' = [sync EXCEPT ![i] = Idle]
          BY <3>2 DEF CancelPass, Set
        <4>2. sync'[i].pc = "idle" /\ \A j \in Instances : j # i => sync'[j] = sync[j]
          BY <1>0, <4>1 DEF Idle
        <4> QED
          BY <3>2, <4>2 DEF CancelPass
      <3> QED
        BY <1>3, <3>1, <3>2
    <2>2. CASE sync[i].pc = "inserted"
      BY <2>1, <2>2, ReplayAInv
    <2>3. CASE sync[i].pc # "inserted"
      <3>1. NothingOwedAhead'
        BY <1>0, <2>1 DEF NothingOwedAhead
      <3> QED
        BY <2>1, <2>3, <3>1, QuietAInv
    <2> QED
      BY <2>2, <2>3
  <1> QED
    BY <1>1, <1>2, <1>3

\* The initial state: nothing counted, nothing owed.
LEMMA InitAInv == Init => AInv
  <1> SUFFICES ASSUME Init PROVE AInv
    OBVIOUS
  <1>1. /\ \A i \in Instances, u \in Units, w \in Windows :
             entry[i][u][w].count = 0 /\ entry[i][u][w].unflushed = 0
        /\ \A i \in Instances : sync[i].pc = "idle"
        /\ \A u \in Units, w \in Windows :
             /\ rate[u][w] = 0 /\ admitted[u][w] = 0
             /\ replayed[u][w] = 0 /\ discarded[u][w] = 0
    <2>1. \A i \in Instances, u \in Units, w \in Windows : entry[i][u][w] = Fresh(NoCap)
      BY DEF Init, Blank
    <2>2. \A i \in Instances : sync[i].pc = "idle"
      BY DEF Init, Idle
    <2>3. \A u \in Units, w \in Windows :
            /\ rate[u][w] = 0 /\ admitted[u][w] = 0
            /\ replayed[u][w] = 0 /\ discarded[u][w] = 0
      BY DEF Init
    <2> QED
      BY <2>1, <2>2, <2>3 DEF Fresh
  <1>2. \A u \in Units, w \in Windows : Outstanding(u, w) = {}
    <2> SUFFICES ASSUME NEW u \in Units, NEW w \in Windows PROVE Outstanding(u, w) = {}
      OBVIOUS
    <2> DEFINE f == [i \in Instances |-> Pending(i, u, w)]
    <2>1. ASSUME NEW i \in Instances PROVE f[i] = 0
      BY <1>1 DEF Pending, InFlight
    <2>2. DOMAIN f = Instances /\ Outstanding(u, w) = Tally(f)
      BY DEF Outstanding
    <2> HIDE DEF f
    <2>3. ASSUME NEW i \in Instances PROVE {i} \X (1..f[i]) = {}
      <3>1. 1..f[i] = {}
        BY <2>1
      <3> QED
        BY <3>1
    <2>4. Tally(f) = {}
      <3> SUFFICES ASSUME NEW p \in Tally(f) PROVE FALSE
        OBVIOUS
      <3>1. PICK i \in Instances : p \in {i} \X (1..f[i])
        BY <2>2 DEF Tally
      <3> QED
        BY <2>3, <3>1
    <2> QED
      BY <2>2, <2>4
  <1>3. OutstandingFinite /\ Balanced
    <2>1. IsFiniteSet({}) /\ Cardinality({}) = 0
      BY FS_EmptySet
    <2>2. OutstandingFinite
      BY <1>2, <2>1 DEF OutstandingFinite
    <2>3. ASSUME NEW u \in Units, NEW w \in Windows
          PROVE  rate[u][w] + discarded[u][w] + Cardinality(Outstanding(u, w))
                   = admitted[u][w] + replayed[u][w]
      <3>1. Cardinality(Outstanding(u, w)) = 0
        BY <1>2, <2>1
      <3> QED
        BY <3>1, <1>1
    <2> QED
      BY <2>2, <2>3 DEF Balanced
  <1>4. NothingOwedAhead /\ SharedBacked /\ EveryCountBacked
    BY <1>1 DEF NothingOwedAhead, SharedBacked, EveryCountBacked
  <1> QED
    BY <1>3, <1>4 DEF AInv

\* A step that changes neither entries, passes nor accounts.
LEMMA StillAInv ==
    ASSUME AInv, NothingOwedAhead',
           UNCHANGED <<entry, sync, rate, admitted, replayed, discarded>>
    PROVE  AInv'
  BY DEF AInv, OutstandingFinite, Balanced, SharedBacked, EveryCountBacked,
         Outstanding, Tally, Pending, InFlight, Held

\* Every step keeps the accounts.
LEMMA NextAInv == IInv /\ IInv' /\ AInv /\ [Next]_vars => AInv'
  <1> SUFFICES ASSUME IInv, IInv', AInv, [Next]_vars PROVE AInv'
    OBVIOUS
  <1>0. TypeOK /\ NothingOwedAhead
    BY DEF IInv, AInv
  <1>1. CASE UNCHANGED vars
    <2>1. NothingOwedAhead'
      BY <1>0, <1>1 DEF vars, NothingOwedAhead
    <2> QED
      BY <1>1, <2>1, StillAInv DEF vars
  <1>2. CASE Tick
    <2>1. now \in Nat /\ now' = now + 1 /\ UNCHANGED <<slot, entry>>
      BY <1>0, <1>2, WindowFacts DEF Tick, TypeOK
    <2>2. NothingOwedAhead'
      <3> SUFFICES ASSUME NEW x \in Instances, NEW y \in Units, NEW z \in Windows,
                          z > now' \/ z = now'
                   PROVE  entry[x][y][z].unflushed = 0
        BY <2>1 DEF NothingOwedAhead
      <3>1. z \in Nat
        BY WindowFacts
      <3>2. z > now
        BY <2>1, <3>1
      <3> QED
        BY <3>2, <1>0 DEF NothingOwedAhead
    <2> QED
      BY <1>2, <2>2, StillAInv DEF Tick, ghosts
  <1>3. ASSUME NEW i \in Instances, NEW u \in Units, Admit(i, u)
        PROVE  AInv'
    BY <1>3, AdmitAInv
  <1>4. ASSUME NEW i \in Instances, NEW u \in Units, Deny(i, u)
        PROVE  AInv'
    BY <1>4, <1>1, DenyStutters DEF IInv
  <1>5. ASSUME NEW i \in Instances, Pass(i)
        PROVE  AInv'
    <2>1. ASSUME NEW h \in Headcounts, CapRefresh(i, h)
          PROVE  AInv'
      <3>1. CapFor(h) \in Caps
        BY CapForPositive, ConstantsAssumption
      <3> QED
        BY <2>1, <3>1, StoreCapAInv DEF CapRefresh
    <2> QED
      BY <1>5, <2>1, PositionAInv, InsertCommitsAInv, InsertReplyAInv, SelectReplyAInv DEF Pass
  <1>6. ASSUME NEW i \in Instances, CapQueryFails(i)
        PROVE  AInv'
    <2>1. CapFor(1) \in Caps
      BY CapForPositive
    <2> QED
      BY <1>6, <2>1, StoreCapAInv DEF CapQueryFails
  <1>7. ASSUME NEW i \in Instances,
               InsertFails(i) \/ SelectFails(i) \/ CancelPass(i) \/ FinalPass(i)
        PROVE  AInv'
    BY <1>7, PositionAInv
  <1>8. ASSUME NEW i \in Instances, Stop(i) \/ Start(i)
        PROVE  AInv'
    <2>1. UNCHANGED <<now, slot, entry, sync, rate, ghosts>>
      BY <1>8 DEF Stop, Start
    <2>2. NothingOwedAhead'
      BY <1>0, <2>1 DEF NothingOwedAhead
    <2> QED
      BY <2>1, <2>2, StillAInv DEF ghosts
  <1>9. ASSUME NEW i \in Instances, Exit(i) \/ Crash(i)
        PROVE  AInv'
    BY <1>9, VanishAInv DEF Exit, Crash
  <1> QED
    BY <1>1, <1>2, <1>3, <1>4, <1>5, <1>6, <1>7, <1>8, <1>9 DEF Next

\* The accounts hold in every reachable state.
THEOREM AccountsKept == Spec => []AInv
  <1>1. Init => AInv
    BY InitAInv
  <1>2. IInv /\ IInv' /\ AInv /\ [Next]_vars => AInv'
    BY NextAInv
  <1> QED
    BY <1>1, <1>2, Inductive, PTL DEF Spec

\* What is outstanding is owed or orphaned, and never both.
LEMMA OwedOrOrphaned ==
    ASSUME IInv, AInv, NEW u \in Units, NEW w \in Windows
    PROVE  /\ Cardinality(Outstanding(u, w))
                = Cardinality(Unwritten(u, w)) + Cardinality(Abandoned(u, w))
           /\ Cardinality(Unwritten(u, w)) \in Nat
           /\ Cardinality(Abandoned(u, w)) \in Nat
  <1> DEFINE f == [i \in Instances |-> Pending(i, u, w)]
             g == [i \in Instances |-> Owed(i, u, w)]
             h == [i \in Instances |-> Orphaned(i, u, w)]
  <1>1. ASSUME NEW i \in Instances
        PROVE  \/ g[i] = f[i] /\ h[i] = 0
               \/ g[i] = 0 /\ h[i] = f[i]
    <2>1. CASE Reachable(i, u, w)
      BY <2>1 DEF Owed, Orphaned, Pending
    <2>2. CASE ~Reachable(i, u, w)
      <3>1. InFlight(i, u, w) = 0
        BY <2>2 DEF Reachable, InFlight
      <3>2. entry[i][u][w].unflushed \in Nat
        BY PendingFacts
      <3> QED
        BY <2>2, <3>1, <3>2 DEF Owed, Orphaned, Pending
    <2> QED
      BY <2>1, <2>2
  <1>2. /\ Outstanding(u, w) = Tally(f)
        /\ Unwritten(u, w) = Tally(g)
        /\ Abandoned(u, w) = Tally(h)
    BY DEF Outstanding, Unwritten, Abandoned
  <1>3. DOMAIN f = Instances /\ DOMAIN g = Instances /\ DOMAIN h = Instances
    OBVIOUS
  <1> HIDE DEF f, g, h
  <1>4. ASSUME NEW n PROVE n \in 1..0 <=> FALSE
    OBVIOUS
  <1>5. Tally(f) = Tally(g) \cup Tally(h)
    <2>1. ASSUME NEW i \in Instances
          PROVE  {i} \X (1..f[i]) = ({i} \X (1..g[i])) \cup ({i} \X (1..h[i]))
      BY <1>1, <1>4
    <2> QED
      BY <1>3, <2>1 DEF Tally
  <1>6. Tally(g) \cap Tally(h) = {}
    <2> SUFFICES ASSUME NEW p, p \in Tally(g), p \in Tally(h) PROVE FALSE
      OBVIOUS
    <2>1. PICK i \in Instances : p \in {i} \X (1..g[i])
      BY <1>3 DEF Tally
    <2>2. PICK j \in Instances : p \in {j} \X (1..h[j])
      BY <1>3 DEF Tally
    <2>3. i = j
      BY <2>1, <2>2
    <2>4. g[i] = 0 \/ h[i] = 0
      BY <1>1
    <2> QED
      BY <2>1, <2>2, <2>3, <2>4, <1>4
  <1>7. IsFiniteSet(Tally(f))
    BY <1>2 DEF AInv, OutstandingFinite
  <1>8. IsFiniteSet(Tally(g)) /\ IsFiniteSet(Tally(h))
    BY <1>5, <1>7, FS_Subset
  <1>9. Cardinality(Tally(g)) \in Nat /\ Cardinality(Tally(h)) \in Nat
    BY <1>8, FS_CardinalityType
  <1>10. Cardinality(Tally(f))
           = Cardinality(Tally(g)) + Cardinality(Tally(h)) - Cardinality(Tally(g) \cap Tally(h))
    BY <1>5, <1>8, FS_Union
  <1>11. Cardinality(Tally(g) \cap Tally(h)) = 0
    BY <1>6, FS_EmptySet
  <1> QED
    BY <1>2, <1>9, <1>10, <1>11

\* A process orphans nothing of the current window: an entry of it that
\* increments are counted in stays in _local until the window is over.
LEMMA OrphansArePast ==
    ASSUME IInv, AInv, NEW i \in Instances, NEW u \in Units, NEW w \in Windows,
           slot[i][u] # w, entry[i][u][w].unflushed # 0
    PROVE  w < now
  <1>1. w \in Nat /\ now \in Nat
    BY WindowFacts DEF IInv, TypeOK
  <1>2. ~(w > now) /\ w # now
    BY DEF AInv, NothingOwedAhead
  <1> QED
    BY <1>1, <1>2

\* Every request let through is in the table, in a counter that can still be
\* written, in one a rollover of a window now over orphaned, or died with its
\* process, for every number of processes and of faults.
THEOREM RequestsConserved == Spec => []Conservation
  <1>1. IInv /\ AInv => Conservation
    <2> SUFFICES ASSUME IInv, AInv, NEW u \in Units, NEW w \in Windows
                 PROVE  /\ rate[u][w] + discarded[u][w]
                             + Cardinality(Unwritten(u, w)) + Cardinality(Abandoned(u, w))
                               = admitted[u][w] + replayed[u][w]
                        /\ Abandoned(u, w) # {} => w < now
      BY DEF Conservation
    <2>1. rate[u][w] + discarded[u][w] + Cardinality(Outstanding(u, w))
            = admitted[u][w] + replayed[u][w]
      BY DEF AInv, Balanced
    <2>2. rate[u][w] \in Nat /\ discarded[u][w] \in Nat
      BY Accounts DEF IInv
    <2>3. rate[u][w] + discarded[u][w]
            + Cardinality(Unwritten(u, w)) + Cardinality(Abandoned(u, w))
              = admitted[u][w] + replayed[u][w]
      BY <2>1, <2>2, OwedOrOrphaned
    <2>4. ASSUME Abandoned(u, w) # {} PROVE w < now
      <3> DEFINE h == [i \in Instances |-> Orphaned(i, u, w)]
      <3>1. DOMAIN h = Instances /\ Abandoned(u, w) = Tally(h)
        BY DEF Abandoned
      <3>2. \A i \in Instances : h[i] = Orphaned(i, u, w)
        OBVIOUS
      <3> HIDE DEF h
      <3>3. PICK i \in Instances : {i} \X (1..h[i]) # {}
        BY <2>4, <3>1 DEF Tally
      <3>4. h[i] # 0
        BY <3>3
      <3>5. slot[i][u] # w /\ entry[i][u][w].unflushed # 0
        BY <3>2, <3>4 DEF Orphaned, Reachable
      <3> QED
        BY <3>5, OrphansArePast
    <2> QED
      BY <2>3, <2>4
  <1> QED
    BY <1>1, Inductive, AccountsKept, PTL

\* The figure a 429 reports is backed by requests let through and increments
\* written twice.
THEOREM CountsBacked == Spec => []CountBacked
  <1>1. IInv /\ AInv => CountBacked
    BY DEF IInv, TypeOK, AInv, EveryCountBacked, CountBacked
  <1> QED
    BY <1>1, Inductive, AccountsKept, PTL

-----------------------------------------------------------------------------
(* The final pass of a stopping process.                                   *)

\* In the final pass of a process, while no write of it failed, a station whose
\* entry holds increments is still to be visited, or is the one being written
\* and everything its entry holds is in that write.
Covered(i, u) ==
    /\ phase[i] = "final"
    /\ sync[i].clean
    /\ slot[i][u] # NoWindow
    => \/ entry[i][u][slot[i][u]].unflushed = 0
       \/ sync[i].pc # "idle" /\ u \in sync[i].todo
       \/ /\ sync[i].pc \in {"cap", "insert", "inserted"}
          /\ sync[i].unit = u
          /\ sync[i].win = slot[i][u]
          /\ sync[i].pc # "cap" => sync[i].captured = entry[i][u][slot[i][u]].unflushed

FinalPassCovers == \A i \in Instances, u \in Units : Covered(i, u)

\* A step that leaves a process alone leaves its stations covered.
LEMMA OthersCovered ==
    ASSUME FinalPassCovers, NEW i \in Instances,
           \A x \in Instances : x # i =>
             /\ phase'[x] = phase[x] /\ slot'[x] = slot[x]
             /\ entry'[x] = entry[x] /\ sync'[x] = sync[x],
           \A u \in Units : Covered(i, u)'
    PROVE  FinalPassCovers'
  <1>1. ASSUME NEW x \in Instances, NEW u \in Units, x # i
        PROVE  Covered(x, u)'
    <2>1. Covered(x, u)
      BY DEF FinalPassCovers
    <2>2. /\ phase'[x] = phase[x] /\ slot'[x] = slot[x]
          /\ entry'[x] = entry[x] /\ sync'[x] = sync[x]
      BY <1>1
    <2> QED
      BY <2>1, <2>2 DEF Covered
  <1> QED
    BY <1>1 DEF FinalPassCovers

\* What a step on one process's pass and entries changes elsewhere: nothing.
LEMMA PassLocal ==
    ASSUME TypeOK, NEW i \in Instances, NEW s \in PassState, Set(i, s)
    PROVE  sync'[i] = s /\ \A x \in Instances : x # i => sync'[x] = sync[x]
  BY DEF Set, TypeOK

\* A step of a process that is not in its final pass afterwards.
LEMMA OutsideFinal ==
    ASSUME TypeOK, FinalPassCovers, NEW i \in Instances,
           \/ \E u \in Units : Admit(i, u)
           \/ SyncBegin(i)
           \/ Stop(i)
           \/ CancelPass(i)
           \/ Vanish(i)
           \/ Start(i)
    PROVE  FinalPassCovers'
  <1>1. /\ phase'[i] # "final"
        /\ \A x \in Instances : x # i =>
             /\ phase'[x] = phase[x] /\ slot'[x] = slot[x]
             /\ entry'[x] = entry[x] /\ sync'[x] = sync[x]
    <2>1. /\ phase \in [Instances -> {"up", "draining", "final", "down"}]
          /\ slot \in [Instances -> [Units -> Windows \cup {NoWindow}]]
          /\ entry \in [Instances -> [Units -> [Windows -> Entry]]]
          /\ sync \in [Instances -> PassState]
      BY DEF TypeOK
    <2>2. CASE \E u \in Units : Admit(i, u)
      BY <2>1, <2>2 DEF Admit, Install
    <2>3. CASE SyncBegin(i)
      BY <2>1, <2>3 DEF SyncBegin, BeginPass, Set
    <2>4. CASE Stop(i)
      BY <2>1, <2>4 DEF Stop
    <2>5. CASE CancelPass(i)
      BY <2>1, <2>5 DEF CancelPass, Set
    <2>6. CASE Vanish(i)
      BY <2>1, <2>6 DEF Vanish
    <2>7. CASE Start(i)
      BY <2>1, <2>7 DEF Start
    <2> QED
      BY <2>2, <2>3, <2>4, <2>5, <2>6, <2>7
  <1>2. \A u \in Units : Covered(i, u)'
    BY <1>1 DEF Covered
  <1> QED
    BY <1>1, <1>2, OthersCovered

\* Where the pass of process i may go next, position s: it begins with every
\* station, or it has failed to write, or it goes on with the station in hand,
\* takes the next one, or ends with none left.
Advances(i, s) ==
    \/ s.pc = "pass" /\ \A u \in Units : slot[i][u] # NoWindow => u \in s.todo
    \/ /\ phase'[i] = phase[i]
       /\ ~s.clean
    \/ /\ phase'[i] = phase[i]
       /\ s.clean => sync[i].clean
       /\ s.todo = sync[i].todo
       /\ s.pc # "idle" \/ s.todo = {}
       /\ \/ sync[i].pc \notin {"cap", "insert", "inserted"}
          \/ /\ s.pc = "inserted" /\ sync[i].pc = "insert"
             /\ s.unit = sync[i].unit /\ s.win = sync[i].win
             /\ s.captured = sync[i].captured
    \/ /\ phase'[i] = phase[i]
       /\ s.clean => sync[i].clean
       /\ s.pc = "cap" /\ sync[i].pc = "pass"
       /\ s.win = slot[i][s.unit] /\ s.todo = sync[i].todo \ {s.unit}

\* A step that only moves the position of the pass: what it stops covering is
\* written, or a write failed.
LEMMA PositionCovered ==
    ASSUME TypeOK, FinalPassCovers, NEW i \in Instances, NEW s \in PassState, Set(i, s),
           UNCHANGED <<slot, entry>>,
           \A x \in Instances : x # i => phase'[x] = phase[x],
           Advances(i, s)
    PROVE  FinalPassCovers'
  <1>1. sync'[i] = s /\ \A x \in Instances : x # i => sync'[x] = sync[x]
    BY PassLocal
  <1>2. \A x \in Instances : x # i =>
          /\ phase'[x] = phase[x] /\ slot'[x] = slot[x]
          /\ entry'[x] = entry[x] /\ sync'[x] = sync[x]
    BY <1>1
  <1>3. ASSUME NEW u \in Units
        PROVE  Covered(i, u)'
    <2>1. Covered(i, u)
      BY DEF FinalPassCovers
    <2> QED
      BY <2>1, <1>1 DEF Covered, Advances
  <1> QED
    BY <1>2, <1>3, OthersCovered

\* An assignment to the entry the pass holds: what the entry keeps is in the
\* write that begins, or it keeps nothing.
LEMMA AssignCovered ==
    ASSUME TypeOK, FinalPassCovers, NEW i \in Instances, NEW e \in Entry, NEW s \in PassState,
           Assign(i, e), Set(i, s),
           sync[i].unit \in Units, sync[i].win \in Windows,
           UNCHANGED <<phase, slot>>,
           s.todo = sync[i].todo, s.unit = sync[i].unit, s.win = sync[i].win,
           s.clean = sync[i].clean, s.pc # "idle",
           Held(i).unflushed = 0 => e.unflushed = 0,
           \/ s.pc = "insert" /\ s.captured = e.unflushed
           \/ e.unflushed = 0
           \/ /\ sync[i].pc \notin {"cap", "insert", "inserted"}
              /\ e.unflushed = Held(i).unflushed
    PROVE  FinalPassCovers'
  <1>1. sync'[i] = s /\ \A x \in Instances : x # i => sync'[x] = sync[x]
    BY PassLocal
  <1>2. \A x \in Instances : x # i => entry'[x] = entry[x]
    BY DEF Assign, TypeOK
  <1>3. \A x \in Instances, y \in Units, z \in Windows :
          entry'[x][y][z] =
            IF x = i /\ y = sync[i].unit /\ z = sync[i].win THEN e ELSE entry[x][y][z]
    BY AssignedEntry
  <1>4. ASSUME NEW u \in Units
        PROVE  Covered(i, u)'
    <2> SUFFICES ASSUME phase[i] = "final", s.clean, slot[i][u] # NoWindow
                 PROVE  \/ entry'[i][u][slot[i][u]].unflushed = 0
                        \/ s.pc # "idle" /\ u \in s.todo
                        \/ /\ s.pc \in {"cap", "insert", "inserted"}
                           /\ s.unit = u
                           /\ s.win = slot[i][u]
                           /\ s.pc # "cap" => s.captured = entry'[i][u][slot[i][u]].unflushed
      BY <1>1 DEF Covered
    <2>1. \/ entry[i][u][slot[i][u]].unflushed = 0
          \/ u \in sync[i].todo
          \/ /\ sync[i].pc \in {"cap", "insert", "inserted"}
             /\ sync[i].unit = u
             /\ sync[i].win = slot[i][u]
      BY DEF FinalPassCovers, Covered
    <2>2. slot[i][u] \in Windows
      BY Types
    <2>3. CASE u = sync[i].unit /\ slot[i][u] = sync[i].win
      <3>1. entry'[i][u][slot[i][u]] = e /\ Held(i) = entry[i][u][slot[i][u]]
        BY <2>2, <2>3, <1>3 DEF Held
      <3> QED
        BY <2>1, <2>3, <3>1
    <2>4. CASE ~(u = sync[i].unit /\ slot[i][u] = sync[i].win)
      <3>1. entry'[i][u][slot[i][u]] = entry[i][u][slot[i][u]]
        BY <2>2, <2>4, <1>3
      <3> QED
        BY <2>1, <2>4, <3>1
    <2> QED
      BY <2>3, <2>4
  <1> QED
    BY <1>1, <1>2, <1>4, OthersCovered

\* The cap is stored, and all the entry holds is captured for the write.
LEMMA StoreCapCovered ==
    ASSUME IInv, FinalPassCovers, NEW i \in Instances, NEW cap \in Caps,
           sync[i].pc = "cap", StoreCap(i, cap), UNCHANGED <<phase, slot>>
    PROVE  FinalPassCovers'
  <1> DEFINE e == [Held(i) EXCEPT !.cap = cap]
             s == [sync[i] EXCEPT !.captured = Held(i).unflushed,
                                  !.pc = IF Held(i).unflushed > 0 THEN "insert" ELSE "select"]
  <1>1. /\ TypeOK /\ sync[i].unit \in Units /\ sync[i].win \in Windows
    BY DEF IInv, PassHolds
  <1>2. Held(i) \in Entry /\ Held(i).unflushed \in Nat
    BY <1>1, Types, Fields DEF Held
  <1>3. e \in Entry /\ e.unflushed = Held(i).unflushed
    BY <1>2, Fields DEF Entry
  <1>4. /\ s \in PassState /\ s.unit = sync[i].unit /\ s.win = sync[i].win
        /\ s.todo = sync[i].todo /\ s.clean = sync[i].clean
        /\ s.captured = Held(i).unflushed
        /\ s.pc # "idle"
        /\ s.pc = IF Held(i).unflushed > 0 THEN "insert" ELSE "select"
    BY <1>1, <1>2, Types DEF PassState
  <1>5. Assign(i, e) /\ Set(i, s)
    BY DEF StoreCap
  <1> HIDE DEF e, s
  <1>6. (s.pc = "insert" /\ s.captured = e.unflushed) \/ e.unflushed = 0
    BY <1>2, <1>3, <1>4
  <1>7. Held(i).unflushed = 0 => e.unflushed = 0
    BY <1>3
  <1> QED
    BY <1>1, <1>3, <1>4, <1>5, <1>6, <1>7, AssignCovered

\* The write is acknowledged: it held everything, so nothing is left.
LEMMA InsertReplyCovered ==
    ASSUME IInv, FinalPassCovers, NEW i \in Instances, InsertReply(i)
    PROVE  FinalPassCovers'
  <1> DEFINE e == [Held(i) EXCEPT !.unflushed = @ - sync[i].captured]
             s == [sync[i] EXCEPT !.pc = "select"]
  <1>1. /\ TypeOK /\ sync[i].pc = "inserted"
        /\ sync[i].unit \in Units /\ sync[i].win \in Windows
        /\ sync[i].captured <= Held(i).unflushed
    BY DEF IInv, PassHolds, CapturedOwed, InsertReply
  <1>2. Held(i) \in Entry /\ sync[i].captured \in Nat /\ Held(i).unflushed \in Nat
    BY <1>1, Types, Fields DEF Held
  <1>3. Held(i).unflushed - sync[i].captured \in Nat
    BY <1>1, <1>2
  <1>4. e \in Entry /\ e.unflushed = Held(i).unflushed - sync[i].captured
    BY <1>2, <1>3 DEF Entry
  <1>5. /\ s \in PassState /\ s.unit = sync[i].unit /\ s.win = sync[i].win
        /\ s.todo = sync[i].todo /\ s.clean = sync[i].clean /\ s.pc = "select"
    BY <1>1, Types DEF PassState
  <1>6. Assign(i, e) /\ Set(i, s) /\ UNCHANGED <<phase, slot>>
    BY DEF InsertReply
  <1> HIDE DEF e, s
  <1>7. sync'[i] = s /\ \A x \in Instances : x # i => sync'[x] = sync[x]
    BY <1>1, <1>5, <1>6, PassLocal
  <1>8. \A x \in Instances : x # i => entry'[x] = entry[x]
    BY <1>1, <1>6 DEF Assign, TypeOK
  <1>9. \A x \in Instances, y \in Units, z \in Windows :
          entry'[x][y][z] =
            IF x = i /\ y = sync[i].unit /\ z = sync[i].win THEN e ELSE entry[x][y][z]
    BY <1>1, <1>4, <1>6, AssignedEntry
  <1>10. ASSUME NEW u \in Units
         PROVE  Covered(i, u)'
    <2> SUFFICES ASSUME phase[i] = "final", s.clean, slot[i][u] # NoWindow
                 PROVE  entry'[i][u][slot[i][u]].unflushed = 0 \/ u \in s.todo
      BY <1>5, <1>6, <1>7 DEF Covered
    <2>1. \/ entry[i][u][slot[i][u]].unflushed = 0
          \/ u \in sync[i].todo
          \/ /\ sync[i].unit = u
             /\ sync[i].win = slot[i][u]
             /\ sync[i].captured = entry[i][u][slot[i][u]].unflushed
      BY <1>1, <1>5 DEF FinalPassCovers, Covered
    <2>2. slot[i][u] \in Windows
      BY <1>1, Types
    <2>3. CASE u = sync[i].unit /\ slot[i][u] = sync[i].win
      <3>1. entry'[i][u][slot[i][u]] = e /\ Held(i) = entry[i][u][slot[i][u]]
        BY <2>2, <2>3, <1>9 DEF Held
      <3> QED
        BY <2>1, <3>1, <1>1, <1>2, <1>4, <1>5
    <2>4. CASE ~(u = sync[i].unit /\ slot[i][u] = sync[i].win)
      <3>1. entry'[i][u][slot[i][u]] = entry[i][u][slot[i][u]]
        BY <2>2, <2>4, <1>9
      <3> QED
        BY <2>1, <2>4, <3>1, <1>5
    <2> QED
      BY <2>3, <2>4
  <1> QED
    BY <1>6, <1>7, <1>8, <1>10, OthersCovered

\* The counter adopts the total; what it holds unwritten is as it was.
LEMMA SelectReplyCovered ==
    ASSUME IInv, FinalPassCovers, NEW i \in Instances, SelectReply(i)
    PROVE  FinalPassCovers'
  <1> DEFINE e == [Held(i) EXCEPT !.count = sync[i].shared + Held(i).unflushed]
             s == [sync[i] EXCEPT !.pc = "pass"]
  <1>1. /\ TypeOK /\ sync[i].pc = "selected"
        /\ sync[i].unit \in Units /\ sync[i].win \in Windows
    BY DEF IInv, PassHolds, SelectReply
  <1>2. Held(i) \in Entry /\ sync[i].shared \in Nat
    BY <1>1, Types, Fields DEF Held
  <1>3. sync[i].shared + Held(i).unflushed \in Nat
    BY <1>2, Fields
  <1>4. e \in Entry /\ e.unflushed = Held(i).unflushed
    BY <1>2, <1>3 DEF Entry
  <1>5. /\ s \in PassState /\ s.unit = sync[i].unit /\ s.win = sync[i].win
        /\ s.todo = sync[i].todo /\ s.clean = sync[i].clean /\ s.pc # "idle"
    BY <1>1, Types DEF PassState
  <1>6. Assign(i, e) /\ Set(i, s) /\ UNCHANGED <<phase, slot>>
    BY DEF SelectReply
  <1> HIDE DEF e, s
  <1>7. sync[i].pc \notin {"cap", "insert", "inserted"}
    BY <1>1
  <1> QED
    BY <1>1, <1>4, <1>5, <1>6, <1>7, AssignCovered

\* A finished counter leaves _local; the others are as they were.
LEMMA DropCovered ==
    ASSUME IInv, FinalPassCovers, NEW i \in Instances, NEW u \in Units, SyncDrop(i, u)
    PROVE  FinalPassCovers'
  <1>0. TypeOK /\ sync[i] \in PassState
    BY DEF IInv, TypeOK
  <1> DEFINE s == [sync[i] EXCEPT !.todo = @ \ {u}]
  <1>1. /\ s \in PassState /\ s.pc = "pass" /\ s.clean = sync[i].clean
        /\ s.todo = sync[i].todo \ {u} /\ sync[i].pc = "pass"
    BY <1>0, ZenonT(60) DEF PassState, SyncDrop
  <1>2. Set(i, s)
    BY DEF SyncDrop
  <1> HIDE DEF s
  <1>3. sync'[i] = s /\ \A x \in Instances : x # i => sync'[x] = sync[x]
    BY <1>0, <1>1, <1>2, PassLocal
  <1>4. /\ \A x \in Instances : x # i => slot'[x] = slot[x]
        /\ \A y \in Units : slot'[i][y] = IF y = u THEN NoWindow ELSE slot[i][y]
    BY <1>0 DEF SyncDrop, TypeOK
  <1>5. UNCHANGED <<phase, entry>>
    BY DEF SyncDrop
  <1>6. ASSUME NEW y \in Units
        PROVE  Covered(i, y)'
    <2>1. Covered(i, y)
      BY DEF FinalPassCovers
    <2> QED
      BY <2>1, <1>1, <1>3, <1>4, <1>5 DEF Covered
  <1> QED
    BY <1>3, <1>4, <1>5, <1>6, OthersCovered

\* Every step keeps the stations of a final pass covered.
LEMMA NextCovers == IInv /\ FinalPassCovers /\ [Next]_vars => FinalPassCovers'
  <1> SUFFICES ASSUME IInv, FinalPassCovers, [Next]_vars PROVE FinalPassCovers'
    OBVIOUS
  <1>0. TypeOK
    BY DEF IInv
  <1>1. CASE UNCHANGED <<phase, slot, entry, sync>>
    BY <1>1 DEF FinalPassCovers, Covered
  <1>2. ASSUME NEW i \in Instances, NEW u \in Units, Admit(i, u) \/ Deny(i, u)
        PROVE  FinalPassCovers'
    <2>1. CASE Admit(i, u)
      BY <2>1, <1>0, OutsideFinal
    <2>2. CASE Deny(i, u)
      BY <2>2, <1>1, DenyStutters DEF vars
    <2> QED
      BY <1>2, <2>1, <2>2
  <1>3. ASSUME NEW i \in Instances,
               \/ SyncBegin(i) \/ Stop(i) \/ CancelPass(i) \/ Exit(i) \/ Crash(i) \/ Start(i)
        PROVE  FinalPassCovers'
    BY <1>0, <1>3, OutsideFinal DEF Exit, Crash
  <1>4. ASSUME NEW i \in Instances, NEW u \in Units, SyncVisit(i, u)
        PROVE  FinalPassCovers'
    <2> DEFINE s == [sync[i] EXCEPT !.pc = "cap", !.todo = @ \ {u}, !.unit = u, !.win = slot[i][u]]
    <2>1. slot[i][u] \in Windows \cup {NoWindow} /\ sync[i] \in PassState
      BY <1>0 DEF TypeOK
    <2>2. /\ s \in PassState /\ s.pc = "cap" /\ s.todo = sync[i].todo \ {u}
          /\ s.unit = u /\ s.win = slot[i][u] /\ s.clean = sync[i].clean
      BY <2>1 DEF PassState
    <2>3. Set(i, s) /\ UNCHANGED <<phase, slot, entry>> /\ sync[i].pc = "pass"
      BY <1>4 DEF SyncVisit
    <2> HIDE DEF s
    <2>4. Advances(i, s)
      BY <2>2, <2>3 DEF Advances
    <2> QED
      BY <1>0, <2>2, <2>3, <2>4, PositionCovered
  <1>5. ASSUME NEW i \in Instances,
               SelectReads(i) \/ SelectFails(i) \/ SyncEnd(i) \/ InsertCommits(i) \/ InsertFails(i)
        PROVE  FinalPassCovers'
    <2>0. sync[i] \in PassState
      BY <1>0 DEF TypeOK
    <2>1. UNCHANGED <<phase, slot, entry>>
      BY <1>5 DEF SelectReads, SelectFails, SyncEnd, InsertCommits, InsertFails
    <2>2. CASE SelectReads(i)
      <3> DEFINE s == [sync[i] EXCEPT !.pc = "selected",
                                      !.shared = rate[sync[i].unit][sync[i].win]]
      <3>1. rate[sync[i].unit][sync[i].win] \in Nat
        BY <1>0, <2>2, Accounts DEF SelectReads, IInv, PassHolds
      <3>2. s \in PassState /\ s.pc # "idle" /\ s.todo = sync[i].todo /\ s.clean = sync[i].clean
        BY <2>0, <3>1 DEF PassState
      <3>3. Set(i, s) /\ sync[i].pc \notin {"cap", "insert", "inserted"}
        BY <2>2 DEF SelectReads
      <3> HIDE DEF s
      <3>4. Advances(i, s)
        BY <2>1, <3>2, <3>3 DEF Advances
      <3> QED
        BY <1>0, <2>1, <3>2, <3>3, <3>4, PositionCovered
    <2>3. CASE SelectFails(i)
      <3> DEFINE s == [sync[i] EXCEPT !.pc = "pass"]
      <3>1. s \in PassState /\ s.pc # "idle" /\ s.todo = sync[i].todo /\ s.clean = sync[i].clean
        BY <2>0 DEF PassState
      <3>2. Set(i, s) /\ sync[i].pc \notin {"cap", "insert", "inserted"}
        BY <2>3 DEF SelectFails
      <3> HIDE DEF s
      <3>3. Advances(i, s)
        BY <2>1, <3>1, <3>2 DEF Advances
      <3> QED
        BY <1>0, <2>1, <3>1, <3>2, <3>3, PositionCovered
    <2>4. CASE SyncEnd(i)
      <3> DEFINE s == [Idle EXCEPT !.clean = sync[i].clean]
      <3>1. s \in PassState /\ s.todo = {} /\ s.clean = sync[i].clean
        BY <2>0 DEF PassState, Idle
      <3>2. /\ Set(i, s) /\ sync[i].pc \notin {"cap", "insert", "inserted"}
            /\ sync[i].todo = {}
        BY <2>4 DEF SyncEnd
      <3> HIDE DEF s
      <3>3. Advances(i, s)
        BY <2>1, <3>1, <3>2 DEF Advances
      <3> QED
        BY <1>0, <2>1, <3>1, <3>2, <3>3, PositionCovered
    <2>5. CASE InsertCommits(i)
      <3> DEFINE s == [sync[i] EXCEPT !.pc = "inserted"]
      <3>1. /\ s \in PassState /\ s.pc = "inserted" /\ s.clean = sync[i].clean
            /\ s.unit = sync[i].unit /\ s.win = sync[i].win
            /\ s.captured = sync[i].captured /\ s.todo = sync[i].todo
        BY <2>0 DEF PassState
      <3>2. Set(i, s) /\ sync[i].pc = "insert"
        BY <2>5 DEF InsertCommits
      <3> HIDE DEF s
      <3>3. Advances(i, s)
        BY <2>1, <3>1, <3>2 DEF Advances
      <3> QED
        BY <1>0, <2>1, <3>1, <3>2, <3>3, PositionCovered
    <2>6. CASE InsertFails(i)
      <3> DEFINE s == [sync[i] EXCEPT !.pc = "pass", !.clean = FALSE]
      <3>1. s \in PassState /\ ~s.clean /\ s.pc # "idle"
        BY <2>0 DEF PassState
      <3>2. Set(i, s)
        BY <2>6 DEF InsertFails
      <3> HIDE DEF s
      <3>3. Advances(i, s)
        BY <2>1, <3>1, <3>2 DEF Advances
      <3> QED
        BY <1>0, <2>1, <3>1, <3>2, <3>3, PositionCovered
    <2> QED
      BY <1>5, <2>2, <2>3, <2>4, <2>5, <2>6
  <1>6. ASSUME NEW i \in Instances, FinalPass(i)
        PROVE  FinalPassCovers'
    <2> DEFINE s == [Idle EXCEPT !.pc = "pass", !.cur = now,
                                 !.todo = {u \in Units : slot[i][u] # NoWindow}]
    <2>1. s \in PassState /\ s.pc = "pass" /\ s.todo = {u \in Units : slot[i][u] # NoWindow}
      BY <1>0 DEF TypeOK, Idle, PassState
    <2>2. Set(i, s) /\ UNCHANGED <<slot, entry>>
      BY <1>6 DEF FinalPass, BeginPass
    <2> HIDE DEF s
    <2>3. \A x \in Instances : x # i => phase'[x] = phase[x]
      BY <1>0, <1>6 DEF FinalPass, TypeOK
    <2>4. Advances(i, s)
      BY <2>1 DEF Advances
    <2> QED
      BY <1>0, <2>1, <2>2, <2>3, <2>4, PositionCovered
  <1>7. ASSUME NEW i \in Instances, CapQueryFails(i) \/ \E h \in Headcounts : CapRefresh(i, h)
        PROVE  FinalPassCovers'
    <2>1. \A h \in Headcounts : CapFor(h) \in Caps
      BY CapForPositive, ConstantsAssumption
    <2>2. CapFor(1) \in Caps
      BY CapForPositive
    <2> QED
      BY <1>7, <2>1, <2>2, StoreCapCovered DEF CapQueryFails, CapRefresh
  <1>8. ASSUME NEW i \in Instances, Pass(i)
        PROVE  FinalPassCovers'
    BY <1>3, <1>4, <1>5, <1>7, <1>8, DropCovered, InsertReplyCovered, SelectReplyCovered DEF Pass
  <1>9. Tick \/ UNCHANGED vars => UNCHANGED <<phase, slot, entry, sync>>
    BY DEF Tick, vars
  <1> QED
    BY <1>1, <1>2, <1>3, <1>5, <1>6, <1>7, <1>8, <1>9 DEF Next

\* A graceful stop whose final pass had no failed write leaves unwritten only
\* what rollovers had orphaned, whatever pass the stop interrupted.
THEOREM GracefulStopFlushes == Spec => []GracefulExitKeepsCounts
  <1>1. Init => FinalPassCovers
    BY DEF Init, FinalPassCovers, Covered
  <1>2. IInv /\ FinalPassCovers /\ [Next]_vars => FinalPassCovers'
    BY NextCovers
  <1>3. IInv /\ AInv /\ FinalPassCovers => GracefulExitKeepsCounts
    <2> SUFFICES ASSUME IInv, AInv, FinalPassCovers,
                        NEW i \in Instances, NEW u \in Units, NEW w \in Windows,
                        phase[i] = "final", sync[i].pc = "idle", sync[i].clean,
                        entry[i][u][w].unflushed > 0
                 PROVE  w < now /\ slot[i][u] # w
      BY DEF GracefulExitKeepsCounts
    <2>1. entry[i][u][w].unflushed # 0
      BY PendingFacts
    <2>2. slot[i][u] # w
      <3>1. NoWindow # w
        BY WindowFacts
      <3> QED
        BY <2>1, <3>1 DEF FinalPassCovers, Covered
    <2> QED
      BY <2>1, <2>2, OrphansArePast
  <1> QED
    BY <1>1, <1>2, <1>3, Inductive, AccountsKept, PTL DEF Spec
=============================================================================
