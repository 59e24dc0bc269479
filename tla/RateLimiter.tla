---------------------------- MODULE RateLimiter ----------------------------
(***************************************************************************)
(* The station-wide request limiter (backend/pipeline/rate_limiter.py) as  *)
(* every server process runs it, and the rate_limits table the processes   *)
(* share.  A process is one event loop: what it does between two awaits is  *)
(* one step.  The hot path has no await, so a request is one step; the     *)
(* background pass has one step per database round trip, split where the   *)
(* server commits and where the reply is processed.                        *)
(*                                                                         *)
(* An entry of _local is an object: the pass keeps a reference to it while *)
(* the hot path may replace it in _local when the window rolls over.  A    *)
(* process has at most one object per station and window (the clock does   *)
(* not go back, and only the pass removes an entry, once its window is     *)
(* over), so entry[i][u][w] is the object and slot[i][u] the window of the *)
(* one _local[u] holds.                                                    *)
(***************************************************************************)
EXTENDS Integers, FiniteSets

CONSTANTS
    Instances,      \* server processes (uvicorn workers, AppSail instances)
    Units,          \* police stations, by Unit.UnitID
    Quota,          \* PER_OFFICER_QUOTA
    Headcounts,     \* what COUNT(*) of active employees may return
    NoCap,          \* Python's None: the cap is not computed yet
    NoWindow,       \* the station has no entry in _local
    MaxWindow,      \* bound: windows 0..MaxWindow
    MaxRequests,    \* bound: admitted requests per station and window
    MaxFaults,      \* bound: failed or timed out database calls
    MaxRestarts     \* bound: crashes and graceful stops

ASSUME ConstantsAssumption ==
    /\ Quota \in Nat \ {0}
    /\ Headcounts \subseteq Nat
    /\ NoCap \notin Nat
    /\ NoWindow \notin Nat
    /\ MaxWindow \in Nat
    /\ MaxRequests \in Nat
    /\ MaxFaults \in Nat
    /\ MaxRestarts \in Nat

VARIABLES
    now,        \* the current 6-hour window, the same for every process
    phase,      \* phase[i]: where process i is in its life
    slot,       \* slot[i][u]: window of the entry _local[u] holds
    entry,      \* entry[i][u][w]: the counter object of that window
    sync,       \* sync[i]: the background pass of process i
    rate,       \* rate[u][w]: row (u, w) of the rate_limits table
    faults,     \* database calls that failed so far
    restarts,   \* crashes and stops so far
    (* Observations, read by no action. *)
    admitted,   \* admitted[u][w]: requests let through, by all processes
    own,        \* own[i][u][w]: the ones process i let through since it started
    replayed,   \* replayed[u][w]: increments written again after a lost reply
    discarded   \* discarded[u][w]: increments that died with their process

vars == <<now, phase, slot, entry, sync, rate, faults, restarts,
          admitted, own, replayed, discarded>>

ghosts == <<admitted, own, replayed, discarded>>

Windows == 0..MaxWindow

\* The entry a first request of the window starts from.
Fresh(cap) == [count |-> 0, unflushed |-> 0, cap |-> cap]

\* No pass is running.  "todo" is the list of stations the pass has still to
\* visit, (unit, win) the entry it holds a reference to, "cur" the window it
\* read from the clock when it began, "clean" that no write of it failed.
Idle == [pc |-> "idle", todo |-> {}, unit |-> NoWindow, win |-> NoWindow, cur |-> NoWindow,
         captured |-> 0, shared |-> 0, clean |-> TRUE]

Blank == [w \in Windows |-> Fresh(NoCap)]

Init ==
    /\ now = 0
    /\ phase = [i \in Instances |-> "up"]
    /\ slot = [i \in Instances |-> [u \in Units |-> NoWindow]]
    /\ entry = [i \in Instances |-> [u \in Units |-> Blank]]
    /\ sync = [i \in Instances |-> Idle]
    /\ rate = [u \in Units |-> [w \in Windows |-> 0]]
    /\ faults = 0
    /\ restarts = 0
    /\ admitted = [u \in Units |-> [w \in Windows |-> 0]]
    /\ own = [i \in Instances |-> [u \in Units |-> [w \in Windows |-> 0]]]
    /\ replayed = [u \in Units |-> [w \in Windows |-> 0]]
    /\ discarded = [u \in Units |-> [w \in Windows |-> 0]]

-----------------------------------------------------------------------------
(* The hot path: check_and_increment, called once per metered request.      *)

\* The cap a new entry inherits from the one it replaces.
PrevCap(i, u) == IF slot[i][u] = NoWindow THEN NoCap ELSE entry[i][u][slot[i][u]].cap

\* The entry the request is checked against, after the rollover.
HotEntry(i, u) == IF slot[i][u] = now THEN entry[i][u][now] ELSE Fresh(PrevCap(i, u))

\* Slip: one request too many.
OverBudgetLate(e) == e.cap # NoCap /\ e.count > e.cap

OverBudget(e) == e.cap # NoCap /\ e.count >= e.cap

Install(i, u, e) ==
    /\ slot' = [slot EXCEPT ![i][u] = now]
    /\ entry' = [entry EXCEPT ![i][u][now] = e]

Admit(i, u) ==
    /\ phase[i] = "up"
    /\ admitted[u][now] < MaxRequests
    /\ ~OverBudget(HotEntry(i, u))
    /\ LET e == HotEntry(i, u) IN
         Install(i, u, [e EXCEPT !.count = @ + 1, !.unflushed = @ + 1])
    /\ admitted' = [admitted EXCEPT ![u][now] = @ + 1]
    /\ own' = [own EXCEPT ![i][u][now] = @ + 1]
    /\ UNCHANGED <<now, phase, sync, rate, faults, restarts,
                   replayed, discarded>>

\* The request is answered 429.  An entry made for a new window is over no
\* budget, so a refusal finds its entry in place and changes nothing.
Deny(i, u) ==
    /\ phase[i] = "up"
    /\ OverBudget(HotEntry(i, u))
    /\ Install(i, u, HotEntry(i, u))
    /\ UNCHANGED <<now, phase, sync, rate, faults, restarts, ghosts>>

-----------------------------------------------------------------------------
(* The background pass: _sync_once, _compute_cap and _flush_unit.           *)

Running(i) == phase[i] # "down"

Set(i, s) == sync' = [sync EXCEPT ![i] = s]

BeginPass(i) ==
    Set(i, [Idle EXCEPT !.pc = "pass", !.cur = now,
                        !.todo = {u \in Units : slot[i][u] # NoWindow}])

SyncBegin(i) ==
    /\ phase[i] = "up"
    /\ sync[i].pc = "idle"
    /\ BeginPass(i)
    /\ UNCHANGED <<now, phase, slot, entry, rate, faults, restarts, ghosts>>

Stale(i, u) == slot[i][u] < sync[i].cur /\ entry[i][u][slot[i][u]].unflushed = 0

\* A counter whose window is over and fully written leaves _local, and the
\* cap that was stored in it goes with it.
SyncDrop(i, u) ==
    /\ Running(i)
    /\ sync[i].pc = "pass"
    /\ u \in sync[i].todo
    /\ Stale(i, u)
    /\ slot' = [slot EXCEPT ![i][u] = NoWindow]
    /\ Set(i, [sync[i] EXCEPT !.todo = @ \ {u}])
    /\ UNCHANGED <<now, phase, entry, rate, faults, restarts, ghosts>>

\* The pass takes its reference to the entry and asks for the headcount.
SyncVisit(i, u) ==
    /\ Running(i)
    /\ sync[i].pc = "pass"
    /\ u \in sync[i].todo
    /\ ~Stale(i, u)
    /\ Set(i, [sync[i] EXCEPT !.pc = "cap", !.todo = @ \ {u}, !.unit = u, !.win = slot[i][u]])
    /\ UNCHANGED <<now, phase, slot, entry, rate, faults, restarts, ghosts>>

\* The cap computed from a headcount, at least one officer.
CapFor(h) == (IF h < 1 THEN 1 ELSE h) * Quota

\* The entry the pass holds a reference to, and an assignment to it.
Held(i) == entry[i][sync[i].unit][sync[i].win]
Assign(i, e) == entry' = [entry EXCEPT ![i][sync[i].unit][sync[i].win] = e]

\* Slip: a single pending increment is not worth a write.
StoreCapLazy(i, cap) ==
    /\ Assign(i, [Held(i) EXCEPT !.cap = cap])
    /\ Set(i, [sync[i] EXCEPT !.captured = Held(i).unflushed,
                              !.pc = IF Held(i).unflushed > 1 THEN "insert" ELSE "select"])

\* The cap is stored in the entry the pass holds, and _flush_unit begins: it
\* reads the increments to write and skips the write when there are none.
StoreCap(i, cap) ==
    /\ Assign(i, [Held(i) EXCEPT !.cap = cap])
    /\ Set(i, [sync[i] EXCEPT !.captured = Held(i).unflushed,
                              !.pc = IF Held(i).unflushed > 0 THEN "insert" ELSE "select"])

CapRefresh(i, h) ==
    /\ Running(i)
    /\ sync[i].pc = "cap"
    /\ StoreCap(i, CapFor(h))
    /\ UNCHANGED <<now, phase, slot, rate, faults, restarts, ghosts>>

\* Both headcount queries failed: the station is given a headcount of one.
CapQueryFails(i) ==
    /\ Running(i)
    /\ sync[i].pc = "cap"
    /\ faults < MaxFaults
    /\ faults' = faults + 1
    /\ StoreCap(i, CapFor(1))
    /\ UNCHANGED <<now, phase, slot, rate, restarts, ghosts>>

\* The server executes INSERT ... ON DUPLICATE KEY UPDATE (autocommit).
InsertCommits(i) ==
    /\ Running(i)
    /\ sync[i].pc = "insert"
    /\ rate' = [rate EXCEPT ![sync[i].unit][sync[i].win] = @ + sync[i].captured]
    /\ Set(i, [sync[i] EXCEPT !.pc = "inserted"])
    /\ UNCHANGED <<now, phase, slot, entry, faults, restarts, ghosts>>

\* Slip: unflushed is reset instead of reduced by what was written.
InsertReplyResets(i) ==
    /\ Running(i)
    /\ sync[i].pc = "inserted"
    /\ Assign(i, [Held(i) EXCEPT !.unflushed = 0])
    /\ Set(i, [sync[i] EXCEPT !.pc = "select"])
    /\ UNCHANGED <<now, phase, slot, rate, faults, restarts, ghosts>>

\* What was captured is subtracted, what was counted meanwhile stays.
InsertReply(i) ==
    /\ Running(i)
    /\ sync[i].pc = "inserted"
    /\ Assign(i, [Held(i) EXCEPT !.unflushed = @ - sync[i].captured])
    /\ Set(i, [sync[i] EXCEPT !.pc = "select"])
    /\ UNCHANGED <<now, phase, slot, rate, faults, restarts, ghosts>>

\* The write did not happen, or it did and its reply missed the 5 s limit:
\* in both cases the exception ends this station's flush with unflushed as it
\* was, and the next pass writes it again.
InsertFails(i) ==
    /\ Running(i)
    /\ sync[i].pc \in {"insert", "inserted"}
    /\ faults < MaxFaults
    /\ faults' = faults + 1
    /\ replayed' = IF sync[i].pc = "inserted"
                     THEN [replayed EXCEPT ![sync[i].unit][sync[i].win] = @ + sync[i].captured]
                     ELSE replayed
    /\ Set(i, [sync[i] EXCEPT !.pc = "pass", !.clean = FALSE])
    /\ UNCHANGED <<now, phase, slot, entry, rate, restarts,
                   admitted, own, discarded>>

SelectReads(i) ==
    /\ Running(i)
    /\ sync[i].pc = "select"
    /\ Set(i, [sync[i] EXCEPT !.pc = "selected", !.shared = rate[sync[i].unit][sync[i].win]])
    /\ UNCHANGED <<now, phase, slot, entry, rate, faults, restarts, ghosts>>

\* Slips: the shared total replaces the count, or is added to it.
SelectReplyForgets(i) ==
    /\ Running(i)
    /\ sync[i].pc = "selected"
    /\ Assign(i, [Held(i) EXCEPT !.count = sync[i].shared])
    /\ Set(i, [sync[i] EXCEPT !.pc = "pass"])
    /\ UNCHANGED <<now, phase, slot, rate, faults, restarts, ghosts>>

SelectReplyAdds(i) ==
    /\ Running(i)
    /\ sync[i].pc = "selected"
    /\ Assign(i, [Held(i) EXCEPT !.count = @ + sync[i].shared])
    /\ Set(i, [sync[i] EXCEPT !.pc = "pass"])
    /\ UNCHANGED <<now, phase, slot, rate, faults, restarts, ghosts>>

\* The shared total plus what this process has still to write.
SelectReply(i) ==
    /\ Running(i)
    /\ sync[i].pc = "selected"
    /\ Assign(i, [Held(i) EXCEPT !.count = sync[i].shared + Held(i).unflushed])
    /\ Set(i, [sync[i] EXCEPT !.pc = "pass"])
    /\ UNCHANGED <<now, phase, slot, rate, faults, restarts, ghosts>>

SelectFails(i) ==
    /\ Running(i)
    /\ sync[i].pc \in {"select", "selected"}
    /\ faults < MaxFaults
    /\ faults' = faults + 1
    /\ Set(i, [sync[i] EXCEPT !.pc = "pass"])
    /\ UNCHANGED <<now, phase, slot, entry, rate, restarts, ghosts>>

SyncEnd(i) ==
    /\ Running(i)
    /\ sync[i].pc = "pass"
    /\ sync[i].todo = {}
    /\ Set(i, [Idle EXCEPT !.clean = sync[i].clean])
    /\ UNCHANGED <<now, phase, slot, entry, rate, faults, restarts, ghosts>>

-----------------------------------------------------------------------------
(* Life of a process: stop_rate_limiter, a crash, a new start.              *)

\* The lifespan shutdown: requests have drained, the stop event is set.
Stop(i) ==
    /\ phase[i] = "up"
    /\ restarts < MaxRestarts
    /\ restarts' = restarts + 1
    /\ phase' = [phase EXCEPT ![i] = "draining"]
    /\ UNCHANGED <<now, slot, entry, sync, rate, faults, ghosts>>

\* The running pass did not end within 5 s and is cancelled at its await; a
\* write the server has committed is not subtracted.
CancelPass(i) ==
    /\ phase[i] = "draining"
    /\ sync[i].pc # "idle"
    /\ replayed' = IF sync[i].pc = "inserted"
                     THEN [replayed EXCEPT ![sync[i].unit][sync[i].win] = @ + sync[i].captured]
                     ELSE replayed
    /\ Set(i, Idle)
    /\ UNCHANGED <<now, phase, slot, entry, rate, faults, restarts,
                   admitted, own, discarded>>

\* Slip: the process stops without its last pass.
FinalPassSkipped(i) ==
    /\ phase[i] = "draining"
    /\ sync[i].pc = "idle"
    /\ phase' = [phase EXCEPT ![i] = "final"]
    /\ UNCHANGED <<now, slot, entry, sync, rate, faults, restarts, ghosts>>

FinalPass(i) ==
    /\ phase[i] = "draining"
    /\ sync[i].pc = "idle"
    /\ phase' = [phase EXCEPT ![i] = "final"]
    /\ BeginPass(i)
    /\ UNCHANGED <<now, slot, entry, rate, faults, restarts, ghosts>>

\* Increments of object (u, w) that are counted in rate but not subtracted yet.
InFlight(i, u, w) ==
    IF sync[i].pc = "inserted" /\ sync[i].unit = u /\ sync[i].win = w THEN sync[i].captured ELSE 0

\* The process is gone and its memory with it.
Vanish(i) ==
    /\ phase' = [phase EXCEPT ![i] = "down"]
    /\ slot' = [slot EXCEPT ![i] = [u \in Units |-> NoWindow]]
    /\ entry' = [entry EXCEPT ![i] = [u \in Units |-> Blank]]
    /\ sync' = [sync EXCEPT ![i] = Idle]
    /\ own' = [own EXCEPT ![i] = [u \in Units |-> [w \in Windows |-> 0]]]
    /\ discarded' = [u \in Units |-> [w \in Windows |->
                       discarded[u][w] + entry[i][u][w].unflushed - InFlight(i, u, w)]]
    /\ UNCHANGED <<now, rate, faults, admitted, replayed>>

Exit(i) ==
    /\ phase[i] = "final"
    /\ sync[i].pc = "idle"
    /\ Vanish(i)
    /\ UNCHANGED restarts

Crash(i) ==
    /\ phase[i] # "down"
    /\ restarts < MaxRestarts
    /\ restarts' = restarts + 1
    /\ Vanish(i)

Start(i) ==
    /\ phase[i] = "down"
    /\ phase' = [phase EXCEPT ![i] = "up"]
    /\ UNCHANGED <<now, slot, entry, sync, rate, faults, restarts, ghosts>>

\* The clock reaches the next 6-hour window.
Tick ==
    /\ now < MaxWindow
    /\ now' = now + 1
    /\ UNCHANGED <<phase, slot, entry, sync, rate, faults, restarts, ghosts>>

-----------------------------------------------------------------------------
Pass(i) ==
    \/ SyncBegin(i)
    \/ \E u \in Units : SyncDrop(i, u) \/ SyncVisit(i, u)
    \/ \E h \in Headcounts : CapRefresh(i, h)
    \/ InsertCommits(i)
    \/ InsertReply(i)
    \/ SelectReads(i)
    \/ SelectReply(i)
    \/ SyncEnd(i)

Next ==
    \/ Tick
    \/ \E i \in Instances, u \in Units : Admit(i, u) \/ Deny(i, u)
    \/ \E i \in Instances :
         \/ Pass(i)
         \/ CapQueryFails(i)
         \/ InsertFails(i)
         \/ SelectFails(i)
         \/ Stop(i)
         \/ CancelPass(i)
         \/ FinalPass(i)
         \/ Exit(i)
         \/ Crash(i)
         \/ Start(i)

Spec == Init /\ [][Next]_vars

\* The sync task of a live process is scheduled again after every await, its
\* 30 s timer fires, and the final pass of a stopping process is awaited.
FairSpec == Spec /\ \A i \in Instances :
    /\ WF_vars(Pass(i))
    /\ WF_vars(FinalPass(i))
    /\ WF_vars(Exit(i))
-----------------------------------------------------------------------------
(* Properties.                                                             *)

PassState == [pc : {"idle", "pass", "cap", "insert", "inserted", "select", "selected"},
              todo : SUBSET Units, unit : Units \cup {NoWindow},
              win : Windows \cup {NoWindow}, cur : Windows \cup {NoWindow},
              captured : Nat, shared : Nat, clean : BOOLEAN]

Caps == {cap \in Nat : cap > 0}

Entry == [count : Nat, unflushed : Nat, cap : Caps \cup {NoCap}]

\* Every variable stays in its type; unflushed never goes below zero and a
\* cap that is set is positive.
TypeOK ==
    /\ now \in Windows
    /\ phase \in [Instances -> {"up", "draining", "final", "down"}]
    /\ slot \in [Instances -> [Units -> Windows \cup {NoWindow}]]
    /\ entry \in [Instances -> [Units -> [Windows -> Entry]]]
    /\ sync \in [Instances -> PassState]
    /\ rate \in [Units -> [Windows -> Nat]]
    /\ faults \in Nat
    /\ restarts \in Nat
    /\ admitted \in [Units -> [Windows -> Nat]]
    /\ own \in [Instances -> [Units -> [Windows -> Nat]]]
    /\ replayed \in [Units -> [Windows -> Nat]]
    /\ discarded \in [Units -> [Windows -> Nat]]

\* A counter never forgets a request of its own process: adopting the shared
\* total (count = shared + unflushed) in the middle of traffic, around failed
\* writes and replies that never came, never takes it below what the process
\* let through in that window since it started.
OwnCounted ==
    \A i \in Instances, u \in Units, w \in Windows :
        own[i][u][w] <= entry[i][u][w].count

\* As many elements as the numbers of f add up to.
Tally(f) == UNION {{x} \X (1..f[x]) : x \in DOMAIN f}

\* Code can still get at the object of window w: _local holds it, or the pass
\* has it in hand.  A rollover replaces the entry of the window that ended, and
\* nothing writes the old one but a pass that was working on it.
Reachable(i, u, w) ==
    \/ slot[i][u] = w
    \/ sync[i].pc \notin {"idle", "pass"} /\ sync[i].unit = u /\ sync[i].win = w

\* What process i can still write to row (u, w), and what it never will.
Owed(i, u, w) ==
    IF Reachable(i, u, w) THEN entry[i][u][w].unflushed - InFlight(i, u, w) ELSE 0

Orphaned(i, u, w) == IF Reachable(i, u, w) THEN 0 ELSE entry[i][u][w].unflushed

Unwritten(u, w) == Tally([i \in Instances |-> Owed(i, u, w)])
Abandoned(u, w) == Tally([i \in Instances |-> Orphaned(i, u, w)])

\* Every request let through is accounted for once, however requests, passes,
\* failures, rollovers, stops and crashes interleave: it is in the table, in a
\* counter some pass can still write, in one that a rollover orphaned, or died
\* with its process; the excess is exactly what was written twice after a lost
\* reply.  Only a window that is over loses increments to a rollover.
Conservation ==
    \A u \in Units, w \in Windows :
        /\ rate[u][w] + discarded[u][w]
             + Cardinality(Unwritten(u, w)) + Cardinality(Abandoned(u, w))
               = admitted[u][w] + replayed[u][w]
        /\ Abandoned(u, w) # {} => w < now

\* A counter is never ahead of the truth by more than the increments written
\* twice: the figure a 429 reports, and the refusal itself, is backed by that
\* many requests let through, by this process or another.
CountBacked ==
    \A i \in Instances, u \in Units :
        slot[i][u] = now =>
            entry[i][u][now].count <= admitted[u][now] + replayed[u][now]

\* While a process knows a station's cap it does not itself let the station
\* past it, whatever the other processes, the table and the pass in flight
\* do: it admits only when its own admissions of the window are below the cap.
AdmitWithinBudget ==
    [][\A i \in Instances, u \in Units :
          /\ own'[i][u][now] > own[i][u][now]
          /\ PrevCap(i, u) # NoCap
          => own[i][u][now] < PrevCap(i, u)]_vars

\* "Best-effort final flush so a graceful shutdown doesn't lose counts": when
\* the final pass ends and no write of it failed, even if the stop cancelled a
\* pass at one of its awaits, the process leaves nothing unwritten in any
\* window, except what rollovers had orphaned in windows that are over.
GracefulExitKeepsCounts ==
    \A i \in Instances, u \in Units, w \in Windows :
        /\ phase[i] = "final"
        /\ sync[i].pc = "idle"
        /\ sync[i].clean
        /\ entry[i][u][w].unflushed > 0
        => w < now /\ slot[i][u] # w

\* Instances "converge on a shared per-station total": once requests, clock,
\* failures and restarts (all bounded here) are over, every live process that
\* counts the current window shows the table's total and owes it nothing.
Converged ==
    \A i \in Instances, u \in Units :
        /\ phase[i] = "up"
        /\ slot[i][u] = now
        => /\ entry[i][u][now].unflushed = 0
           /\ entry[i][u][now].count = rate[u][now]

\* The processes come to agree, and stay so, under the fairness of the sync loop.
EventuallyConverged == <>[]Converged

=============================================================================
