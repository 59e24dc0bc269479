------------------------------ MODULE Insights ------------------------------
(***************************************************************************)
(* What is derived from the tables of accused persons: risk scores, which   *)
(* are computed from three reads and stored (pipeline/risk_scoring.py,      *)
(* routers/profiling.py), the networks around a case or an accused          *)
(* (graph/network_builder.py, the graph endpoints of routers/chat.py) and   *)
(* the sentences of the ticker (pipeline/intelligence_ticker.py).           *)
(* Meanwhile other programs enter accused and arrests; nothing deletes      *)
(* them.  A person is known by the name alone, so rows with the same name   *)
(* are taken for appearances of one person, in several cases or in one.     *)
(*                                                                         *)
(* A step is what a coroutine does from one statement on the database to    *)
(* the next; each of them may fail.  Whether the officer may see the        *)
(* accused at all is decided as in UnitHierarchy: here a call may be        *)
(* turned away.                                                             *)
(***************************************************************************)
EXTENDS Integers, FiniteSets, Bags

CONSTANTS
    Accused,        \* AccusedMasterIDs, entered or not
    Name,           \* the name of each
    Placements,     \* what their cases may be
    NoName,         \* NULL: no comparison finds it
    Cases,          \* CaseMasterIDs
    Alike,          \* pairs of cases of the same crime at the same station
    PatternLimit,   \* how many similar cases are shown, 10
    Stations,       \* units that have a case
    Commands,       \* those of them a supervisor is posted to
    Calls,          \* concurrent calls of the endpoints, passes of the ticker
    Passes,         \* those of them that are a pass over everything
    Slots,          \* the semaphore of a recomputation, 8
    Late,           \* bound: the accused who may be entered later
    Caught,         \* bound: the accused who may be arrested
    Subjects,       \* bound: the accused whom a call may be about
    None            \* no score; an id nothing has

ASSUME InsightsAssumption ==
    /\ Name \in [Accused -> {NoName} \union {Name[a] : a \in Accused}]
    /\ Placements \subseteq [Accused -> Cases]
    /\ Passes \subseteq Calls /\ Commands \subseteq Stations
    /\ Late \subseteq Accused /\ Caught \subseteq Accused /\ Subjects \subseteq Accused
    /\ PatternLimit \in Nat /\ Slots \in Nat \ {0}
    /\ None \notin Accused \union Cases
    /\ Accused \intersect Cases = {} /\ IsFiniteSet(Accused)

VARIABLES
    caseOf,     \* CaseMasterID of each accused; never changes
    entered,    \* rows of Accused
    arrested,   \* accused with a row in ArrestSurrender, of their case
    score,      \* offender_risk_scores: what each stored score was made from
    call,       \* call[c]: which endpoint, for whom, and where it is
    job,        \* job[<<c, a>>]: the computation call c makes for accused a
    free,       \* free[c]: slots left in the semaphore of call c
    net,        \* net[c]: the network call c has drawn
    loaded,     \* the Unit table is in memory (db/lookup_cache.py)
    ticker      \* _ticker_cache: what there is a sentence for

cases == <<caseOf, entered, arrested>>
brief == <<loaded, ticker>>
vars == <<cases, brief, score, call, job, free, net>>

\* A score, by the appearances and by whether an arrest was found; the one with
\* neither is _empty_score, of an id without a row or of a read that failed.
Empty == [seen |-> {}, large |-> FALSE]

Kinds == {"score", "all", "case", "person", "ticker"}
Asked(kind) ==
    CASE kind \in {"all", "ticker"} -> {None} [] kind = "case" -> Cases \union {None} [] OTHER -> Subjects

\* "clean": since it began no read failed and no other score of its accused
\* was stored.
NoJob == [pc |-> "off", result |-> Empty, clean |-> FALSE]

\* Bags of nodes and of <<from, to, label>>; "steady": no row was entered
\* since the call began.
NoNet == [nodes |-> EmptyBag, edges |-> EmptyBag, todo |-> {}, steady |-> TRUE]

Init ==
    /\ caseOf \in Placements
    /\ \E S \in SUBSET Late : entered = Accused \ S
    /\ arrested = {}
    /\ score = [a \in Accused |-> None]
    /\ call \in [Calls -> {[kind |-> k, who |-> w, pc |-> "idle"] :
                             k \in Kinds, w \in Accused \union Cases \union {None}}]
    /\ \A c \in Calls : call[c].who \in Asked(call[c].kind)
                       /\ (call[c].kind \in {"all", "ticker"} <=> c \in Passes)
    /\ job = [j \in Calls \X Accused |-> NoJob]
    /\ free = [c \in Calls |-> Slots]
    /\ net = [c \in Calls |-> NoNet]
    /\ loaded = FALSE
    /\ ticker = {}

\* WHERE AccusedName = %s: no row has a name equal to NULL.
Named(a) == {b \in entered : Name[a] # NoName /\ Name[b] = Name[a]}

At(c, kind, pc) == call[c].kind = kind /\ call[c].pc = pc
Goto(c, pc) == call' = [call EXCEPT ![c].pc = pc]

-----------------------------------------------------------------------------
(* Other programs work on the same tables.                                 *)

Enter(a) ==
    /\ a \in Late \ entered
    /\ entered' = entered \union {a}
    /\ net' = [c \in Calls |-> [net[c] EXCEPT !.steady = @ /\ call[c].pc = "idle"]]
    /\ UNCHANGED <<brief, caseOf, arrested, score, call, job, free>>

Arrest(a) ==
    /\ a \in (Caught \intersect entered) \ arrested
    /\ arrested' = arrested \union {a}
    /\ UNCHANGED <<brief, caseOf, entered, score, call, job, free, net>>

-----------------------------------------------------------------------------
(* One computation: compute_risk_for_accused.                              *)

Doing(j, pc) == job[j].pc = pc
Start(j) == job' = [job EXCEPT ![j] = [NoJob EXCEPT !.pc = "name", !.clean = TRUE]]

\* Only a request asks, of a score without factors, whether the accused exists.
Computed(j, r, clean) ==
    job' = [job EXCEPT ![j] =
              [pc |-> IF call[j[1]].kind = "score" /\ r = Empty THEN "check" ELSE "save",
               result |-> r, clean |-> clean]]

ReadName(j) ==
    /\ Doing(j, "name")
    /\ IF j[2] \in entered
         THEN job' = [job EXCEPT ![j].pc = "cases"]
         ELSE Computed(j, Empty, job[j].clean)
    /\ UNCHANGED <<cases, brief, score, call, free, net>>

\* Without a case nothing is asked of the arrests, and the person is at large.
ReadCases(j) ==
    /\ Doing(j, "cases")
    /\ LET r == [seen |-> Named(j[2]), large |-> TRUE]
       IN IF r.seen = {}
            THEN Computed(j, r, job[j].clean)
            ELSE job' = [job EXCEPT ![j].pc = "arrests", ![j].result = r]
    /\ UNCHANGED <<cases, brief, score, call, free, net>>

\* Slip: an arrest is wanted for every case that was found.
ReadArrestsOfAll(j) ==
    /\ Doing(j, "arrests")
    /\ LET seen == job[j].result.seen
       IN Computed(j, [seen |-> seen, large |-> ~(seen \subseteq arrested)], job[j].clean)
    /\ UNCHANGED <<cases, brief, score, call, free, net>>

\* An arrest of a namesake counts if it is in one of the cases that were found.
ReadArrests(j) ==
    /\ Doing(j, "arrests")
    /\ LET seen == job[j].result.seen
           found == {b \in Named(j[2]) \intersect arrested : \E x \in seen : caseOf[x] = caseOf[b]}
       IN Computed(j, [seen |-> seen, large |-> found = {}], job[j].clean)
    /\ UNCHANGED <<cases, brief, score, call, free, net>>

\* Whatever fails, the answer is an empty score.
ComputeFails(j) ==
    /\ job[j].pc \in {"name", "cases", "arrests"}
    /\ Computed(j, Empty, FALSE)
    /\ UNCHANGED <<cases, brief, score, call, free, net>>

-----------------------------------------------------------------------------
(* Storing it: the request ends with its score; a worker of a recomputation *)
(* leaves the semaphore, and the first of them that fails ends the call,    *)
(* not the other workers.                                                   *)

\* Slip: a worker that fails keeps its slot.
JobEndsHolding(j, pc, jobs) ==
    LET c == j[1] IN
    /\ job' = [jobs EXCEPT ![j] = [NoJob EXCEPT !.pc = pc]]
    /\ free' = [free EXCEPT ![c] = IF call[c].kind = "all" /\ pc = "done" THEN @ + 1 ELSE @]
    /\ IF call[c].kind = "score" \/ (pc = "failed" /\ call[c].pc = "gather")
         THEN Goto(c, pc) ELSE UNCHANGED call

JobEnds(j, pc, jobs) ==
    LET c == j[1] IN
    /\ job' = [jobs EXCEPT ![j] = [NoJob EXCEPT !.pc = pc]]
    /\ free' = [free EXCEPT ![c] = IF call[c].kind = "all" THEN @ + 1 ELSE @]
    /\ IF call[c].kind = "score" \/ (pc = "failed" /\ call[c].pc = "gather")
         THEN Goto(c, pc) ELSE UNCHANGED call

\* The other computations for the accused are not the only ones any more.
Overlapped(j) ==
    [i \in DOMAIN job |-> IF i # j /\ i[2] = j[2] THEN [job[i] EXCEPT !.clean = FALSE] ELSE job[i]]

\* The key of the table refers to Accused.
Stores(j, pc) ==
    /\ j[2] \in entered
    /\ score' = [score EXCEPT ![j[2]] = job[j].result]
    /\ JobEnds(j, pc, Overlapped(j))

Save(j) ==
    /\ Doing(j, "save")
    /\ Stores(j, "done")
    /\ UNCHANGED <<cases, brief, net>>

\* A write that times out may have stored its score all the same.
SaveFails(j) ==
    /\ Doing(j, "save")
    /\ \/ Stores(j, "failed")
       \/ JobEnds(j, "failed", job) /\ UNCHANGED score
    /\ UNCHANGED <<cases, brief, net>>

-----------------------------------------------------------------------------
(* GET /api/profiling/risk/{id}                                            *)

\* Turned away, answered anew (force_recompute) or from the table if it can be.
AskScore(c) ==
    /\ At(c, "score", "idle")
    /\ \/ Goto(c, "missing") /\ UNCHANGED job
       \/ Goto(c, "cached") /\ UNCHANGED job
       \/ Goto(c, "compute") /\ Start(<<c, call[c].who>>)
    /\ UNCHANGED <<cases, brief, score, free, net>>

ReadCached(c) ==
    /\ At(c, "score", "cached")
    /\ \/ score[call[c].who] # None /\ Goto(c, "done") /\ UNCHANGED job
       \/ score[call[c].who] = None /\ Goto(c, "compute") /\ Start(<<c, call[c].who>>)
       \/ Goto(c, "failed") /\ UNCHANGED job
    /\ UNCHANGED <<cases, brief, score, free, net>>

CheckExists(c) ==
    LET j == <<c, call[c].who>> IN
    /\ At(c, "score", "compute") /\ Doing(j, "check")
    /\ \/ j[2] \in entered /\ job' = [job EXCEPT ![j].pc = "save"] /\ UNCHANGED call
       \/ j[2] \notin entered /\ job' = [job EXCEPT ![j] = [NoJob EXCEPT !.pc = "failed"]] /\ Goto(c, "missing")
       \/ job' = [job EXCEPT ![j] = [NoJob EXCEPT !.pc = "failed"]] /\ Goto(c, "failed")
    /\ UNCHANGED <<cases, brief, score, free, net>>

(* POST /api/profiling/recompute-all: a worker for each accused there is.  *)

ReadAll(c) ==
    /\ At(c, "all", "idle")
    /\ \/ /\ Goto(c, IF entered = {} THEN "done" ELSE "gather")
          /\ job' = [j \in DOMAIN job |-> IF j[1] = c /\ j[2] \in entered
                                            THEN [NoJob EXCEPT !.pc = "wait"] ELSE job[j]]
       \/ Goto(c, "failed") /\ UNCHANGED job
    /\ UNCHANGED <<cases, brief, score, free, net>>

Acquire(j) ==
    /\ Doing(j, "wait") /\ free[j[1]] > 0
    /\ free' = [free EXCEPT ![j[1]] = @ - 1]
    /\ Start(j)
    /\ UNCHANGED <<cases, brief, score, call, net>>

Gathered(c) ==
    /\ At(c, "all", "gather")
    /\ \A a \in Accused : job[<<c, a>>].pc \in {"off", "done"}
    /\ Goto(c, "done")
    /\ UNCHANGED <<cases, brief, score, job, free, net>>

-----------------------------------------------------------------------------
(* Networks.  A list of nodes or edges is a bag: it may hold one twice.     *)

\* "if not any(n["id"] == ...)": a node is appended unless it is there.
WithNodes(nodes, S) == nodes (+) SetToBag(S \ BagToSet(nodes))

Draw(c, n, pc) ==
    /\ net' = [net EXCEPT ![c] = n]
    /\ Goto(c, pc)
    /\ UNCHANGED <<cases, brief, score, job, free>>

\* GET /api/graph/fir/{id}: a case that is not there has an empty network.
ReadCase(c) ==
    /\ At(c, "case", "idle")
    /\ IF call[c].who \in Cases
         THEN Draw(c, [net[c] EXCEPT !.nodes = SetToBag({call[c].who})], "accused")
         ELSE Draw(c, net[c], "done")

In(k) == {a \in entered : caseOf[a] = k}

ReadAccused(c) ==
    LET k == call[c].who IN
    /\ At(c, "case", "accused")
    /\ Draw(c, [net[c] EXCEPT !.nodes = @ (+) SetToBag(In(k)),
                              !.edges = SetToBag({<<k, a, "accused_in">> : a \in In(k)})],
            "similar")

\* Up to PatternLimit of them, whichever the database returns.
SimilarTo(k) == {s \in Cases \ {k} : <<k, s>> \in Alike}
Patterns(k) ==
    {S \in SUBSET SimilarTo(k) :
       \/ S = SimilarTo(k) /\ Cardinality(S) <= PatternLimit
       \/ Cardinality(S) = PatternLimit}

ReadSimilar(c) ==
    LET k == call[c].who IN
    /\ At(c, "case", "similar")
    /\ \E S \in Patterns(k) :
         Draw(c, [net[c] EXCEPT !.nodes = WithNodes(@, S),
                                !.edges = @ (+) SetToBag({<<k, s, "similar_pattern">> : s \in S})],
              "done")

\* GET /api/graph/accused/{id}
ReadPerson(c) ==
    /\ At(c, "person", "idle")
    /\ IF call[c].who \in entered
         THEN Draw(c, [net[c] EXCEPT !.nodes = SetToBag({call[c].who})], "appearances")
         ELSE Draw(c, net[c], "done")

ReadAppearances(c) ==
    /\ At(c, "person", "appearances")
    /\ Draw(c, [net[c] EXCEPT !.todo = Named(call[c].who)], "links")

\* One appearance: its case, and the accused the join finds there, each once for
\* every other one of the case.
Role(a, b) == IF caseOf[a] # caseOf[b] THEN "repeat_offender" ELSE "accused_in"
Linked(k) == IF Cardinality(In(k)) > 1 THEN In(k) ELSE {}

\* Slip: the accused of a case are appended without looking.
ReadLinksUnchecked(c) ==
    LET a == call[c].who IN
    /\ At(c, "person", "links")
    /\ \E b \in net[c].todo :
         LET k == caseOf[b]
             others == Linked(k) \ {a}
         IN Draw(c, [net[c] EXCEPT !.nodes = WithNodes(@, {k}) (+) SetToBag(others),
                                   !.edges = @ (+) SetToBag({<<a, k, Role(a, b)>>})
                                               (+) SetToBag({<<k, o, "co_accused">> : o \in others}),
                                   !.todo = @ \ {b}],
                 "links")

ReadLinks(c) ==
    LET a == call[c].who IN
    /\ At(c, "person", "links")
    /\ \E b \in net[c].todo :
         LET k == caseOf[b]
             others == Linked(k) \ {a}
             drawn == [e \in {<<k, o, "co_accused">> : o \in others} |-> Cardinality(In(k)) - 1]
         IN Draw(c, [net[c] EXCEPT !.nodes = WithNodes(WithNodes(@, {k}), others),
                                   !.edges = @ (+) SetToBag({<<a, k, Role(a, b)>>}) (+) drawn,
                                   !.todo = @ \ {b}],
                 "links")

LinksDone(c) ==
    /\ At(c, "person", "links") /\ net[c].todo = {}
    /\ Draw(c, net[c], "done")

\* The builders catch nothing.
DrawFails(c) ==
    /\ call[c].kind \in {"case", "person"}
    /\ call[c].pc \notin {"done", "failed"}
    /\ call[c].pc = "links" => net[c].todo # {}
    /\ Draw(c, NoNet, "failed")

-----------------------------------------------------------------------------
(* The ticker: a sentence for each station, for each supervisor's unit and  *)
(* for the state.  One that cannot be made leaves the old one.               *)

ToTell(c, S, pc) ==
    /\ net' = [net EXCEPT ![c].todo = S]
    /\ Goto(c, pc)
    /\ UNCHANGED <<cases, score, job, free>>

\* A sentence comes of the queries and the model, or it does not.
Told(entry) == ticker' \in {ticker, ticker \union {entry}}

\* A query that fails is one that returns nothing.
ReadStations(c) ==
    /\ At(c, "ticker", "idle")
    /\ \E S \in {Stations, {}} : ToTell(c, S, "stations")
    /\ UNCHANGED brief

TellStation(c) ==
    /\ At(c, "ticker", "stations")
    /\ \E u \in net[c].todo : Told(<<"station", u>>) /\ ToTell(c, net[c].todo \ {u}, "stations")
    /\ UNCHANGED loaded

ReadCommands(c) ==
    /\ At(c, "ticker", "stations") /\ net[c].todo = {}
    /\ \E S \in {Commands, {}} : ToTell(c, S, "commands")
    /\ UNCHANGED brief

\* The name of the unit is asked for last: once the Unit table is in memory the
\* answer has no name in it, and the sentence of the supervisor is not made.
TellCommand(c) ==
    /\ At(c, "ticker", "commands")
    /\ \E u \in net[c].todo :
         /\ IF loaded THEN UNCHANGED ticker ELSE Told(<<"sup", u>>)
         /\ ToTell(c, net[c].todo \ {u}, "commands")
    /\ UNCHANGED loaded

TellState(c) ==
    /\ At(c, "ticker", "commands") /\ net[c].todo = {}
    /\ Told(<<"policymaker", None>>)
    /\ ToTell(c, {}, "done")
    /\ UNCHANGED loaded

\* init_lookup_cache reads the table as the server starts; only the ticker is
\* concerned.
Load ==
    /\ ~loaded /\ loaded' = TRUE
    /\ \E c \in Calls : call[c].kind = "ticker"
    /\ UNCHANGED <<cases, ticker, score, call, job, free, net>>

-----------------------------------------------------------------------------

Compute(j) ==
    \/ ReadName(j) \/ ReadCases(j) \/ ReadArrests(j) \/ ComputeFails(j)
    \/ Save(j) \/ SaveFails(j) \/ Acquire(j)

Answer(c) ==
    \/ AskScore(c) \/ ReadCached(c) \/ CheckExists(c) \/ ReadAll(c) \/ Gathered(c)
    \/ ReadCase(c) \/ ReadAccused(c) \/ ReadSimilar(c)
    \/ ReadPerson(c) \/ ReadAppearances(c) \/ ReadLinks(c) \/ LinksDone(c) \/ DrawFails(c)
    \/ ReadStations(c) \/ TellStation(c) \/ ReadCommands(c) \/ TellCommand(c) \/ TellState(c)

Next ==
    \/ \E a \in Accused : Enter(a) \/ Arrest(a)
    \/ \E j \in Calls \X Accused : Compute(j)
    \/ \E c \in Calls : Answer(c)
    \/ Load

\* Every statement returns or fails; the event loop runs what is ready.
Work ==
    \/ \E j \in Calls \X Accused : Compute(j)
    \/ \E c \in Calls : call[c].pc # "idle" /\ Answer(c)

Spec == Init /\ [][Next]_vars /\ WF_vars(Work)

-----------------------------------------------------------------------------
(* Properties *)

Score == [seen : SUBSET Accused, large : BOOLEAN]
JobType ==
    [pc : {"off", "wait", "name", "cases", "arrests", "check", "save", "done", "failed"},
     result : Score, clean : BOOLEAN]
CallType ==
    [kind : Kinds, who : Accused \union Cases \union {None},
     pc : {"idle", "cached", "compute", "gather", "accused", "similar", "appearances", "links",
           "stations", "commands", "done", "failed", "missing"}]

\* Every variable is of its type; only accused who are entered have a score, and
\* a recomputation never runs more workers than its semaphore has places.
TypeOK ==
    /\ caseOf \in Placements
    /\ entered \subseteq Accused /\ arrested \subseteq entered
    /\ score \in [Accused -> Score \union {None}]
    /\ \A a \in Accused : score[a] # None => a \in entered
    /\ call \in [Calls -> CallType]
    /\ \A c \in Calls : call[c].who \in Asked(call[c].kind)
    /\ job \in [Calls \X Accused -> JobType]
    /\ free \in [Calls -> 0..Slots]

\* A stored score is replaced by one that knows less - fewer appearances, or an
\* arrest forgotten - only by a computation during which a read failed
\* (risk_scoring.py:139) or another score of the accused was stored (the reads
\* and the write are separate statements, :57, :94, :156).
Covers(new, old) ==
    old # Empty => old.seen \subseteq new.seen /\ (new.large => old.large)
ScoreLostOnlyOnOverlap ==
    [][\A a \in Accused :
         score[a] \notin {None, score'[a]} /\ ~Covers(score'[a], score[a]) =>
           \E c \in Calls : LET j == <<c, a>> IN
             Doing(j, "save") /\ job'[j].pc \in {"done", "failed"} /\ ~job[j].clean]_vars

\* What was drawn is a network: each node once, though a join returns a person
\* several times and namesakes bring a case several times, and none but what
\* edges reach; if nothing was entered meanwhile, the edges are those of the
\* tables (network_builder.py:116, :165, :183).
Ends(n) == UNION {{e[1], e[2]} : e \in BagToSet(n.edges)}
CaseEdges(k, drawn) ==
    /\ {e \in drawn : e[3] = "accused_in"} = {<<k, a, "accused_in">> : a \in In(k)}
    /\ \A e \in drawn : e[3] = "similar_pattern" => e[1] = k /\ e[2] # k /\ <<k, e[2]>> \in Alike
PersonEdges(a, drawn) ==
    drawn = {<<a, caseOf[b], IF caseOf[b] = caseOf[a] THEN "accused_in" ELSE "repeat_offender">> :
               b \in Named(a)}
            \union
            {<<caseOf[p[1]], p[2], "co_accused">> :
               p \in {q \in Named(a) \X (entered \ {a}) :
                        caseOf[q[1]] = caseOf[q[2]] /\ \E x \in entered \ {q[2]} : caseOf[x] = caseOf[q[2]]}}
GraphSound ==
    \A c \in Calls :
      call[c].pc = "done" /\ net[c].nodes # EmptyBag =>
        LET n == net[c] IN
        /\ \A v \in BagToSet(n.nodes) : n.nodes[v] = 1
        /\ BagToSet(n.nodes) = {call[c].who} \union Ends(n)
        /\ n.steady => IF call[c].kind = "case" THEN CaseEdges(call[c].who, BagToSet(n.edges))
                                                ELSE PersonEdges(call[c].who, BagToSet(n.edges))

\* A recomputation ends, and so does each of its workers, whichever of them
\* fail (risk_scoring.py:198-207); and so does a pass of the ticker
\* (intelligence_ticker.py:85-213).
PassEnds ==
    \A c \in Passes :
      call[c].pc \in {"gather", "stations", "commands"} ~>
        /\ call[c].pc \in {"done", "failed"}
        /\ \A a \in Accused : job[<<c, a>>].pc \in {"off", "done", "failed"}

=============================================================================
