--------------------------- MODULE QueryPipeline ---------------------------
(***************************************************************************)
(* A question's way through run_pipeline (backend/pipeline/query_pipeline   *)
(* .py): answer cache, canned and intercepted answers, intent routing, SQL  *)
(* generation with its attempt budget, station scope, execution with one    *)
(* correction, retry with the latest year, retrieval (RAG) and direct       *)
(* fallbacks, and the cached answer.  Requests of one process run           *)
(* concurrently; a step is what a coroutine does between two awaits.        *)
(*                                                                         *)
(* A statement is reduced to whom it was written for, which version of the  *)
(* query it is, how it is written, as far as enforce_station_scope tells    *)
(* that apart, and the rows the conditions added by it leave: those of some *)
(* units and the cases assigned to some officers.  Its text, prompts, media *)
(* and follow-up suggestions are left out; whether it has a date predicate  *)
(* is open.                                                                 *)
(***************************************************************************)
EXTENDS Naturals, SequencesExt

CONSTANTS
    Requests,       \* pipeline runs
    Officers, Units,
    Asks,           \* [question, history, officer] records: what may be asked
    Kind,           \* of a question: "greeting", "comparison", "narrative", "plain"
    Role, Home,     \* of an officer: role and unit_id
    Reach,          \* of a unit: itself and its descendants
    MaxAttempts,    \* MAX_ATTEMPTS, 2
    Capacity,       \* of the cache, 1000
    None            \* Python's None

Form == {"generated", "corrected", "latest"}
\* "closed": one SELECT whose conditions all have to hold.  "own": such a one
\* that compares PolicePersonID.  "open": one the added condition restricts in
\* part or not at all, since it stands next to an OR of the statement, in one
\* branch of a UNION, or is not added where its text seems to be there already.
Shape == {"closed", "own", "open"}
Statements == [by : Officers, form : Form, shape : Shape, units : SUBSET Units, own : SUBSET Officers]
Tables == [from : Statements, rows : BOOLEAN]
Texts == {"rule", "intercept", "rag", "direct", "answer", "degraded", "error"}
Responses == [text : Texts \cup {None}, sql : Statements \cup {None}, table : Tables \cup {None}]

ASSUME PipelineAssumption ==
    /\ \A a \in Asks : a.officer \in Officers /\ a.history \in BOOLEAN
    /\ Home \in [Officers -> Units \cup {None}]
    /\ Reach \in [Units -> SUBSET Units]
    /\ \A u \in Units : u \in Reach[u]
    /\ MaxAttempts \in Nat \ {0} /\ Capacity \in Nat \ {0}
    /\ None \notin Statements \cup Tables \cup Texts \cup Units \cup Asks

VARIABLES
    loaded,     \* has init_lookup_cache read the Unit table?
    cache,      \* _pipeline_cache, least recently used first
    req         \* req[r]: where request r is

vars == <<loaded, cache, req>>

Blank == [text |-> None, sql |-> None, table |-> None]
Idle == [pc |-> "idle", ask |-> None, calls |-> 0, resp |-> Blank]

Init ==
    /\ loaded = FALSE
    /\ cache = <<>>
    /\ req = [r \in Requests |-> Idle]

At(r, pc) == req[r].pc = pc
Asker(r) == req[r].ask.officer
Put(r, f) == req' = [req EXCEPT ![r] = f]
Goto(r, pc) == Put(r, [req[r] EXCEPT !.pc = pc])

\* The run returns, with the answer given.
Finish(r, text) == Put(r, [req[r] EXCEPT !.pc = "done", !.resp.text = text])
\* A fallback returns a response of its own, with neither statement nor table.
FinishAnew(r, text) ==
    Put(r, [req[r] EXCEPT !.pc = "done", !.resp = [Blank EXCEPT !.text = text]])

-----------------------------------------------------------------------------
(* Station scope: get_scoped_unit_ids and enforce_station_scope.            *)

Restricted(o) == Role[o] \notin {"analyst", "policymaker"}

Own(o) == {Home[o]} \ {None}

\* A supervisor's scope is walked in memory, and is its own unit alone until
\* the Unit table has been read.
ScopedUnits(o) ==
    IF Role[o] = "supervisor" /\ Home[o] # None /\ loaded THEN Reach[Home[o]] ELSE Own(o)

\* The condition: the station is in scope, or, where the statement compares
\* PolicePersonID, the case is assigned to the officer.
Enforce(o, s) ==
    IF ~Restricted(o) \/ s.shape = "open" THEN s
    ELSE [s EXCEPT !.units = @ \cap ScopedUnits(o),
                   !.own = IF s.shape = "own" THEN @ \cup {o} ELSE @]

\* The units whose rows the officer's role lets it see.
Entitled(o) ==
    IF ~Restricted(o) THEN Units
    ELSE IF Role[o] = "supervisor" /\ Home[o] # None THEN Reach[Home[o]]
    ELSE Own(o)

\* Officers of the same unit and role.
Peers(o) == {p \in Officers : Home[p] = Home[o] /\ Role[p] = Role[o]}

LoadUnits == ~loaded /\ loaded' = TRUE /\ UNCHANGED <<cache, req>>

-----------------------------------------------------------------------------
(* PipelineCache.                                                           *)

\* Slip: the key is the question and its history.
KeyOfQuestion(a) == [question |-> a.question, history |-> a.history]

Key(a) ==
    [question |-> a.question, history |-> a.history,
     unit |-> Home[a.officer], role |-> Role[a.officer]]

Places(a) == {i \in DOMAIN cache : cache[i].key = Key(a)}

\* Slip: room is made when the cache is over its capacity, not when it is full.
StoredOverCapacity(a, resp) ==
    LET rest == IF Places(a) # {} THEN RemoveAt(cache, CHOOSE i \in Places(a) : TRUE)
                ELSE IF Len(cache) > Capacity THEN RemoveAt(cache, 1)
                ELSE cache
    IN Append(rest, [key |-> Key(a), resp |-> resp, expired |-> FALSE])

\* put: the answer is the newest, in place of the one with its key or, when
\* the cache is full, of the oldest.
StoredAnswer(a, resp) ==
    LET rest == IF Places(a) # {} THEN RemoveAt(cache, CHOOSE i \in Places(a) : TRUE)
                ELSE IF Len(cache) >= Capacity THEN RemoveAt(cache, 1)
                ELSE cache
    IN Append(rest, [key |-> Key(a), resp |-> resp, expired |-> FALSE])

\* Five minutes have passed since the answer was stored.
Expire(i) ==
    /\ ~cache[i].expired
    /\ cache' = [cache EXCEPT ![i].expired = TRUE]
    /\ UNCHANGED <<loaded, req>>

-----------------------------------------------------------------------------
(* Before SQL.                                                              *)

Intercepted(a) == Kind[a.question] = "comparison" /\ Role[a.officer] \in {"investigator", "supervisor"}

AfterNarrative(a) == IF a.history THEN "intent" ELSE "generate"

\* Lines 351-393: what a request does that found no answer in the cache.
Routed(a) ==
    CASE Kind[a.question] = "greeting" -> [Idle EXCEPT !.pc = "done", !.ask = a, !.resp.text = "rule"]
      [] Intercepted(a) -> [Idle EXCEPT !.pc = "done", !.ask = a, !.resp.text = "intercept"]
      [] Kind[a.question] = "narrative" -> [Idle EXCEPT !.pc = "narrative", !.ask = a]
      [] OTHER -> [Idle EXCEPT !.pc = AfterNarrative(a), !.ask = a]

CacheHit(r, a) ==
    /\ At(r, "idle")
    /\ \E i \in Places(a) :
        /\ ~cache[i].expired
        /\ cache' = Append(RemoveAt(cache, i), cache[i])
        /\ Put(r, [Idle EXCEPT !.pc = "done", !.ask = a, !.resp = cache[i].resp])
    /\ UNCHANGED loaded

\* An expired answer is dropped by the lookup that meets it.
CacheMiss(r, a) ==
    /\ At(r, "idle")
    /\ \A i \in Places(a) : cache[i].expired
    /\ cache' = IF Places(a) = {} THEN cache ELSE RemoveAt(cache, CHOOSE i \in Places(a) : TRUE)
    /\ Put(r, Routed(a))
    /\ UNCHANGED loaded

\* A narrative question is answered from the case reports if they support it.
NarrativeRag(r) ==
    /\ At(r, "narrative")
    /\ Finish(r, "rag") \/ Goto(r, AfterNarrative(req[r].ask))
    /\ UNCHANGED <<loaded, cache>>

Intent(r) ==
    /\ At(r, "intent")
    /\ Goto(r, "direct") \/ Goto(r, "generate")
    /\ UNCHANGED <<loaded, cache>>

\* _run_direct.
Direct(r) ==
    /\ At(r, "direct")
    /\ FinishAnew(r, "direct") \/ FinishAnew(r, "error")
    /\ UNCHANGED <<loaded, cache>>

\* _fallback_rag_direct, up to its direct answer.
Fallback(r) ==
    /\ At(r, "fallback")
    /\ FinishAnew(r, "rag") \/ Goto(r, "direct")
    /\ UNCHANGED <<loaded, cache>>

-----------------------------------------------------------------------------
(* SQL generation and execution.                                            *)

Written(r, form, shape) ==
    [by |-> Asker(r), form |-> form, shape |-> shape, units |-> Units, own |-> {}]

\* A valid statement is scoped, shown in the response, and about to be
\* executed.  (sql_generated and the statement in hand agree from here on.)
Adopt(r, s, pc) ==
    Put(r, [req[r] EXCEPT !.pc = pc, !.calls = @ + 1, !.resp.sql = Enforce(Asker(r), s)])

\* One answer of the model in generate_sql: an invalid statement is corrected
\* while attempts are left.
GenerateInvalid(r) ==
    /\ At(r, "generate")
    /\ IF req[r].calls + 1 < MaxAttempts
       THEN Put(r, [req[r] EXCEPT !.calls = @ + 1])
       ELSE Put(r, [req[r] EXCEPT !.pc = "done", !.calls = @ + 1, !.resp.text = "error"])
    /\ UNCHANGED <<loaded, cache>>

GenerateValid(r) ==
    /\ At(r, "generate")
    /\ \E shape \in Shape : Adopt(r, Written(r, "generated", shape), "execute")
    /\ UNCHANGED <<loaded, cache>>

\* CANNOT_ANSWER, or a valid statement of a restricted officer that has no
\* place for the station condition.
GenerateUnusable(r) ==
    /\ At(r, "generate")
    /\ Put(r, [req[r] EXCEPT !.pc = "fallback", !.calls = @ + 1])
    /\ UNCHANGED <<loaded, cache>>

\* The model is out of reach (LLMError), or the step fails otherwise.
GenerateFails(r) ==
    /\ At(r, "generate")
    /\ \/ Put(r, [req[r] EXCEPT !.pc = "instead", !.calls = @ + 1])
       \/ Put(r, [req[r] EXCEPT !.pc = "done", !.calls = @ + 1, !.resp.text = "error"])
    /\ UNCHANGED <<loaded, cache>>

\* Retrieval in place of the model that wrote no statement.
RagInstead(r) ==
    /\ At(r, "instead")
    /\ Finish(r, "rag") \/ Finish(r, "error")
    /\ UNCHANGED <<loaded, cache>>

\* The database answers.  Without a row the statement is retried with the
\* latest year, if it has a date predicate; without a row left, when the
\* placeholder names of accused persons are stripped, retrieval is tried.
Executes(r) ==
    /\ At(r, "execute") \/ At(r, "executeCorrected")
    /\ \E next \in {"maxYear", "emptyRag", "format"} :
        Put(r, [req[r] EXCEPT
            !.pc = next,
            !.resp.table = [from |-> req[r].resp.sql, rows |-> next = "format"]])
    /\ UNCHANGED <<loaded, cache>>

\* Slip: a statement that fails is corrected whatever was spent on writing it.
ExecuteFailsUnbudgeted(r) ==
    /\ At(r, "execute")
    /\ Goto(r, "correct")
    /\ UNCHANGED <<loaded, cache>>

\* A failing statement is corrected once, if the attempts allow it.
ExecuteFails(r) ==
    /\ At(r, "execute")
    /\ IF req[r].calls >= MaxAttempts THEN Finish(r, "error") ELSE Goto(r, "correct")
    /\ UNCHANGED <<loaded, cache>>

\* correct_sql_after_execution_error, and the scope of what it returns.
CorrectValid(r) ==
    /\ At(r, "correct")
    /\ \E shape \in Shape : Adopt(r, Written(r, "corrected", shape), "executeCorrected")
    /\ UNCHANGED <<loaded, cache>>

\* The correction has no place for the station condition.
CorrectUnscopable(r) ==
    /\ At(r, "correct")
    /\ Restricted(Asker(r))
    /\ Put(r, [req[r] EXCEPT !.pc = "fallback", !.calls = @ + 1])
    /\ UNCHANGED <<loaded, cache>>

\* The call fails, or its answer is not a valid statement.
CorrectFails(r) ==
    /\ At(r, "correct")
    /\ Put(r, [req[r] EXCEPT !.pc = "done", !.calls = @ + 1, !.resp.text = "error"])
    /\ UNCHANGED <<loaded, cache>>

CorrectedFails(r) ==
    /\ At(r, "executeCorrected")
    /\ Finish(r, "error")
    /\ UNCHANGED <<loaded, cache>>

\* _retry_with_latest_date: the latest year with a case is looked up ...
MaxYear(r) ==
    /\ At(r, "maxYear")
    /\ Goto(r, "executeLatest") \/ Goto(r, "emptyRag")
    /\ UNCHANGED <<loaded, cache>>

LatestOf(r) == Enforce(Asker(r), [req[r].resp.sql EXCEPT !.form = "latest"])

\* Slip: the response keeps the statement of the asked year.
LatestRowsUnshown(r) ==
    /\ At(r, "executeLatest")
    /\ Put(r, [req[r] EXCEPT !.pc = "format",
                 !.resp.table = [from |-> LatestOf(r), rows |-> TRUE]])
    /\ UNCHANGED <<loaded, cache>>

\* ... and the statement, rewritten to that year and scoped again, is what the
\* response shows, with its rows, if there are any.
LatestRows(r) ==
    /\ At(r, "executeLatest")
    /\ \E left \in BOOLEAN :
        Put(r, [req[r] EXCEPT
            !.pc = IF left THEN "format" ELSE "emptyRag",
            !.resp.sql = LatestOf(r),
            !.resp.table = [from |-> LatestOf(r), rows |-> left]])
    /\ UNCHANGED <<loaded, cache>>

\* Slip: without a row, another latest year is looked for.
LatestEmptyAgain(r) ==
    /\ At(r, "executeLatest")
    /\ Goto(r, "maxYear") \/ Goto(r, "emptyRag")
    /\ UNCHANGED <<loaded, cache>>

\* No row, or a failure: the empty table of the asked year stands.
LatestEmpty(r) ==
    /\ At(r, "executeLatest")
    /\ Goto(r, "emptyRag")
    /\ UNCHANGED <<loaded, cache>>

EmptyRag(r) ==
    /\ At(r, "emptyRag")
    /\ Finish(r, "rag") \/ Goto(r, "format")
    /\ UNCHANGED <<loaded, cache>>

\* The answer is put into words, by the model or by a fixed sentence when the
\* model fails, and stored.
Format(r) ==
    /\ At(r, "format")
    /\ \E text \in {"answer", "degraded"} :
        LET resp == [req[r].resp EXCEPT !.text = text]
        IN /\ Put(r, [req[r] EXCEPT !.pc = "done", !.resp = resp])
           /\ cache' = StoredAnswer(req[r].ask, resp)
    /\ UNCHANGED loaded

\* The client goes away: the coroutine is cancelled at the await it is at.
Disconnect(r) ==
    /\ req[r].pc \notin {"idle", "done", "gone"}
    /\ Put(r, [Idle EXCEPT !.pc = "gone"])
    /\ UNCHANGED <<loaded, cache>>

-----------------------------------------------------------------------------
\* What a request does once it has begun: every call it waits for answers or
\* times out.
Proceed(r) ==
    \/ NarrativeRag(r) \/ Intent(r) \/ Direct(r) \/ Fallback(r)
    \/ GenerateInvalid(r) \/ GenerateValid(r) \/ GenerateUnusable(r) \/ GenerateFails(r)
    \/ RagInstead(r)
    \/ Executes(r) \/ ExecuteFails(r)
    \/ CorrectValid(r) \/ CorrectUnscopable(r) \/ CorrectFails(r) \/ CorrectedFails(r)
    \/ MaxYear(r) \/ LatestRows(r) \/ LatestEmpty(r)
    \/ EmptyRag(r) \/ Format(r)

Next ==
    \/ LoadUnits
    \/ \E i \in DOMAIN cache : Expire(i)
    \/ \E r \in Requests, a \in Asks : CacheHit(r, a) \/ CacheMiss(r, a)
    \/ \E r \in Requests : Proceed(r) \/ Disconnect(r)

Spec == Init /\ [][Next]_vars
FairSpec == Spec /\ \A r \in Requests : WF_vars(Proceed(r))

-----------------------------------------------------------------------------
PCs == {"idle", "narrative", "intent", "direct", "fallback", "generate", "instead",
        "execute", "correct", "executeCorrected", "maxYear", "executeLatest",
        "emptyRag", "format", "done", "gone"}

\* Types of the state; whatever failed on the way, a request that is done has
\* a text to show.
TypeOK ==
    /\ loaded \in BOOLEAN
    /\ cache \in Seq([key : {Key(a) : a \in Asks}, resp : Responses, expired : BOOLEAN])
    /\ req \in [Requests ->
        [pc : PCs, ask : Asks \cup {None}, calls : Nat, resp : Responses]]
    /\ \A r \in Requests : At(r, "done") => req[r].resp.text # None

\* One question costs at most MAX_ATTEMPTS calls of the SQL model, whether
\* they are spent on invalid statements or on correcting one that the
\* database rejected (docstring of correct_sql_after_execution_error).
CallBudget == \A r \in Requests : req[r].calls <= MaxAttempts

Shows(r) == At(r, "done") /\ req[r].resp.table # None

\* The table an officer is served, unless it comes from an open statement,
\* holds rows of the units its role reaches and cases assigned to officers of
\* its unit and role, also when the statement was corrected, rewritten to
\* another year, or executed for someone else and taken from the cache. That
\* those cases are the officer's own, as Docs.md:2393 says, does not hold: the
\* cache's key does not have the officer.
RowsWithinReach ==
    \A r \in Requests : Shows(r) /\ req[r].resp.table.from.shape # "open" =>
        /\ req[r].resp.table.from.units \subseteq Entitled(Asker(r))
        /\ req[r].resp.table.from.own \subseteq Peers(Asker(r))

\* The statement an answer shows (and the evidence trail stores) is the one
\* its table was computed by.
EvidenceMatchesTable ==
    \A r \in Requests :
        Shows(r) => req[r].resp.table.from = req[r].resp.sql

\* The cache keeps within its capacity and holds one answer for a key, which
\* is the outcome of a statement that ran and not of a fallback.
CacheSound ==
    /\ Len(cache) <= Capacity
    /\ \A i, j \in DOMAIN cache : cache[i].key = cache[j].key => i = j
    /\ \A i \in DOMAIN cache :
        cache[i].resp.text \in {"answer", "degraded"} /\ cache[i].resp.table # None

\* Every request ends, with an answer or because its client went away: no
\* failure makes it go round in circles.
EveryRequestEnds ==
    \A r \in Requests : req[r].pc # "idle" ~> req[r].pc \in {"done", "gone"}

=============================================================================
