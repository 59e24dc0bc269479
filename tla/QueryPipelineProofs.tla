------------------------ MODULE QueryPipelineProofs ------------------------
(***************************************************************************)
(* What holds of QueryPipeline for every hierarchy of units, every set of   *)
(* officers, questions and concurrent requests, and every attempt budget.   *)
(***************************************************************************)
EXTENDS QueryPipeline, TLAPS

Entries == [key : {Key(a) : a \in Asks}, resp : Responses, expired : BOOLEAN]
Runs == [pc : PCs, ask : Asks \cup {None}, calls : Nat, resp : Responses]

\* A request that has begun, and is not abandoned, has a question.
HasAsk(f) == f.pc \notin {"idle", "gone"} => f.ask # None

\* The stages between executing a statement and answering have a statement,
\* those after it a table and those before it none; a request that is done has a text.
HasSql(f) ==
    f.pc \in {"execute", "executeCorrected", "correct", "maxYear", "executeLatest", "emptyRag", "format"}
        => f.resp.sql # None
HasTable(f) ==
    /\ f.pc \in {"maxYear", "executeLatest", "emptyRag", "format"} => f.resp.table # None
    /\ f.pc \in {"narrative", "intent", "generate", "execute", "correct", "executeCorrected"}
        => f.resp.table = None
HasText(f) == f.pc = "done" => f.resp.text # None

\* Calls of the SQL model are left where one may yet be made.
Within(f) ==
    /\ f.calls <= MaxAttempts
    /\ f.pc \in {"narrative", "intent", "generate", "correct"} => f.calls < MaxAttempts

\* A statement confined to what officer o may see, as far as its form allows.
Confined(s, o) ==
    /\ s.shape # "open" => s.units \subseteq Entitled(o)
    /\ s.own \subseteq Peers(o)

\* A response fit for officer o: its statement, and the one behind its table,
\* are confined for o, and are the same.
FitFor(resp, o) ==
    /\ resp.sql # None => Confined(resp.sql, o)
    /\ resp.table # None => resp.table.from = resp.sql

RunOK(f) ==
    /\ f \in Runs
    /\ HasAsk(f) /\ HasSql(f) /\ HasTable(f) /\ HasText(f) /\ Within(f)
    /\ f.ask # None => FitFor(f.resp, f.ask.officer)

\* A stored answer fits every officer whose questions have its key.
EntryOK(e) ==
    /\ e \in Entries
    /\ e.resp.text # None
    /\ \A a \in Asks : Key(a) = e.key => FitFor(e.resp, a.officer)

GoodRuns == {f \in Runs : RunOK(f)}
GoodEntries == {e \in Entries : EntryOK(e)}

IInv ==
    /\ loaded \in BOOLEAN
    /\ cache \in Seq(GoodEntries)
    /\ req \in [Requests -> GoodRuns]

-----------------------------------------------------------------------------
LEMMA RemoveAtSeq ==
    ASSUME NEW S, NEW s \in Seq(S), NEW i \in DOMAIN s
    PROVE  RemoveAt(s, i) \in Seq(S)
  <1>1. SubSeq(s, 1, i - 1) \in Seq(S) /\ SubSeq(s, i + 1, Len(s)) \in Seq(S)
    OBVIOUS
  <1> QED
    BY <1>1 DEF RemoveAt

\* A step that only replaces one run keeps the invariant if the new run is good.
LEMMA PutKeeps ==
    ASSUME IInv, NEW r \in Requests, NEW f \in GoodRuns, Put(r, f), UNCHANGED <<loaded, cache>>
    PROVE  IInv'
  BY DEF IInv, Put

\* What enforce_station_scope returns is confined for the officer.
LEMMA EnforceConfines ==
    ASSUME PipelineAssumption, NEW o \in Officers, NEW s \in Statements, s.own \subseteq Peers(o)
    PROVE  Enforce(o, s) \in Statements /\ Confined(Enforce(o, s), o)
  <1>1. Restricted(o) => ScopedUnits(o) \subseteq Entitled(o)
    BY DEF PipelineAssumption, ScopedUnits, Entitled, Own
  <1>2. ~Restricted(o) => Entitled(o) = Units
    BY DEF Entitled
  <1>3. s.units \subseteq Units /\ s.own \subseteq Officers /\ o \in Peers(o)
    BY DEF Statements, Peers
  <1>4. CASE ~Restricted(o) \/ s.shape = "open"
    BY <1>2, <1>3, <1>4 DEF Enforce, Confined
  <1>5. CASE Restricted(o) /\ s.shape # "open"
    <2> DEFINE u == s.units \cap ScopedUnits(o)
               w == IF s.shape = "own" THEN s.own \cup {o} ELSE s.own
               e == [s EXCEPT !.units = u, !.own = w]
    <2>1. u \in SUBSET Units /\ w \in SUBSET Officers /\ u \subseteq Entitled(o) /\ w \subseteq Peers(o)
      BY <1>1, <1>3, <1>5
    <2>2. Enforce(o, s) = e
      BY <1>5 DEF Enforce
    <2> HIDE DEF u, w
    <2>3. e \in Statements /\ e.units = u /\ e.own = w
      BY <2>1 DEF Statements
    <2> HIDE DEF e
    <2> QED
      BY <2>1, <2>2, <2>3 DEF Confined
  <1> QED
    BY <1>4, <1>5

LEMMA Initially == PipelineAssumption /\ Init => IInv
  <1> SUFFICES ASSUME PipelineAssumption, Init
               PROVE  IInv
    OBVIOUS
  <1>1. Idle \in GoodRuns
    BY DEF PipelineAssumption, Idle, Blank, GoodRuns, Runs, RunOK, PCs, Responses, HasAsk,
       HasSql, HasTable, HasText, Within
  <1>2. <<>> \in Seq(GoodEntries)
    OBVIOUS
  <1> QED
    BY <1>1, <1>2, Zenon DEF Init, IInv

-----------------------------------------------------------------------------
(* How a good run goes on.                                                  *)

LEMMA MoveGood ==
    ASSUME NEW f \in GoodRuns, f.pc \notin {"idle", "gone"}, NEW pc \in PCs,
           pc # "done",
           pc \in {"execute", "executeCorrected", "correct", "maxYear", "executeLatest", "emptyRag",
                   "format"} => f.resp.sql # None,
           pc \in {"maxYear", "executeLatest", "emptyRag", "format"} => f.resp.table # None,
           pc \in {"narrative", "intent", "generate", "execute", "correct", "executeCorrected"}
               => f.resp.table = None,
           pc \in {"narrative", "intent", "generate", "correct"} => f.calls < MaxAttempts
    PROVE  [f EXCEPT !.pc = pc] \in GoodRuns
  BY DEF GoodRuns, Runs, RunOK, HasAsk, HasSql, HasTable, HasText, Within, FitFor

LEMMA TextGood ==
    ASSUME PipelineAssumption, NEW resp \in Responses, NEW text \in Texts
    PROVE  /\ [resp EXCEPT !.text = text] \in Responses
           /\ [resp EXCEPT !.text = text].text # None
           /\ \A o \in Officers : FitFor(resp, o) => FitFor([resp EXCEPT !.text = text], o)
  BY DEF PipelineAssumption, Responses, FitFor

LEMMA FinishGood ==
    ASSUME PipelineAssumption, NEW f \in GoodRuns, f.pc \notin {"idle", "gone"}, NEW text \in Texts,
           NEW n \in Nat, n <= MaxAttempts
    PROVE  [f EXCEPT !.pc = "done", !.calls = n, !.resp.text = text] \in GoodRuns
  <1>1. f \in Runs /\ f.ask \in Asks /\ f.resp \in Responses /\ FitFor(f.resp, f.ask.officer)
    BY DEF GoodRuns, Runs, RunOK, HasAsk
  <1> DEFINE resp == [f.resp EXCEPT !.text = text]
             g == [f EXCEPT !.pc = "done", !.calls = n, !.resp = resp]
  <1>2. f.ask.officer \in Officers
    BY <1>1 DEF PipelineAssumption
  <1>3. resp \in Responses /\ resp.text # None /\ FitFor(resp, f.ask.officer)
    BY <1>1, <1>2, TextGood
  <1> HIDE DEF resp
  <1>4. g \in Runs /\ g.pc = "done" /\ g.calls = n /\ g.resp = resp /\ g.ask = f.ask
    BY <1>1, <1>3 DEF Runs, PCs
  <1>5. RunOK(g)
    BY <1>1, <1>3, <1>4 DEF RunOK, HasAsk, HasSql, HasTable, HasText, Within
  <1>6. g \in GoodRuns
    BY <1>4, <1>5 DEF GoodRuns
  <1>7. g = [f EXCEPT !.pc = "done", !.calls = n, !.resp.text = text]
    BY DEF resp
  <1> QED
    BY <1>6, <1>7

LEMMA FinishAnewGood ==
    ASSUME PipelineAssumption, NEW f \in GoodRuns, f.pc \notin {"idle", "gone"}, NEW text \in Texts
    PROVE  [f EXCEPT !.pc = "done", !.resp = [Blank EXCEPT !.text = text]] \in GoodRuns
  BY DEF PipelineAssumption, GoodRuns, Runs, RunOK, HasAsk, HasSql, HasTable, HasText, Within,
     FitFor, Blank, Responses, PCs

\* A new statement, scoped to its officer, is fit to be executed.
LEMMA AdoptGood ==
    ASSUME PipelineAssumption, NEW f \in GoodRuns, f.pc \in {"generate", "correct"},
           NEW s \in Statements, s.own = {}, NEW pc \in {"execute", "executeCorrected"}
    PROVE  [f EXCEPT !.pc = pc, !.calls = @ + 1, !.resp.sql = Enforce(f.ask.officer, s)] \in GoodRuns
  <1>1. f \in Runs /\ f.ask \in Asks /\ f.resp \in Responses /\ f.resp.table = None
    BY DEF GoodRuns, Runs, RunOK, HasAsk, HasTable
  <1>c. f.calls + 1 \in Nat /\ f.calls + 1 <= MaxAttempts
    BY DEF GoodRuns, RunOK, Runs, Within, PipelineAssumption
  <1> DEFINE e == Enforce(f.ask.officer, s)
             resp == [f.resp EXCEPT !.sql = e]
             g == [f EXCEPT !.pc = pc, !.calls = @ + 1, !.resp = resp]
  <1>2. e \in Statements /\ Confined(e, f.ask.officer)
    <2>1. f.ask.officer \in Officers /\ s.own \subseteq Peers(f.ask.officer)
      BY <1>1 DEF PipelineAssumption
    <2> QED
      BY <2>1, EnforceConfines
  <1> HIDE DEF e
  <1>3. e # None
    BY <1>2 DEF PipelineAssumption
  <1>4. resp \in Responses /\ resp.sql = e /\ resp.table = None
    BY <1>1, <1>2 DEF Responses
  <1> HIDE DEF resp
  <1>5. FitFor(resp, f.ask.officer)
    BY <1>2, <1>4 DEF FitFor
  <1>6. g \in Runs /\ g.pc = pc /\ g.calls <= MaxAttempts /\ g.resp = resp /\ g.ask = f.ask
    BY <1>1, <1>c, <1>4 DEF Runs, PCs
  <1>7. RunOK(g)
    BY <1>1, <1>3, <1>4, <1>5, <1>6 DEF RunOK, HasAsk, HasSql, HasTable, HasText, Within,
       PipelineAssumption
  <1>8. g \in GoodRuns
    BY <1>6, <1>7 DEF GoodRuns
  <1> QED
    BY <1>8 DEF resp, e

-----------------------------------------------------------------------------
(* The answer cache.                                                        *)

\* What is stored under a key by one officer fits every officer with the key:
\* the key holds all that an officer's reach depends on, but not the officer.
LEMMA KeyDecidesReach ==
    ASSUME NEW a \in Asks, NEW b \in Asks, Key(a) = Key(b)
    PROVE  Entitled(a.officer) = Entitled(b.officer) /\ Peers(a.officer) = Peers(b.officer)
  BY DEF Key, Entitled, Restricted, Own, Peers

LEMMA StoreGood ==
    ASSUME PipelineAssumption, cache \in Seq(GoodEntries), NEW a \in Asks, NEW resp \in Responses,
           resp.text # None, FitFor(resp, a.officer)
    PROVE  StoredAnswer(a, resp) \in Seq(GoodEntries)
  <1> DEFINE e == [key |-> Key(a), resp |-> resp, expired |-> FALSE]
  <1>1. e \in Entries
    BY DEF Entries
  <1>2. ASSUME NEW b \in Asks, Key(b) = e.key
        PROVE  FitFor(e.resp, b.officer)
    BY <1>2, KeyDecidesReach DEF FitFor, Confined
  <1>3. e \in GoodEntries
    BY <1>1, <1>2 DEF GoodEntries, EntryOK
  <1> HIDE DEF e
  <1>4. CASE Places(a) # {}
    <2> DEFINE i == CHOOSE i \in Places(a) : TRUE
    <2>1. i \in DOMAIN cache
      BY <1>4 DEF Places
    <2> HIDE DEF i
    <2>2. RemoveAt(cache, i) \in Seq(GoodEntries)
      BY <2>1, RemoveAtSeq
    <2> QED
      BY <1>3, <1>4, <2>2 DEF StoredAnswer, e, i
  <1>5. CASE Places(a) = {} /\ Len(cache) >= Capacity
    <2>1. 1 \in DOMAIN cache
      BY <1>5 DEF PipelineAssumption
    <2>2. RemoveAt(cache, 1) \in Seq(GoodEntries)
      BY <2>1, RemoveAtSeq
    <2> QED
      BY <1>3, <1>5, <2>2 DEF StoredAnswer, e
  <1>6. CASE Places(a) = {} /\ ~(Len(cache) >= Capacity)
    BY <1>3, <1>6 DEF StoredAnswer, e
  <1> QED
    BY <1>4, <1>5, <1>6

\* A request that begins with a question, at a stage or with an answer.
LEMMA OpenGood ==
    ASSUME PipelineAssumption, NEW a \in Asks, NEW pc \in {"narrative", "intent", "generate"}
    PROVE  [Idle EXCEPT !.pc = pc, !.ask = a] \in GoodRuns
  <1> DEFINE f == [Idle EXCEPT !.pc = pc, !.ask = a]
  <1>1. Blank \in Responses
    BY DEF Blank, Responses
  <1>2. f \in Runs /\ f.pc = pc /\ f.ask = a /\ f.calls = 0 /\ f.resp = Blank
    BY <1>1 DEF Idle, Runs, PCs
  <1>3. RunOK(f)
    BY <1>2 DEF RunOK, HasAsk, HasSql, HasTable, HasText, Within, FitFor, Blank, PipelineAssumption
  <1> QED
    BY <1>2, <1>3 DEF GoodRuns

LEMMA AnswerGood ==
    ASSUME PipelineAssumption, NEW a \in Asks, NEW resp \in Responses,
           resp.text # None, FitFor(resp, a.officer)
    PROVE  [Idle EXCEPT !.pc = "done", !.ask = a, !.resp = resp] \in GoodRuns
  <1> DEFINE f == [Idle EXCEPT !.pc = "done", !.ask = a, !.resp = resp]
  <1>1. f \in Runs /\ f.pc = "done" /\ f.ask = a /\ f.calls = 0 /\ f.resp = resp
    BY DEF Idle, Runs, PCs
  <1>2. RunOK(f)
    BY <1>1 DEF RunOK, HasAsk, HasSql, HasTable, HasText, Within, PipelineAssumption
  <1> QED
    BY <1>1, <1>2 DEF GoodRuns

\* A request that begins takes the answer under its key, or is routed.
LEMMA CacheSteps ==
    ASSUME PipelineAssumption, IInv, NEW r \in Requests, NEW a \in Asks,
           CacheHit(r, a) \/ CacheMiss(r, a)
    PROVE  IInv'
  <1>1. CASE CacheHit(r, a)
    <2>1. PICK i \in Places(a) :
            /\ cache' = Append(RemoveAt(cache, i), cache[i])
            /\ Put(r, [Idle EXCEPT !.pc = "done", !.ask = a, !.resp = cache[i].resp])
      BY <1>1 DEF CacheHit
    <2>2. i \in DOMAIN cache /\ cache[i] \in GoodEntries /\ cache[i].key = Key(a)
      BY DEF IInv, Places
    <2>3. cache' \in Seq(GoodEntries)
      <3>1. RemoveAt(cache, i) \in Seq(GoodEntries)
        BY <2>2, RemoveAtSeq DEF IInv
      <3> QED
        BY <2>1, <2>2, <3>1
    <2>4. cache[i].resp \in Responses /\ cache[i].resp.text # None /\ FitFor(cache[i].resp, a.officer)
      BY <2>2 DEF GoodEntries, EntryOK, Entries
    <2>5. [Idle EXCEPT !.pc = "done", !.ask = a, !.resp = cache[i].resp] \in GoodRuns
      BY <2>4, AnswerGood
    <2> QED
      BY <1>1, <2>1, <2>3, <2>5 DEF IInv, Put, CacheHit
  <1>2. CASE CacheMiss(r, a)
    <2>1. cache' \in Seq(GoodEntries)
      <3>1. CASE Places(a) = {}
        BY <1>2, <3>1 DEF CacheMiss, IInv
      <3>2. CASE Places(a) # {}
        <4> DEFINE i == CHOOSE i \in Places(a) : TRUE
        <4>1. i \in DOMAIN cache
          BY <3>2 DEF Places
        <4>2. cache' = RemoveAt(cache, i)
          BY <1>2, <3>2 DEF CacheMiss
        <4> HIDE DEF i
        <4> QED
          BY <4>1, <4>2, RemoveAtSeq DEF IInv
      <3> QED
        BY <3>1, <3>2
    <2>2. Routed(a) \in GoodRuns
      <3>1. ASSUME NEW text \in {"rule", "intercept"}
            PROVE  [Idle EXCEPT !.pc = "done", !.ask = a, !.resp.text = text] \in GoodRuns
        <4>1. Blank \in Responses
          BY DEF Blank, Responses
        <4> DEFINE resp == [Blank EXCEPT !.text = text]
        <4>2. resp \in Responses /\ resp.text # None /\ FitFor(resp, a.officer)
          BY DEF Blank, Responses, Texts, FitFor, PipelineAssumption
        <4> HIDE DEF resp
        <4>3. [Idle EXCEPT !.pc = "done", !.ask = a, !.resp = resp] \in GoodRuns
          BY <4>2, AnswerGood
        <4> QED
          BY <4>3 DEF Idle, resp
      <3>2. AfterNarrative(a) \in {"narrative", "intent", "generate"}
        BY DEF AfterNarrative
      <3> QED
        BY <3>1, <3>2, OpenGood DEF Routed
    <2> QED
      BY <1>2, <2>1, <2>2 DEF IInv, Put, CacheMiss
  <1> QED
    BY <1>1, <1>2

-----------------------------------------------------------------------------
\* What a good run says of the fields a step reads.
LEMMA RunFacts ==
    ASSUME PipelineAssumption, IInv, NEW r \in Requests
    PROVE  /\ req[r] \in GoodRuns
           /\ req[r].calls \in Nat /\ req[r].calls <= MaxAttempts
           /\ req[r].pc \in {"generate", "correct"} =>
                req[r].calls + 1 \in Nat /\ req[r].calls + 1 <= MaxAttempts
           /\ HasSql(req[r]) /\ HasTable(req[r]) /\ HasText(req[r])
           /\ req[r].resp \in Responses
           /\ req[r].pc \notin {"idle", "gone"} =>
                /\ req[r].ask \in Asks /\ Asker(r) \in Officers
                /\ FitFor(req[r].resp, Asker(r))
  BY DEF IInv, GoodRuns, RunOK, Runs, Within, HasAsk, PipelineAssumption, Asker

\* A call of the SQL model is spent: the run goes on without its statement, or
\* ends with an error.
LEMMA SpentGood ==
    ASSUME PipelineAssumption, NEW f \in GoodRuns, f.pc \in {"generate", "correct"},
           NEW pc \in {"generate", "fallback", "instead"}, pc = "generate" => f.calls + 1 < MaxAttempts
    PROVE  [f EXCEPT !.pc = pc, !.calls = f.calls + 1] \in GoodRuns
  <1>1. f \in Runs /\ f.ask \in Asks /\ f.resp.table = None /\ f.calls \in Nat /\ f.calls < MaxAttempts
    BY DEF GoodRuns, RunOK, HasAsk, HasTable, Runs, Within
  <1> DEFINE n == f.calls + 1
             g == [f EXCEPT !.pc = pc, !.calls = n]
  <1>2. n \in Nat /\ n <= MaxAttempts /\ (pc = "generate" => n < MaxAttempts)
    BY <1>1 DEF PipelineAssumption
  <1> HIDE DEF n
  <1>3. g \in Runs /\ g.pc = pc /\ g.calls = n /\ g.resp = f.resp /\ g.ask = f.ask
    BY <1>1, <1>2 DEF Runs, PCs
  <1>4. RunOK(g)
    BY <1>1, <1>2, <1>3 DEF GoodRuns, RunOK, HasAsk, HasSql, HasTable, HasText, Within
  <1>5. g \in GoodRuns
    BY <1>3, <1>4 DEF GoodRuns
  <1> QED
    BY <1>5 DEF n

LEMMA SpentFails ==
    ASSUME PipelineAssumption, NEW f \in GoodRuns, f.pc \in {"generate", "correct"}
    PROVE  [f EXCEPT !.pc = "done", !.calls = f.calls + 1, !.resp.text = "error"] \in GoodRuns
  <1>1. f.calls \in Nat /\ f.calls < MaxAttempts
    BY DEF GoodRuns, RunOK, Runs, Within
  <1>2. f.calls + 1 \in Nat /\ f.calls + 1 <= MaxAttempts
    BY <1>1 DEF PipelineAssumption
  <1> QED
    BY <1>2, FinishGood DEF Texts

\* The steps that come before a statement, and the fallbacks.
LEMMA PlainSteps ==
    ASSUME PipelineAssumption, IInv, NEW r \in Requests,
           \/ NarrativeRag(r) \/ Intent(r) \/ Direct(r) \/ Fallback(r) \/ RagInstead(r)
           \/ GenerateInvalid(r) \/ GenerateUnusable(r) \/ GenerateFails(r)
    PROVE  IInv'
  <1> DEFINE f == req[r]
  <1>0. f \in GoodRuns /\ f.calls \in Nat /\ f.calls <= MaxAttempts /\ HasTable(f)
    BY RunFacts
  <1>f. ASSUME NEW text \in Texts, f.pc \notin {"idle", "gone"}, Finish(r, text), UNCHANGED <<loaded, cache>>
        PROVE  IInv'
    <2>1. [f EXCEPT !.pc = "done", !.calls = f.calls, !.resp.text = text] \in GoodRuns
      BY <1>f, <1>0, FinishGood
    <2>2. [f EXCEPT !.pc = "done", !.calls = f.calls, !.resp.text = text]
            = [f EXCEPT !.pc = "done", !.resp.text = text]
      BY <1>0 DEF GoodRuns, Runs
    <2> QED
      BY <1>f, <2>1, <2>2, PutKeeps DEF Finish
  <1>a. ASSUME NEW text \in Texts, f.pc \notin {"idle", "gone"}, FinishAnew(r, text),
               UNCHANGED <<loaded, cache>>
        PROVE  IInv'
    BY <1>a, <1>0, FinishAnewGood, PutKeeps DEF FinishAnew
  <1>g. ASSUME NEW pc \in {"intent", "generate", "direct"}, f.pc \notin {"idle", "gone"},
               pc = "direct" \/ f.pc \in {"narrative", "intent"},
               Goto(r, pc), UNCHANGED <<loaded, cache>>
        PROVE  IInv'
    <2>1. pc \in PCs
      BY DEF PCs
    <2>2. pc # "direct" => f.resp.table = None /\ f.calls < MaxAttempts
      BY <1>g, <1>0 DEF HasTable, GoodRuns, RunOK, Within
    <2> QED
      BY <2>1, <2>2, <1>g, <1>0, MoveGood, PutKeeps DEF Goto
  <1>1. CASE NarrativeRag(r)
    <2>1. AfterNarrative(f.ask) \in {"intent", "generate"}
      BY DEF AfterNarrative
    <2> QED
      BY <1>1, <2>1, <1>f, <1>g DEF NarrativeRag, At, Texts
  <1>2. CASE Intent(r)
    BY <1>2, <1>g DEF Intent, At
  <1>3. CASE Direct(r)
    BY <1>3, <1>a DEF Direct, At, Texts
  <1>4. CASE Fallback(r)
    BY <1>4, <1>a, <1>g DEF Fallback, At, Texts
  <1>5. CASE RagInstead(r)
    BY <1>5, <1>f DEF RagInstead, At, Texts
  <1>6. CASE GenerateInvalid(r)
    <2>1. CASE f.calls + 1 < MaxAttempts
      <3>1. Put(r, [f EXCEPT !.calls = f.calls + 1])
        BY <1>6, <2>1 DEF GenerateInvalid
      <3>2. f \in Runs /\ f.pc = "generate"
        BY <1>6, <1>0 DEF GenerateInvalid, At, GoodRuns
      <3>3. [f EXCEPT !.calls = f.calls + 1] = [f EXCEPT !.pc = "generate", !.calls = f.calls + 1]
        BY <3>2 DEF Runs
      <3>4. [f EXCEPT !.calls = f.calls + 1] \in GoodRuns
        BY <1>0, <2>1, <3>2, <3>3, SpentGood
      <3> QED
        BY <1>6, <3>1, <3>4, PutKeeps DEF GenerateInvalid
    <2>2. CASE ~(f.calls + 1 < MaxAttempts)
      <3>1. Put(r, [f EXCEPT !.pc = "done", !.calls = f.calls + 1, !.resp.text = "error"])
        BY <1>6, <2>2 DEF GenerateInvalid
      <3> QED
        BY <1>6, <1>0, <3>1, SpentFails, PutKeeps DEF GenerateInvalid, At
    <2> QED
      BY <2>1, <2>2
  <1>7. CASE GenerateUnusable(r)
    BY <1>7, <1>0, SpentGood, PutKeeps DEF GenerateUnusable, At
  <1>8. CASE GenerateFails(r)
    BY <1>8, <1>0, SpentGood, SpentFails, PutKeeps DEF GenerateFails, At
  <1> QED
    BY <1>1, <1>2, <1>3, <1>4, <1>5, <1>6, <1>7, <1>8

\* A new table, by a statement within reach.
LEMMA TabledGood ==
    ASSUME PipelineAssumption, NEW f \in GoodRuns, f.pc \in {"execute", "executeCorrected", "executeLatest"},
           NEW pc \in {"maxYear", "emptyRag", "format"},
           NEW s \in Statements, Confined(s, f.ask.officer), NEW left \in BOOLEAN
    PROVE  [f EXCEPT !.pc = pc, !.resp.sql = s, !.resp.table = [from |-> s, rows |-> left]] \in GoodRuns
  <1> DEFINE t == [from |-> s, rows |-> left]
             resp == [f.resp EXCEPT !.sql = s, !.table = t]
             g == [f EXCEPT !.pc = pc, !.resp = resp]
  <1>1. f \in Runs /\ f.ask \in Asks /\ f.resp \in Responses /\ f.calls <= MaxAttempts
    BY DEF GoodRuns, Runs, RunOK, HasAsk, Within
  <1>2. t \in Tables /\ t # None /\ s # None /\ t.from = s
    BY DEF Tables, PipelineAssumption
  <1> HIDE DEF t
  <1>3. resp \in Responses /\ resp.sql = s /\ resp.table = t
    BY <1>1, <1>2 DEF Responses
  <1> HIDE DEF resp
  <1>4. FitFor(resp, f.ask.officer)
    BY <1>2, <1>3 DEF FitFor
  <1>5. g \in Runs /\ g.pc = pc /\ g.calls = f.calls /\ g.resp = resp /\ g.ask = f.ask
    BY <1>1, <1>3 DEF Runs, PCs
  <1>6. RunOK(g)
    BY <1>1, <1>2, <1>3, <1>4, <1>5 DEF RunOK, HasAsk, HasSql, HasTable, HasText, Within
  <1>7. g \in GoodRuns
    BY <1>5, <1>6 DEF GoodRuns
  <1> QED
    BY <1>7, ZenonT(60) DEF resp, t

\* The steps that write a statement, run it and read its rows.
LEMMA SqlSteps ==
    ASSUME PipelineAssumption, IInv, NEW r \in Requests,
           \/ GenerateValid(r) \/ Executes(r) \/ ExecuteFails(r)
           \/ CorrectValid(r) \/ CorrectUnscopable(r) \/ CorrectFails(r) \/ CorrectedFails(r)
           \/ MaxYear(r) \/ LatestRows(r) \/ LatestEmpty(r) \/ EmptyRag(r)
    PROVE  IInv'
  <1> DEFINE f == req[r]
  <1>0. /\ f \in GoodRuns /\ f.calls \in Nat /\ f.calls <= MaxAttempts
        /\ HasSql(f) /\ HasTable(f) /\ f.resp \in Responses
    BY RunFacts
  <1>f. ASSUME NEW text \in Texts, f.pc \notin {"idle", "gone"}, Finish(r, text), UNCHANGED <<loaded, cache>>
        PROVE  IInv'
    <2>1. [f EXCEPT !.pc = "done", !.calls = f.calls, !.resp.text = text] \in GoodRuns
      BY <1>f, <1>0, FinishGood
    <2>2. [f EXCEPT !.pc = "done", !.calls = f.calls, !.resp.text = text]
            = [f EXCEPT !.pc = "done", !.resp.text = text]
      BY <1>0 DEF GoodRuns, Runs
    <2> QED
      BY <1>f, <2>1, <2>2, PutKeeps DEF Finish
  <1>g. ASSUME NEW pc \in {"correct", "executeLatest", "emptyRag", "format"},
               IF pc = "correct" THEN f.pc = "execute" /\ f.calls < MaxAttempts
               ELSE f.pc \in {"maxYear", "executeLatest", "emptyRag"},
               Goto(r, pc), UNCHANGED <<loaded, cache>>
        PROVE  IInv'
    <2>1. pc \in PCs
      BY DEF PCs
    <2>2. f.resp.sql # None /\ IF pc = "correct" THEN f.resp.table = None ELSE f.resp.table # None
      BY <1>g, <1>0 DEF HasSql, HasTable
    <2>3. [f EXCEPT !.pc = pc] \in GoodRuns
      BY <2>1, <2>2, <1>g, <1>0, MoveGood
    <2> QED
      BY <2>3, <1>g, PutKeeps DEF Goto
  <1>w. ASSUME NEW form \in {"generated", "corrected"}, f.pc \in {"generate", "correct"},
               NEW pc \in {"execute", "executeCorrected"},
               NEW shape \in Shape, Adopt(r, Written(r, form, shape), pc), UNCHANGED <<loaded, cache>>
        PROVE  IInv'
    <2>1. Written(r, form, shape) \in Statements /\ Written(r, form, shape).own = {}
      BY <1>w, RunFacts DEF Written, Statements, Form
    <2> QED
      BY <1>w, <2>1, <1>0, AdoptGood, PutKeeps DEF Adopt, Asker
  <1>1. CASE GenerateValid(r)
    BY <1>1, <1>w DEF GenerateValid, At
  <1>2. CASE Executes(r)
    <2>1. f.pc \in {"execute", "executeCorrected"}
      BY <1>2 DEF Executes, At
    <2>2. f.resp.sql \in Statements /\ Confined(f.resp.sql, f.ask.officer)
      BY <2>1, RunFacts DEF HasSql, FitFor, Responses, Asker
    <2>3. PICK next \in {"maxYear", "emptyRag", "format"} :
            Put(r, [f EXCEPT !.pc = next, !.resp.table = [from |-> f.resp.sql, rows |-> next = "format"]])
      BY <1>2 DEF Executes
    <2> DEFINE left == next = "format"
               t == [from |-> f.resp.sql, rows |-> left]
    <2>4. [f EXCEPT !.pc = next, !.resp.sql = f.resp.sql, !.resp.table = t] \in GoodRuns
      BY <2>1, <2>2, <1>0, TabledGood
    <2>5. [f EXCEPT !.pc = next, !.resp.sql = f.resp.sql, !.resp.table = t]
            = [f EXCEPT !.pc = next, !.resp.table = t]
      <3> HIDE DEF t
      <3> QED
        BY <1>0 DEF GoodRuns, Runs, Responses
    <2> QED
      BY <1>2, <2>3, <2>4, <2>5, PutKeeps DEF Executes
  <1>3. CASE ExecuteFails(r)
    BY <1>3, <1>0, <1>f, <1>g DEF ExecuteFails, At, Texts
  <1>4. CASE CorrectValid(r)
    BY <1>4, <1>w DEF CorrectValid, At
  <1>5. CASE CorrectedFails(r)
    BY <1>5, <1>f DEF CorrectedFails, At, Texts
  <1>6. CASE MaxYear(r)
    BY <1>6, <1>g DEF MaxYear, At
  <1>7. CASE LatestEmpty(r)
    BY <1>7, <1>g DEF LatestEmpty, At
  <1>8. CASE EmptyRag(r)
    BY <1>8, <1>f, <1>g DEF EmptyRag, At, Texts
  <1>9. CASE LatestRows(r)
    <2>1. f.pc = "executeLatest"
      BY <1>9 DEF LatestRows, At
    <2>2. /\ [f.resp.sql EXCEPT !.form = "latest"] \in Statements /\ Asker(r) \in Officers
          /\ [f.resp.sql EXCEPT !.form = "latest"].own \subseteq Peers(Asker(r))
      <3>1. f.resp.sql \in Statements /\ Confined(f.resp.sql, Asker(r)) /\ Asker(r) \in Officers
        BY <2>1, RunFacts DEF HasSql, FitFor, Responses
      <3> QED
        BY <3>1 DEF Statements, Form, Confined
    <2>3. LatestOf(r) \in Statements /\ Confined(LatestOf(r), f.ask.officer)
      BY <2>2, EnforceConfines DEF LatestOf, Asker
    <2>4. PICK left \in BOOLEAN :
            Put(r, [f EXCEPT !.pc = IF left THEN "format" ELSE "emptyRag", !.resp.sql = LatestOf(r),
                             !.resp.table = [from |-> LatestOf(r), rows |-> left]])
      BY <1>9 DEF LatestRows
    <2> DEFINE pc == IF left THEN "format" ELSE "emptyRag"
    <2>5. pc \in {"maxYear", "emptyRag", "format"}
      OBVIOUS
    <2>6. [f EXCEPT !.pc = pc, !.resp.sql = LatestOf(r),
                    !.resp.table = [from |-> LatestOf(r), rows |-> left]] \in GoodRuns
      <3> HIDE DEF pc
      <3> QED
        BY <2>1, <2>3, <2>5, <1>0, TabledGood
    <2> QED
      BY <1>9, <2>4, <2>6, PutKeeps DEF LatestRows
  <1>10. CASE CorrectUnscopable(r)
    BY <1>10, <1>0, SpentGood, PutKeeps DEF CorrectUnscopable, At
  <1>11. CASE CorrectFails(r)
    BY <1>11, <1>0, SpentFails, PutKeeps DEF CorrectFails, At
  <1> QED
    BY <1>1, <1>2, <1>3, <1>4, <1>5, <1>6, <1>7, <1>8, <1>9, <1>10, <1>11

LEMMA FormatStep ==
    ASSUME PipelineAssumption, IInv, NEW r \in Requests, Format(r)
    PROVE  IInv'
  <1> DEFINE f == req[r]
  <1>1. PICK text \in {"answer", "degraded"} :
          /\ Put(r, [f EXCEPT !.pc = "done", !.resp = [f.resp EXCEPT !.text = text]])
          /\ cache' = StoredAnswer(f.ask, [f.resp EXCEPT !.text = text])
    BY DEF Format
  <1>2. /\ f \in GoodRuns /\ f.calls \in Nat /\ f.calls <= MaxAttempts /\ f.pc = "format"
        /\ f.ask \in Asks /\ f.ask.officer \in Officers
        /\ f.resp \in Responses /\ FitFor(f.resp, f.ask.officer)
    BY RunFacts DEF Format, At, Asker
  <1> DEFINE resp == [f.resp EXCEPT !.text = text]
  <1>3. text \in Texts
    BY DEF Texts
  <1>4. resp \in Responses /\ resp.text # None /\ FitFor(resp, f.ask.officer)
    BY <1>2, <1>3, TextGood
  <1>5. cache' \in Seq(GoodEntries)
    <2> HIDE DEF resp
    <2>1. StoredAnswer(f.ask, resp) \in Seq(GoodEntries)
      BY <1>2, <1>4, StoreGood DEF IInv
    <2> QED
      BY <1>1, <2>1 DEF resp
  <1>6. [f EXCEPT !.pc = "done", !.resp = resp] \in GoodRuns
    <2>1. [f EXCEPT !.pc = "done", !.calls = f.calls, !.resp.text = text] \in GoodRuns
      BY <1>2, <1>3, FinishGood
    <2>2. [f EXCEPT !.pc = "done", !.calls = f.calls, !.resp.text = text]
            = [f EXCEPT !.pc = "done", !.resp = resp]
      BY <1>2 DEF GoodRuns, Runs
    <2> QED
      BY <2>1, <2>2
  <1> QED
    BY <1>1, <1>5, <1>6 DEF IInv, Put, Format

LEMMA Step == PipelineAssumption /\ IInv /\ [Next]_vars => IInv'
  <1> SUFFICES ASSUME PipelineAssumption, IInv, [Next]_vars
               PROVE  IInv'
    OBVIOUS
  <1>1. CASE LoadUnits
    BY <1>1 DEF LoadUnits, IInv
  <1>2. CASE \E i \in DOMAIN cache : Expire(i)
    <2>1. PICK i \in DOMAIN cache : Expire(i)
      BY <1>2
    <2> DEFINE e == [cache[i] EXCEPT !.expired = TRUE]
    <2>2. cache[i] \in GoodEntries
      BY DEF IInv
    <2>3. e \in GoodEntries
      BY <2>2 DEF GoodEntries, EntryOK, Entries
    <2>4. cache' = [cache EXCEPT ![i] = e]
      BY <2>1 DEF Expire
    <2> HIDE DEF e
    <2>5. cache' \in Seq(GoodEntries)
      BY <2>3, <2>4 DEF IInv
    <2> QED
      BY <2>1, <2>5 DEF Expire, IInv
  <1>3. CASE \E r \in Requests, a \in Asks : CacheHit(r, a) \/ CacheMiss(r, a)
    BY <1>3, CacheSteps
  <1>4. CASE \E r \in Requests : Proceed(r)
    <2>1. PICK r \in Requests : Proceed(r)
      BY <1>4
    <2> QED
      BY <2>1, PlainSteps, SqlSteps, FormatStep DEF Proceed
  <1>5. CASE \E r \in Requests : Disconnect(r)
    <2>1. PICK r \in Requests : Disconnect(r)
      BY <1>5
    <2>2. [Idle EXCEPT !.pc = "gone"] \in GoodRuns
      <3>1. Blank \in Responses
        BY DEF Blank, Responses
      <3> DEFINE g == [Idle EXCEPT !.pc = "gone"]
      <3>2. g \in Runs /\ g.pc = "gone" /\ g.ask = None /\ g.calls = 0 /\ g.resp = Blank
        BY <3>1 DEF Idle, Runs, PCs
      <3>3. RunOK(g)
        BY <3>2 DEF RunOK, HasAsk, HasSql, HasTable, HasText, Within, PipelineAssumption
      <3> QED
        BY <3>2, <3>3 DEF GoodRuns
    <2> QED
      BY <2>1, <2>2, PutKeeps DEF Disconnect
  <1>6. CASE UNCHANGED vars
    BY <1>6 DEF vars, IInv
  <1> QED
    BY <1>1, <1>2, <1>3, <1>4, <1>5, <1>6 DEF Next

-----------------------------------------------------------------------------
\* The inductive invariant holds throughout.
THEOREM Inductive == Spec => []IInv
  BY Initially, Step, PipelineAssumption, PTL DEF Spec

\* Every part of the state keeps its type, and a finished request has a text.
THEOREM TypeCorrect == Spec => []TypeOK
  <1>1. IInv => TypeOK
    <2> SUFFICES ASSUME IInv
                 PROVE  TypeOK
      OBVIOUS
    <2>1. cache \in Seq(Entries)
      <3>1. GoodEntries \subseteq Entries
        BY DEF GoodEntries
      <3> QED
        BY <3>1 DEF IInv
    <2>2. \A r \in Requests : At(r, "done") => req[r].resp.text # None
      BY RunFacts, PipelineAssumption DEF At, HasText
    <2> QED
      BY <2>1, <2>2 DEF IInv, GoodRuns, Runs, TypeOK, Entries
  <1> QED
    BY <1>1, Inductive, PTL

\* However a statement fails, one question costs no more calls of the SQL
\* model than the budget.
THEOREM BudgetHolds == Spec => []CallBudget
  <1>1. IInv => CallBudget
    BY RunFacts, PipelineAssumption DEF CallBudget
  <1> QED
    BY <1>1, Inductive, PTL

\* No officer is served a table that a closed statement computed of rows beyond
\* its units, but for cases assigned to officers of its unit and role, from its
\* own run or from the cache.
THEOREM ReachHolds == Spec => []RowsWithinReach
  <1>1. IInv => RowsWithinReach
    <2> SUFFICES ASSUME IInv, NEW r \in Requests, Shows(r), req[r].resp.table.from.shape # "open"
                 PROVE  /\ req[r].resp.table.from.units \subseteq Entitled(Asker(r))
                        /\ req[r].resp.table.from.own \subseteq Peers(Asker(r))
      BY DEF RowsWithinReach
    <2>1. req[r].resp.table.from \in Statements /\ req[r].resp.table.from = req[r].resp.sql
      BY RunFacts, PipelineAssumption DEF Shows, At, FitFor, Responses, Tables
    <2>2. req[r].resp.sql # None
      BY <2>1, PipelineAssumption DEF PipelineAssumption
    <2>3. Confined(req[r].resp.sql, Asker(r))
      BY <2>2, RunFacts, PipelineAssumption DEF Shows, At, FitFor
    <2> QED
      BY <2>1, <2>3 DEF Confined
  <1> QED
    BY <1>1, Inductive, PTL

\* The statement an answer shows is the one its table was computed by.
THEOREM EvidenceHolds == Spec => []EvidenceMatchesTable
  <1>1. IInv => EvidenceMatchesTable
    BY RunFacts, PipelineAssumption DEF EvidenceMatchesTable, Shows, At, FitFor
  <1> QED
    BY <1>1, Inductive, PTL

-----------------------------------------------------------------------------
(* The answer cache.                                                       *)

\* CacheSound, said of a sequence of entries.
Served(e) == e.resp.text \in {"answer", "degraded"} /\ e.resp.table # None
KeysDiffer(c) == \A i, j \in DOMAIN c : c[i].key = c[j].key => i = j
Sound(c) == KeysDiffer(c) /\ \A i \in DOMAIN c : Served(c[i])

\* An element of two sequences joined.
LEMMA Joined ==
    ASSUME NEW S, NEW a \in Seq(S), NEW b \in Seq(S), NEW i \in Nat,
           i > Len(a), i <= Len(a) + Len(b)
    PROVE  (a \o b)[i] = b[i - Len(a)]
  OBVIOUS

\* Removing one entry moves the later ones down by one place.
LEMMA Removed ==
    ASSUME NEW S, NEW c \in Seq(S), NEW k \in DOMAIN c
    PROVE  /\ RemoveAt(c, k) \in Seq(S)
           /\ Len(RemoveAt(c, k)) = Len(c) - 1
           /\ DOMAIN RemoveAt(c, k) = 1..(Len(c) - 1)
           /\ \A i \in DOMAIN RemoveAt(c, k) :
                RemoveAt(c, k)[i] = c[IF i < k THEN i ELSE i + 1]
  <1> DEFINE a == SubSeq(c, 1, k - 1)
             b == SubSeq(c, k + 1, Len(c))
  <1>1. k \in 1..Len(c) /\ Len(c) \in Nat
    OBVIOUS
  <1>2. a \in Seq(S) /\ Len(a) = k - 1 /\ \A i \in 1..(k - 1) : a[i] = c[i]
    BY <1>1
  <1>3. b \in Seq(S) /\ Len(b) = Len(c) - k /\ \A i \in 1..(Len(c) - k) : b[i] = c[k + i]
    BY <1>1
  <1>4. RemoveAt(c, k) = a \o b
    BY DEF RemoveAt
  <1> HIDE DEF a, b
  <1>5. a \o b \in Seq(S) /\ Len(a \o b) = Len(c) - 1
    BY <1>1, <1>2, <1>3
  <1>6. ASSUME NEW i \in 1..(Len(c) - 1)
        PROVE  (a \o b)[i] = c[IF i < k THEN i ELSE i + 1]
    <2>1. CASE i < k
      <3>1. (a \o b)[i] = a[i]
        BY <2>1, <1>1, <1>2, <1>3
      <3> QED
        BY <2>1, <3>1, <1>1, <1>2
    <2>2. CASE i >= k
      <3>1. Len(a) = k - 1 /\ Len(b) = Len(c) - k /\ a \in Seq(S) /\ b \in Seq(S)
        BY <1>2, <1>3
      <3>6. i \in Nat /\ i > k - 1 /\ i <= (k - 1) + (Len(c) - k)
        BY <2>2, <1>1
      <3>2. (a \o b)[i] = b[i - Len(a)]
        BY <3>1, <3>6, Joined
      <3>3. i - (k - 1) \in 1..(Len(c) - k) /\ k + (i - (k - 1)) = i + 1
        BY <2>2, <1>1
      <3>4. ~(i < k)
        BY <2>2, <1>1
      <3>5. b[i - (k - 1)] = c[k + (i - (k - 1))]
        BY <3>3, <1>3
      <3> QED
        BY <3>1, <3>2, <3>3, <3>4, <3>5
    <2>3. i < k \/ i >= k
      BY <1>1
    <2> QED
      BY <2>1, <2>2, <2>3
  <1>7. DOMAIN (a \o b) = 1..(Len(c) - 1)
    BY <1>1, <1>5
  <1> QED
    BY <1>4, <1>5, <1>6, <1>7

\* What is left of a sound cache is sound, and lacks the key that was removed.
LEMMA RemovedSound ==
    ASSUME NEW S, NEW c \in Seq(S), NEW k \in DOMAIN c, Sound(c)
    PROVE  /\ Sound(RemoveAt(c, k))
           /\ \A i \in DOMAIN RemoveAt(c, k) : RemoveAt(c, k)[i].key # c[k].key
           /\ \A x : (\A i \in DOMAIN c : c[i].key # x)
                => \A i \in DOMAIN RemoveAt(c, k) : RemoveAt(c, k)[i].key # x
  <1> DEFINE d == RemoveAt(c, k)
             Was(i) == IF i < k THEN i ELSE i + 1
  <1>1. k \in 1..Len(c) /\ Len(c) \in Nat
    OBVIOUS
  <1>2. DOMAIN d = 1..(Len(c) - 1) /\ \A i \in DOMAIN d : d[i] = c[Was(i)]
    BY Removed
  <1>3. ASSUME NEW i \in DOMAIN d
        PROVE  Was(i) \in DOMAIN c /\ Was(i) # k
    BY <1>1, <1>2
  <1>4. ASSUME NEW i \in DOMAIN d, NEW j \in DOMAIN d, Was(i) = Was(j)
        PROVE  i = j
    BY <1>1, <1>2, <1>4
  <1> HIDE DEF d, Was
  <1>5. KeysDiffer(d)
    BY <1>2, <1>3, <1>4 DEF KeysDiffer, Sound
  <1>6. \A i \in DOMAIN d : Served(d[i])
    BY <1>2, <1>3 DEF Sound
  <1>7. \A i \in DOMAIN d : d[i].key # c[k].key
    BY <1>2, <1>3 DEF Sound, KeysDiffer
  <1>8. \A x : (\A i \in DOMAIN c : c[i].key # x) => \A i \in DOMAIN d : d[i].key # x
    BY <1>2, <1>3
  <1> QED
    BY <1>5, <1>6, <1>7, <1>8 DEF Sound, d

\* A served answer whose key is not there keeps the cache sound.
LEMMA AppendedSound ==
    ASSUME NEW S, NEW c \in Seq(S), NEW e \in S, Sound(c), Served(e),
           \A i \in DOMAIN c : c[i].key # e.key
    PROVE  Sound(Append(c, e))
  <1> DEFINE d == Append(c, e)
  <1>1. /\ DOMAIN d = 1..(Len(c) + 1) /\ DOMAIN c = 1..Len(c) /\ Len(c) \in Nat
        /\ d[Len(c) + 1] = e
        /\ \A i \in DOMAIN c : d[i] = c[i]
    OBVIOUS
  <1> HIDE DEF d
  <1>2. \A i \in DOMAIN d : i \in DOMAIN c \/ i = Len(c) + 1
    BY <1>1
  <1>3. KeysDiffer(d)
    BY <1>1, <1>2 DEF Sound, KeysDiffer
  <1>4. \A i \in DOMAIN d : Served(d[i])
    BY <1>1, <1>2 DEF Sound
  <1> QED
    BY <1>3, <1>4 DEF Sound, d

\* A sequence lengthened by one.
LEMMA AppendedLen ==
    ASSUME NEW S, NEW c \in Seq(S), NEW e \in S
    PROVE  Append(c, e) \in Seq(S) /\ Len(Append(c, e)) = Len(c) + 1 /\ Len(c) \in Nat
  OBVIOUS

\* The entry stored for an answer has the key of the question asked.
LEMMA StoredSound ==
    ASSUME IInv, CacheSound, PipelineAssumption,
           NEW a \in Asks, NEW resp \in Responses,
           resp.text \in {"answer", "degraded"}, resp.table # None
    PROVE  /\ Sound(StoredAnswer(a, resp))
           /\ Len(StoredAnswer(a, resp)) <= Capacity
  <1> DEFINE e == [key |-> Key(a), resp |-> resp, expired |-> FALSE]
             k == CHOOSE i \in Places(a) : TRUE
             rest == IF Places(a) # {} THEN RemoveAt(cache, k)
                     ELSE IF Len(cache) >= Capacity THEN RemoveAt(cache, 1)
                     ELSE cache
  <1>0. /\ Capacity \in Nat \ {0} /\ Len(cache) \in Nat /\ Len(cache) <= Capacity
        /\ Sound(cache)
    BY DEF PipelineAssumption, IInv, CacheSound, Sound, KeysDiffer, Served
  <1>1. e \in Entries /\ e.key = Key(a) /\ Served(e)
    BY DEF Entries, Served
  <1>2. cache \in Seq(Entries)
    <2>1. GoodEntries \subseteq Entries
      BY DEF GoodEntries
    <2> QED
      BY <2>1 DEF IInv
  <1>3. StoredAnswer(a, resp) = Append(rest, e)
    BY DEF StoredAnswer
  <1> HIDE DEF e
  <1>4. /\ rest \in Seq(Entries) /\ Len(rest) < Capacity /\ Sound(rest)
        /\ \A i \in DOMAIN rest : rest[i].key # Key(a)
    <2>1. CASE Places(a) # {}
      <3>1. k \in Places(a)
        BY <2>1
      <3> HIDE DEF k
      <3>2. k \in DOMAIN cache /\ cache[k].key = Key(a)
        BY <3>1 DEF Places
      <3>3. /\ RemoveAt(cache, k) \in Seq(Entries)
            /\ Len(RemoveAt(cache, k)) = Len(cache) - 1
        BY <3>2, <1>2, Removed
      <3>4. /\ Sound(RemoveAt(cache, k))
            /\ \A i \in DOMAIN RemoveAt(cache, k) : RemoveAt(cache, k)[i].key # cache[k].key
        BY <3>2, <1>0, <1>2, RemovedSound
      <3> QED
        BY <2>1, <3>2, <3>3, <3>4, <1>0
    <2>2. CASE Places(a) = {} /\ Len(cache) >= Capacity
      <3>1. 1 \in DOMAIN cache
        BY <2>2, <1>0, <1>2
      <3>2. \A i \in DOMAIN cache : cache[i].key # Key(a)
        BY <2>2 DEF Places
      <3>3. /\ RemoveAt(cache, 1) \in Seq(Entries)
            /\ Len(RemoveAt(cache, 1)) = Len(cache) - 1
        BY <3>1, <1>2, Removed
      <3>4. /\ Sound(RemoveAt(cache, 1))
            /\ \A i \in DOMAIN RemoveAt(cache, 1) : RemoveAt(cache, 1)[i].key # Key(a)
        BY <3>1, <3>2, <1>0, <1>2, RemovedSound
      <3> QED
        BY <2>2, <3>3, <3>4, <1>0
    <2>3. CASE Places(a) = {} /\ ~(Len(cache) >= Capacity)
      <3>1. \A i \in DOMAIN cache : cache[i].key # Key(a)
        BY <2>3 DEF Places
      <3> QED
        BY <2>3, <3>1, <1>0, <1>2
    <2> QED
      BY <2>1, <2>2, <2>3
  <1> HIDE DEF rest
  <1>5. Sound(Append(rest, e))
    BY <1>1, <1>4, AppendedSound
  <1>6. Len(Append(rest, e)) <= Capacity
    BY <1>0, <1>1, <1>4, AppendedLen
  <1> QED
    BY <1>3, <1>5, <1>6

\* Every step keeps the cache sound.
LEMMA CacheStaysSound ==
    ASSUME PipelineAssumption, IInv, CacheSound, [Next]_vars
    PROVE  CacheSound'
  <1>0. /\ Len(cache) \in Nat /\ Len(cache) <= Capacity /\ Sound(cache)
        /\ cache \in Seq(GoodEntries)
        /\ cache \in Seq(GoodEntries) => DOMAIN cache = 1..Len(cache)
    BY DEF IInv, CacheSound, Sound, KeysDiffer, Served
  <1>1. ASSUME Len(cache') <= Capacity, Sound(cache')
        PROVE  CacheSound'
    BY <1>1 DEF CacheSound, Sound, KeysDiffer, Served
  <1>2. CASE UNCHANGED cache
    BY <1>0, <1>1, <1>2
  <1>3. ASSUME NEW i \in DOMAIN cache, Expire(i)
        PROVE  CacheSound'
    <2> DEFINE e == [cache[i] EXCEPT !.expired = TRUE]
    <2>1. cache[i] \in Entries
      BY <1>0 DEF GoodEntries
    <2>2. e.key = cache[i].key /\ e.resp = cache[i].resp
      BY <2>1 DEF Entries
    <2>3. cache' = [cache EXCEPT ![i] = e]
      BY <1>3 DEF Expire
    <2>6. e \in Entries /\ cache \in Seq(Entries)
      <3>1. GoodEntries \subseteq Entries
        BY DEF GoodEntries
      <3>2. e \in Entries
        BY <2>1 DEF Entries
      <3> QED
        BY <1>0, <3>1, <3>2
    <2> HIDE DEF e
    <2>7. cache' \in Seq(Entries) /\ Len(cache') = Len(cache)
      BY <2>3, <2>6
    <2>8. \A j \in DOMAIN cache : cache'[j] = IF j = i THEN e ELSE cache[j]
      BY <2>3, <2>6
    <2>4. /\ DOMAIN cache' = DOMAIN cache /\ Len(cache') = Len(cache)
          /\ \A j \in DOMAIN cache : cache'[j].key = cache[j].key /\ cache'[j].resp = cache[j].resp
      BY <2>2, <2>6, <2>7, <2>8
    <2>5. Sound(cache')
      BY <1>0, <2>4 DEF Sound, KeysDiffer, Served
    <2> QED
      BY <1>0, <1>1, <2>4, <2>5
  <1>4. ASSUME NEW r \in Requests, NEW a \in Asks, CacheHit(r, a)
        PROVE  CacheSound'
    <2>1. PICK i \in Places(a) : cache' = Append(RemoveAt(cache, i), cache[i])
      BY <1>4 DEF CacheHit
    <2>2. i \in DOMAIN cache /\ cache[i] \in GoodEntries
      BY <1>0 DEF Places
    <2>3. RemoveAt(cache, i) \in Seq(GoodEntries) /\ Len(RemoveAt(cache, i)) = Len(cache) - 1
      BY <1>0, <2>2, Removed
    <2>4. /\ Sound(RemoveAt(cache, i))
          /\ \A j \in DOMAIN RemoveAt(cache, i) : RemoveAt(cache, i)[j].key # cache[i].key
      BY <1>0, <2>2, RemovedSound
    <2>5. Served(cache[i])
      BY <1>0, <2>2 DEF Sound
    <2>6. Sound(Append(RemoveAt(cache, i), cache[i]))
      BY <2>2, <2>3, <2>4, <2>5, AppendedSound
    <2>7. Len(Append(RemoveAt(cache, i), cache[i])) = Len(cache)
      <3>1. Len(Append(RemoveAt(cache, i), cache[i])) = Len(RemoveAt(cache, i)) + 1
        BY <2>2, <2>3, AppendedLen
      <3> QED
        BY <1>0, <2>3, <3>1
    <2> QED
      BY <1>0, <1>1, <2>1, <2>6, <2>7
  <1>5. ASSUME NEW r \in Requests, NEW a \in Asks, CacheMiss(r, a)
        PROVE  CacheSound'
    <2>1. CASE Places(a) = {}
      BY <1>2, <1>5, <2>1 DEF CacheMiss
    <2>2. CASE Places(a) # {}
      <3> DEFINE k == CHOOSE i \in Places(a) : TRUE
      <3>1. k \in Places(a) /\ cache' = RemoveAt(cache, k)
        BY <1>5, <2>2 DEF CacheMiss
      <3> HIDE DEF k
      <3>2. k \in DOMAIN cache
        BY <3>1 DEF Places
      <3>3. Len(RemoveAt(cache, k)) = Len(cache) - 1 /\ Sound(RemoveAt(cache, k))
        BY <1>0, <3>2, Removed, RemovedSound
      <3> QED
        BY <1>0, <1>1, <3>1, <3>3, PipelineAssumption DEF PipelineAssumption
    <2> QED
      BY <2>1, <2>2
  <1>6. ASSUME NEW r \in Requests, Format(r)
        PROVE  CacheSound'
    <2>1. PICK text \in {"answer", "degraded"} :
            cache' = StoredAnswer(req[r].ask, [req[r].resp EXCEPT !.text = text])
      BY <1>6 DEF Format
    <2> DEFINE resp == [req[r].resp EXCEPT !.text = text]
    <2>2. /\ req[r].ask \in Asks /\ req[r].resp \in Responses
          /\ req[r].resp.table # None
      BY <1>6, RunFacts DEF Format, At, HasTable
    <2>3. resp \in Responses /\ resp.text = text /\ resp.table # None
      BY <2>2 DEF Responses, Texts
    <2> HIDE DEF resp
    <2>4. /\ Sound(StoredAnswer(req[r].ask, resp))
          /\ Len(StoredAnswer(req[r].ask, resp)) <= Capacity
      BY <2>2, <2>3, StoredSound
    <2>5. cache' = StoredAnswer(req[r].ask, resp)
      BY <2>1 DEF resp
    <2> QED
      BY <1>1, <2>4, <2>5
  <1>7. ASSUME NEW r \in Requests, Proceed(r) \/ Disconnect(r)
        PROVE  CacheSound'
    <2>1. UNCHANGED cache \/ Format(r)
      BY <1>7, Zenon
      DEF Proceed, Disconnect, NarrativeRag, Intent, Direct, Fallback, GenerateInvalid,
          GenerateValid, GenerateUnusable, GenerateFails, RagInstead, Executes, ExecuteFails,
          CorrectValid, CorrectUnscopable, CorrectFails, CorrectedFails, MaxYear, LatestRows,
          LatestEmpty, EmptyRag
    <2> QED
      BY <1>2, <1>6, <2>1
  <1> QED
    BY <1>2, <1>3, <1>4, <1>5, <1>7 DEF Next, LoadUnits, vars

\* However requests, expiries and stores interleave, the cache stays within its
\* capacity, has one answer for a key, and only answers of statements that ran.
THEOREM CacheHolds == Spec => []CacheSound
  <1>1. Init => CacheSound
    BY PipelineAssumption DEF Init, CacheSound, PipelineAssumption
  <1>2. IInv /\ CacheSound /\ [Next]_vars => CacheSound'
    BY CacheStaysSound, PipelineAssumption
  <1> QED
    BY <1>1, <1>2, Inductive, PTL DEF Spec
=============================================================================
