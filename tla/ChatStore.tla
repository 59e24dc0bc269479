----------------------------- MODULE ChatStore -----------------------------
(***************************************************************************)
(* How a chat turn, or the analysis of an uploaded report, reaches MySQL    *)
(* and how it is read back (backend/routers/chat.py and reports.py,         *)
(* backend/db/chat_store.py, backend/pipeline/evidence_trail.py).           *)
(*                                                                         *)
(* Each server process (worker) is one event loop with three caches of its  *)
(* own.  A step is what a coroutine does between two awaits; every database *)
(* call is two steps, one where the server executes it and one where the    *)
(* process handles the reply, so calls of other turns and readers fall in   *)
(* between.  A call that fails may have been executed or not.               *)
(*                                                                         *)
(* A session id is drawn by the client of one officer, so a session has one *)
(* officer here, the sessions are those of one officer, and what the owner  *)
(* cache holds is only whether the session is known to exist.               *)
(***************************************************************************)
EXTENDS Naturals, Sequences, FiniteSets

CONSTANTS
    Workers,        \* server processes
    Readers,        \* bound: the ones that serve reads too (all, in the code)
    Sessions,       \* chat sessions of the officer
    Turns,          \* requests: chat turns, reports, and POST /api/chat/sessions
    Reports,        \* the requests that have a report analysed
    Opens,          \* the requests that only create a session
    SessionOf,      \* the session a request names
    Absent,         \* no entry in a cache, no read in flight
    MessageLimit,   \* LIMIT of the messages query (100 in the code)
    MaxErrors       \* bound: failed database calls and turns lost in a crash

ASSUME StoreAssumption ==
    /\ Readers \subseteq Workers
    /\ IsFiniteSet(Turns)
    /\ Opens \subseteq Turns
    /\ Reports \subseteq Turns \ Opens
    /\ SessionOf \in [Turns -> Sessions]
    /\ MessageLimit \in Nat
    /\ MaxErrors \in Nat

VARIABLES
    rows,       \* sessions that have a row in chat_sessions
    count,      \* count[s]: message_count of that row
    messages,   \* messages[s]: rows of chat_messages, oldest first
    trails,     \* turns that have a row in chat_evidence_trail
    known,      \* known[w]: sessions in _session_owner_cache
    msgs,       \* msgs[w][s]: entry of _session_messages_cache
    list,       \* list[w]: entry of _officer_sessions_cache
    turn,       \* turn[t]: where request t is
    reading,    \* reading[w]: rows read for get_messages_for_session, in flight
    listing,    \* listing[w]: rows read for get_sessions_for_officer, in flight
    errors      \* calls that failed and turns lost in a crash, so far

vars == <<rows, count, messages, trails, known, msgs, list, turn, reading, listing, errors>>
tables == <<rows, count, messages, trails>>
caches == <<known, msgs, list>>
reads == <<reading, listing>>

Roles == {"user", "assistant"}
Message == [turn : Turns, role : Roles]

\* The states of a request while it writes to MySQL: from the start of
\* _persist_turn (or of the endpoint that creates a session) to its end.
Persisting == {"create", "created", "user", "assistant", "assistanted",
               "trail", "count", "counted", "owner"}

\* A request not received yet: "hit" records that one of its calls failed or
\* its process crashed.
NewTurn == [pc |-> "new", worker |-> Absent, found |-> FALSE, hit |-> FALSE]

Init ==
    /\ rows = {}
    /\ count = [s \in Sessions |-> 0]
    /\ messages = [s \in Sessions |-> <<>>]
    /\ trails = {}
    /\ known = [w \in Workers |-> {}]
    /\ msgs = [w \in Workers |-> [s \in Sessions |-> Absent]]
    /\ list = [w \in Workers |-> Absent]
    /\ turn = [t \in Turns |-> NewTurn]
    /\ reading = [w \in Workers |-> [s \in Sessions |-> Absent]]
    /\ listing = [w \in Workers |-> Absent]
    /\ errors = 0

-----------------------------------------------------------------------------
(* The steps of a request.                                                  *)

At(t, pcs) == turn[t].pc \in pcs
Goto(t, pc) == turn' = [turn EXCEPT ![t].pc = pc]

\* _invalidate_officer_sessions
InvalidateList(w) == list' = [list EXCEPT ![w] = Absent]

Remember(w, s) == known' = [known EXCEPT ![w] = @ \cup {s}]

\* POST /api/chat/sessions only creates its session.
ReceiveOpen(t, w) ==
    /\ At(t, {"new"}) /\ t \in Opens
    /\ turn' = [turn EXCEPT ![t] = [@ EXCEPT !.pc = "create", !.worker = w]]
    /\ UNCHANGED <<tables, caches, reads, errors>>

\* get_session_owner: is the session in the cache, or what does a query see?
LookUp(t, w) ==
    LET s == SessionOf[t]
        hit == s \in known[w]
    IN  turn' = [turn EXCEPT ![t] = [@ EXCEPT !.pc = IF hit THEN "answer" ELSE "lookup", !.worker = w,
                                              !.found = hit \/ s \in rows]]

\* A turn reaches a worker and looks its session up (_authorize_session_write).
Receive(t, w) ==
    /\ At(t, {"new"}) /\ t \notin Opens \cup Reports
    /\ LookUp(t, w)
    /\ UNCHANGED <<tables, caches, reads, errors>>

\* The owner is checked before anything is done with the report.
ReceiveReport(t, w) ==
    /\ At(t, {"new"}) /\ t \in Reports
    /\ LookUp(t, w)
    /\ UNCHANGED <<tables, caches, reads, errors>>

\* Slip: a session is remembered whatever the query returned.
LookupReplyAlways(t) ==
    /\ At(t, {"lookup"})
    /\ Remember(turn[t].worker, SessionOf[t])
    /\ Goto(t, "answer")
    /\ UNCHANGED <<tables, msgs, list, reads, errors>>

\* The query's reply: an existing session is remembered.
LookupReply(t) ==
    /\ At(t, {"lookup"})
    /\ IF turn[t].found THEN Remember(turn[t].worker, SessionOf[t]) ELSE UNCHANGED known
    /\ Goto(t, "answer")
    /\ UNCHANGED <<tables, msgs, list, reads, errors>>

\* Slip: the session is taken to exist.
AnswerUncreated(t) ==
    /\ At(t, {"answer"}) /\ t \notin Reports
    /\ Goto(t, "user")
    /\ UNCHANGED <<tables, caches, reads, errors>>

\* The pipeline answered: the turn is written.  A session that was not found
\* is created first.
Answer(t) ==
    /\ At(t, {"answer"}) /\ t \notin Reports
    /\ Goto(t, IF turn[t].found THEN "user" ELSE "create")
    /\ UNCHANGED <<tables, caches, reads, errors>>

\* The file is not base64, is too large, or gives no text: 400, 413 or 415,
\* and nothing is created.
RejectReport(t) ==
    /\ At(t, {"answer"}) /\ t \in Reports
    /\ Goto(t, "gone")
    /\ UNCHANGED <<tables, caches, reads, errors>>

\* The model wrote its note on the report, which is saved like an answer.
AnswerReport(t) ==
    /\ At(t, {"answer"}) /\ t \in Reports
    /\ Goto(t, IF turn[t].found THEN "user" ELSE "create")
    /\ UNCHANGED <<tables, caches, reads, errors>>

\* Slip: no asyncio.shield, a client that leaves stops the writing.
GiveUpUnshielded(t) ==
    /\ At(t, Persisting \cup {"lookup", "answer"})
    /\ Goto(t, "gone")
    /\ UNCHANGED <<tables, caches, reads, errors>>

\* The pipeline or the model reported an error, or the client left before the
\* turn was written.  asyncio.shield keeps a departure from reaching a turn
\* that is being written.
GiveUp(t) ==
    /\ At(t, {"lookup", "answer"})
    /\ Goto(t, "gone")
    /\ UNCHANGED <<tables, caches, reads, errors>>

\* INSERT IGNORE INTO chat_sessions: an existing row stays as it is.
CreateCommits(t) ==
    /\ At(t, {"create"})
    /\ rows' = rows \cup {SessionOf[t]}
    /\ Goto(t, "created")
    /\ UNCHANGED <<count, messages, trails, caches, reads, errors>>

CreateReply(t) ==
    /\ At(t, {"created"})
    /\ Remember(turn[t].worker, SessionOf[t])
    /\ InvalidateList(turn[t].worker)
    /\ Goto(t, IF t \in Opens THEN "over" ELSE "user")
    /\ UNCHANGED <<tables, msgs, reads, errors>>

Append1(t, role) == messages' = [messages EXCEPT ![SessionOf[t]] = Append(@, [turn |-> t, role |-> role])]

\* The two inserts of save_message_pair.  chat_messages has a foreign key to
\* chat_sessions, so they need the row.  Nothing is done with the first one's
\* reply: a reply that is lost ends the pair where a failed second insert does.
UserCommits(t) ==
    /\ At(t, {"user"})
    /\ SessionOf[t] \in rows
    /\ Append1(t, "user")
    /\ Goto(t, "assistant")
    /\ UNCHANGED <<rows, count, trails, caches, reads, errors>>

\* The row is missing: the foreign key refuses the message and the pair is given up.
UserRefused(t) ==
    /\ At(t, {"user"})
    /\ SessionOf[t] \notin rows
    /\ Goto(t, "count")
    /\ UNCHANGED <<tables, caches, reads, errors>>

AssistantCommits(t) ==
    /\ At(t, {"assistant"})
    /\ Append1(t, "assistant")
    /\ Goto(t, "assistanted")
    /\ UNCHANGED <<rows, count, trails, caches, reads, errors>>

\* A report leaves no evidence trail.
AfterPair(t) == IF t \in Reports THEN "count" ELSE "trail"

\* Slip: the cached list is extended in place instead of dropped.
AssistantReplyExtends(t) ==
    /\ At(t, {"assistanted"})
    /\ LET w == turn[t].worker
           s == SessionOf[t] IN
         msgs' = IF msgs[w][s] = Absent THEN msgs
                 ELSE [msgs EXCEPT ![w][s] = @ \o <<[turn |-> t, role |-> "user"],
                                                    [turn |-> t, role |-> "assistant"]>>]
    /\ Goto(t, AfterPair(t))
    /\ UNCHANGED <<tables, known, list, reads, errors>>

AssistantReply(t) ==
    /\ At(t, {"assistanted"})
    /\ msgs' = [msgs EXCEPT ![turn[t].worker][SessionOf[t]] = Absent]
    /\ Goto(t, AfterPair(t))
    /\ UNCHANGED <<tables, known, list, reads, errors>>

\* save_evidence_trail: one row for a turn that ran SQL, none for the others
\* or when the insert fails; the turn goes on in each case.
TrailCommits(t) ==
    /\ At(t, {"trail"})
    /\ trails' = trails \cup {t}
    /\ Goto(t, "count")
    /\ UNCHANGED <<rows, count, messages, caches, reads, errors>>

TrailSkipped(t) ==
    /\ At(t, {"trail"})
    /\ Goto(t, "count")
    /\ UNCHANGED <<tables, caches, reads, errors>>

\* update_session_timestamp: message_count + 2, whatever became of the pair.
CountCommits(t) ==
    /\ At(t, {"count"})
    /\ count' = IF SessionOf[t] \in rows THEN [count EXCEPT ![SessionOf[t]] = @ + 2] ELSE count
    /\ Goto(t, "counted")
    /\ UNCHANGED <<rows, messages, trails, caches, reads, errors>>

\* get_session_owner again, to know whose session lists to evict.
CountReply(t) ==
    /\ At(t, {"counted"})
    /\ LET w == turn[t].worker
           s == SessionOf[t] IN
         \/ /\ s \in known[w]
            /\ InvalidateList(w)
            /\ Goto(t, "over")
         \/ /\ s \notin known[w]
            /\ turn' = [turn EXCEPT ![t].pc = "owner", ![t].found = s \in rows]
            /\ UNCHANGED list
    /\ UNCHANGED <<tables, known, msgs, reads, errors>>

OwnerReply(t) ==
    /\ At(t, {"owner"})
    /\ IF turn[t].found
         THEN Remember(turn[t].worker, SessionOf[t]) /\ InvalidateList(turn[t].worker)
         ELSE UNCHANGED <<known, list>>
    /\ Goto(t, "over")
    /\ UNCHANGED <<tables, msgs, reads, errors>>

\* Where a request goes on when a database call of it raises: each helper
\* catches its own exceptions.
AfterFailure(t) ==
    CASE At(t, {"lookup"}) -> "answer"
      [] At(t, {"create", "created"}) -> IF t \in Opens THEN "over" ELSE "user"
      [] At(t, {"user", "assistant", "assistanted", "trail"}) -> "count"
      [] OTHER -> "over"

CallFails(t) ==
    /\ At(t, Persisting \cup {"lookup"})
    /\ errors < MaxErrors
    /\ errors' = errors + 1
    /\ turn' = [turn EXCEPT ![t] = [@ EXCEPT !.pc = AfterFailure(t), !.hit = TRUE,
                                     !.found = turn[t].found /\ ~At(t, {"lookup"})]]
    /\ UNCHANGED <<tables, caches, reads>>

-----------------------------------------------------------------------------
(* Reading back.  A worker serves a cached answer without any change of      *)
(* state; a miss queries and stores the rows when the reply is handled.     *)

\* What the messages query returns: the oldest rows, at most MessageLimit.
Stored(s) == SubSeq(messages[s], 1, IF Len(messages[s]) < MessageLimit THEN Len(messages[s])
                                                                       ELSE MessageLimit)

\* get_session_messages: 404 for a session verify_session_owner does not find.
ReadMessages(w, s) ==
    /\ w \in Readers
    /\ reading[w][s] = Absent
    /\ s \in rows
    /\ msgs[w][s] = Absent
    /\ reading' = [reading EXCEPT ![w][s] = Stored(s)]
    /\ Remember(w, s)
    /\ UNCHANGED <<tables, msgs, list, turn, listing, errors>>

ReadMessagesReply(w, s) ==
    /\ reading[w][s] # Absent
    /\ msgs' = [msgs EXCEPT ![w][s] = reading[w][s]]
    /\ reading' = [reading EXCEPT ![w][s] = Absent]
    /\ UNCHANGED <<tables, known, list, turn, listing, errors>>

\* The query raised: the answer is [] and nothing is cached.
ReadMessagesFails(w, s) ==
    /\ reading[w][s] # Absent
    /\ reading' = [reading EXCEPT ![w][s] = Absent]
    /\ UNCHANGED <<tables, caches, turn, listing, errors>>

\* The sidebar shows the sessions with a positive count; an empty list is
\* cached like any other.
Shown == [s \in Sessions |-> IF s \in rows THEN count[s] ELSE 0]

ReadList(w) ==
    /\ w \in Readers
    /\ listing[w] = Absent
    /\ list[w] = Absent
    /\ listing' = [listing EXCEPT ![w] = Shown]
    /\ UNCHANGED <<tables, caches, turn, reading, errors>>

ReadListReply(w) ==
    /\ listing[w] # Absent
    /\ list' = [list EXCEPT ![w] = listing[w]]
    /\ listing' = [listing EXCEPT ![w] = Absent]
    /\ UNCHANGED <<tables, known, msgs, turn, reading, errors>>

ReadListFails(w) ==
    /\ listing[w] # Absent
    /\ listing' = [listing EXCEPT ![w] = Absent]
    /\ UNCHANGED <<tables, caches, turn, reading, errors>>

\* Slip: a list of messages stays until a turn drops it.
ExpireMessagesNever(w, s) ==
    /\ msgs[w][s] = <<>>
    /\ msgs' = [msgs EXCEPT ![w][s] = Absent]
    /\ UNCHANGED <<tables, known, list, turn, reads, errors>>

\* LRUCache: an entry's time to live ends (measured from its put, a hit does
\* not extend it), or a newer entry takes its place.
ExpireMessages(w, s) ==
    /\ msgs[w][s] # Absent
    /\ msgs' = [msgs EXCEPT ![w][s] = Absent]
    /\ UNCHANGED <<tables, known, list, turn, reads, errors>>

ExpireList(w) ==
    /\ list[w] # Absent
    /\ InvalidateList(w)
    /\ UNCHANGED <<tables, known, msgs, turn, reads, errors>>

ExpireOwner(w, s) ==
    /\ s \in known[w]
    /\ known' = [known EXCEPT ![w] = @ \ {s}]
    /\ UNCHANGED <<tables, msgs, list, turn, reads, errors>>

\* A worker dies with its caches and the requests it was serving, and is
\* started again.
Crash(w) ==
    LET lost == {t \in Turns : turn[t].worker = w /\ ~At(t, {"over", "gone"})}
        torn == {t \in lost : At(t, Persisting)}
    IN  /\ errors + Cardinality(torn) <= MaxErrors
        /\ errors' = errors + Cardinality(torn)
        /\ turn' = [t \in Turns |-> IF t \in lost THEN [turn[t] EXCEPT !.pc = "gone", !.hit = TRUE]
                                                 ELSE turn[t]]
        /\ known' = [known EXCEPT ![w] = {}]
        /\ msgs' = [msgs EXCEPT ![w] = [s \in Sessions |-> Absent]]
        /\ reading' = [reading EXCEPT ![w] = [s \in Sessions |-> Absent]]
        /\ list' = [list EXCEPT ![w] = Absent]
        /\ listing' = [listing EXCEPT ![w] = Absent]
        /\ UNCHANGED tables

-----------------------------------------------------------------------------
Step(t) ==
    \/ LookupReply(t) \/ Answer(t) \/ RejectReport(t) \/ AnswerReport(t)
    \/ CreateCommits(t) \/ CreateReply(t)
    \/ UserCommits(t) \/ UserRefused(t)
    \/ AssistantCommits(t) \/ AssistantReply(t)
    \/ TrailCommits(t) \/ TrailSkipped(t)
    \/ CountCommits(t) \/ CountReply(t) \/ OwnerReply(t)

Next ==
    \/ \E t \in Turns :
         \/ \E w \in Workers : Receive(t, w) \/ ReceiveReport(t, w) \/ ReceiveOpen(t, w)
         \/ Step(t)
         \/ GiveUp(t)
         \/ CallFails(t)
    \/ \E w \in Workers :
         \/ \E s \in Sessions :
              \/ ReadMessages(w, s) \/ ReadMessagesReply(w, s) \/ ReadMessagesFails(w, s)
              \/ ExpireMessages(w, s) \/ ExpireOwner(w, s)
         \/ ReadList(w) \/ ReadListReply(w) \/ ReadListFails(w) \/ ExpireList(w)
         \/ Crash(w)

Spec == Init /\ [][Next]_vars

\* Entries of the two read caches do not outlive their time to live.
FairSpec == Spec /\ \A w \in Workers :
    /\ WF_vars(ExpireList(w))
    /\ \A s \in Sessions : WF_vars(ExpireMessages(w, s))
-----------------------------------------------------------------------------
(* Properties.                                                             *)

Places == Persisting \cup {"new", "lookup", "answer", "over", "gone"}

\* Types of the state: in particular every request is at a place of its handler,
\* whatever call of it failed.
TypeOK ==
    /\ rows \subseteq Sessions
    /\ count \in [Sessions -> Nat]
    /\ messages \in [Sessions -> Seq(Message)]
    /\ trails \subseteq Turns
    /\ known \in [Workers -> SUBSET Sessions]
    /\ msgs \in [Workers -> [Sessions -> Seq(Message) \cup {Absent}]]
    /\ list \in [Workers -> [Sessions -> Nat] \cup {Absent}]
    /\ turn \in [Turns -> [pc : Places, worker : Workers \cup {Absent},
                          found : BOOLEAN, hit : BOOLEAN]]
    /\ reading \in [Workers -> [Sessions -> Seq(Message) \cup {Absent}]]
    /\ listing \in [Workers -> [Sessions -> Nat] \cup {Absent}]
    /\ errors \in Nat

\* A session a worker takes for existing has its row, so that no turn skips
\* the creation its messages depend on: through failed lookups, failed
\* creations, turns that race to create the row, and crashes.
KnownSessionExists == \A w \in Workers : known[w] \subseteq rows

Clean(t) == t \notin Opens /\ At(t, {"over"}) /\ ~turn[t].hit

Saved(t) ==
    LET rs == messages[SessionOf[t]] IN
    \E i, j \in 1..Len(rs) :
        i < j /\ rs[i] = [turn |-> t, role |-> "user"] /\ rs[j] = [turn |-> t, role |-> "assistant"]

\* A turn none of whose own calls failed is saved whole, question before
\* answer, and counted, whatever failed in the turns around it.
CleanTurnSaved ==
    /\ \A t \in Turns : Clean(t) => Saved(t)
    /\ \A s \in Sessions : count[s] >= 2 * Cardinality({t \in Turns : Clean(t) /\ SessionOf[t] = s})

\* message_count, which decides whether the sidebar shows a session, counts
\* its messages: when no turn of the session is being written it is off by at
\* most two for each call that failed or turn a crash tore.  A client that
\* leaves ("zombie session", chat.py) costs nothing.
CountWithinErrors ==
    \A s \in Sessions :
        (\A t \in Turns : SessionOf[t] = s => ~At(t, Persisting))
        => /\ Len(messages[s]) <= count[s] + 2 * errors
           /\ count[s] <= Len(messages[s]) + 2 * errors

IsPast(old, new) == Len(old) <= Len(new) /\ SubSeq(new, 1, Len(old)) = old

\* What a cache serves was true once: a list of messages is a beginning of
\* the stored one, a listed count not more than the stored one.
CachedIsPast ==
    \A w \in Workers, s \in Sessions :
        /\ msgs[w][s] # Absent => IsPast(msgs[w][s], messages[s])
        /\ list[w] # Absent => list[w][s] <= Shown[s]

\* The caches are stale only for a while: when the requests are over, every
\* worker comes to serve what the tables hold.
EventuallyFresh ==
    <>[](\A w \in Workers :
           /\ \A s \in Sessions : msgs[w][s] \in {Absent, Stored(s)}
           /\ list[w] \in {Absent, Shown})
=============================================================================
