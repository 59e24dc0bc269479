------------------------ MODULE ConversationHistory ------------------------
(***************************************************************************)
(* The conversation one session gives the language model as context, and    *)
(* the session's metadata (backend/conversation/history.py and              *)
(* session_store.py over db/nosql_client.py and db/cache_client.py).        *)
(*                                                                         *)
(* Both are documents in Catalyst NoSQL with two fallback copies: one in    *)
(* Catalyst Cache, shared, and one in the memory of each process.  save_turn *)
(* reads the history, adds its turn and writes the whole document back; the *)
(* writes to NoSQL are background tasks, which neither each other nor the   *)
(* next turn wait for.  A history is the sequence of the turns it holds (a  *)
(* turn is a question and its answer, always added together).               *)
(***************************************************************************)
EXTENDS Naturals, Sequences, FiniteSets

CONSTANTS
    Processes,  \* server processes
    Exchanges,  \* the session's turns
    Wordless,   \* the ones whose question holds stop words only
    Keep,       \* turns a history keeps: MAX_TURNS is 10 messages, 5 turns
    MaxBusy,    \* bound: turns with work outstanding at the same time
    None,       \* no document, no copy, no title yet (empty or "New chat")
    Given,      \* the title a chat turn opens its session with: its question
    MaxFaults   \* bound: failed calls and crashes

ASSUME HistoryAssumption ==
    /\ Keep \in Nat \ {0}
    /\ Wordless \subseteq Exchanges
    /\ None \notin Exchanges \cup {Given} \cup Seq(Exchanges)
    /\ None \notin [count : Nat, title : Exchanges \cup {None, Given}]
    /\ None \notin [doc : [count : Nat, title : Exchanges \cup {None, Given}], late : BOOLEAN]
    /\ MaxBusy \in Nat
    /\ MaxFaults \in Nat

VARIABLES
    doc,        \* conversation_history document in NoSQL
    cached,     \* fallback_history entry in Catalyst Cache
    local,      \* local[w]: _local_history of process w
    meta,       \* session_metadata document in NoSQL
    metaCached, \* fallback_session entry in Catalyst Cache
    metaLocal,  \* metaLocal[w]: _local_sessions of process w
    opener,     \* what opened the session: the endpoint for new sessions, a
                \*   first turn of the chat, or a first report
    creation,   \* create_session's background insert: attempts left
    save,       \* save[t]: where save_turn of turn t is
    put,        \* put[t]: the metadata write turn t started in the background,
                \*   "late" when its update found no document
    faults,     \* failed calls and crashes so far
    (* Observations, read by no action. *)
    order,      \* turns in the order in which they read the history
    overlap     \* a turn read while writes of an earlier one were outstanding

historyVars == <<doc, cached, local, meta, metaCached, metaLocal, opener, creation,
                 save, put, faults, order, overlap>>
history == <<doc, cached, local>>
metadata == <<meta, metaCached, metaLocal, opener>>
observed == <<order, overlap>>

\* The metadata create_session stores: no messages, and its opener's title.
Blank == [count |-> 0, title |-> IF opener = "chat" THEN Given ELSE None]

\* A turn not begun.  "turns" is the list it writes, "prior" whether it found
\* a history, "count" and "fresh" what it read from the metadata, "merged" the
\* metadata it is about to store.
NewSave == [pc |-> "new", worker |-> None, turns |-> <<>>, prior |-> FALSE,
            count |-> 0, fresh |-> FALSE, merged |-> None]

\* The endpoint and a chat turn have called create_session: it has stored its
\* fallback copies (the cache may have failed, a fault) and started its insert.  A
\* report that opens a session creates its row in MySQL and no metadata.
HistoryInit ==
    /\ doc = None
    /\ cached = None
    /\ local = [w \in Processes |-> None]
    /\ meta = None
    /\ \/ /\ opener \in {"endpoint", "chat"}
          /\ \/ metaCached = Blank /\ faults = 0
             \/ metaCached = None /\ MaxFaults > 0 /\ faults = 1
          /\ \E w \in Processes :
               metaLocal = [x \in Processes |-> IF x = w THEN Blank ELSE None]
          /\ creation = 2
       \/ /\ opener = "report"
          /\ metaCached = None
          /\ metaLocal = [w \in Processes |-> None]
          /\ creation = 0
          /\ faults = 0
    /\ save = [t \in Exchanges |-> NewSave]
    /\ put = [t \in Exchanges |-> None]
    /\ order = <<>>
    /\ overlap = FALSE

-----------------------------------------------------------------------------
Saving(t, pc) == save[t].pc = pc
MovesTo(t, pc) == save' = [save EXCEPT ![t].pc = pc]

Fault == faults < MaxFaults /\ faults' = faults + 1

\* The fallback copy a process finds: the shared one, else its own.
Fallback(shared, own) == IF shared # None THEN shared ELSE own

Busy(t) == save[t].pc \notin {"new", "done"} \/ put[t] # None
MayBegin(t) == Saving(t, "new") /\ Cardinality({u \in Exchanges : Busy(u)}) < MaxBusy

-----------------------------------------------------------------------------
(* save_turn.                                                              *)

\* Slip: the list is not trimmed.
ExtendUntrimmed(turns, t) == Append(turns, t)

\* The list a turn writes: what it read and itself, the oldest turns dropped.
Extend(turns, t) ==
    LET all == Append(turns, t)
        first == IF Len(all) > Keep THEN Len(all) - Keep + 1 ELSE 1
    IN SubSeq(all, first, Len(all))

Got(t, w, found) ==
    LET turns == IF found = None THEN <<>> ELSE found IN
    /\ save' = [save EXCEPT ![t] = [@ EXCEPT !.pc = "store", !.worker = w,
                                     !.turns = Extend(turns, t), !.prior = turns # <<>>]]
    /\ order' = Append(order, t)
    /\ overlap' = (overlap \/ (\E u \in Exchanges : Busy(u)) \/ creation > 0)

\* get_history returns the document, or a fallback copy when there is none.
ReadHistory(t, w) ==
    /\ MayBegin(t)
    /\ Got(t, w, IF doc # None THEN doc ELSE Fallback(cached, local[w]))
    /\ UNCHANGED <<history, metadata, creation, put, faults>>

\* The document could not be fetched, the cache neither perhaps: a fallback
\* copy answers.
ReadHistoryFails(t, w) ==
    /\ MayBegin(t)
    /\ Fault
    /\ \E shared \in {cached, None} : Got(t, w, Fallback(shared, local[w]))
    /\ UNCHANGED <<history, metadata, creation, put>>

\* _local_set: the cache first, whose failure is ignored, then the memory.
\* The turn is answered after this; the rest runs in the background.
Store(t) ==
    /\ Saving(t, "store")
    /\ local' = [local EXCEPT ![save[t].worker] = save[t].turns]
    /\ \/ cached' = save[t].turns /\ UNCHANGED faults
       \/ Fault /\ UNCHANGED cached
    /\ MovesTo(t, "sync")
    /\ UNCHANGED <<doc, metadata, creation, put, observed>>

-----------------------------------------------------------------------------
(* _sync_session_metadata and update_session.                              *)

\* get_session for worker w: the document, or a fallback copy when there is
\* none; what a failed fetch, of the cache too perhaps, may leave it with.
MetaFetched(w) == IF meta # None THEN meta ELSE Fallback(metaCached, metaLocal[w])
MetaUnfetched(w) == {Fallback(metaCached, metaLocal[w]), metaLocal[w]}

\* The count this turn adds to, and whether the session still looks new.
SyncRead(t, found) ==
    save' = [save EXCEPT ![t] = [@ EXCEPT !.pc = "update",
               !.count = IF found = None THEN 0 ELSE found.count,
               !.fresh = found # None /\ (found.count = 0 \/ found.title = None)]]

Sync(t) ==
    /\ Saving(t, "sync")
    /\ \/ SyncRead(t, MetaFetched(save[t].worker)) /\ UNCHANGED faults
       \/ Fault /\ \E found \in MetaUnfetched(save[t].worker) : SyncRead(t, found)
    /\ UNCHANGED <<history, metadata, creation, put, observed>>

\* generate_title: a question of stop words only yields "New chat".
TitleOf(t) == IF t \in Wordless THEN None ELSE t

\* Slip: the count grows by the length of the list that was written.
MergedByLength(t, found) ==
    [count |-> save[t].count + 2 * Len(save[t].turns),
     title |-> IF ~save[t].prior \/ save[t].fresh THEN TitleOf(t) ELSE found.title]

\* The update: two more messages, and a title when the turn takes itself for
\* the session's first.
Merged(t, found) ==
    [count |-> save[t].count + 2,
     title |-> IF ~save[t].prior \/ save[t].fresh THEN TitleOf(t) ELSE found.title]

\* update_session reads the document again.
UpdateWith(t, found) ==
    save' = [save EXCEPT ![t] = [@ EXCEPT
               !.pc = IF found = None THEN "write" ELSE "merged",
               !.count = 0, !.fresh = FALSE,
               !.merged = IF found = None THEN None ELSE Merged(t, found)]]

Update(t) ==
    /\ Saving(t, "update")
    /\ \/ UpdateWith(t, MetaFetched(save[t].worker)) /\ UNCHANGED faults
       \/ Fault /\ \E found \in MetaUnfetched(save[t].worker) : UpdateWith(t, found)
    /\ UNCHANGED <<history, metadata, creation, put, observed>>

\* The merged document goes to the fallback copies, and a task is started that
\* writes it to NoSQL.
StoreMeta(t) ==
    /\ Saving(t, "merged")
    /\ metaLocal' = [metaLocal EXCEPT ![save[t].worker] = save[t].merged]
    /\ \/ metaCached' = save[t].merged /\ UNCHANGED faults
       \/ Fault /\ UNCHANGED metaCached
    /\ put' = [put EXCEPT ![t] = [doc |-> save[t].merged, late |-> FALSE]]
    /\ save' = [save EXCEPT ![t].pc = "write", ![t].merged = None]
    /\ UNCHANGED <<history, meta, opener, creation, observed>>

\* The background write of the metadata: an update, or an insert when the
\* update finds no document; the insert is refused when there is one by then.
PutMeta(t) ==
    /\ put[t] # None
    /\ \/ /\ meta = None /\ ~put[t].late
          /\ put' = [put EXCEPT ![t].late = TRUE]
          /\ UNCHANGED meta
       \/ /\ put[t].late <=> meta = None
          /\ meta' = put[t].doc
          /\ put' = [put EXCEPT ![t] = None]
       \/ /\ meta # None /\ put[t].late
          /\ put' = [put EXCEPT ![t] = None]
          /\ UNCHANGED meta
    /\ UNCHANGED <<history, metaCached, metaLocal, opener, creation, save, faults, observed>>

PutMetaFails(t) ==
    /\ put[t] # None
    /\ Fault
    /\ put' = [put EXCEPT ![t] = None]
    /\ UNCHANGED <<history, metadata, creation, save, observed>>

-----------------------------------------------------------------------------
(* The background write of the history.                                    *)

\* Slip: no insert after a 404.
WriteUpdatesOnly(t) ==
    /\ Saving(t, "write")
    /\ doc' = IF doc # None THEN save[t].turns ELSE None
    /\ MovesTo(t, "done")
    /\ UNCHANGED <<cached, local, metadata, creation, put, faults, observed>>

\* The update replaces the document, or answers 404 and an insert follows.
Write(t) ==
    /\ Saving(t, "write")
    /\ \/ doc # None /\ doc' = save[t].turns /\ MovesTo(t, "done")
       \/ doc = None /\ UNCHANGED doc /\ MovesTo(t, "insert")
    /\ UNCHANGED <<cached, local, metadata, creation, put, faults, observed>>

\* An insert is refused when the document exists by now; that is only logged.
Insert(t) ==
    /\ Saving(t, "insert")
    /\ doc' = IF doc = None THEN save[t].turns ELSE doc
    /\ MovesTo(t, "done")
    /\ UNCHANGED <<cached, local, metadata, creation, put, faults, observed>>

WriteFails(t) ==
    /\ Saving(t, "write") \/ Saving(t, "insert")
    /\ Fault
    /\ MovesTo(t, "done")
    /\ UNCHANGED <<history, metadata, creation, put, observed>>

-----------------------------------------------------------------------------
\* create_session's insert, tried again once.
CreateInserts ==
    /\ creation > 0
    /\ meta' = IF meta = None THEN Blank ELSE meta
    /\ creation' = IF meta = None THEN 0 ELSE creation - 1
    /\ UNCHANGED <<history, metaCached, metaLocal, opener, save, put, faults, observed>>

CreateFails ==
    /\ creation > 0
    /\ Fault
    /\ creation' = creation - 1
    /\ UNCHANGED <<history, metadata, save, put, observed>>

\* A process dies with its memory and its tasks.
ProcessDies(w) ==
    /\ Fault
    /\ local' = [local EXCEPT ![w] = None]
    /\ metaLocal' = [metaLocal EXCEPT ![w] = None]
    /\ save' = [t \in Exchanges |-> IF save[t].worker = w THEN [save[t] EXCEPT !.pc = "done"] ELSE save[t]]
    /\ put' = [t \in Exchanges |-> IF save[t].worker = w THEN None ELSE put[t]]
    /\ creation' \in {0, creation}
    /\ UNCHANGED <<doc, cached, meta, metaCached, opener, observed>>

Task(t) ==
    \/ Store(t) \/ Sync(t) \/ Update(t) \/ StoreMeta(t)
    \/ PutMeta(t) \/ Write(t) \/ Insert(t)

HistoryNext ==
    \/ \E t \in Exchanges :
         \/ \E w \in Processes : ReadHistory(t, w) \/ ReadHistoryFails(t, w)
         \/ Task(t)
         \/ PutMetaFails(t) \/ WriteFails(t)
    \/ CreateInserts \/ CreateFails
    \/ \E w \in Processes : ProcessDies(w)

HistorySpec == HistoryInit /\ [][HistoryNext]_historyVars

\* The event loop runs every task of a process to its end.
FairHistorySpec ==
    /\ HistorySpec
    /\ WF_historyVars(CreateInserts)
    /\ \A t \in Exchanges : WF_historyVars(Task(t)) /\ WF_historyVars(PutMeta(t))
-----------------------------------------------------------------------------
(* Properties.                                                             *)

Lists == Seq(Exchanges) \cup {None}
Metas == [count : Nat, title : Exchanges \cup {None, Given}] \cup {None}

\* Types of the state: a count is a number, also when the metadata is missing.
HistoryTypeOK ==
    /\ doc \in Lists
    /\ cached \in Lists
    /\ local \in [Processes -> Lists]
    /\ meta \in Metas
    /\ metaCached \in Metas
    /\ metaLocal \in [Processes -> Metas]
    /\ opener \in {"endpoint", "chat", "report"}
    /\ creation \in 0..2
    /\ save \in [Exchanges ->
         [pc : {"new", "store", "sync", "update", "merged", "write", "insert", "done"},
          worker : Processes \cup {None}, turns : Seq(Exchanges), prior : BOOLEAN,
          count : Nat, fresh : BOOLEAN, merged : Metas]]
    /\ put \in [Exchanges -> [doc : Metas \ {None}, late : BOOLEAN] \cup {None}]
    /\ faults \in Nat
    /\ order \in Seq(Exchanges)
    /\ overlap \in BOOLEAN

Copies == {doc, cached} \cup {local[w] : w \in Processes}

Position(t) == CHOOSE i \in 1..Len(order) : order[i] = t

\* Every copy of the history is a bounded list without repetition in the
\* order of the conversation, whichever turns raced, failed or were lost.
HistoryInOrder ==
    \A c \in Copies : c # None =>
        /\ Len(c) <= Keep
        /\ \A i, j \in 1..Len(c) : i < j => Position(c[i]) < Position(c[j])

\* The last Keep turns of the conversation.
Recent == SubSeq(order, IF Len(order) > Keep THEN Len(order) - Keep + 1 ELSE 1, Len(order))

Settled == creation = 0 /\ \A t \in Exchanges : ~Busy(t)

\* The title of a conversation: its first question that has one.
Title(o) ==
    LET titled == {i \in 1..Len(o) : o[i] \notin Wordless} IN
    IF titled = {} THEN None ELSE o[CHOOSE i \in titled : \A j \in titled : i <= j]

\* When each turn began after the writes of the one before had ended, and
\* nothing failed, the stored history (and its shared fallback) is the end of
\* the conversation.  The count is then exact and the title the first a question
\* gave, for a session that create_session was called for; one that a report
\* opened never gets metadata, however many turns follow.
NothingLostWithoutOverlap ==
    Settled /\ ~overlap /\ faults = 0 /\ order # <<>>
    => /\ doc = Recent /\ cached = Recent
       /\ meta = IF opener = "report" THEN None
                 ELSE [count |-> 2 * Len(order), title |-> Title(order)]

Counts == {m.count : m \in ({meta, metaCached} \cup {metaLocal[w] : w \in Processes}
                            \cup {save[t].merged : t \in Exchanges}) \ {None}}
          \cup {put[t].doc.count : t \in {u \in Exchanges : put[u] # None}}

\* message_count never counts a turn twice: lost updates, retries and inserts
\* after a 404 can only make it too low.
CountNeverOver == \A c \in Counts : c <= 2 * Len(order)

=============================================================================
