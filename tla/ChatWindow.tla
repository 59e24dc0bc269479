----------------------------- MODULE ChatWindow -----------------------------
(***************************************************************************)
(* The chat of one browser tab: components/ChatWindow.jsx with the report  *)
(* upload of Composer.jsx and the stream and requests of api/chat.js.      *)
(* A step is one event handler or promise callback, with the microtasks    *)
(* that follow it: an aborted stream ends in the handler that aborts it.   *)
(*                                                                         *)
(* Left out: drafts, the sidebar's list, layout.                           *)
(***************************************************************************)
EXTENDS Naturals, Sequences, SequencesExt

CONSTANTS Sessions,
          First,     \* the session the window opens with
          Turns,     \* questions and reports, each with its answer
          Past,      \* those asked before the window was opened
          PastHome,  \* the session of each of them
          None,
          Slots      \* bound on requests for messages in flight

ASSUME WindowAssumption ==
  /\ First \in Sessions
  /\ Past \subseteq Turns /\ IsFiniteSet(Past)
  /\ PastHome \in [Past -> Sessions \ {First}]
  /\ None \notin Turns \union Sessions

VARIABLES
  active,   \* activeSessionId and its ref
  list,     \* the answers in messages, each after its question
  busy,     \* isStreaming
  cancel,   \* cancelRef: the turn it aborts
  streams,  \* turns whose stream is open
  reports,  \* reports being analysed
  home,     \* session of each turn
  server,   \* what the server made of each turn
  saved,    \* its turns in MySQL, by session
  fetch,    \* requests for messages in flight
  failed,   \* messagesError
  loading,  \* isLoadingMessages, which any load that ends sets back
  limited,  \* rateLimit: "reset" until its window_reset_at, "never" without one
  visit,    \* for the properties: turns put on the screen since the last switch
  mounted,  \* "yes", "leaving" once logout was called, "no"
  stray     \* for the properties: a reply was used after the window had moved on

view == <<active, list, busy, cancel, failed, loading, limited, visit>>
remote == <<home, server, saved>>
vars == <<view, streams, reports, remote, fetch, mounted, stray>>

\* An answer: the turns whose tokens it has, the id its evidence is shown by.
Answer(t, chunks, id, open) == [turn |-> t, chunks |-> chunks, id |-> id, open |-> open]
Stored(t) == Answer(t, {t}, t, FALSE)

NoFetch == [kind |-> "none", session |-> First, reply |-> <<>>, served |-> FALSE]

Init ==
  /\ active = First
  /\ list = <<>>
  /\ busy = FALSE
  /\ cancel = None
  /\ streams = {} /\ reports = {}
  /\ home = [t \in Turns |-> IF t \in Past THEN PastHome[t] ELSE None]
  /\ server = [t \in Turns |-> IF t \in Past THEN "saved" ELSE "none"]
  /\ saved = [s \in Sessions |->
                SetToSeq({t \in Past : PastHome[t] = s})]
  /\ fetch = [f \in Slots |-> NoFetch]
  /\ failed = FALSE /\ loading = FALSE
  /\ limited = "no"
  /\ visit = {}
  /\ mounted = "yes"
  /\ stray = FALSE

-----------------------------------------------------------------------------
(* The server *)

Running(t) == server[t] = "running"

\* The turn is persisted, before the stream's end or in spite of it (shield).
Persist(t) ==
  /\ Running(t)
  /\ server' = [server EXCEPT ![t] = "saved"]
  /\ saved' = [saved EXCEPT ![home[t]] = Append(@, t)]
  /\ UNCHANGED <<view, streams, reports, home, fetch, mounted, stray>>

\* It is refused, fails, is cancelled, or is answered with an error.
Drop(t) ==
  /\ Running(t)
  /\ server' = [server EXCEPT ![t] = "failed"]
  /\ UNCHANGED <<view, streams, reports, home, saved, fetch, mounted, stray>>

\* One of the attempts of fetchWithRetry is answered.
Serve(f) ==
  /\ fetch[f].kind # "none" /\ ~fetch[f].served
  /\ fetch' = [fetch EXCEPT ![f].served = TRUE, ![f].reply = saved[fetch[f].session]]
  /\ UNCHANGED <<view, streams, reports, remote, mounted, stray>>

-----------------------------------------------------------------------------
(* What the handlers share *)

\* updateLastAssistant
UpdateLast(answers, updated) ==
  IF answers = <<>> THEN answers ELSE [answers EXCEPT ![Len(answers)] = updated]

Closed(a) == [a EXCEPT !.open = FALSE]

Free == {f \in Slots : fetch[f].kind = "none"}

Request(kind, s) == [kind |-> kind, session |-> s, reply |-> <<>>, served |-> FALSE]

\* The request for the ids at a stream's end; its failures are swallowed, as is
\* one there is no slot for.
AskId(t) == IF Free = {} THEN fetch
            ELSE [fetch EXCEPT ![CHOOSE f \in Free : TRUE] = Request("id", home[t])]

-----------------------------------------------------------------------------
(* Asking, and the callbacks of a stream *)

\* The suggestions of an empty window and the follow-ups of an answer are sent
\* past the composer.
Offered ==
  \/ list = <<>> /\ ~failed
  \/ \E i \in DOMAIN list : ~list[i].open /\ list[i].chunks # {}

\* The question is put into the session that is active, and the stream opened.
\* The composer, which a 429 disables, a suggestion or a follow-up, which none
\* does: no load holds them back.
Send(t) ==
  /\ mounted # "no"
  /\ home[t] = None
  /\ ~busy
  /\ limited = "no" \/ Offered
  /\ list' = Append(list, Answer(t, {}, None, TRUE))
  /\ busy' = TRUE
  /\ cancel' = t
  /\ streams' = streams \union {t}
  /\ home' = [home EXCEPT ![t] = active]
  /\ server' = [server EXCEPT ![t] = "running"]
  /\ visit' = visit \union {t}
  /\ UNCHANGED <<active, reports, saved, fetch, failed, loading, limited, mounted,
                stray>>

\* onStatus, onToken, onTable, onMedia, onGraphAvailable, onFollowUps, onError:
\* each goes to the last answer shown.
Token(t) ==
  /\ t \in streams
  /\ list' = UpdateLast(list, [Last(list) EXCEPT !.chunks = @ \union {t}])
  /\ UNCHANGED <<active, busy, cancel, failed, loading, limited, visit, streams, reports,
                remote, fetch, mounted, stray>>

\* A 401 logs out as well; a 429 has the composer disabled, for as long as its body
\* says, or with no end if that has no window_reset_at or cannot be read.
EndsWith(t) ==
  \/ UNCHANGED <<mounted, limited>>
  \/ mounted = "yes" /\ mounted' = "leaving" /\ limited' = limited
  \/ server[t] = "failed" /\ limited' \in {"reset", "never"} /\ mounted' = mounted

\* Slip: an answer that ended in an error leaves the window busy.
StreamEndsOnSuccess(t) ==
  /\ t \in streams
  /\ streams' = streams \ {t}
  /\ list' = UpdateLast(list, Closed(Last(list)))
  /\ busy' = (busy /\ server[t] # "saved")
  /\ cancel' = None
  /\ fetch' = AskId(t)
  /\ EndsWith(t)
  /\ UNCHANGED <<active, failed, loading, visit, reports, remote, stray>>

\* The answer is complete, an error, or cut off.
StreamEnds(t) ==
  /\ t \in streams
  /\ streams' = streams \ {t}
  /\ list' = UpdateLast(list, Closed(Last(list)))
  /\ busy' = FALSE
  /\ cancel' = None
  /\ fetch' = AskId(t)
  /\ EndsWith(t)
  /\ UNCHANGED <<active, failed, loading, visit, reports, remote, stray>>

\* The timer set for window_reset_at.
LimitEnds ==
  /\ limited = "reset"
  /\ limited' = "no"
  /\ UNCHANGED <<active, list, busy, cancel, failed, loading, visit, streams, reports,
                remote, fetch, mounted, stray>>

-----------------------------------------------------------------------------
(* Switching; what a stream leaves behind when it is aborted *)

\* The view afterwards, with the aborted turn's onDone, which finds no answers.
Moved(s) ==
  /\ active' = s
  /\ list' = <<>>
  /\ busy' = FALSE
  /\ cancel' = None
  /\ failed' = FALSE
  /\ visit' = {}

AbortsId == IF busy /\ cancel # None THEN AskId(cancel) ELSE fetch

Aborted == IF busy THEN streams \ {cancel} ELSE streams

\* Slip: the running stream is not aborted.
SelectUnaborted(s) ==
  /\ mounted # "no"
  /\ s # active
  /\ \E t \in Turns : home[t] = s
  /\ Moved(s)
  /\ \E f \in Free : fetch' = [fetch EXCEPT ![f] = Request("show", s)]
  /\ loading' = TRUE
  /\ UNCHANGED <<limited, streams, reports, remote, mounted, stray>>

\* handleSelectSession; a session is listed once something was asked in it.
Select(s) ==
  /\ mounted # "no"
  /\ s # active
  /\ \E t \in Turns : home[t] = s
  /\ Moved(s)
  /\ streams' = Aborted
  /\ \E f \in Slots :
       /\ AbortsId[f].kind = "none"
       /\ fetch' = [AbortsId EXCEPT ![f] = Request("show", s)]
  /\ loading' = TRUE
  /\ UNCHANGED <<limited, reports, remote, mounted, stray>>

\* Slip: what is shown stays on the screen.
NewChatKeeps(s) ==
  /\ mounted # "no"
  /\ list # <<>> \/ busy
  /\ s # active /\ \A t \in Turns : home[t] # s
  /\ active' = s /\ busy' = FALSE /\ cancel' = None /\ failed' = FALSE /\ list' = list
  /\ visit' = {}
  /\ streams' = Aborted
  /\ fetch' = AbortsId
  /\ UNCHANGED <<loading, limited, reports, remote, mounted, stray>>

\* handleNewChat, with a session id nobody used.
NewChat(s) ==
  /\ mounted # "no"
  /\ list # <<>> \/ busy
  /\ s # active /\ \A t \in Turns : home[t] # s
  /\ Moved(s)
  /\ streams' = Aborted
  /\ fetch' = AbortsId
  /\ UNCHANGED <<loading, limited, reports, remote, mounted, stray>>

-----------------------------------------------------------------------------
(* Loads, and the ids that come after an answer *)

Ready(f, kind) == fetch[f].kind = kind /\ fetch[f].served
Done(f) == fetch' = [fetch EXCEPT ![f] = NoFetch]

\* loadSessionMessages: whatever is shown is replaced.
Show(f) ==
  /\ Ready(f, "show")
  /\ list' = [i \in DOMAIN fetch[f].reply |-> Stored(fetch[f].reply[i])]
  /\ loading' = FALSE
  /\ stray' = (stray \/ fetch[f].session # active \/ visit # {})
  /\ Done(f)
  /\ UNCHANGED <<active, busy, cancel, failed, limited, visit, streams, reports, remote,
                mounted>>

\* The load fails in all its attempts, or is refused with a 401 and logs out.
ShowFails(f) ==
  /\ fetch[f].kind = "show"
  /\ \/ failed' = TRUE /\ mounted' = mounted
     \/ mounted = "yes" /\ mounted' = "leaving" /\ failed' = failed
  /\ loading' = FALSE
  /\ Done(f)
  /\ UNCHANGED <<active, list, busy, cancel, limited, visit, streams, reports, remote, stray>>

\* retryLoadMessages, of the session that is active now.
Retry ==
  /\ mounted # "no"
  /\ failed /\ ~loading
  /\ failed' = FALSE /\ loading' = TRUE
  /\ \E f \in Free : fetch' = [fetch EXCEPT ![f] = Request("show", active)]
  /\ UNCHANGED <<active, list, busy, cancel, limited, visit, streams, reports, remote, mounted,
                stray>>

\* The last stored answer's id is put on the last one shown.
SetId(f) ==
  /\ Ready(f, "id")
  /\ list' = IF fetch[f].reply = <<>> THEN list
             ELSE UpdateLast(list, [Last(list) EXCEPT !.id = Last(fetch[f].reply)])
  /\ Done(f)
  /\ UNCHANGED <<active, busy, cancel, failed, loading, limited, visit, streams, reports,
                remote, mounted, stray>>

SetIdFails(f) ==
  /\ fetch[f].kind = "id"
  /\ Done(f)
  /\ UNCHANGED <<view, streams, reports, remote, mounted, stray>>

-----------------------------------------------------------------------------
(* Reports *)

\* handleFileSelected: not while a stream runs or a 429 lasts, but a stream may
\* begin meanwhile.
Upload(t) ==
  /\ mounted # "no"
  /\ home[t] = None
  /\ ~busy /\ limited = "no"
  /\ reports' = reports \union {t}
  /\ home' = [home EXCEPT ![t] = active]
  /\ server' = [server EXCEPT ![t] = "running"]
  /\ UNCHANGED <<view, streams, saved, fetch, mounted, stray>>

\* handleReportAnalyzed appends to whatever is shown.
ReportArrives(t) ==
  /\ t \in reports
  /\ server[t] # "running"
  /\ reports' = reports \ {t}
  /\ list' = Append(list, Answer(t, {t}, None, FALSE))
  /\ visit' = visit \union {t}
  /\ stray' = (stray \/ home[t] # active \/ streams # {})
  /\ UNCHANGED <<active, busy, cancel, failed, loading, limited, streams, remote, fetch,
                mounted>>

ReportFails(t) ==
  /\ t \in reports
  /\ reports' = reports \ {t}
  /\ mounted' \in {mounted} \union (IF mounted = "yes" THEN {"leaving"} ELSE {})
  /\ UNCHANGED <<view, streams, remote, fetch, stray>>

-----------------------------------------------------------------------------

\* The officer signs out, or some other call is answered 401.
Leave ==
  /\ mounted = "yes"
  /\ mounted' = "leaving"
  /\ UNCHANGED <<view, streams, reports, remote, fetch, stray>>

\* The logout is complete: the window goes, and aborts its stream.
Unmount ==
  /\ mounted = "leaving"
  /\ mounted' = "no"
  /\ streams' = IF cancel # None THEN streams \ {cancel} ELSE streams
  /\ busy' = FALSE /\ cancel' = None
  /\ list' = <<>> /\ visit' = {}
  /\ failed' = FALSE /\ loading' = FALSE /\ limited' = "no"
  /\ fetch' = [f \in Slots |-> NoFetch]
  /\ UNCHANGED <<active, reports, remote, stray>>

Next ==
  \/ \E t \in Turns :
       \/ Persist(t) \/ Drop(t)
       \/ Send(t) \/ Token(t) \/ StreamEnds(t)
       \/ Upload(t) \/ ReportArrives(t) \/ ReportFails(t)
  \/ \E s \in Sessions : Select(s) \/ NewChat(s)
  \/ \E f \in Slots :
       Serve(f) \/ Show(f) \/ ShowFails(f) \/ SetId(f) \/ SetIdFails(f)
  \/ Retry \/ LimitEnds \/ Leave \/ Unmount

\* A stream ends: the server answers every question in the end, and a broken
\* connection is an end too. A timer that was set fires.
Fairness == WF_vars(LimitEnds) /\ \A t \in Turns : WF_vars(StreamEnds(t))

Spec == Init /\ [][Next]_vars /\ Fairness

-----------------------------------------------------------------------------
(* Properties *)

\* Every variable is of its type; a request is for one session (:306, :387).
TypeOK ==
  /\ active \in Sessions
  /\ list \in Seq([turn : Turns, chunks : SUBSET Turns, id : Turns \union {None},
                   open : BOOLEAN])
  /\ busy \in BOOLEAN /\ failed \in BOOLEAN /\ loading \in BOOLEAN /\ stray \in BOOLEAN
  /\ limited \in {"no", "reset", "never"}
  /\ visit \subseteq Turns
  /\ cancel \in Turns \union {None}
  /\ streams \subseteq Turns /\ reports \subseteq Turns
  /\ home \in [Turns -> Sessions \union {None}]
  /\ server \in [Turns -> {"none", "running", "saved", "failed"}]
  /\ saved \in [Sessions -> Seq(Turns)]
  /\ fetch \in [Slots -> [kind : {"none", "show", "id"}, session : Sessions,
                          reply : Seq(Turns), served : BOOLEAN]]
  /\ mounted \in {"yes", "leaving", "no"}

\* The window is busy exactly while one stream is open: the one cancelRef would
\* abort, asked in the session that is active (:281, :306-308, :331-335,
\* :465-470, :490-495).
StreamOwnsWindow ==
  /\ busy <=> streams # {}
  /\ \A t \in streams : cancel = t /\ streams = {t} /\ home[t] = active

\* What is shown are answers of the active session, each made of its own tokens;
\* none that was asked for there disappears, and the one that is being streamed
\* is the last - until a reply is used after the window has moved on from what
\* it was asked for: a load that comes after a switch or a question (:387), a
\* report that comes after a switch or during a stream (:439).  Nothing else
\* mixes them up.
TranscriptClean ==
  ~stray =>
    /\ \A i \in DOMAIN list : home[list[i].turn] = active
                              /\ list[i].chunks \subseteq {list[i].turn}
    /\ \A t \in visit : \E i \in DOMAIN list : list[i].turn = t
    /\ \A t \in streams : list # <<>> /\ Last(list).turn = t /\ Last(list).open

\* inputDisabled of the composer (Composer.jsx:65-66).
Shut == busy \/ limited # "no"

\* A question that was asked does not leave the composer disabled, whatever its
\* answer, but by a 429 without a window_reset_at; nor does that leave the window
\* busy (ChatWindow.jsx:203-212, :331-335). The comment at :202 has every block
\* cleared once the window resets; the effect returns at once without a reset time.
ComposerReopens ==
  /\ busy ~> ~busy
  /\ Shut ~> (~Shut \/ limited = "never")

=============================================================================
