-------------------------- MODULE ChatWindowProofs --------------------------
(* What the browser tab shows for any sessions, turns and requests in       *)
(* flight: the stream it is busy with, and whose answers are on the screen. *)
(* Then how it comes to show anything: for any workers, clients and window, *)
(* the attempts that are let through, and the token behind the chat.        *)
EXTENDS ChatWindow, Login, SequenceTheorems, FiniteSetTheorems, TLAPS

\* The three parts of a clean transcript.
OwnAnswers ==
    \A i \in DOMAIN list : home[list[i].turn] = active /\ list[i].chunks \subseteq {list[i].turn}
AllShown == \A t \in visit : \E i \in DOMAIN list : list[i].turn = t
StreamLast == \A t \in streams : list # <<>> /\ Last(list).turn = t /\ Last(list).open

\* MySQL has a turn under the session it was asked in, and a reply from it too.
SavedOwn == \A s \in Sessions : \A i \in DOMAIN saved[s] : home[saved[s][i]] = s
RepliesOwn ==
    \A f \in Slots : fetch[f].served =>
      \A i \in DOMAIN fetch[f].reply : home[fetch[f].reply[i]] = fetch[f].session

IInv ==
    /\ TypeOK
    /\ StreamOwnsWindow
    /\ TranscriptClean
    /\ streams \subseteq visit
    /\ SavedOwn
    /\ RepliesOwn
    /\ \A t \in Turns : Running(t) => home[t] # None

-----------------------------------------------------------------------------
(* Types                                                                   *)

AnswerType == [turn : Turns, chunks : SUBSET Turns, id : Turns \union {None}, open : BOOLEAN]
RequestType == [kind : {"none", "show", "id"}, session : Sessions, reply : Seq(Turns), served : BOOLEAN]

LEMMA Items ==
  ASSUME NEW S, NEW m \in Seq(S)
  PROVE  /\ DOMAIN m = 1..Len(m) /\ Len(m) \in Nat
         /\ \A i \in 1..Len(m) : m[i] \in S
         /\ m = <<>> <=> Len(m) = 0
  BY LenProperties, ElementOfSeq, EmptySeq

LEMMA RequestTypes ==
  /\ NoFetch \in RequestType /\ NoFetch.served = FALSE
  /\ \A k \in {"show", "id"}, s \in Sessions :
       Request(k, s) \in RequestType /\ Request(k, s).served = FALSE
<1>1. <<>> \in Seq(Turns)
  OBVIOUS
<1>2. First \in Sessions
  BY WindowAssumption
<1> QED BY <1>1, <1>2 DEF NoFetch, Request, RequestType

LEMMA Fetches == TypeOK <=> /\ TypeOK /\ fetch \in [Slots -> RequestType]
                            /\ list \in Seq(AnswerType)
  BY DEF TypeOK, RequestType, AnswerType

\* What a stream leaves behind: at most one new request.
LEMMA AskIdType ==
  ASSUME TypeOK, NEW t \in Turns, home[t] \in Sessions
  PROVE  /\ AskId(t) \in [Slots -> RequestType]
         /\ \A f \in Slots : AskId(t)[f] = fetch[f] \/ AskId(t)[f].served = FALSE
<1> DEFINE f == CHOOSE f \in Free : TRUE
           q == Request("id", home[t])
<1>1. fetch \in [Slots -> RequestType]
  BY Fetches
<1>2. q \in RequestType /\ q.served = FALSE
  BY RequestTypes
<1>3. Free # {} => f \in Slots
  BY DEF Free
<1>4. AskId(t) = IF Free = {} THEN fetch ELSE [fetch EXCEPT ![f] = q]
  BY DEF AskId
<1> HIDE DEF f, q
<1> QED BY <1>1, <1>2, <1>3, <1>4

\* The last answer is replaced by another of the same turn.
LEMMA Updated ==
  ASSUME list \in Seq(AnswerType), NEW a, NEW l, l = UpdateLast(list, a),
         list # <<>> => a \in AnswerType /\ a.turn = Last(list).turn
  PROVE  /\ l \in Seq(AnswerType) /\ DOMAIN l = DOMAIN list
         /\ list = <<>> <=> l = <<>>
         /\ \A i \in DOMAIN list : /\ l[i].turn = list[i].turn
                                   /\ l[i] = list[i] \/ (list # <<>> /\ i = Len(list) /\ l[i] = a)
         /\ list # <<>> => Last(l) = a /\ Last(list) = list[Len(list)] /\ Len(list) \in DOMAIN list
<1>1. CASE list = <<>>
  <2>1. l = list
    BY <1>1 DEF UpdateLast
  <2> QED BY <1>1, <2>1, Items
<1>2. CASE list # <<>>
  <2> DEFINE n == Len(list)
  <2>1. n \in Nat \ {0} /\ DOMAIN list = 1..n /\ n \in 1..n
    BY <1>2, Items
  <2>2. l = [list EXCEPT ![n] = a]
    BY <1>2 DEF UpdateLast
  <2>3. l \in Seq(AnswerType) /\ Len(l) = n /\ \A i \in 1..n : l[i] = IF i = n THEN a ELSE list[i]
    BY <1>2, <2>1, <2>2, ExceptSeq
  <2>4. DOMAIN l = 1..n /\ l # <<>>
    BY <2>1, <2>3, Items
  <2>5. Last(l) = a /\ Last(list) = list[n]
    BY <2>1, <2>3 DEF Last
  <2>6. \A i \in 1..n : l[i].turn = list[i].turn /\ (l[i] = list[i] \/ (i = n /\ l[i] = a))
    BY <1>2, <2>3, <2>5
  <2> HIDE DEF n
  <2> QED BY <1>2, <2>1, <2>3, <2>4, <2>5, <2>6 DEF n
<1> QED BY <1>1, <1>2

\* An answer is put at the end.
LEMMA Appended ==
  ASSUME list \in Seq(AnswerType), NEW a \in AnswerType, list' = Append(list, a)
  PROVE  /\ list' \in Seq(AnswerType) /\ list' # <<>> /\ Last(list') = a
         /\ \A i \in DOMAIN list : i \in DOMAIN list' /\ list'[i] = list[i]
         /\ \E i \in DOMAIN list' : list'[i] = a
         /\ \A i \in DOMAIN list' : list'[i] = a \/ (i \in DOMAIN list /\ list'[i] = list[i])
<1> DEFINE n == Len(list)
<1>1. n \in Nat /\ DOMAIN list = 1..n
  BY Items
<1>2. list' \in Seq(AnswerType) /\ list' # <<>> /\ Len(list') = n + 1 /\ list'[n + 1] = a /\ \A i \in 1..n : list'[i] = list[i]
  BY AppendProperties
<1>3. DOMAIN list' = 1..(n + 1)
  BY <1>1, <1>2, Items
<1>4. Last(list') = a
  BY <1>2 DEF Last
<1>5. \A i \in 1..(n + 1) : i = n + 1 \/ i \in 1..n
  BY <1>1
<1>6. n + 1 \in 1..(n + 1) /\ \A i \in 1..n : i \in 1..(n + 1)
  BY <1>1
<1> HIDE DEF n
<1> QED BY <1>1, <1>2, <1>3, <1>4, <1>5, <1>6

-----------------------------------------------------------------------------
(* What most steps leave                                                   *)

\* A turn stays in the session it was asked in.
HomeKept == \A t \in Turns : home[t] # None => home'[t] = home[t]

LEMMA NotNone == \A s \in Sessions : s # None
  BY WindowAssumption

LEMMA ServerKept ==
  ASSUME IInv, HomeKept, saved' = saved,
         \A t \in Turns : server'[t] = "running" => server[t] = "running" \/ home'[t] # None,
         \A f \in Slots : fetch'[f] = fetch[f] \/ fetch'[f].served = FALSE
  PROVE  SavedOwn' /\ RepliesOwn' /\ \A t \in Turns : Running(t)' => home'[t] # None
<1>1. TypeOK /\ SavedOwn /\ RepliesOwn /\ fetch \in [Slots -> RequestType]
  BY Fetches DEF IInv
<1>2. SavedOwn'
  <2> SUFFICES ASSUME NEW s \in Sessions, NEW i \in DOMAIN saved[s] PROVE home'[saved[s][i]] = s
    BY DEF SavedOwn
  <2>1. saved[s] \in Seq(Turns)
    BY <1>1 DEF TypeOK
  <2>2. saved[s][i] \in Turns
    BY <2>1, Items
  <2> QED BY <1>1, <2>2, NotNone DEF SavedOwn, HomeKept
<1>3. RepliesOwn'
  <2> SUFFICES ASSUME NEW f \in Slots, fetch'[f].served, NEW i \in DOMAIN fetch'[f].reply
               PROVE  home'[fetch'[f].reply[i]] = fetch'[f].session
    BY DEF RepliesOwn
  <2>1. fetch'[f] = fetch[f]
    OBVIOUS
  <2>2. fetch[f] \in RequestType
    BY <1>1
  <2>3. fetch[f].reply \in Seq(Turns) /\ fetch[f].session \in Sessions
    BY <2>2 DEF RequestType
  <2>4. fetch[f].reply[i] \in Turns
    BY <2>1, <2>3, Items
  <2> QED BY <1>1, <2>1, <2>3, <2>4, NotNone DEF RepliesOwn, HomeKept
<1>4. \A t \in Turns : Running(t)' => home'[t] # None
  BY DEF IInv, Running, HomeKept
<1> QED BY <1>2, <1>3, <1>4

\* The view and the streams stay.
LEMMA ViewKept ==
  ASSUME IInv, HomeKept, UNCHANGED <<active, list, busy, cancel, visit, streams, stray>>
  PROVE  StreamOwnsWindow' /\ TranscriptClean' /\ streams' \subseteq visit'
<1>1. TypeOK /\ list \in Seq(AnswerType) /\ active \in Sessions /\ streams \subseteq Turns
  BY Fetches DEF IInv, TypeOK
<1>2. \A t \in Turns : home[t] = active => home'[t] = active
  BY <1>1, NotNone DEF HomeKept
<1>3. StreamOwnsWindow'
  BY <1>1, <1>2 DEF IInv, StreamOwnsWindow
<1>4. \A i \in DOMAIN list : list[i].turn \in Turns
  <2>1. \A i \in DOMAIN list : list[i] \in AnswerType
    BY <1>1, Items
  <2> QED BY <2>1 DEF AnswerType
<1>5. TranscriptClean'
  BY <1>2, <1>4 DEF IInv, TranscriptClean
<1> QED BY <1>3, <1>5 DEF IInv

\* The parts of the home and of the streams that steps look at.
LEMMA Streaming ==
  ASSUME IInv, NEW t \in streams
  PROVE  /\ t \in Turns /\ busy /\ cancel = t /\ streams = {t} /\ home[t] = active
         /\ active \in Sessions /\ visit # {}
  BY DEF IInv, StreamOwnsWindow, TypeOK

-----------------------------------------------------------------------------
(* The server                                                              *)

LEMMA Answered ==
  ASSUME IInv, NEW t \in Turns, Persist(t) \/ Drop(t)
  PROVE  IInv'
<1>0. TypeOK /\ Running(t) /\ home[t] \in Sessions
  BY DEF IInv, Persist, Drop, TypeOK
<1>1. UNCHANGED <<view, streams, reports, home, fetch, mounted, stray>>
  BY DEF Persist, Drop
<1>2. HomeKept
  BY <1>1 DEF HomeKept
<1>3. StreamOwnsWindow' /\ TranscriptClean' /\ streams' \subseteq visit'
  BY <1>1, <1>2, ViewKept DEF view
<1>4. server' \in [Turns -> {"none", "running", "saved", "failed"}]
      /\ \A u \in Turns : server'[u] = "running" => server[u] = "running"
  BY <1>0 DEF Persist, Drop, TypeOK
<1>5. CASE Drop(t)
  <2>1. TypeOK'
    BY <1>0, <1>1, <1>4, <1>5 DEF TypeOK, view, Drop
  <2>2. SavedOwn' /\ RepliesOwn' /\ \A u \in Turns : Running(u)' => home'[u] # None
    BY <1>1, <1>2, <1>4, <1>5, ServerKept DEF Drop
  <2> QED BY <1>3, <2>1, <2>2 DEF IInv
<1>6. CASE Persist(t)
  <2> DEFINE h == home[t]
             m == Append(saved[h], t)
  <2>1. saved[h] \in Seq(Turns)
    BY <1>0 DEF TypeOK
  <2>2. /\ m \in Seq(Turns) /\ Len(m) = Len(saved[h]) + 1 /\ Len(saved[h]) \in Nat
        /\ \A i \in 1..Len(saved[h]) : m[i] = saved[h][i]
        /\ m[Len(saved[h]) + 1] = t
    BY <2>1, AppendProperties
  <2>3. saved' = [saved EXCEPT ![h] = m]
    BY <1>6 DEF Persist
  <2>4. \A i \in DOMAIN m : m[i] = t \/ (i \in DOMAIN saved[h] /\ m[i] = saved[h][i])
    <3>1. DOMAIN m = 1..(Len(saved[h]) + 1) /\ DOMAIN saved[h] = 1..Len(saved[h])
      BY <2>1, <2>2, Items
    <3>2. \A i \in 1..(Len(saved[h]) + 1) : i = Len(saved[h]) + 1 \/ i \in 1..Len(saved[h])
      BY <2>2
    <3> QED BY <2>2, <3>1, <3>2
  <2> HIDE DEF m
  <2>5. saved' \in [Sessions -> Seq(Turns)] /\ saved'[h] = m /\ \A s \in Sessions \ {h} : saved'[s] = saved[s]
    BY <1>0, <2>2, <2>3 DEF TypeOK
  <2>6. TypeOK'
    BY <1>0, <1>1, <1>4, <2>5 DEF TypeOK, view
  <2>7. SavedOwn'
    BY <1>1, <2>4, <2>5 DEF IInv, SavedOwn
  <2>8. RepliesOwn'
    BY <1>1 DEF IInv, RepliesOwn
  <2>9. \A u \in Turns : Running(u)' => home'[u] # None
    BY <1>1, <1>4 DEF IInv, Running
  <2> QED BY <1>3, <2>6, <2>7, <2>8, <2>9 DEF IInv
<1> QED BY <1>5, <1>6

LEMMA Served == ASSUME IInv, NEW f \in Slots, Serve(f) PROVE IInv'
<1> DEFINE q == [fetch[f] EXCEPT !.served = TRUE, !.reply = saved[fetch[f].session]]
<1>0. TypeOK /\ fetch \in [Slots -> RequestType]
  BY Fetches DEF IInv
<1>1. UNCHANGED <<view, streams, reports, remote, mounted, stray>>
  BY DEF Serve
<1>2. fetch[f] \in RequestType /\ fetch[f].session \in Sessions
  BY <1>0 DEF RequestType
<1>3. saved[fetch[f].session] \in Seq(Turns)
  BY <1>0, <1>2 DEF TypeOK
<1>4. q \in RequestType /\ q.reply = saved[fetch[f].session] /\ q.session = fetch[f].session
  BY <1>2, <1>3 DEF RequestType
<1>5. fetch' = [fetch EXCEPT ![f] = q]
  BY DEF Serve
<1> HIDE DEF q
<1>6. fetch' \in [Slots -> RequestType] /\ fetch'[f] = q /\ \A g \in Slots \ {f} : fetch'[g] = fetch[g]
  BY <1>0, <1>4, <1>5
<1>7. TypeOK'
  BY <1>0, <1>1, <1>6 DEF TypeOK, RequestType, view, remote
<1>8. HomeKept
  BY <1>1 DEF HomeKept, remote
<1>9. StreamOwnsWindow' /\ TranscriptClean' /\ streams' \subseteq visit'
  BY <1>1, <1>8, ViewKept DEF view
<1>10. SavedOwn' /\ \A u \in Turns : Running(u)' => home'[u] # None
  BY <1>1 DEF IInv, SavedOwn, Running, remote
<1>11. RepliesOwn'
  <2>1. \A i \in DOMAIN q.reply : home[q.reply[i]] = q.session
    BY <1>2, <1>4 DEF IInv, SavedOwn
  <2>2. \A g \in Slots \ {f} : fetch'[g].served =>
          \A i \in DOMAIN fetch'[g].reply : home'[fetch'[g].reply[i]] = fetch'[g].session
    BY <1>1, <1>6 DEF IInv, RepliesOwn, remote
  <2> QED BY <1>1, <1>6, <2>1, <2>2 DEF RepliesOwn, remote
<1> QED BY <1>7, <1>9, <1>10, <1>11 DEF IInv

-----------------------------------------------------------------------------
(* What is on the screen                                                   *)

LEMMA ShownTurns ==
  ASSUME TypeOK
  PROVE  list \in Seq(AnswerType) /\ \A i \in DOMAIN list : list[i] \in AnswerType /\ list[i].turn \in Turns
<1>1. list \in Seq(AnswerType)
  BY Fetches
<1>2. \A i \in DOMAIN list : list[i] \in AnswerType
  BY <1>1, Items
<1> QED BY <1>1, <1>2 DEF AnswerType

\* An answer of t is put at the end.
LEMMA Added ==
  ASSUME IInv, HomeKept, active' = active,
         NEW t \in Turns, NEW a \in AnswerType, a.turn = t, a.chunks \subseteq {t},
         list' = Append(list, a), visit' = visit \union {t},
         ~stray' => ~stray /\ home'[t] = active
  PROVE  /\ list' \in Seq(AnswerType) /\ list' # <<>> /\ Last(list') = a
         /\ ~stray' => OwnAnswers' /\ AllShown'
<1>0. TypeOK /\ active \in Sessions
  BY DEF IInv, TypeOK
<1>1. /\ list' \in Seq(AnswerType) /\ list' # <<>> /\ Last(list') = a
      /\ \A i \in DOMAIN list : i \in DOMAIN list' /\ list'[i] = list[i]
      /\ \E i \in DOMAIN list' : list'[i] = a
      /\ \A i \in DOMAIN list' : list'[i] = a \/ (i \in DOMAIN list /\ list'[i] = list[i])
  <2>1. list \in Seq(AnswerType)
    BY <1>0, ShownTurns
  <2> QED BY <2>1, Appended
<1>2. ASSUME ~stray' PROVE OwnAnswers' /\ AllShown'
  <2>1. OwnAnswers /\ AllShown /\ home'[t] = active
    BY <1>2 DEF IInv, TranscriptClean, OwnAnswers, AllShown
  <2>2. \A i \in DOMAIN list : home'[list[i].turn] = active
    BY <1>0, <2>1, ShownTurns, NotNone DEF OwnAnswers, HomeKept
  <2>3. OwnAnswers'
    BY <1>1, <2>1, <2>2 DEF OwnAnswers
  <2>4. AllShown'
    BY <1>1, <2>1 DEF AllShown
  <2> QED BY <2>3, <2>4
<1> QED BY <1>1, <1>2

\* The last answer is replaced by another of its turn.
LEMMA Replaced ==
  ASSUME IInv, UNCHANGED <<active, home, visit, stray>>, NEW a, list' = UpdateLast(list, a),
         list # <<>> => a \in AnswerType /\ a.turn = Last(list).turn,
         list # <<>> /\ ~stray => a.chunks \subseteq {a.turn}
  PROVE  /\ list' \in Seq(AnswerType) /\ (list' = <<>> <=> list = <<>>)
         /\ list # <<>> => Last(list') = a
         /\ ~stray' => OwnAnswers' /\ AllShown'
<1>1. /\ list' \in Seq(AnswerType) /\ DOMAIN list' = DOMAIN list
      /\ list = <<>> <=> list' = <<>>
      /\ \A i \in DOMAIN list : /\ list'[i].turn = list[i].turn
                                /\ list'[i] = list[i] \/ (list # <<>> /\ list'[i] = a)
      /\ list # <<>> => Last(list') = a
  <2>1. list \in Seq(AnswerType)
    BY ShownTurns DEF IInv
  <2> QED BY <2>1, Updated
<1>2. ASSUME ~stray' PROVE OwnAnswers' /\ AllShown'
  <2>1. OwnAnswers /\ AllShown
    BY <1>2 DEF IInv, TranscriptClean, OwnAnswers, AllShown
  <2>2. OwnAnswers'
    <3> SUFFICES ASSUME NEW i \in DOMAIN list
                 PROVE  home'[list'[i].turn] = active' /\ list'[i].chunks \subseteq {list'[i].turn}
      BY <1>1 DEF OwnAnswers
    <3>1. home'[list'[i].turn] = active'
      BY <1>1, <2>1 DEF OwnAnswers
    <3>2. CASE list'[i] = list[i]
      BY <2>1, <3>1, <3>2 DEF OwnAnswers
    <3>3. CASE list # <<>> /\ list'[i] = a
      BY <1>2, <3>1, <3>3
    <3> QED BY <1>1, <3>2, <3>3
  <2>3. AllShown'
    BY <1>1, <2>1 DEF AllShown
  <2> QED BY <2>2, <2>3
<1> QED BY <1>1, <1>2

LEMMA Parts ==
  ASSUME ~stray' => OwnAnswers' /\ AllShown' /\ StreamLast' PROVE TranscriptClean'
  BY DEF TranscriptClean, OwnAnswers, AllShown, StreamLast

LEMMA LastIs ==
  ASSUME TypeOK, list # <<>> PROVE Last(list) \in AnswerType
<1>1. list \in Seq(AnswerType)
  BY Fetches
<1>2. Len(list) \in Nat /\ Len(list) # 0
  BY <1>1, Items
<1>3. Len(list) \in 1..Len(list)
  BY <1>2
<1> QED BY <1>1, <1>3, Items DEF Last

LEMMA Sent == ASSUME IInv, NEW t \in Turns, Send(t) PROVE IInv'
<1> DEFINE a == Answer(t, {}, None, TRUE)
<1>0. TypeOK /\ active \in Sessions /\ active # None /\ streams = {} /\ t # None
  <2>1. TypeOK /\ active \in Sessions
    BY DEF IInv, TypeOK
  <2>2. streams = {}
    BY DEF IInv, StreamOwnsWindow, Send
  <2>3. t # None
    BY WindowAssumption
  <2> QED BY <2>1, <2>2, <2>3, NotNone
<1>1. /\ list' = Append(list, a) /\ busy' = TRUE /\ cancel' = t /\ streams' = {t}
      /\ home' = [home EXCEPT ![t] = active] /\ server' = [server EXCEPT ![t] = "running"]
      /\ visit' = visit \union {t} /\ home[t] = None
      /\ UNCHANGED <<active, reports, saved, fetch, failed, loading, limited, mounted, stray>>
  BY <1>0 DEF Send
<1>2. a \in AnswerType /\ a.turn = t /\ a.chunks = {} /\ a.open = TRUE
  BY DEF Answer, AnswerType
<1> HIDE DEF a
<1>3. home \in [Turns -> Sessions \union {None}]
  BY <1>0 DEF TypeOK
<1>4. HomeKept /\ home'[t] = active /\ home' \in [Turns -> Sessions \union {None}]
  BY <1>0, <1>1, <1>3 DEF HomeKept
<1>5. /\ list' \in Seq(AnswerType) /\ list' # <<>> /\ Last(list') = a
      /\ ~stray' => OwnAnswers' /\ AllShown'
  BY <1>1, <1>2, <1>4, Added
<1>6. server' \in [Turns -> {"none", "running", "saved", "failed"}]
      /\ \A u \in Turns : server'[u] = "running" => server[u] = "running" \/ home'[u] # None
  BY <1>0, <1>1, <1>4 DEF TypeOK
<1>7. TypeOK'
  BY <1>0, <1>1, <1>4, <1>5, <1>6 DEF TypeOK, AnswerType
<1>8. SavedOwn' /\ RepliesOwn' /\ \A u \in Turns : Running(u)' => home'[u] # None
  BY <1>1, <1>4, <1>6, ServerKept
<1>9. StreamOwnsWindow' /\ streams' \subseteq visit'
  BY <1>1, <1>4 DEF StreamOwnsWindow
<1>10. TranscriptClean'
  <2>1. StreamLast'
    BY <1>1, <1>2, <1>5 DEF StreamLast
  <2> QED BY <1>5, <2>1, Parts
<1> QED BY <1>7, <1>8, <1>9, <1>10 DEF IInv

LEMMA Told == ASSUME IInv, NEW t \in Turns, Token(t) PROVE IInv'
<1> DEFINE a == [Last(list) EXCEPT !.chunks = Last(list).chunks \union {t}]
<1>0. TypeOK /\ t \in streams /\ list' = UpdateLast(list, a)
      /\ UNCHANGED <<active, busy, cancel, failed, loading, limited, visit, streams, reports, remote, fetch, mounted, stray>>
  BY DEF IInv, Token
<1>1. list # <<>> => Last(list) \in AnswerType
  BY <1>0, LastIs
<1>2. list # <<>> => a \in AnswerType /\ a.turn = Last(list).turn /\ a.chunks = Last(list).chunks \union {t} /\ a.open = Last(list).open
  BY <1>1 DEF AnswerType
<1> HIDE DEF a
<1>3. ~stray => list # <<>> /\ Last(list).turn = t /\ Last(list).open /\ Last(list).chunks \subseteq {t}
  <2> SUFFICES ASSUME ~stray PROVE list # <<>> /\ Last(list).turn = t /\ Last(list).open /\ Last(list).chunks \subseteq {t}
    OBVIOUS
  <2>1. list # <<>> /\ Last(list).turn = t /\ Last(list).open /\ OwnAnswers
    BY <1>0 DEF IInv, TranscriptClean, OwnAnswers
  <2>2. list \in Seq(AnswerType)
    BY <1>0, ShownTurns
  <2>3. Len(list) \in DOMAIN list /\ Last(list) = list[Len(list)]
    BY <2>1, <2>2, Items DEF Last
  <2> QED BY <2>1, <2>3 DEF OwnAnswers
<1>4. /\ list' \in Seq(AnswerType) /\ (list' = <<>> <=> list = <<>>)
      /\ list # <<>> => Last(list') = a
      /\ ~stray' => OwnAnswers' /\ AllShown'
  BY <1>0, <1>2, <1>3, Replaced DEF remote
<1>5. TypeOK'
  BY <1>0, <1>4 DEF TypeOK, AnswerType, remote
<1>6. HomeKept
  BY <1>0 DEF HomeKept, remote
<1>7. SavedOwn' /\ RepliesOwn' /\ \A u \in Turns : Running(u)' => home'[u] # None
  BY <1>0, <1>6, ServerKept DEF remote
<1>8. StreamOwnsWindow' /\ streams' \subseteq visit'
  BY <1>0 DEF IInv, StreamOwnsWindow, remote
<1>9. TranscriptClean'
  <2>1. ASSUME ~stray' PROVE StreamLast'
    <3>1. streams' = {t} /\ ~stray
      BY <1>0, <2>1, Streaming
    <3> QED BY <1>2, <1>3, <1>4, <3>1 DEF StreamLast
  <2> QED BY <1>4, <2>1, Parts
<1> QED BY <1>5, <1>7, <1>8, <1>9 DEF IInv

LEMMA EndTypes ==
  ASSUME TypeOK, NEW t \in Turns, EndsWith(t)
  PROVE  mounted' \in {"yes", "leaving", "no"} /\ limited' \in {"no", "reset", "never"}
  BY DEF TypeOK, EndsWith

LEMMA Ended == ASSUME IInv, NEW t \in Turns, StreamEnds(t) PROVE IInv'
<1> DEFINE a == Closed(Last(list))
<1>0. /\ TypeOK /\ t \in streams /\ list' = UpdateLast(list, a) /\ streams' = {} /\ busy' = FALSE /\ cancel' = None
      /\ fetch' = AskId(t) /\ UNCHANGED <<active, failed, loading, visit, reports, remote, stray>>
  BY Streaming DEF IInv, StreamEnds
<1>1. list # <<>> => Last(list) \in AnswerType
  BY <1>0, LastIs
<1>2. list # <<>> => a \in AnswerType /\ a.turn = Last(list).turn /\ a.chunks = Last(list).chunks
  BY <1>1 DEF AnswerType, Closed
<1> HIDE DEF a
<1>3. list # <<>> /\ ~stray => a.chunks \subseteq {a.turn}
  <2> SUFFICES ASSUME list # <<>>, ~stray PROVE Last(list).chunks \subseteq {Last(list).turn}
    BY <1>2
  <2>1. OwnAnswers
    BY DEF IInv, TranscriptClean, OwnAnswers
  <2>2. list \in Seq(AnswerType)
    BY <1>0, ShownTurns
  <2>3. Len(list) \in DOMAIN list /\ Last(list) = list[Len(list)]
    BY <2>2, Items DEF Last
  <2> QED BY <2>1, <2>3 DEF OwnAnswers
<1>4. list' \in Seq(AnswerType) /\ (~stray' => OwnAnswers' /\ AllShown')
  BY <1>0, <1>2, <1>3, Replaced DEF remote
<1>5. /\ fetch' \in [Slots -> RequestType]
      /\ \A f \in Slots : fetch'[f] = fetch[f] \/ fetch'[f].served = FALSE
  BY <1>0, Streaming, AskIdType
<1>6. mounted' \in {"yes", "leaving", "no"} /\ limited' \in {"no", "reset", "never"}
  BY <1>0, EndTypes DEF StreamEnds
<1>7. TypeOK'
  BY <1>0, <1>4, <1>5, <1>6 DEF TypeOK, AnswerType, RequestType, remote
<1>8. HomeKept
  BY <1>0 DEF HomeKept, remote
<1>9. SavedOwn' /\ RepliesOwn' /\ \A u \in Turns : Running(u)' => home'[u] # None
  BY <1>0, <1>5, <1>8, ServerKept DEF remote
<1>10. StreamOwnsWindow' /\ streams' \subseteq visit'
  BY <1>0 DEF StreamOwnsWindow
<1>11. TranscriptClean'
  BY <1>0, <1>4, Parts DEF StreamLast
<1> QED BY <1>7, <1>9, <1>10, <1>11 DEF IInv

-----------------------------------------------------------------------------
(* Switching, loads and ids                                                *)

LEMMA Aborts ==
  ASSUME IInv
  PROVE  /\ Aborted = {}
         /\ AbortsId \in [Slots -> RequestType]
         /\ \A f \in Slots : AbortsId[f] = fetch[f] \/ AbortsId[f].served = FALSE
<1>1. TypeOK /\ fetch \in [Slots -> RequestType]
  BY Fetches DEF IInv
<1>2. Aborted = {}
  BY DEF IInv, StreamOwnsWindow, Aborted
<1>3. CASE busy /\ cancel # None
  <2>1. cancel \in streams
    BY <1>3 DEF IInv, StreamOwnsWindow
  <2>2. cancel \in Turns /\ home[cancel] \in Sessions
    BY <2>1, Streaming
  <2>3. AbortsId = AskId(cancel)
    BY <1>3 DEF AbortsId
  <2> QED BY <1>1, <1>2, <2>2, <2>3, AskIdType
<1>4. CASE ~(busy /\ cancel # None)
  <2>1. AbortsId = fetch
    BY <1>4 DEF AbortsId
  <2> QED BY <1>1, <1>2, <2>1
<1> QED BY <1>3, <1>4

\* The window is empty and nothing streams.
LEMMA Emptied ==
  ASSUME IInv, UNCHANGED <<reports, remote, stray>>, active' \in Sessions,
         list' = <<>>, visit' = {}, streams' = {}, busy' = FALSE, cancel' = None,
         failed' \in BOOLEAN, loading' \in BOOLEAN, mounted' \in {"yes", "leaving", "no"},
         limited' \in {"no", "reset", "never"},
         fetch' \in [Slots -> RequestType],
         \A f \in Slots : fetch'[f] = fetch[f] \/ fetch'[f].served = FALSE
  PROVE  IInv'
<1>0. TypeOK
  BY DEF IInv
<1>1. <<>> \in Seq(AnswerType) /\ DOMAIN <<>> = {}
  BY Items
<1>2. TypeOK'
  BY <1>0, <1>1 DEF TypeOK, AnswerType, RequestType, remote
<1>3. HomeKept
  BY DEF HomeKept, remote
<1>4. SavedOwn' /\ RepliesOwn' /\ \A u \in Turns : Running(u)' => home'[u] # None
  BY <1>3, ServerKept DEF remote
<1>5. StreamOwnsWindow' /\ TranscriptClean' /\ streams' \subseteq visit'
  BY <1>1 DEF StreamOwnsWindow, TranscriptClean
<1> QED BY <1>2, <1>4, <1>5 DEF IInv

LEMMA Switched == ASSUME IInv, NEW s \in Sessions, Select(s) \/ NewChat(s) PROVE IInv'
<1>0. TypeOK /\ Aborted = {} /\ AbortsId \in [Slots -> RequestType]
      /\ \A f \in Slots : AbortsId[f] = fetch[f] \/ AbortsId[f].served = FALSE
  BY Aborts DEF IInv
<1>1. /\ active' = s /\ list' = <<>> /\ busy' = FALSE /\ cancel' = None /\ failed' = FALSE /\ visit' = {}
      /\ streams' = {} /\ UNCHANGED <<limited, reports, remote, stray, mounted>>
      /\ loading' \in {TRUE, loading}
  BY <1>0 DEF Select, NewChat, Moved
<1>2. fetch' \in [Slots -> RequestType] /\ \A f \in Slots : fetch'[f] = fetch[f] \/ fetch'[f].served = FALSE
  <2>1. CASE NewChat(s)
    BY <1>0, <2>1 DEF NewChat
  <2>2. CASE Select(s)
    <3> DEFINE q == Request("show", s)
    <3>1. q \in RequestType /\ q.served = FALSE
      BY RequestTypes
    <3>2. PICK f \in Slots : fetch' = [AbortsId EXCEPT ![f] = q]
      BY <2>2 DEF Select
    <3> HIDE DEF q
    <3> QED BY <1>0, <3>1, <3>2
  <2> QED BY <2>1, <2>2
<1>3. failed' \in BOOLEAN /\ loading' \in BOOLEAN /\ mounted' \in {"yes", "leaving", "no"}
      /\ limited' \in {"no", "reset", "never"}
  BY <1>0, <1>1 DEF TypeOK
<1> QED BY <1>1, <1>2, <1>3, Emptied

LEMMA Left == ASSUME IInv, Unmount PROVE IInv'
<1>0. TypeOK
  BY DEF IInv
<1>1. streams' = {}
  <2>1. CASE cancel = None
    <3>1. streams = {}
      <4> SUFFICES ASSUME NEW t \in streams PROVE FALSE
        OBVIOUS
      <4>1. t = None /\ t \in Turns
        BY <2>1, Streaming
      <4> QED BY <4>1, WindowAssumption
    <3> QED BY <2>1, <3>1 DEF Unmount
  <2>2. CASE cancel # None
    BY <2>2 DEF IInv, StreamOwnsWindow, Unmount
  <2> QED BY <2>1, <2>2
<1>2. fetch' \in [Slots -> RequestType] /\ \A f \in Slots : fetch'[f].served = FALSE
  BY RequestTypes DEF Unmount
<1>3. /\ list' = <<>> /\ visit' = {} /\ busy' = FALSE /\ cancel' = None /\ failed' = FALSE /\ loading' = FALSE
      /\ limited' = "no" /\ mounted' = "no" /\ active' \in Sessions /\ UNCHANGED <<reports, remote, stray>>
  BY <1>0 DEF Unmount, TypeOK
<1> QED BY <1>1, <1>2, <1>3, Emptied

LEMMA DoneType ==
  ASSUME IInv, NEW f \in Slots, Done(f)
  PROVE  fetch' \in [Slots -> RequestType] /\ \A g \in Slots : fetch'[g] = fetch[g] \/ fetch'[g].served = FALSE
<1>1. fetch \in [Slots -> RequestType]
  BY Fetches DEF IInv
<1>2. fetch' = [fetch EXCEPT ![f] = NoFetch]
  BY DEF Done
<1> QED BY <1>1, <1>2, RequestTypes

\* Steps of requests that leave the view, the streams and the server.
LEMMA Waited ==
  ASSUME IInv, UNCHANGED <<active, list, busy, cancel, visit, streams, reports, remote, stray>>,
         failed' \in BOOLEAN, loading' \in BOOLEAN, mounted' \in {"yes", "leaving", "no"},
         limited' \in {"no", "reset", "never"},
         fetch' \in [Slots -> RequestType],
         \A f \in Slots : fetch'[f] = fetch[f] \/ fetch'[f].served = FALSE
  PROVE  IInv'
<1>1. TypeOK'
  BY DEF IInv, TypeOK, RequestType, remote
<1>2. HomeKept
  BY DEF HomeKept, remote
<1>3. SavedOwn' /\ RepliesOwn' /\ \A u \in Turns : Running(u)' => home'[u] # None
  BY <1>2, ServerKept DEF remote
<1>4. StreamOwnsWindow' /\ TranscriptClean' /\ streams' \subseteq visit'
  BY <1>2, ViewKept
<1> QED BY <1>1, <1>3, <1>4 DEF IInv

LEMMA LoadsEnd ==
  ASSUME IInv, \/ \E f \in Slots : ShowFails(f) \/ SetIdFails(f)
               \/ Retry \/ LimitEnds \/ Leave
  PROVE  IInv'
<1>0. TypeOK /\ fetch \in [Slots -> RequestType] /\ active \in Sessions
  BY Fetches DEF IInv, TypeOK
<1>1. ASSUME NEW f \in Slots, ShowFails(f) PROVE IInv'
  <2>1. failed' \in BOOLEAN /\ loading' \in BOOLEAN /\ mounted' \in {"yes", "leaving", "no"}
        /\ limited' \in {"no", "reset", "never"}
    BY <1>0, <1>1 DEF ShowFails, TypeOK
  <2>2. Done(f) /\ UNCHANGED <<active, list, busy, cancel, visit, streams, reports, remote, stray>>
    BY <1>1 DEF ShowFails
  <2> QED BY <2>1, <2>2, DoneType, Waited
<1>2. ASSUME NEW f \in Slots, SetIdFails(f) PROVE IInv'
  <2>1. Done(f) /\ UNCHANGED <<view, streams, reports, remote, mounted, stray>>
    BY <1>2 DEF SetIdFails
  <2>2. failed' \in BOOLEAN /\ loading' \in BOOLEAN /\ mounted' \in {"yes", "leaving", "no"}
        /\ limited' \in {"no", "reset", "never"}
    BY <1>0, <2>1 DEF TypeOK, view
  <2> QED BY <2>1, <2>2, DoneType, Waited DEF view
<1>3. CASE Retry
  <2> DEFINE q == Request("show", active)
  <2>1. PICK f \in Slots : fetch' = [fetch EXCEPT ![f] = q]
    BY <1>3 DEF Retry, Free
  <2>2. q \in RequestType /\ q.served = FALSE
    BY <1>0, RequestTypes
  <2> HIDE DEF q
  <2>3. fetch' \in [Slots -> RequestType] /\ \A g \in Slots : fetch'[g] = fetch[g] \/ fetch'[g].served = FALSE
    BY <1>0, <2>1, <2>2
  <2>4. failed' \in BOOLEAN /\ loading' \in BOOLEAN /\ mounted' \in {"yes", "leaving", "no"}
        /\ limited' \in {"no", "reset", "never"}
    BY <1>0, <1>3 DEF Retry, TypeOK
  <2> QED BY <1>3, <2>3, <2>4, Waited DEF Retry
<1>4. CASE Leave
  <2>1. failed' \in BOOLEAN /\ loading' \in BOOLEAN /\ mounted' \in {"yes", "leaving", "no"}
        /\ limited' \in {"no", "reset", "never"}
    BY <1>0, <1>4 DEF Leave, TypeOK, view
  <2>2. fetch' \in [Slots -> RequestType] /\ \A f \in Slots : fetch'[f] = fetch[f]
    BY <1>0, <1>4 DEF Leave
  <2> QED BY <1>4, <2>1, <2>2, Waited DEF Leave, view
<1>5. CASE LimitEnds
  <2>1. failed' \in BOOLEAN /\ loading' \in BOOLEAN /\ mounted' \in {"yes", "leaving", "no"}
        /\ limited' \in {"no", "reset", "never"}
    BY <1>0, <1>5 DEF LimitEnds, TypeOK
  <2>2. fetch' \in [Slots -> RequestType] /\ \A f \in Slots : fetch'[f] = fetch[f]
    BY <1>0, <1>5 DEF LimitEnds
  <2> QED BY <1>5, <2>1, <2>2, Waited DEF LimitEnds
<1> QED BY <1>1, <1>2, <1>3, <1>4, <1>5

\* The session's answers replace what is shown.
LEMMA Loaded == ASSUME IInv, NEW f \in Slots, Show(f) PROVE IInv'
<1> DEFINE r == fetch[f].reply
<1>0. TypeOK /\ fetch[f] \in RequestType /\ fetch[f].served
  BY Fetches DEF IInv, Show, Ready
<1>1. /\ list' = [i \in DOMAIN r |-> Stored(r[i])] /\ loading' = FALSE
      /\ stray' = (stray \/ fetch[f].session # active \/ visit # {}) /\ Done(f)
      /\ UNCHANGED <<active, busy, cancel, failed, limited, visit, streams, reports, remote, mounted>>
  BY DEF Show
<1>2. r \in Seq(Turns) /\ DOMAIN r = 1..Len(r) /\ Len(r) \in Nat /\ \A i \in DOMAIN r : r[i] \in Turns
  <2>1. r \in Seq(Turns)
    BY <1>0 DEF RequestType
  <2> QED BY <2>1, Items
<1>3. \A t \in Turns : Stored(t) \in AnswerType /\ Stored(t).turn = t /\ Stored(t).chunks = {t}
  BY DEF Stored, Answer, AnswerType
<1>4. \A i \in DOMAIN r : home[r[i]] = fetch[f].session
  BY <1>0 DEF IInv, RepliesOwn
<1> HIDE DEF r
<1>5. list' \in [1..Len(r) -> AnswerType] /\ DOMAIN list' = DOMAIN r /\ \A i \in DOMAIN r : list'[i] = Stored(r[i])
  BY <1>1, <1>2, <1>3
<1>6. list' \in Seq(AnswerType)
  BY <1>2, <1>5, SeqDef
<1>7. TypeOK'
  <2>1. fetch' \in [Slots -> RequestType]
    BY <1>1, DoneType
  <2> QED BY <1>0, <1>1, <1>6, <2>1 DEF TypeOK, AnswerType, RequestType, remote
<1>8. HomeKept
  BY <1>1 DEF HomeKept, remote
<1>9. SavedOwn' /\ RepliesOwn' /\ \A u \in Turns : Running(u)' => home'[u] # None
  BY <1>1, <1>8, DoneType, ServerKept DEF remote
<1>10. StreamOwnsWindow' /\ streams' \subseteq visit'
  BY <1>1 DEF IInv, StreamOwnsWindow, remote
<1>11. TranscriptClean'
  <2> SUFFICES ASSUME ~stray' PROVE OwnAnswers' /\ AllShown' /\ StreamLast'
    BY Parts
  <2>1. fetch[f].session = active /\ visit' = {} /\ streams' = {}
    BY <1>1 DEF IInv
  <2>2. OwnAnswers'
    BY <1>1, <1>2, <1>3, <1>4, <1>5, <2>1 DEF OwnAnswers, remote
  <2> QED BY <2>1, <2>2 DEF AllShown, StreamLast
<1> QED BY <1>7, <1>9, <1>10, <1>11 DEF IInv

LEMMA IdSet == ASSUME IInv, NEW f \in Slots, SetId(f) PROVE IInv'
<1> DEFINE r == fetch[f].reply
           a == [Last(list) EXCEPT !.id = Last(r)]
<1>0. /\ TypeOK /\ fetch[f] \in RequestType
      /\ list' = IF r = <<>> THEN list ELSE UpdateLast(list, a)
      /\ Done(f)
      /\ UNCHANGED <<active, busy, cancel, failed, loading, limited, visit, streams, reports, remote, mounted, stray>>
  BY Fetches DEF IInv, SetId
<1>1. r # <<>> => Last(r) \in Turns
  <2>1. r \in Seq(Turns)
    BY <1>0 DEF RequestType
  <2>2. r # <<>> => Len(r) \in Nat /\ Len(r) # 0
    BY <2>1, Items
  <2>3. r # <<>> => Len(r) \in 1..Len(r)
    BY <2>2
  <2> QED BY <2>1, <2>3, Items DEF Last
<1>2. CASE r = <<>>
  <2>1. failed' \in BOOLEAN /\ loading' \in BOOLEAN /\ mounted' \in {"yes", "leaving", "no"}
        /\ limited' \in {"no", "reset", "never"}
    BY <1>0 DEF TypeOK
  <2> QED BY <1>0, <1>2, <2>1, DoneType, Waited
<1>3. CASE r # <<>>
  <2>1. list # <<>> => Last(list) \in AnswerType
    BY <1>0, LastIs
  <2>2. list # <<>> => a \in AnswerType /\ a.turn = Last(list).turn /\ a.chunks = Last(list).chunks /\ a.open = Last(list).open
    BY <1>1, <1>3, <2>1 DEF AnswerType
  <2>3. list' = UpdateLast(list, a)
    BY <1>0, <1>3
  <2> HIDE DEF a, r
  <2>4. list # <<>> /\ ~stray => a.chunks \subseteq {a.turn}
    <3> SUFFICES ASSUME list # <<>>, ~stray PROVE Last(list).chunks \subseteq {Last(list).turn}
      BY <2>2
    <3>1. OwnAnswers
      BY DEF IInv, TranscriptClean, OwnAnswers
    <3>2. list \in Seq(AnswerType)
      BY <1>0, ShownTurns
    <3>3. Len(list) \in DOMAIN list /\ Last(list) = list[Len(list)]
      BY <3>2, Items DEF Last
    <3> QED BY <3>1, <3>3 DEF OwnAnswers
  <2>5. /\ list' \in Seq(AnswerType) /\ (list' = <<>> <=> list = <<>>)
        /\ list # <<>> => Last(list') = a
        /\ ~stray' => OwnAnswers' /\ AllShown'
    BY <1>0, <2>2, <2>3, <2>4, Replaced DEF remote
  <2>6. TypeOK'
    <3>1. fetch' \in [Slots -> RequestType]
      BY <1>0, DoneType
    <3> QED BY <1>0, <2>5, <3>1 DEF TypeOK, AnswerType, RequestType, remote
  <2>7. HomeKept
    BY <1>0 DEF HomeKept, remote
  <2>8. SavedOwn' /\ RepliesOwn' /\ \A u \in Turns : Running(u)' => home'[u] # None
    BY <1>0, <2>7, DoneType, ServerKept DEF remote
  <2>9. StreamOwnsWindow' /\ streams' \subseteq visit'
    BY <1>0 DEF IInv, StreamOwnsWindow, remote
  <2>10. ASSUME ~stray' PROVE StreamLast'
    <3>1. StreamLast
      BY <1>0, <2>10 DEF IInv, TranscriptClean, StreamLast
    <3> QED BY <1>0, <2>2, <2>5, <3>1 DEF StreamLast
  <2>11. TranscriptClean'
    BY <2>5, <2>10, Parts
  <2> QED BY <2>6, <2>8, <2>9, <2>11 DEF IInv
<1> QED BY <1>2, <1>3

-----------------------------------------------------------------------------
(* Reports                                                                 *)

LEMMA Uploaded == ASSUME IInv, NEW t \in Turns, Upload(t) PROVE IInv'
<1>0. TypeOK /\ active \in Sessions /\ active # None
  BY NotNone DEF IInv, TypeOK
<1>1. /\ home' = [home EXCEPT ![t] = active] /\ server' = [server EXCEPT ![t] = "running"]
      /\ home[t] = None /\ reports' = reports \union {t}
      /\ UNCHANGED <<view, streams, saved, fetch, mounted, stray>>
  BY DEF Upload
<1>2. home \in [Turns -> Sessions \union {None}]
  BY <1>0 DEF TypeOK
<1>3. HomeKept /\ home'[t] = active /\ home' \in [Turns -> Sessions \union {None}]
  BY <1>0, <1>1, <1>2 DEF HomeKept
<1>4. server' \in [Turns -> {"none", "running", "saved", "failed"}]
      /\ \A u \in Turns : server'[u] = "running" => server[u] = "running" \/ home'[u] # None
  BY <1>0, <1>1, <1>3 DEF TypeOK
<1>5. TypeOK'
  BY <1>0, <1>1, <1>3, <1>4 DEF TypeOK, view
<1>6. SavedOwn' /\ RepliesOwn' /\ \A u \in Turns : Running(u)' => home'[u] # None
  BY <1>1, <1>3, <1>4, ServerKept
<1>7. StreamOwnsWindow' /\ TranscriptClean' /\ streams' \subseteq visit'
  BY <1>1, <1>3, ViewKept DEF view
<1> QED BY <1>5, <1>6, <1>7 DEF IInv

LEMMA Reported == ASSUME IInv, NEW t \in Turns, ReportArrives(t) \/ ReportFails(t) PROVE IInv'
<1>0. TypeOK
  BY DEF IInv
<1>1. CASE ReportArrives(t)
  <2> DEFINE a == Answer(t, {t}, None, FALSE)
  <2>1. /\ list' = Append(list, a) /\ visit' = visit \union {t} /\ reports' = reports \ {t}
        /\ stray' = (stray \/ home[t] # active \/ streams # {})
        /\ UNCHANGED <<active, busy, cancel, failed, loading, limited, streams, remote, fetch, mounted>>
    BY <1>1 DEF ReportArrives
  <2>2. a \in AnswerType /\ a.turn = t /\ a.chunks = {t}
    BY DEF Answer, AnswerType
  <2> HIDE DEF a
  <2>3. HomeKept
    BY <2>1 DEF HomeKept, remote
  <2>4. ~stray' => ~stray /\ home'[t] = active /\ streams' = {}
    BY <2>1 DEF remote
  <2>5. list' \in Seq(AnswerType) /\ (~stray' => OwnAnswers' /\ AllShown')
    BY <2>1, <2>2, <2>3, <2>4, Added
  <2>6. TypeOK'
    BY <1>0, <2>1, <2>5 DEF TypeOK, AnswerType, remote
  <2>7. SavedOwn' /\ RepliesOwn' /\ \A u \in Turns : Running(u)' => home'[u] # None
    BY <2>1, <2>3, ServerKept DEF remote
  <2>8. StreamOwnsWindow' /\ streams' \subseteq visit'
    BY <2>1 DEF IInv, StreamOwnsWindow, remote
  <2>9. TranscriptClean'
    BY <2>4, <2>5, Parts DEF StreamLast
  <2> QED BY <2>6, <2>7, <2>8, <2>9 DEF IInv
<1>2. CASE ReportFails(t)
  <2>1. UNCHANGED <<view, streams, remote, fetch, stray>> /\ reports' = reports \ {t}
    BY <1>2 DEF ReportFails
  <2>2. mounted' \in {"yes", "leaving", "no"}
    BY <1>0, <1>2 DEF ReportFails, TypeOK
  <2>3. TypeOK'
    BY <1>0, <2>1, <2>2 DEF TypeOK, view, remote
  <2>4. HomeKept
    BY <2>1 DEF HomeKept, remote
  <2>5. SavedOwn' /\ RepliesOwn' /\ \A u \in Turns : Running(u)' => home'[u] # None
    BY <2>1, <2>4, ServerKept DEF remote
  <2>6. StreamOwnsWindow' /\ TranscriptClean' /\ streams' \subseteq visit'
    BY <2>1, <2>4, ViewKept DEF view
  <2> QED BY <2>3, <2>5, <2>6 DEF IInv
<1> QED BY <1>1, <1>2

-----------------------------------------------------------------------------
(* The invariant and what follows from it                                  *)

\* A finite set listed as a sequence.
LEMMA Listed ==
  ASSUME NEW S, IsFiniteSet(S)
  PROVE  SetToSeq(S) \in Seq(S)
<1> DEFINE n == Cardinality(S)
<1>1. n \in Nat
  BY FS_CardinalityType
<1>2. \E m \in Nat : ExistsBijection(1..m, S)
  BY FS_NatBijection
<1>3. PICK m \in Nat : ExistsBijection(1..m, S)
  BY <1>2
<1>4. ExistsBijection(1..n, S)
  BY <1>3, FS_CountingElements
<1>5. PICK f : f \in Bijection(1..n, S)
  BY <1>4 DEF ExistsBijection
<1>6. f \in [1..n -> S] /\ IsInjective(f)
  BY <1>5 DEF Bijection, Injection, IsInjective
<1>7. SetToSeq(S) = CHOOSE g \in [1..n -> S] : IsInjective(g)
  BY DEF SetToSeq
<1> HIDE DEF n
<1>8. SetToSeq(S) \in [1..n -> S]
  BY <1>6, <1>7
<1> QED BY <1>1, <1>8, SeqDef

LEMMA Opened == Init => IInv
<1> SUFFICES ASSUME Init PROVE IInv
  OBVIOUS
<1> DEFINE past(s) == {t \in Past : PastHome[t] = s}
<1>1. \A s \in Sessions : saved[s] \in Seq(past(s)) /\ past(s) \subseteq Turns
  <2> SUFFICES ASSUME NEW s \in Sessions PROVE saved[s] \in Seq(past(s)) /\ past(s) \subseteq Turns
    OBVIOUS
  <2>1. IsFiniteSet(past(s)) /\ past(s) \subseteq Turns
    <3>1. past(s) \in SUBSET Past /\ IsFiniteSet(Past) /\ Past \subseteq Turns
      BY WindowAssumption
    <3> QED BY <3>1, FS_Subset
  <2>2. saved[s] = SetToSeq(past(s))
    BY DEF Init
  <2> HIDE DEF past
  <2> QED BY <2>1, <2>2, Listed
<1>2. \A s \in Sessions : saved[s] \in Seq(Turns)
  BY <1>1, SeqMonotonic
<1>3. DOMAIN saved = Sessions /\ saved = [s \in Sessions |-> saved[s]]
  BY DEF Init
<1>4. saved \in [Sessions -> Seq(Turns)]
  BY <1>2, <1>3
<1>5. \A t \in Past : t \in Turns /\ home[t] = PastHome[t] /\ PastHome[t] \in Sessions
  BY WindowAssumption DEF Init
<1>6. home \in [Turns -> Sessions \union {None}]
  BY <1>5 DEF Init
<1>7. fetch \in [Slots -> RequestType] /\ \A f \in Slots : fetch[f].served = FALSE
  BY RequestTypes DEF Init
<1>8. <<>> \in Seq(AnswerType) /\ DOMAIN <<>> = {}
  BY Items
<1>9. TypeOK
  <2>1. active \in Sessions
    BY WindowAssumption DEF Init
  <2>2. server \in [Turns -> {"none", "running", "saved", "failed"}]
    BY DEF Init
  <2> QED BY <1>4, <1>6, <1>7, <1>8, <2>1, <2>2 DEF Init, TypeOK, AnswerType, RequestType
<1>10. StreamOwnsWindow /\ TranscriptClean /\ streams \subseteq visit
  BY <1>8 DEF Init, StreamOwnsWindow, TranscriptClean
<1>11. SavedOwn
  <2> SUFFICES ASSUME NEW s \in Sessions, NEW i \in DOMAIN saved[s] PROVE home[saved[s][i]] = s
    BY DEF SavedOwn
  <2>1. saved[s][i] \in past(s)
    <3> HIDE DEF past
    <3> QED BY <1>1, Items
  <2> QED BY <1>5, <2>1
<1>12. RepliesOwn /\ \A t \in Turns : Running(t) => home[t] # None
  <2>1. \A t \in Turns : server[t] # "running"
    BY DEF Init
  <2> QED BY <1>7, <2>1 DEF RepliesOwn, Running
<1> QED BY <1>9, <1>10, <1>11, <1>12 DEF IInv

LEMMA Rested == ASSUME IInv, UNCHANGED vars PROVE IInv'
<1>1. TypeOK'
  BY DEF IInv, TypeOK, vars, view, remote
<1>2. StreamOwnsWindow' /\ TranscriptClean' /\ streams' \subseteq visit'
  BY DEF IInv, StreamOwnsWindow, TranscriptClean, vars, view, remote
<1>3. SavedOwn' /\ RepliesOwn' /\ \A t \in Turns : Running(t)' => home'[t] # None
  BY DEF IInv, SavedOwn, RepliesOwn, Running, vars, view, remote
<1> QED BY <1>1, <1>2, <1>3 DEF IInv

\* No handler, callback or step of the server ends the invariant.
LEMMA Stepped == IInv /\ [Next]_vars => IInv'
<1> SUFFICES ASSUME IInv, [Next]_vars PROVE IInv'
  OBVIOUS
<1>1. ASSUME NEW t \in Turns,
             \/ Persist(t) \/ Drop(t) \/ Send(t) \/ Token(t) \/ StreamEnds(t)
             \/ Upload(t) \/ ReportArrives(t) \/ ReportFails(t)
      PROVE  IInv'
  BY <1>1, Answered, Sent, Told, Ended, Uploaded, Reported
<1>2. ASSUME NEW s \in Sessions, Select(s) \/ NewChat(s) PROVE IInv'
  BY <1>2, Switched
<1>3. ASSUME NEW f \in Slots, Serve(f) \/ Show(f) \/ ShowFails(f) \/ SetId(f) \/ SetIdFails(f) PROVE IInv'
  BY <1>3, Served, Loaded, LoadsEnd, IdSet
<1>4. CASE Retry \/ LimitEnds \/ Leave \/ Unmount
  BY <1>4, LoadsEnd, Left
<1>5. CASE UNCHANGED vars
  BY <1>5, Rested
<1> QED BY <1>1, <1>2, <1>3, <1>4, <1>5 DEF Next

\* What the window shows and streams is consistent in every state it reaches,
\* whatever the server answers and in whatever order.
THEOREM Inductive == Spec => []IInv
  BY Opened, Stepped, PTL DEF Spec

\* Every variable stays in its type.
THEOREM TypeCorrect == Spec => []TypeOK
<1>1. IInv => TypeOK
  BY DEF IInv
<1> QED BY <1>1, Inductive, PTL

\* The window is busy exactly with the one stream cancelRef would abort, which
\* was asked in the active session (handleSend, handleSelectSession,
\* handleNewChat, the unmount effect).
THEOREM StreamOwned == Spec => []StreamOwnsWindow
<1>1. IInv => StreamOwnsWindow
  BY DEF IInv
<1> QED BY <1>1, Inductive, PTL

\* Until a load or a report is used after the window has moved on, what is shown
\* are answers of the active session, each of its own tokens, and none is lost.
THEOREM TranscriptHolds == Spec => []TranscriptClean
<1>1. IInv => TranscriptClean
  BY DEF IInv
<1> QED BY <1>1, Inductive, PTL

-----------------------------------------------------------------------------
(* The login: what its counts are of, and the token.                       *)

\* The events of the last k ticks and of this one, and how many they are.
Upto(f, k) == UNION {{t} \X (1..f[t]) : t \in 0..k}
CountUpto(f, k) == Cardinality(Upto(f, k))

\* What a worker lets through in windows that are over, r of them cut short.
Allowance(r) == MaxAttempts * (1 + r)

\* The attempts of the last k ticks against the window of entry e: all that are
\* younger than the window are in its count, and its count is of attempts no older.
WindowCounts(e, let, cut) ==
    IF e.age = Window
    THEN \A k \in Ages : CountUpto(let, k) <= Allowance(CountUpto(cut, k))
    ELSE /\ \A k \in Ages : CountUpto(let, k) <= e.count + Allowance(CountUpto(cut, k))
         /\ \A k \in Ages : k < e.age => CountUpto(let, k) <= e.count
         /\ e.count <= CountUpto(let, e.age)

LInv ==
    /\ LoginTypeOK
    /\ ChatHasToken
    /\ admitted \in [Workers -> [Ages -> Nat]] /\ resets \in [Workers -> [Ages -> Nat]]
    /\ \A w \in Workers : WindowCounts(entry[w], admitted[w], resets[w])

-----------------------------------------------------------------------------
(* Counting events by their age                                            *)

LEMMA SpanOfAges ==
  /\ Window \in Nat /\ MaxAttempts \in Nat /\ Window >= 1 /\ MaxAttempts >= 1
  /\ Ages \subseteq Nat /\ \A k : k \in Ages <=> k \in Nat /\ k < Window
  /\ 0 \in Ages
  BY LoginAssumption DEF Ages

LEMMA UptoFinite ==
  ASSUME NEW f \in [Ages -> Nat], NEW k \in Ages
  PROVE  IsFiniteSet(Upto(f, k)) /\ CountUpto(f, k) \in Nat
<1> DEFINE part == [t \in 0..k |-> ({t} \X (1..f[t]))]
           P == {{t} \X (1..f[t]) : t \in 0..k}
<1>0. k \in Nat /\ 0..k \subseteq Ages
  BY SpanOfAges
<1>1. IsFiniteSet(0..k)
  <2>1. 0 \in Int /\ k \in Int
    BY <1>0
  <2> QED BY <2>1, FS_Interval, Zenon
<1>2. part \in Surjection(0..k, P)
  BY DEF Surjection
<1>3. IsFiniteSet(P)
  BY <1>1, <1>2, FS_Surjection, Zenon
<1>4. ASSUME NEW t \in 0..k PROVE IsFiniteSet({t} \X (1..f[t]))
  <2>1. f[t] \in Nat
    BY <1>0
  <2>2. IsFiniteSet(1..f[t])
    <3>1. 1 \in Int /\ f[t] \in Int
      BY <2>1
    <3> QED BY <3>1, FS_Interval, Zenon
  <2>3. IsFiniteSet({t})
    BY FS_Singleton
  <2> QED BY <2>2, <2>3, FS_Product, Zenon
<1>5. IsFiniteSet(UNION P)
  BY <1>3, <1>4, FS_UNION, Zenon
<1> QED BY <1>5, FS_CardinalityType DEF Upto, CountUpto

LEMMA UptoElement ==
  ASSUME NEW f \in [Ages -> Nat], NEW k \in Ages, NEW e
  PROVE  e \in Upto(f, k) <=> \E t \in 0..k : \E i \in 1..f[t] : e = <<t, i>>
  BY DEF Upto

\* Fewer ticks, fewer events.
LEMMA UptoGrows ==
  ASSUME NEW f \in [Ages -> Nat], NEW k \in Ages, NEW j \in Ages, j <= k
  PROVE  CountUpto(f, j) <= CountUpto(f, k)
<1>1. 0..j \subseteq 0..k
  BY SpanOfAges
<1>2. Upto(f, j) \subseteq Upto(f, k)
  BY <1>1 DEF Upto
<1> QED BY <1>2, UptoFinite, FS_Subset DEF CountUpto

\* One event more.
LEMMA OneMore ==
  ASSUME NEW f \in [Ages -> Nat]
  PROVE  /\ [f EXCEPT ![0] = @ + 1] \in [Ages -> Nat]
         /\ \A k \in Ages : CountUpto([f EXCEPT ![0] = @ + 1], k) = CountUpto(f, k) + 1
<1> DEFINE g == [f EXCEPT ![0] = @ + 1]
<1>1. g \in [Ages -> Nat] /\ g[0] = f[0] + 1 /\ f[0] \in Nat /\ \A t \in Ages : t # 0 => g[t] = f[t]
  BY SpanOfAges
<1> HIDE DEF g
<1>2. ASSUME NEW k \in Ages PROVE CountUpto(g, k) = CountUpto(f, k) + 1
  <2>0. k \in Nat /\ 0 \in 0..k /\ 0..k \subseteq Ages
    BY SpanOfAges
  <2>1. <<0, f[0] + 1>> \notin Upto(f, k)
    BY <1>1, UptoElement
  <2>2. ASSUME NEW e PROVE e \in Upto(g, k) <=> e \in Upto(f, k) \/ e = <<0, f[0] + 1>>
    <3>1. ASSUME NEW t \in 0..k, NEW i \in 1..g[t], e = <<t, i>> PROVE e \in Upto(f, k) \/ e = <<0, f[0] + 1>>
      <4>1. CASE t = 0
        <5>1. i \in 1..f[t] \/ i = f[0] + 1
          BY <1>1, <4>1
        <5> QED BY <5>1, <4>1, <3>1, UptoElement
      <4>2. CASE t # 0
        BY <4>2, <1>1, <2>0, <3>1, UptoElement
      <4> QED BY <4>1, <4>2
    <3>2. ASSUME NEW t \in 0..k, NEW i \in 1..f[t], e = <<t, i>> PROVE e \in Upto(g, k)
      <4>1. i \in 1..g[t]
        BY <1>1, <2>0
      <4> QED BY <4>1, <3>2, <1>1, UptoElement
    <3>3. <<0, f[0] + 1>> \in Upto(g, k)
      <4>1. f[0] + 1 \in 1..g[0]
        BY <1>1
      <4> QED BY <4>1, <2>0, <1>1, UptoElement
    <3> QED BY <3>1, <3>2, <3>3, <1>1, UptoElement
  <2>3. Upto(g, k) = Upto(f, k) \union {<<0, f[0] + 1>>}
    BY <2>2
  <2> QED BY <2>1, <2>3, UptoFinite, FS_AddElement DEF CountUpto
<1> QED BY <1>1, <1>2 DEF g

\* A tick makes every event one tick older; none is of this tick yet.
LEMMA AllOlder ==
  ASSUME NEW f \in [Ages -> Nat]
  PROVE  /\ Older(f) \in [Ages -> Nat]
         /\ CountUpto(Older(f), 0) = 0
         /\ \A k \in Ages : k # 0 => k - 1 \in Ages /\ CountUpto(Older(f), k) = CountUpto(f, k - 1)
<1> DEFINE g == Older(f)
<1>0. \A t \in Ages : t # 0 => t - 1 \in Ages
  BY SpanOfAges
<1>1. g \in [Ages -> Nat] /\ g[0] = 0 /\ \A t \in Ages : t # 0 => g[t] = f[t - 1]
  BY <1>0, SpanOfAges DEF Older
<1> HIDE DEF g
<1>2. CountUpto(g, 0) = 0
  <2>1. \A e : e \notin Upto(g, 0)
    <3>1. 0..0 = {0} /\ 1..g[0] = {}
      BY <1>1
    <3> QED BY <3>1, <1>1, SpanOfAges, UptoElement
  <2> QED BY <2>1, FS_EmptySet DEF CountUpto
<1>3. ASSUME NEW k \in Ages, k # 0 PROVE CountUpto(g, k) = CountUpto(f, k - 1)
  <2>0. k \in Nat /\ k - 1 \in Ages /\ 0..k \subseteq Ages /\ 0..(k - 1) \subseteq Ages
    BY <1>0, <1>3, SpanOfAges
  <2> DEFINE later == [e \in Upto(f, k - 1) |-> <<e[1] + 1, e[2]>>]
  <2>1. ASSUME NEW e \in Upto(f, k - 1)
        PROVE  /\ e[1] \in Nat /\ e = <<e[1], e[2]>>
               /\ <<e[1] + 1, e[2]>> \in Upto(g, k)
    <3>0. PICK t \in 0..(k - 1) : \E i \in 1..f[t] : e = <<t, i>>
      BY <2>0, UptoElement
    <3>1. PICK i \in 1..f[t] : e = <<t, i>>
      BY <3>0
    <3>2. t + 1 \in 0..k /\ t + 1 \in Ages /\ t \in Nat /\ t + 1 # 0
      BY <2>0
    <3>3. g[t + 1] = f[t]
      BY <3>2, <1>1
    <3>4. e[1] = t /\ e[2] = i
      BY <3>1
    <3> QED BY <3>1, <3>2, <3>3, <3>4, <1>1, UptoElement
  <2>2. ASSUME NEW e \in Upto(g, k)
        PROVE  \E d \in Upto(f, k - 1) : later[d] = e
    <3>0. PICK t \in 0..k : \E i \in 1..g[t] : e = <<t, i>>
      BY <1>1, UptoElement
    <3>1. PICK i \in 1..g[t] : e = <<t, i>>
      BY <3>0
    <3>2. t # 0
      BY <3>1, <1>1
    <3>3. t - 1 \in 0..(k - 1) /\ t \in Ages /\ (t - 1) + 1 = t
      BY <3>2, <2>0
    <3>4. g[t] = f[t - 1]
      BY <3>2, <3>3, <1>1
    <3>5. <<t - 1, i>> \in Upto(f, k - 1)
      BY <3>1, <3>3, <3>4, <2>0, UptoElement
    <3>6. later[<<t - 1, i>>] = <<t, i>>
      BY <3>3, <3>5
    <3> QED BY <3>1, <3>5, <3>6
  <2>3. later \in [Upto(f, k - 1) -> Upto(g, k)]
    BY <2>1
  <2>4. ASSUME NEW d \in Upto(f, k - 1), NEW e \in Upto(f, k - 1), later[d] = later[e] PROVE d = e
    <3>1. d[1] + 1 = e[1] + 1 /\ d[2] = e[2]
      BY <2>4
    <3>2. d[1] = e[1]
      <4>1. d[1] \in Nat /\ e[1] \in Nat
        BY <2>1, Zenon
      <4> HIDE DEF later
      <4> QED BY <3>1, <4>1
    <3>3. d = <<d[1], d[2]>> /\ e = <<e[1], e[2]>>
      BY <2>1, Zenon
    <3> QED BY <3>1, <3>2, <3>3, Zenon
  <2>5. later \in Bijection(Upto(f, k - 1), Upto(g, k))
    BY <2>2, <2>3, <2>4 DEF Bijection, Injection, Surjection, IsInjective
  <2>6. ExistsBijection(Upto(f, k - 1), Upto(g, k))
    BY <2>5, Zenon DEF ExistsBijection
  <2>7. IsFiniteSet(Upto(f, k - 1))
    BY <2>0, UptoFinite
  <2> QED BY <2>6, <2>7, FS_Bijection, Zenon DEF CountUpto
<1> QED BY <1>0, <1>1, <1>2, <1>3 DEF g

LEMMA NoneYet ==
  ASSUME NEW f \in [Ages -> Nat], \A t \in Ages : f[t] = 0, NEW k \in Ages
  PROVE  CountUpto(f, k) = 0
<1>1. 0..k \subseteq Ages
  BY SpanOfAges
<1>2. \A t \in 0..k : 1..f[t] = {}
  BY <1>1
<1>3. Upto(f, k) = {}
  BY <1>2, UptoElement
<1> QED BY <1>3, FS_EmptySet DEF CountUpto

LEMMA Allowances ==
  \A r \in Nat : /\ Allowance(r) \in Nat /\ Allowance(r) >= MaxAttempts
                 /\ Allowance(r + 1) = Allowance(r) + MaxAttempts
                 /\ MaxAttempts * (2 + r) = Allowance(r) + MaxAttempts
<1> SUFFICES ASSUME NEW r \in Nat
             PROVE  /\ Allowance(r) \in Nat /\ Allowance(r) >= MaxAttempts
                    /\ Allowance(r + 1) = Allowance(r) + MaxAttempts
                    /\ MaxAttempts * (2 + r) = Allowance(r) + MaxAttempts
  OBVIOUS
<1>1. MaxAttempts \in Nat
  BY SpanOfAges
<1>2. MaxAttempts * r \in Nat
  BY <1>1
<1>3. MaxAttempts * (1 + r) = MaxAttempts + MaxAttempts * r
  BY <1>1
<1>4. MaxAttempts * (1 + (r + 1)) = MaxAttempts * (1 + r) + MaxAttempts
  BY <1>1
<1>5. MaxAttempts * (2 + r) = MaxAttempts * (1 + r) + MaxAttempts
  BY <1>1
<1> QED BY <1>1, <1>2, <1>3, <1>4, <1>5 DEF Allowance

-----------------------------------------------------------------------------
(* The window of a worker                                                  *)

EntryType == [count : 0..MaxAttempts, age : 0..Window]

LEMMA AgesCounted ==
  ASSUME NEW f \in [Ages -> Nat]
  PROVE  \A k \in Ages : CountUpto(f, k) \in Nat
  BY UptoFinite

\* A tick: an entry whose window ends was within its limit.
LEMMA WindowAges ==
  ASSUME NEW e \in EntryType, NEW let \in [Ages -> Nat], NEW cut \in [Ages -> Nat],
         WindowCounts(e, let, cut)
  PROVE  WindowCounts([e EXCEPT !.age = IF @ < Window THEN @ + 1 ELSE @], Older(let), Older(cut))
<1> DEFINE d == [e EXCEPT !.age = IF @ < Window THEN @ + 1 ELSE @]
           L(k) == CountUpto(let, k)
           C(k) == CountUpto(cut, k)
           L1(k) == CountUpto(Older(let), k)
           C1(k) == CountUpto(Older(cut), k)
           P(r) == Allowance(r)
<1>1. /\ e.count \in Nat /\ e.count <= MaxAttempts /\ e.age \in Nat /\ e.age <= Window
      /\ d.count = e.count
      /\ d.age = IF e.age < Window THEN e.age + 1 ELSE e.age
  BY SpanOfAges DEF EntryType
<1>2. \A k \in Ages : L(k) \in Nat /\ C(k) \in Nat /\ P(C(k)) \in Nat /\ P(C(k)) >= MaxAttempts
  BY AgesCounted, Allowances
<1>3. /\ L1(0) = 0 /\ C1(0) = 0 /\ P(C1(0)) \in Nat /\ P(C1(0)) >= MaxAttempts
      /\ \A k \in Ages : k # 0 => k - 1 \in Ages /\ L1(k) = L(k - 1) /\ C1(k) = C(k - 1)
  BY AllOlder, Allowances
<1> HIDE DEF d, L, C, L1, C1, P
<1>4. CASE e.age = Window
  <2>1. \A k \in Ages : L(k) <= P(C(k))
    BY <1>4 DEF WindowCounts, L, C, P
  <2>2. \A k \in Ages : L1(k) <= P(C1(k))
    BY <2>1, <1>2, <1>3, SpanOfAges
  <2>3. d.age = Window
    BY <1>1, <1>4, SpanOfAges
  <2> QED BY <2>2, <2>3 DEF WindowCounts, L1, C1, P, d
<1>5. CASE e.age < Window
  <2>0. e.age \in Ages /\ e.age # Window /\ d.age = e.age + 1
    BY <1>1, <1>5, SpanOfAges
  <2>1. /\ \A k \in Ages : L(k) <= e.count + P(C(k))
        /\ \A k \in Ages : k < e.age => L(k) <= e.count
        /\ e.count <= L(e.age)
    BY <1>1, <2>0 DEF WindowCounts, L, C, P
  <2>2. CASE d.age = Window
    <3>1. ASSUME NEW k \in Ages PROVE L1(k) <= P(C1(k))
      <4>1. CASE k = 0
        BY <4>1, <1>3
      <4>2. CASE k # 0
        <5>1. k - 1 \in Ages /\ k - 1 < e.age /\ L1(k) = L(k - 1) /\ C1(k) = C(k - 1)
          BY <4>2, <1>3, <2>0, <2>2, <1>1, SpanOfAges
        <5>2. L(k - 1) <= e.count /\ P(C(k - 1)) \in Nat /\ P(C(k - 1)) >= MaxAttempts /\ L(k - 1) \in Nat
          BY <5>1, <2>1, <1>2
        <5> QED BY <5>1, <5>2, <1>1, SpanOfAges
      <4> QED BY <4>1, <4>2
    <3> QED BY <3>1, <2>2 DEF WindowCounts, L1, C1, P, d
  <2>3. CASE d.age # Window
    <3>0. d.age \in Ages
      BY <2>0, <2>3, <1>1, <1>5, SpanOfAges
    <3>1. ASSUME NEW k \in Ages
          PROVE  L1(k) <= d.count + P(C1(k)) /\ (k < d.age => L1(k) <= d.count)
      <4>1. CASE k = 0
        BY <4>1, <1>1, <1>3, SpanOfAges
      <4>2. CASE k # 0
        <5>1. k - 1 \in Ages /\ k \in Nat /\ L1(k) = L(k - 1) /\ C1(k) = C(k - 1)
          BY <4>2, <1>3, SpanOfAges
        <5>2. /\ L(k - 1) <= e.count + P(C(k - 1))
              /\ k - 1 < e.age => L(k - 1) <= e.count
          BY <5>1, <2>1
        <5> QED BY <5>1, <5>2, <1>1, <2>0
      <4> QED BY <4>1, <4>2
    <3>2. d.count <= L1(d.age)
      <4>1. d.age # 0 /\ d.age - 1 = e.age
        BY <2>0, <1>1
      <4>2. L1(d.age) = L(e.age)
        BY <4>1, <3>0, <1>3
      <4> QED BY <4>2, <2>1, <1>1
    <3> QED BY <3>1, <3>2, <2>3 DEF WindowCounts, L1, C1, P, d
  <2> QED BY <2>2, <2>3
<1> QED BY <1>1, <1>4, <1>5, SpanOfAges

\* An attempt let through is in the count of the window, new or not.
LEMMA WindowAdmits ==
  ASSUME NEW e \in EntryType, NEW let \in [Ages -> Nat], NEW cut \in [Ages -> Nat],
         WindowCounts(e, let, cut), NEW d,
         d = IF e.age < Window THEN e ELSE [count |-> 0, age |-> 0]
  PROVE  WindowCounts([d EXCEPT !.count = @ + 1], [let EXCEPT ![0] = @ + 1], cut)
<1> DEFINE n == [d EXCEPT !.count = @ + 1]
           L(k) == CountUpto(let, k)
           C(k) == CountUpto(cut, k)
           L1(k) == CountUpto([let EXCEPT ![0] = @ + 1], k)
           P(r) == Allowance(r)
<1>0. e.count \in Nat /\ e.age \in Nat /\ e.age <= Window
  BY SpanOfAges DEF EntryType
<1>1. /\ n.age = IF e.age < Window THEN e.age ELSE 0
      /\ n.count = (IF e.age < Window THEN e.count ELSE 0) + 1
      /\ n.age \in Ages /\ n.age # Window
  BY <1>0, SpanOfAges DEF EntryType
<1>2. \A k \in Ages : L(k) \in Nat /\ L1(k) = L(k) + 1 /\ C(k) \in Nat /\ P(C(k)) \in Nat
  BY AgesCounted, Allowances, OneMore
<1> HIDE DEF n, L, C, L1, P
<1>3. CASE e.age = Window
  <2>1. \A k \in Ages : L(k) <= P(C(k))
    BY <1>3 DEF WindowCounts, L, C, P
  <2>2. n.age = 0 /\ n.count = 1
    BY <1>1, <1>3, SpanOfAges
  <2>3. \A k \in Ages : L1(k) <= n.count + P(C(k)) /\ ~(k < n.age) /\ n.count <= L1(k)
    BY <2>1, <2>2, <1>2, SpanOfAges
  <2> QED BY <2>3, <1>1 DEF WindowCounts, L1, C, P, n
<1>4. CASE e.age < Window
  <2>0. n.age = e.age /\ n.count = e.count + 1 /\ e.age # Window
    BY <1>0, <1>1, <1>4, SpanOfAges
  <2>1. /\ \A k \in Ages : L(k) <= e.count + P(C(k))
        /\ \A k \in Ages : k < e.age => L(k) <= e.count
        /\ e.count <= L(e.age)
    BY <2>0 DEF WindowCounts, L, C, P
  <2>2. \A k \in Ages : L1(k) <= n.count + P(C(k)) /\ (k < n.age => L1(k) <= n.count)
    BY <2>0, <2>1, <1>2, <1>0
  <2>3. n.count <= L1(n.age)
    BY <2>0, <2>1, <1>0, <1>1, <1>2
  <2> QED BY <2>2, <2>3, <1>1 DEF WindowCounts, L1, C, P, n
<1> QED BY <1>0, <1>3, <1>4, SpanOfAges

\* A reset makes room for as many attempts as a window that is cut short held.
LEMMA WindowCut ==
  ASSUME NEW e \in EntryType, NEW let \in [Ages -> Nat], NEW cut \in [Ages -> Nat],
         WindowCounts(e, let, cut)
  PROVE  WindowCounts(NoEntry, let, [cut EXCEPT ![0] = @ + 1])
<1> DEFINE L(k) == CountUpto(let, k)
           C(k) == CountUpto(cut, k)
           C1(k) == CountUpto([cut EXCEPT ![0] = @ + 1], k)
           P(r) == Allowance(r)
<1>0. e.count \in Nat /\ e.count <= MaxAttempts
  BY SpanOfAges DEF EntryType
<1>1. \A k \in Ages : /\ L(k) \in Nat /\ C1(k) = C(k) + 1 /\ C(k) \in Nat /\ P(C(k)) \in Nat
                      /\ P(C1(k)) = P(C(k)) + MaxAttempts
  BY AgesCounted, Allowances, OneMore
<1>2. \A k \in Ages : L(k) <= P(C(k)) \/ L(k) <= e.count + P(C(k))
  BY DEF WindowCounts
<1> HIDE DEF L, C, C1, P
<1>3. \A k \in Ages : L(k) <= P(C1(k))
  BY <1>0, <1>1, <1>2, SpanOfAges
<1> QED BY <1>3 DEF WindowCounts, NoEntry, L, C1, P

-----------------------------------------------------------------------------
(* Every step of the login                                                 *)

LEMMA IdleType == Idle \in [pc : Stages, worker : Workers, right : BOOLEAN]
  BY LoginAssumption DEF Idle, Stages

LEMMA LoginStarts == LoginInit => LInv
<1> SUFFICES ASSUME LoginInit PROVE LInv
  OBVIOUS
<1>1. LoginTypeOK
  <2>1. NoEntry \in [count : 0..MaxAttempts, age : 0..Window]
    BY SpanOfAges DEF NoEntry
  <2>2. 0 \in 0..MaxCalls
    BY LoginAssumption
  <2> QED BY <2>1, <2>2, IdleType DEF LoginInit, LoginTypeOK
<1>2. admitted \in [Workers -> [Ages -> Nat]] /\ resets \in [Workers -> [Ages -> Nat]]
  BY DEF LoginInit
<1>3. ASSUME NEW w \in Workers PROVE WindowCounts(entry[w], admitted[w], resets[w])
  <2>1. /\ admitted[w] \in [Ages -> Nat] /\ resets[w] \in [Ages -> Nat]
        /\ \A t \in Ages : admitted[w][t] = 0 /\ resets[w][t] = 0
        /\ entry[w].age = Window
    BY DEF LoginInit, NoEntry
  <2>2. \A k \in Ages : CountUpto(admitted[w], k) = 0 /\ CountUpto(resets[w], k) = 0
    BY <2>1, NoneYet
  <2>3. \A k \in Ages : CountUpto(admitted[w], k) <= Allowance(CountUpto(resets[w], k))
    BY <2>2, Allowances, SpanOfAges
  <2> QED BY <2>1, <2>3 DEF WindowCounts
<1> QED BY <1>1, <1>2, <1>3 DEF LInv, ChatHasToken, LoginInit

\* What the counts are of, and what is kept when they stay.
LEMMA LoginTypes ==
  ASSUME LInv
  PROVE  /\ entry \in [Workers -> EntryType]
         /\ attempt \in [Clients -> [pc : Stages, worker : Workers, right : BOOLEAN]]
         /\ admitted \in [Workers -> [Ages -> Nat]] /\ resets \in [Workers -> [Ages -> Nat]]
         /\ \A w \in Workers : WindowCounts(entry[w], admitted[w], resets[w])
         /\ token \in BOOLEAN /\ shown \in BOOLEAN
         /\ calls \in 0..MaxCalls /\ logouts \in 0..MaxCalls
  BY DEF LInv, LoginTypeOK, EntryType

LEMMA Ticked ==
  ASSUME LInv, Tick
  PROVE  LInv'
<1> USE LoginTypes
<1>1. entry' \in [Workers -> EntryType]
  <2>1. ASSUME NEW e \in EntryType
        PROVE  [e EXCEPT !.age = IF @ < Window THEN @ + 1 ELSE @] \in EntryType
    BY SpanOfAges DEF EntryType
  <2> QED BY <2>1 DEF Tick
<1>2. admitted' \in [Workers -> [Ages -> Nat]] /\ resets' \in [Workers -> [Ages -> Nat]]
  BY AllOlder DEF Tick
<1>3. ASSUME NEW w \in Workers PROVE WindowCounts(entry'[w], admitted'[w], resets'[w])
  BY WindowAges DEF Tick
<1> QED BY <1>1, <1>2, <1>3 DEF LInv, LoginTypeOK, ChatHasToken, Tick, tab, EntryType, WindowCounts

AttemptType == [pc : Stages, worker : Workers, right : BOOLEAN]

\* What a step must keep that leaves the counts alone.
LEMMA CountingKept ==
  ASSUME LInv, UNCHANGED counting,
         attempt' \in [Clients -> AttemptType], token' \in BOOLEAN, shown' \in BOOLEAN,
         calls' \in 0..MaxCalls, logouts' \in 0..MaxCalls, ChatHasToken'
  PROVE  LInv'
<1>1. entry' = entry /\ admitted' = admitted /\ resets' = resets
  BY DEF counting
<1>2. \A w \in Workers : WindowCounts(entry[w], admitted[w], resets[w])'
  BY <1>1, LoginTypes DEF WindowCounts
<1> QED BY <1>1, <1>2, LoginTypes DEF LInv, LoginTypeOK, AttemptType, EntryType

\* And one that leaves the tab alone.
LEMMA TabKept ==
  ASSUME LInv, UNCHANGED tab,
         attempt' \in [Clients -> AttemptType], entry' \in [Workers -> EntryType],
         admitted' \in [Workers -> [Ages -> Nat]], resets' \in [Workers -> [Ages -> Nat]],
         \A w \in Workers : WindowCounts(entry'[w], admitted'[w], resets'[w])
  PROVE  LInv'
<1>1. token' = token /\ shown' = shown /\ calls' = calls /\ logouts' = logouts
  BY DEF tab
<1>2. ChatHasToken'
  BY <1>1 DEF LInv, ChatHasToken
<1> QED BY <1>1, <1>2, LoginTypes DEF LInv, LoginTypeOK, AttemptType, EntryType, WindowCounts

LEMMA Staged ==
  ASSUME LInv, NEW c \in Clients, NEW pc \in Stages, Stage(c, pc)
  PROVE  attempt' \in [Clients -> AttemptType]
<1>1. [attempt[c] EXCEPT !.pc = pc] \in AttemptType
  BY LoginTypes DEF AttemptType
<1>2. attempt' = [attempt EXCEPT ![c] = [attempt[c] EXCEPT !.pc = pc]]
  BY LoginTypes DEF Stage
<1> QED BY <1>1, <1>2, LoginTypes DEF AttemptType

LEMMA Submitted ==
  ASSUME LInv, NEW c \in Clients, Submit(c)
  PROVE  LInv'
<1>1. PICK w \in Workers, right \in {c = Tab, FALSE} :
        attempt' = [attempt EXCEPT ![c] = [pc |-> "sent", worker |-> w, right |-> right]]
  BY DEF Submit
<1>2. right \in BOOLEAN
  BY <1>1
<1>3. [pc |-> "sent", worker |-> w, right |-> right] \in AttemptType
  BY <1>2 DEF AttemptType, Stages
<1>4. attempt' \in [Clients -> AttemptType]
  BY <1>1, <1>3, LoginTypes DEF AttemptType
<1>5. UNCHANGED counting /\ UNCHANGED tab
  BY DEF Submit
<1> QED BY <1>4, <1>5, TabKept, LoginTypes DEF counting

\* The window the attempt falls in, and its worker.
LEMMA CurrentEntry ==
  ASSUME LInv, NEW w \in Workers
  PROVE  /\ entry[w] \in EntryType
         /\ Current(w) = IF entry[w].age < Window THEN entry[w] ELSE [count |-> 0, age |-> 0]
         /\ Current(w) \in EntryType
         /\ Current(w).count >= MaxAttempts =>
              /\ Current(w) = entry[w] /\ entry[w].age \in Ages /\ entry[w].age # Window
              /\ entry[w].count >= MaxAttempts
<1>1. entry[w] \in EntryType
  BY LoginTypes
<1>2. Current(w) = IF entry[w].age < Window THEN entry[w] ELSE [count |-> 0, age |-> 0]
  BY DEF Current
<1>3. [count |-> 0, age |-> 0] \in EntryType /\ [count |-> 0, age |-> 0].count = 0
  BY SpanOfAges DEF EntryType
<1>4. entry[w].age \in Nat /\ entry[w].count \in Nat
  BY <1>1, SpanOfAges DEF EntryType
<1> QED BY <1>1, <1>2, <1>3, <1>4, SpanOfAges

LEMMA Checked ==
  ASSUME LInv, NEW c \in Clients, Check(c)
  PROVE  LInv'
<1> DEFINE w == attempt[c].worker
<1>0. w \in Workers
  BY LoginTypes
<1>1. CASE Current(w).count >= MaxAttempts
  <2>1. entry' = [entry EXCEPT ![w] = entry[w]] /\ Stage(c, "refused")
        /\ UNCHANGED <<admitted, resets, tab>>
    BY <1>0, <1>1, CurrentEntry DEF Check
  <2>2. entry' = entry
    BY <2>1, LoginTypes
  <2>3. attempt' \in [Clients -> AttemptType]
    BY <2>1, Staged DEF Stages
  <2> QED BY <2>1, <2>2, <2>3, TabKept, LoginTypes
<1>2. CASE ~(Current(w).count >= MaxAttempts)
  <2> DEFINE n == [Current(w) EXCEPT !.count = @ + 1]
             more == [admitted[w] EXCEPT ![0] = @ + 1]
  <2>1. entry' = [entry EXCEPT ![w] = n] /\ Stage(c, "lookup")
        /\ admitted' = [admitted EXCEPT ![w] = more] /\ UNCHANGED <<resets, tab>>
    BY <1>2 DEF Check
  <2>2. n \in EntryType
    BY <1>0, <1>2, CurrentEntry, SpanOfAges DEF EntryType
  <2>3. more \in [Ages -> Nat]
    BY <1>0, LoginTypes, OneMore
  <2>4. WindowCounts(n, more, resets[w])
    BY <1>0, CurrentEntry, LoginTypes, WindowAdmits
  <2>5. attempt' \in [Clients -> AttemptType]
    BY <2>1, Staged DEF Stages
  <2> HIDE DEF n, more, w
  <2>6. entry' \in [Workers -> EntryType] /\ admitted' \in [Workers -> [Ages -> Nat]]
    BY <2>1, <2>2, <2>3, LoginTypes
  <2>7. ASSUME NEW v \in Workers PROVE WindowCounts(entry'[v], admitted'[v], resets'[v])
    <3>1. CASE v = w
      BY <3>1, <1>0, <2>1, <2>4, LoginTypes
    <3>2. CASE v # w
      BY <3>2, <2>1, LoginTypes
    <3> QED BY <3>1, <3>2
  <2> QED BY <2>1, <2>5, <2>6, <2>7, TabKept, LoginTypes
<1> QED BY <1>1, <1>2

LEMMA Judged ==
  ASSUME LInv, NEW c \in Clients, Lookup(c) \/ Reject(c)
  PROVE  LInv'
<1>1. attempt' \in [Clients -> AttemptType]
  BY Staged DEF Lookup, Reject, Stages
<1>2. UNCHANGED counting /\ UNCHANGED tab
  BY DEF Lookup, Reject
<1> QED BY <1>1, <1>2, TabKept, LoginTypes DEF counting

\* The count of a worker goes, by a success or a restart.
LEMMA WorkerReset ==
  ASSUME LInv, NEW w \in Workers,
         entry' = [entry EXCEPT ![w] = NoEntry], resets' = [resets EXCEPT ![w][0] = @ + 1],
         UNCHANGED <<admitted, tab>>, attempt' \in [Clients -> AttemptType]
  PROVE  LInv'
<1> DEFINE more == [resets[w] EXCEPT ![0] = @ + 1]
<1>1. resets' = [resets EXCEPT ![w] = more]
  OBVIOUS
<1>2. NoEntry \in EntryType
  BY SpanOfAges DEF NoEntry, EntryType
<1>3. more \in [Ages -> Nat]
  BY LoginTypes, OneMore
<1>4. WindowCounts(NoEntry, admitted[w], more)
  BY LoginTypes, WindowCut
<1> HIDE DEF more
<1>5. entry' \in [Workers -> EntryType] /\ resets' \in [Workers -> [Ages -> Nat]]
  BY <1>1, <1>2, <1>3, LoginTypes
<1>6. ASSUME NEW v \in Workers PROVE WindowCounts(entry'[v], admitted'[v], resets'[v])
  <2>1. CASE v = w
    BY <2>1, <1>1, <1>4, LoginTypes
  <2>2. CASE v # w
    BY <2>2, <1>1, LoginTypes
  <2> QED BY <2>1, <2>2
<1> QED BY <1>5, <1>6, TabKept, LoginTypes

LEMMA Accepted ==
  ASSUME LInv, NEW c \in Clients, Accept(c)
  PROVE  LInv'
<1>1. attempt[c].worker \in Workers
  BY LoginTypes
<1>2. attempt' \in [Clients -> AttemptType]
  BY Staged DEF Accept, Stages
<1> QED BY <1>1, <1>2, WorkerReset DEF Accept

LEMMA Restarted ==
  ASSUME LInv, NEW w \in Workers, Restart(w)
  PROVE  LInv'
<1>1. \A c \in Clients : [attempt[c] EXCEPT !.pc = "rejected"] \in AttemptType
  BY LoginTypes DEF AttemptType, Stages
<1>2. attempt' \in [Clients -> AttemptType]
  BY <1>1, LoginTypes DEF Restart, AttemptType
<1> QED BY <1>2, WorkerReset DEF Restart

-----------------------------------------------------------------------------
(* The tab and its token                                                   *)

LEMMA Freed ==
  ASSUME LInv, NEW c \in Clients, BackToIdle(c)
  PROVE  attempt' \in [Clients -> AttemptType]
  BY LoginTypes, IdleType DEF BackToIdle, AttemptType

LEMMA Abandoned ==
  ASSUME LInv, Abandon
  PROVE  attempt' \in [Clients -> AttemptType]
<1>1. Tab \in Clients /\ Others \subseteq Clients
  BY DEF Clients
<1>2. CASE BackToIdle(Tab)
  BY <1>1, <1>2, Freed
<1>3. ASSUME NEW o \in Others, attempt' = [attempt EXCEPT ![o] = attempt[Tab], ![Tab] = Idle]
      PROVE  attempt' \in [Clients -> AttemptType]
  <2>1. attempt[Tab] \in AttemptType /\ Idle \in AttemptType
    BY <1>1, LoginTypes, IdleType DEF AttemptType
  <2> QED BY <1>1, <1>3, <2>1, LoginTypes DEF AttemptType
<1> QED BY <1>2, <1>3 DEF Abandon

LEMMA Quiet ==
  ASSUME LInv, NEW c \in Clients, OtherIsAnswered(c)
  PROVE  LInv'
<1>1. attempt' \in [Clients -> AttemptType]
  BY Freed DEF OtherIsAnswered
<1>2. UNCHANGED counting /\ UNCHANGED tab
  BY DEF OtherIsAnswered
<1> QED BY <1>1, <1>2, TabKept, LoginTypes DEF counting

LEMMA SignedIn ==
  ASSUME LInv, SignIn \/ SignInFails
  PROVE  LInv'
<1>1. Tab \in Clients
  BY DEF Clients
<1>2. CASE SignIn
  <2>1. attempt' \in [Clients -> AttemptType]
    BY <1>1, <1>2, Freed DEF SignIn
  <2>2. /\ UNCHANGED counting /\ token' = TRUE /\ shown' = TRUE
        /\ calls' = calls /\ logouts' = logouts
    BY <1>2 DEF SignIn
  <2>3. ChatHasToken'
    BY <2>2 DEF ChatHasToken
  <2> QED BY <2>1, <2>2, <2>3, CountingKept, LoginTypes
<1>3. CASE SignInFails
  <2>1. attempt' \in [Clients -> AttemptType]
    BY <1>3, Abandoned DEF SignInFails
  <2>2. UNCHANGED counting /\ UNCHANGED tab
    BY <1>3 DEF SignInFails
  <2> QED BY <2>1, <2>2, TabKept, LoginTypes DEF counting
<1> QED BY <1>2, <1>3

\* The steps of the tab that leave its attempt alone.
LEMMA TabMoves ==
  ASSUME LInv, Call \/ CallEnds \/ SignOut \/ CallUnauthorised \/ LogoutEnds
  PROVE  LInv'
<1>0. MaxCalls \in Nat /\ calls \in Nat /\ logouts \in Nat /\ calls <= MaxCalls /\ logouts <= MaxCalls
  BY LoginTypes, LoginAssumption
<1>1. UNCHANGED counting /\ attempt' = attempt
  BY DEF Call, CallEnds, SignOut, CallUnauthorised, LogoutEnds, Logout
<1>2. calls' \in 0..MaxCalls /\ logouts' \in 0..MaxCalls
  BY <1>0 DEF Call, CallEnds, SignOut, CallUnauthorised, LogoutEnds, Logout
<1>3. token' \in BOOLEAN /\ shown' \in BOOLEAN
  BY LoginTypes DEF Call, CallEnds, SignOut, CallUnauthorised, LogoutEnds, Logout
<1>4. ChatHasToken'
  <2>1. CASE Call \/ CallEnds
    BY <2>1 DEF LInv, ChatHasToken, Call, CallEnds
  <2>2. CASE SignOut \/ CallUnauthorised
    <3>1. IF token THEN logouts' = logouts + 1 ELSE shown' = FALSE
      BY <2>2 DEF SignOut, CallUnauthorised, Logout
    <3> QED BY <3>1, <1>0 DEF ChatHasToken
  <2>3. CASE LogoutEnds
    BY <2>3 DEF ChatHasToken, LogoutEnds
  <2> QED BY <2>1, <2>2, <2>3
<1> QED BY <1>1, <1>2, <1>3, <1>4, CountingKept, LoginTypes DEF AttemptType

LEMMA Reloaded ==
  ASSUME LInv, Reload
  PROVE  LInv'
<1>1. attempt' \in [Clients -> AttemptType]
  BY Abandoned, LoginTypes DEF Reload, AttemptType
<1>2. UNCHANGED counting /\ token' = token /\ shown' = token /\ calls' = 0 /\ logouts' = 0
  BY DEF Reload
<1>3. ChatHasToken'
  BY <1>2 DEF ChatHasToken
<1>4. 0 \in 0..MaxCalls
  BY LoginAssumption
<1> QED BY <1>1, <1>2, <1>3, <1>4, CountingKept, LoginTypes

-----------------------------------------------------------------------------
(* What the login promises                                                 *)

LEMMA LoginSteps == LInv /\ [LoginNext]_loginVars => LInv'
<1> SUFFICES ASSUME LInv, [LoginNext]_loginVars PROVE LInv'
  OBVIOUS
<1>1. ASSUME NEW c \in Clients,
             Submit(c) \/ Check(c) \/ Lookup(c) \/ Reject(c) \/ Accept(c) \/ OtherIsAnswered(c)
      PROVE  LInv'
  BY <1>1, Submitted, Checked, Judged, Accepted, Quiet
<1>2. ASSUME NEW w \in Workers, Restart(w) PROVE LInv'
  BY <1>2, Restarted
<1>3. CASE Tick
  BY <1>3, Ticked
<1>4. CASE SignIn \/ SignInFails
  BY <1>4, SignedIn
<1>5. CASE Call \/ CallEnds \/ SignOut \/ CallUnauthorised \/ LogoutEnds
  BY <1>5, TabMoves
<1>6. CASE Reload
  BY <1>6, Reloaded
<1>7. CASE UNCHANGED loginVars
  <2>1. UNCHANGED counting /\ UNCHANGED tab /\ attempt' = attempt
    BY <1>7 DEF loginVars
  <2> QED BY <2>1, TabKept, LoginTypes DEF counting, AttemptType
<1> QED BY <1>1, <1>2, <1>3, <1>4, <1>5, <1>6, <1>7 DEF LoginNext

\* The counts of every worker agree with the attempts it let through, whatever
\* requests, successes and restarts come between (login_rate_limiter.py:57-95).
THEOREM LoginKept == LoginSpec => []LInv
  BY LoginStarts, LoginSteps, PTL DEF LoginSpec

\* Every variable stays in its type, and no count passes MAX_ATTEMPTS.
THEOREM LoginTyped == LoginSpec => []LoginTypeOK
<1>1. LInv => LoginTypeOK
  BY DEF LInv
<1> QED BY <1>1, LoginKept, PTL

\* In no stretch of a window's length does a worker let through more than two
\* windows' attempts, and one window's for each reset in it.
THEOREM AttemptsHeld == LoginSpec => []AttemptsBounded
<1>1. ASSUME LInv PROVE AttemptsBounded
  <2> SUFFICES ASSUME NEW w \in Workers
               PROVE  Recent(admitted[w]) <= MaxAttempts * (2 + Recent(resets[w]))
    BY DEF AttemptsBounded
  <2> DEFINE k == Window - 1
             L == CountUpto(admitted[w], k)
             C == CountUpto(resets[w], k)
  <2>1. Recent(admitted[w]) = L /\ Recent(resets[w]) = C
    BY DEF Recent, Events, Ages, CountUpto, Upto
  <2>2. k \in Ages
    BY SpanOfAges
  <2>3. L \in Nat /\ C \in Nat
    BY <1>1, <2>2, LoginTypes, AgesCounted
  <2>4. L <= Allowance(C) \/ L <= entry[w].count + Allowance(C)
    BY <1>1, <2>2, LoginTypes DEF WindowCounts
  <2>5. entry[w].count \in Nat /\ entry[w].count <= MaxAttempts
    BY <1>1, LoginTypes, SpanOfAges DEF EntryType
  <2>6. Allowance(C) \in Nat /\ MaxAttempts * (2 + C) = Allowance(C) + MaxAttempts
    BY <2>3, Allowances
  <2> HIDE DEF L, C
  <2>7. L <= MaxAttempts * (2 + C)
    BY <2>3, <2>4, <2>5, <2>6, SpanOfAges
  <2> QED BY <2>1, <2>7
<1> QED BY <1>1, LoginKept, PTL

\* A refusal is of a count that MAX_ATTEMPTS attempts let through have reached,
\* all of them within the window.
LEMMA RefusedByCount ==
  ASSUME LInv, NEW c \in Clients, Check(c), attempt'[c].pc = "refused"
  PROVE  Recent(admitted[attempt[c].worker]) >= MaxAttempts
<1> DEFINE w == attempt[c].worker
           k == Window - 1
<1>0. w \in Workers
  BY LoginTypes
<1>1. Current(w).count >= MaxAttempts
  <2>1. ASSUME Stage(c, "lookup") PROVE FALSE
    BY <2>1, LoginTypes DEF Stage
  <2> QED BY <2>1 DEF Check
<1>2. entry[w].age \in Ages /\ entry[w].age # Window /\ entry[w].count >= MaxAttempts
  BY <1>0, <1>1, CurrentEntry
<1>3. entry[w].count <= CountUpto(admitted[w], entry[w].age)
  BY <1>0, <1>2, LoginTypes DEF WindowCounts
<1>4. k \in Ages /\ entry[w].age <= k
  BY <1>2, SpanOfAges
<1>5. CountUpto(admitted[w], entry[w].age) <= CountUpto(admitted[w], k)
  BY <1>0, <1>2, <1>4, LoginTypes, UptoGrows
<1>6. /\ CountUpto(admitted[w], k) \in Nat /\ CountUpto(admitted[w], entry[w].age) \in Nat
      /\ entry[w].count \in Nat
  BY <1>0, <1>2, <1>4, LoginTypes, AgesCounted, SpanOfAges DEF EntryType
<1>7. Recent(admitted[w]) = CountUpto(admitted[w], k)
  BY DEF Recent, Events, Ages, CountUpto, Upto
<1> QED BY <1>2, <1>3, <1>5, <1>6, <1>7, SpanOfAges

\* No other step refuses anyone.
LEMMA OnlyCheckRefuses ==
  ASSUME LInv, [LoginNext]_loginVars, NEW c \in Clients,
         attempt[c].pc # "refused", attempt'[c].pc = "refused"
  PROVE  Check(c)
<1>0. attempt \in [Clients -> AttemptType] /\ Tab \in Clients /\ Others \subseteq Clients
  BY LoginTypes DEF AttemptType, Clients
<1>1. attempt' # attempt
  OBVIOUS
<1>2. Idle.pc # "refused"
  BY DEF Idle
<1>3. ASSUME NEW d \in Clients, NEW pc, Stage(d, pc) PROVE d = c /\ pc = "refused"
  BY <1>0, <1>3 DEF Stage, AttemptType
<1>4. ASSUME NEW d \in Clients, BackToIdle(d) PROVE FALSE
  BY <1>0, <1>2, <1>4 DEF BackToIdle
<1>5. ASSUME Abandon PROVE FALSE
  <2>1. ASSUME NEW o \in Others, attempt[Tab].pc \in {"sent", "lookup", "verify"},
               attempt' = [attempt EXCEPT ![o] = attempt[Tab], ![Tab] = Idle]
        PROVE  FALSE
    <3>1. attempt'[c] = attempt[c] \/ attempt'[c] = attempt[Tab] \/ attempt'[c] = Idle
      BY <1>0, <2>1
    <3> QED BY <1>2, <2>1, <3>1
  <2> QED BY <1>0, <1>4, <1>5, <2>1 DEF Abandon
<1>6. ASSUME NEW d \in Clients, Submit(d) PROVE FALSE
  <2>1. PICK w \in Workers, right \in {d = Tab, FALSE} :
          attempt' = [attempt EXCEPT ![d] = [pc |-> "sent", worker |-> w, right |-> right]]
    BY <1>6 DEF Submit
  <2> QED BY <1>0, <2>1
<1>7. ASSUME NEW w \in Workers, Restart(w) PROVE FALSE
  BY <1>0, <1>7 DEF Restart, AttemptType
<1>8. ASSUME NEW d \in Clients, Check(d) PROVE Check(c)
  BY <1>3, <1>8 DEF Check
<1>9. ASSUME NEW d \in Clients, Lookup(d) \/ Reject(d) \/ Accept(d) \/ OtherIsAnswered(d) PROVE FALSE
  BY <1>3, <1>4, <1>9 DEF Lookup, Reject, Accept, OtherIsAnswered
<1>10. CASE SignIn \/ SignInFails
  BY <1>0, <1>4, <1>5, <1>10 DEF SignIn, SignInFails
<1>11. CASE Tick \/ Call \/ CallEnds \/ SignOut \/ CallUnauthorised \/ LogoutEnds
  BY <1>1, <1>11 DEF Tick, Call, CallEnds, SignOut, CallUnauthorised, LogoutEnds, Logout
<1>12. CASE Reload
  BY <1>1, <1>5, <1>12 DEF Reload
<1>13. CASE UNCHANGED loginVars
  BY <1>1, <1>13 DEF loginVars
<1> QED BY <1>6, <1>7, <1>8, <1>9, <1>10, <1>11, <1>12, <1>13 DEF LoginNext

\* Nobody is refused unless MAX_ATTEMPTS attempts were let through by that
\* worker within the window.
THEOREM RefusalsEarned == LoginSpec => RefusalEarned
<1>1. ASSUME LInv, [LoginNext]_loginVars
      PROVE  [\A c \in Clients :
               attempt[c].pc # "refused" /\ attempt'[c].pc = "refused" =>
                 Recent(admitted[attempt[c].worker]) >= MaxAttempts]_loginVars
  BY <1>1, OnlyCheckRefuses, RefusedByCount
<1> QED BY <1>1, LoginKept, PTL DEF LoginSpec, RefusalEarned

\* The chat is on the screen without a token only while a logout awaits its POST,
\* through any logouts, late 401s, sign-ins and reloads.
THEOREM ChatSignedIn == LoginSpec => []ChatHasToken
<1>1. LInv => ChatHasToken
  BY DEF LInv
<1> QED BY <1>1, LoginKept, PTL

=============================================================================
