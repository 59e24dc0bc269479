-------------------------- MODULE ChatStoreProofs --------------------------
(* What the store keeps for any workers, sessions, turns and bounds: the     *)
(* sessions believed to exist, the turns that were written undisturbed, what *)
(* the caches may hold, and how far the count may lag.  The last section is  *)
(* about the conversation's other copy, the documents of Catalyst NoSQL.     *)
EXTENDS ChatStore, ConversationHistory, SequenceTheorems, FiniteSetTheorems, WellFoundedInduction, TLAPS

\* A turn has its question in the table.
Asked(t) ==
    \E i \in 1..Len(messages[SessionOf[t]]) :
        messages[SessionOf[t]][i] = [turn |-> t, role |-> "user"]

\* What was found for a request is so; a turn none of whose calls failed has its
\* session, its question once it is past the first insert, both messages once it
\* is past the second.
TurnOK(t) ==
    /\ turn[t].found => SessionOf[t] \in rows
    /\ turn[t].pc = "created" => SessionOf[t] \in rows
    /\ ~turn[t].hit /\ t \notin Opens =>
         /\ turn[t].pc \in {"user", "assistant", "assistanted", "trail", "count"} => SessionOf[t] \in rows
         /\ turn[t].pc = "assistant" => Asked(t)
         /\ turn[t].pc \in {"assistanted", "trail", "count", "counted", "owner", "over"} => Saved(t)

\* What worker w holds, in its caches and in its hands, was so.
CacheOK(w) ==
    /\ known[w] \subseteq rows
    /\ \A s \in Sessions :
         /\ msgs[w][s] # Absent => IsPast(msgs[w][s], messages[s])
         /\ reading[w][s] # Absent => IsPast(reading[w][s], messages[s])
         /\ list[w] # Absent => list[w][s] <= Shown[s]
         /\ listing[w] # Absent => listing[w][s] <= Shown[s]

\* The turns that raised the count of s, none of whose calls failed.
Counted(s) ==
    {t \in Turns : /\ t \notin Opens /\ ~turn[t].hit /\ SessionOf[t] = s
                   /\ turn[t].pc \in {"counted", "owner", "over"}}

CountOK(s) == count[s] >= 2 * Cardinality(Counted(s))

IInv ==
    /\ TypeOK
    /\ \A t \in Turns : TurnOK(t)
    /\ \A w \in Workers : CacheOK(w)
    /\ \A s \in Sessions : CountOK(s)

-----------------------------------------------------------------------------
(* Lists of messages                                                       *)

LEMMA PastIs ==
  ASSUME NEW old \in Seq(Message), NEW new \in Seq(Message)
  PROVE  IsPast(old, new) <=> /\ Len(old) <= Len(new)
                              /\ \A i \in 1..Len(old) : new[i] = old[i]
<1> SUFFICES ASSUME Len(old) <= Len(new)
             PROVE  SubSeq(new, 1, Len(old)) = old <=> \A i \in 1..Len(old) : new[i] = old[i]
  BY DEF IsPast
<1> DEFINE part == SubSeq(new, 1, Len(old))
<1>1. Len(old) \in Nat /\ Len(new) \in Nat
  OBVIOUS
<1>2. \A i \in 1..Len(old) : new[i] \in Message
  BY <1>1
<1>3. /\ part \in Seq(Message) /\ Len(part) = Len(old)
      /\ \A i \in 1..Len(old) : part[i] = new[i]
  <2>1. /\ part \in Seq(Message)
        /\ Len(part) = IF 1 <= Len(old) THEN Len(old) - 1 + 1 ELSE 0
        /\ \A i \in 1..(Len(old) - 1 + 1) : part[i] = new[1 + i - 1]
    BY <1>1, <1>2, SubSeqProperties
  <2> QED BY <1>1, <2>1
<1>4. (\A i \in 1..Len(old) : new[i] = old[i]) => part = old
  BY <1>3, SeqEqual
<1> QED BY <1>3, <1>4

LEMMA PastSelf == ASSUME NEW m \in Seq(Message) PROVE IsPast(m, m)
  BY PastIs

LEMMA PastAppend ==
  ASSUME NEW m \in Seq(Message), NEW x \in Message PROVE IsPast(m, Append(m, x))
<1> DEFINE a == Append(m, x)
<1>1. /\ a \in Seq(Message) /\ Len(a) = Len(m) + 1 /\ Len(m) \in Nat
      /\ \A i \in 1..Len(m) : a[i] = m[i]
  BY AppendProperties
<1> HIDE DEF a
<1>2. Len(m) <= Len(a)
  BY <1>1
<1>3. IsPast(m, a)
  BY <1>1, <1>2, PastIs
<1> QED BY <1>3 DEF a

LEMMA PastTrans ==
  ASSUME NEW a \in Seq(Message), NEW b \in Seq(Message), NEW c \in Seq(Message),
         IsPast(a, b), IsPast(b, c)
  PROVE  IsPast(a, c)
<1>1. /\ Len(a) <= Len(b) /\ \A i \in 1..Len(a) : b[i] = a[i]
      /\ Len(b) <= Len(c) /\ \A i \in 1..Len(b) : c[i] = b[i]
  BY PastIs
<1>2. Len(a) \in Nat /\ Len(b) \in Nat /\ Len(c) \in Nat
  OBVIOUS
<1>3. Len(a) <= Len(c) /\ \A i \in 1..Len(a) : c[i] = a[i]
  BY <1>1, <1>2
<1> QED BY <1>3, PastIs

\* The query's limit leaves the oldest rows.
LEMMA StoredPast ==
  ASSUME TypeOK, NEW s \in Sessions
  PROVE  Stored(s) \in Seq(Message) /\ IsPast(Stored(s), messages[s])
<1> DEFINE m == messages[s]
           k == IF Len(m) < MessageLimit THEN Len(m) ELSE MessageLimit
<1>1. m \in Seq(Message) /\ Len(m) \in Nat
  BY DEF TypeOK
<1>2. k \in Nat /\ k <= Len(m)
  BY <1>1, StoreAssumption
<1>3. Stored(s) = SubSeq(m, 1, k)
  BY DEF Stored
<1> HIDE DEF k
<1>4. \A i \in 1..k : m[i] \in Message
  BY <1>1, <1>2
<1>5. /\ SubSeq(m, 1, k) \in Seq(Message)
      /\ Len(SubSeq(m, 1, k)) = IF 1 <= k THEN k - 1 + 1 ELSE 0
      /\ \A i \in 1..(k - 1 + 1) : SubSeq(m, 1, k)[i] = m[1 + i - 1]
  BY <1>2, <1>4, SubSeqProperties
<1>6. Len(SubSeq(m, 1, k)) = k /\ \A i \in 1..k : SubSeq(m, 1, k)[i] = m[i]
  <2>1. k - 1 + 1 = k /\ \A i \in 1..k : 1 + i - 1 = i
    BY <1>2
  <2> QED BY <1>2, <1>5, <2>1
<1>7. IsPast(SubSeq(m, 1, k), m)
  BY <1>1, <1>2, <1>5, <1>6, PastIs
<1> QED BY <1>3, <1>5, <1>7

-----------------------------------------------------------------------------
(* What a step leaves true                                                 *)

TurnType == [pc : Places, worker : Workers \cup {Absent}, found : BOOLEAN, hit : BOOLEAN]

\* Rows are only added: sessions, messages at the end of a list, counts.
Grown ==
    /\ TypeOK /\ TypeOK'
    /\ rows \subseteq rows'
    /\ \A s \in Sessions : count[s] <= count'[s]
    /\ \A s \in Sessions : IsPast(messages[s], messages'[s])

\* What a cache or a reader takes is what another had, or what a query sees.
Handed ==
    \A w \in Workers :
      /\ known'[w] \subseteq known[w] \cup rows'
      /\ list'[w] \in {list[w], listing[w], Absent}
      /\ listing'[w] \in {listing[w], Shown, Absent}
      /\ \A s \in Sessions :
           /\ msgs'[w][s] \in {msgs[w][s], reading[w][s], Absent}
           /\ reading'[w][s] \in {reading[w][s], Stored(s), Absent}

LEMMA TablesStay == ASSUME TypeOK, TypeOK', UNCHANGED tables PROVE Grown
<1>1. rows' = rows /\ count' = count /\ messages' = messages
  BY DEF tables
<1>2. \A s \in Sessions : count[s] \in Nat /\ messages[s] \in Seq(Message)
  BY DEF TypeOK
<1>3. \A s \in Sessions : IsPast(messages[s], messages'[s])
  BY <1>1, <1>2, PastSelf
<1>4. \A s \in Sessions : count[s] <= count'[s]
  BY <1>1, <1>2
<1> QED BY <1>1, <1>3, <1>4 DEF Grown

LEMMA ShownGrows == ASSUME Grown, NEW s \in Sessions PROVE Shown[s] <= Shown'[s] /\ Shown[s] \in Nat /\ Shown'[s] \in Nat
<1>1. count[s] \in Nat /\ count'[s] \in Nat /\ count[s] <= count'[s] /\ rows \subseteq rows'
  BY DEF Grown, TypeOK
<1>2. Shown[s] = (IF s \in rows THEN count[s] ELSE 0) /\ Shown'[s] = (IF s \in rows' THEN count'[s] ELSE 0)
  BY DEF Shown
<1> QED BY <1>1, <1>2

LEMMA PastGrows ==
  ASSUME Grown, NEW s \in Sessions, NEW m \in Seq(Message), IsPast(m, messages[s])
  PROVE  IsPast(m, messages'[s])
<1>1. messages[s] \in Seq(Message) /\ messages'[s] \in Seq(Message) /\ IsPast(messages[s], messages'[s])
  BY DEF Grown, TypeOK
<1> QED BY <1>1, PastTrans

LEMMA CachesKept ==
  ASSUME IInv, Grown, Handed, NEW w \in Workers
  PROVE  CacheOK(w)'
<1>0. CacheOK(w) /\ TypeOK /\ rows \subseteq rows'
  BY DEF IInv, Grown
<1>1. known'[w] \subseteq rows'
  BY <1>0 DEF CacheOK, Handed
<1>2. ASSUME NEW s \in Sessions PROVE msgs'[w][s] # Absent => IsPast(msgs'[w][s], messages'[s])
  <2>1. msgs'[w][s] \in {msgs[w][s], reading[w][s], Absent}
    BY DEF Handed
  <2>2. msgs[w][s] # Absent => msgs[w][s] \in Seq(Message) /\ IsPast(msgs[w][s], messages[s])
    BY <1>0 DEF TypeOK, CacheOK
  <2>3. reading[w][s] # Absent => reading[w][s] \in Seq(Message) /\ IsPast(reading[w][s], messages[s])
    BY <1>0 DEF TypeOK, CacheOK
  <2> QED BY <2>1, <2>2, <2>3, PastGrows
<1>3. ASSUME NEW s \in Sessions PROVE reading'[w][s] # Absent => IsPast(reading'[w][s], messages'[s])
  <2>1. reading'[w][s] \in {reading[w][s], Stored(s), Absent}
    BY DEF Handed
  <2>2. reading[w][s] # Absent => reading[w][s] \in Seq(Message) /\ IsPast(reading[w][s], messages[s])
    BY <1>0 DEF TypeOK, CacheOK
  <2>3. Stored(s) \in Seq(Message) /\ IsPast(Stored(s), messages[s])
    BY <1>0, StoredPast
  <2> QED BY <2>1, <2>2, <2>3, PastGrows
<1>4. ASSUME NEW s \in Sessions
      PROVE /\ list'[w] # Absent => list'[w][s] <= Shown'[s]
            /\ listing'[w] # Absent => listing'[w][s] <= Shown'[s]
  <2>1. list'[w] \in {list[w], listing[w], Absent} /\ listing'[w] \in {listing[w], Shown, Absent}
    BY DEF Handed
  <2>2. list[w] # Absent => list[w][s] \in Nat /\ list[w][s] <= Shown[s]
    BY <1>0 DEF TypeOK, CacheOK
  <2>3. listing[w] # Absent => listing[w][s] \in Nat /\ listing[w][s] <= Shown[s]
    BY <1>0 DEF TypeOK, CacheOK
  <2>4. Shown[s] <= Shown'[s] /\ Shown[s] \in Nat /\ Shown'[s] \in Nat
    BY ShownGrows
  <2>5. ASSUME NEW x, x # Absent => x[s] \in Nat /\ x[s] <= Shown[s]
        PROVE  x # Absent => x[s] <= Shown'[s]
    BY <2>4, <2>5
  <2>6. Shown[s] <= Shown'[s]
    BY <2>4
  <2> QED BY <2>1, <2>2, <2>3, <2>5, <2>6
<1> QED BY <1>1, <1>2, <1>3, <1>4 DEF CacheOK

\* Messages stay where they are.
LEMMA MessageStays ==
  ASSUME Grown, NEW s \in Sessions, NEW i \in 1..Len(messages[s])
  PROVE  /\ Len(messages[s]) \in Nat /\ Len(messages'[s]) \in Nat
         /\ i \in 1..Len(messages'[s]) /\ messages'[s][i] = messages[s][i]
<1>1. messages[s] \in Seq(Message) /\ messages'[s] \in Seq(Message) /\ IsPast(messages[s], messages'[s])
  BY DEF Grown, TypeOK
<1>2. Len(messages[s]) <= Len(messages'[s]) /\ \A j \in 1..Len(messages[s]) : messages'[s][j] = messages[s][j]
  BY <1>1, PastIs
<1>3. Len(messages[s]) \in Nat /\ Len(messages'[s]) \in Nat
  BY <1>1
<1> QED BY <1>2, <1>3

LEMMA AskedStays ==
  ASSUME Grown, NEW t \in Turns PROVE (Asked(t) => Asked(t)') /\ (Saved(t) => Saved(t)')
<1>1. SessionOf[t] \in Sessions
  BY StoreAssumption
<1>2. Asked(t) => Asked(t)'
  BY <1>1, MessageStays DEF Asked
<1>3. Saved(t) => Saved(t)'
  <2> SUFFICES ASSUME Saved(t) PROVE Saved(t)'
    OBVIOUS
  <2> DEFINE s == SessionOf[t]
  <2>1. PICK i \in 1..Len(messages[s]), j \in 1..Len(messages[s]) :
          /\ i < j
          /\ messages[s][i] = [turn |-> t, role |-> "user"]
          /\ messages[s][j] = [turn |-> t, role |-> "assistant"]
    BY DEF Saved
  <2>2. /\ i \in 1..Len(messages'[s]) /\ messages'[s][i] = messages[s][i]
        /\ j \in 1..Len(messages'[s]) /\ messages'[s][j] = messages[s][j]
    BY <1>1, <2>1, MessageStays
  <2> QED BY <2>1, <2>2 DEF Saved
<1> QED BY <1>2, <1>3

LEMMA TurnStays ==
  ASSUME IInv, Grown, NEW t \in Turns, turn'[t] = turn[t]
  PROVE  TurnOK(t)'
<1>1. TurnOK(t) /\ rows \subseteq rows'
  BY DEF IInv, Grown
<1>2. (Asked(t) => Asked(t)') /\ (Saved(t) => Saved(t)')
  BY AskedStays
<1> QED BY <1>1, <1>2 DEF TurnOK

LEMMA CountsKept ==
  ASSUME IInv, Grown, NEW s \in Sessions,
         \/ Counted(s)' \subseteq Counted(s)
         \/ \E t \in Turns : Counted(s)' \subseteq Counted(s) \cup {t} /\ count'[s] = count[s] + 2
  PROVE  CountOK(s)'
<1>1. IsFiniteSet(Counted(s)) /\ IsFiniteSet(Counted(s)') /\ Cardinality(Counted(s)) \in Nat /\ Cardinality(Counted(s)') \in Nat
  <2>1. IsFiniteSet(Turns) /\ Counted(s) \in SUBSET Turns /\ Counted(s)' \in SUBSET Turns
    BY StoreAssumption DEF Counted
  <2>2. IsFiniteSet(Counted(s)) /\ IsFiniteSet(Counted(s)')
    BY <2>1, FS_Subset
  <2> QED BY <2>2, FS_CardinalityType
<1>2. count[s] \in Nat /\ count'[s] \in Nat /\ count[s] <= count'[s] /\ count[s] >= 2 * Cardinality(Counted(s))
  BY DEF IInv, Grown, TypeOK, CountOK
<1>3. CASE Counted(s)' \subseteq Counted(s)
  <2>1. Cardinality(Counted(s)') <= Cardinality(Counted(s))
    BY <1>1, <1>3, FS_Subset
  <2> QED BY <1>1, <1>2, <2>1 DEF CountOK
<1>4. CASE \E t \in Turns : Counted(s)' \subseteq Counted(s) \cup {t} /\ count'[s] = count[s] + 2
  <2>1. PICK t \in Turns : Counted(s)' \subseteq Counted(s) \cup {t} /\ count'[s] = count[s] + 2
    BY <1>4
  <2>2. /\ IsFiniteSet(Counted(s) \cup {t})
        /\ Cardinality(Counted(s) \cup {t}) = IF t \in Counted(s) THEN Cardinality(Counted(s)) ELSE Cardinality(Counted(s)) + 1
    BY <1>1, FS_AddElement
  <2>3. Cardinality(Counted(s)') <= Cardinality(Counted(s) \cup {t})
    BY <2>1, <2>2, FS_Subset
  <2>4. Cardinality(Counted(s)') <= Cardinality(Counted(s)) + 1
    BY <1>1, <2>2, <2>3
  <2> QED BY <1>1, <1>2, <2>1, <2>4 DEF CountOK
<1> QED BY <1>3, <1>4

-----------------------------------------------------------------------------
(* The steps of a request                                                  *)

\* The request of t goes on as x, and all else it does is allowed.
LEMMA Goes ==
  ASSUME IInv, Grown, Handed, NEW t \in Turns, NEW x \in TurnType,
         turn' = [turn EXCEPT ![t] = x],
         TurnOK(t)',
         x.pc \in {"counted", "owner", "over"} /\ ~x.hit /\ t \notin Opens =>
           \/ turn[t].pc \in {"counted", "owner", "over"} /\ ~turn[t].hit
           \/ count'[SessionOf[t]] = count[SessionOf[t]] + 2
  PROVE  IInv'
<1>1. TypeOK' /\ turn \in [Turns -> TurnType]
  BY DEF Grown, TypeOK, TurnType
<1>2. turn'[t] = x /\ \A u \in Turns \ {t} : turn'[u] = turn[u]
  BY <1>1
<1>3. \A u \in Turns : TurnOK(u)'
  BY <1>2, TurnStays
<1>4. \A w \in Workers : CacheOK(w)'
  BY CachesKept
<1>5. ASSUME NEW s \in Sessions PROVE CountOK(s)'
  <2>1. Counted(s)' \subseteq Counted(s) \cup {t}
    BY <1>2 DEF Counted
  <2>2. t \in Counted(s)' => t \in Counted(s) \/ count'[s] = count[s] + 2
    BY <1>2 DEF Counted
  <2>3. CASE t \in Counted(s)' /\ t \notin Counted(s)
    BY <2>1, <2>2, <2>3, CountsKept
  <2>4. CASE ~(t \in Counted(s)' /\ t \notin Counted(s))
    <3>1. Counted(s)' \subseteq Counted(s)
      BY <2>1, <2>4
    <3> QED BY <3>1, CountsKept
  <2> QED BY <2>3, <2>4
<1> QED BY <1>1, <1>3, <1>4, <1>5 DEF IInv

\* Nothing but a request changes.
LEMMA GoesAlone ==
  ASSUME IInv, UNCHANGED <<tables, caches, reads>>, errors' \in Nat,
         NEW t \in Turns, NEW x \in TurnType, turn' = [turn EXCEPT ![t] = x],
         TurnOK(t)',
         x.pc \in {"counted", "owner", "over"} /\ ~x.hit /\ t \notin Opens =>
           turn[t].pc \in {"counted", "owner", "over"} /\ ~turn[t].hit
  PROVE  IInv'
<1>1. TypeOK /\ TypeOK'
  BY DEF IInv, TypeOK, TurnType, tables, caches, reads
<1>2. Grown
  BY <1>1, TablesStay
<1>3. Handed
  BY DEF Handed, caches, reads
<1> QED BY <1>2, <1>3, Goes

\* The record of a request, with one place exchanged for another.
LEMMA TurnFields ==
  ASSUME TypeOK, NEW t \in Turns
  PROVE  /\ turn[t] \in TurnType /\ turn \in [Turns -> TurnType]
         /\ SessionOf[t] \in Sessions
         /\ \A p \in Places : /\ [turn[t] EXCEPT !.pc = p] \in TurnType
                              /\ [turn[t] EXCEPT !.pc = p].pc = p
                              /\ [turn[t] EXCEPT !.pc = p].hit = turn[t].hit
                              /\ [turn[t] EXCEPT !.pc = p].found = turn[t].found
<1>1. turn[t] \in TurnType /\ turn \in [Turns -> TurnType]
  BY DEF TypeOK, TurnType
<1>2. SessionOf[t] \in Sessions
  BY StoreAssumption
<1> QED BY <1>1, <1>2 DEF TurnType

LEMMA Gone ==
  ASSUME TypeOK, NEW t \in Turns, NEW p \in Places, Goto(t, p)
  PROVE  /\ turn' = [turn EXCEPT ![t] = [turn[t] EXCEPT !.pc = p]]
         /\ turn'[t].pc = p /\ turn'[t].hit = turn[t].hit /\ turn'[t].found = turn[t].found
<1>1. turn' = [turn EXCEPT ![t] = [turn[t] EXCEPT !.pc = p]]
  BY DEF Goto
<1> QED BY <1>1, TurnFields

LEMMA Received ==
  ASSUME IInv, NEW t \in Turns, NEW w \in Workers,
         Receive(t, w) \/ ReceiveReport(t, w) \/ ReceiveOpen(t, w)
  PROVE  IInv'
<1>0. TypeOK /\ TurnOK(t) /\ CacheOK(w) /\ errors' \in Nat /\ UNCHANGED <<tables, caches, reads>>
  BY DEF IInv, TypeOK, Receive, ReceiveReport, ReceiveOpen
<1>1. turn[t] \in TurnType /\ turn \in [Turns -> TurnType]
  BY <1>0, TurnFields
<1>2. CASE ReceiveOpen(t, w)
  <2> DEFINE x == [turn[t] EXCEPT !.pc = "create", !.worker = w]
  <2>1. x \in TurnType /\ x.pc = "create" /\ x.found = turn[t].found
    BY <1>1 DEF TurnType, Places, Persisting
  <2>2. turn' = [turn EXCEPT ![t] = x]
    BY <1>2 DEF ReceiveOpen
  <2>3. turn'[t] = x
    BY <1>1, <2>2
  <2> HIDE DEF x
  <2>4. TurnOK(t)'
    BY <1>0, <2>1, <2>3 DEF TurnOK, tables
  <2> QED BY <1>0, <2>1, <2>2, <2>4, GoesAlone
<1>3. CASE LookUp(t, w)
  <2> DEFINE s == SessionOf[t]
             hit == s \in known[w]
             x == [turn[t] EXCEPT !.pc = IF hit THEN "answer" ELSE "lookup", !.worker = w,
                                  !.found = hit \/ s \in rows]
  <2>1. x \in TurnType /\ x.pc \in {"answer", "lookup"} /\ x.found = (hit \/ s \in rows)
    BY <1>1 DEF TurnType, Places, Persisting
  <2>2. turn' = [turn EXCEPT ![t] = x]
    BY <1>3 DEF LookUp
  <2>3. turn'[t] = x
    BY <1>1, <2>2
  <2>4. x.found => s \in rows
    BY <1>0, <2>1 DEF CacheOK
  <2> HIDE DEF x
  <2>5. TurnOK(t)'
    BY <1>0, <2>1, <2>3, <2>4 DEF TurnOK, tables
  <2> QED BY <1>0, <2>1, <2>2, <2>5, GoesAlone
<1> QED BY <1>2, <1>3 DEF Receive, ReceiveReport

\* Steps that only take the request to another place.
LEMMA Turns1 ==
  ASSUME IInv, NEW t \in Turns,
         \/ Answer(t) \/ AnswerReport(t) \/ RejectReport(t) \/ GiveUp(t)
         \/ UserRefused(t) \/ TrailSkipped(t)
  PROVE  IInv'
<1>0. TypeOK /\ TurnOK(t) /\ errors' \in Nat /\ UNCHANGED <<tables, caches, reads>>
  BY DEF IInv, TypeOK, Answer, AnswerReport, RejectReport, GiveUp, UserRefused, TrailSkipped
<1>1. ASSUME NEW p \in {"gone", "user", "create", "count"}, Goto(t, p),
             p = "user" => turn[t].found,
             p = "count" => \/ turn[t].pc = "trail"
                            \/ turn[t].pc = "user" /\ SessionOf[t] \notin rows
      PROVE  IInv'
  <2> DEFINE x == [turn[t] EXCEPT !.pc = p]
  <2>0. p \in Places
    BY DEF Places, Persisting
  <2>1. x \in TurnType /\ x.pc = p
    BY <1>0, <2>0, TurnFields
  <2>2. turn' = [turn EXCEPT ![t] = x] /\ turn'[t].pc = p /\ turn'[t].hit = turn[t].hit /\ turn'[t].found = turn[t].found
    BY <1>0, <1>1, <2>0, Gone
  <2> HIDE DEF x
  <2>3. (Asked(t) <=> Asked(t)') /\ (Saved(t) <=> Saved(t)') /\ rows' = rows
    BY <1>0 DEF Asked, Saved, tables
  <2>4. TurnOK(t)'
    BY <1>0, <1>1, <2>2, <2>3 DEF TurnOK
  <2> QED BY <1>0, <2>1, <2>2, <2>4, GoesAlone
<1>2. Answer(t) \/ AnswerReport(t) \/ RejectReport(t) \/ GiveUp(t) => IInv'
  BY <1>1 DEF Answer, AnswerReport, RejectReport, GiveUp
<1>3. UserRefused(t) \/ TrailSkipped(t) => IInv'
  BY <1>1 DEF UserRefused, TrailSkipped, At
<1> QED BY <1>2, <1>3

\* A call that fails marks its request.
LEMMA Failed ==
  ASSUME IInv, NEW t \in Turns, CallFails(t) PROVE IInv'
<1>0. TypeOK /\ TurnOK(t) /\ errors' \in Nat /\ UNCHANGED <<tables, caches, reads>>
  <2>1. TypeOK /\ TurnOK(t)
    BY DEF IInv
  <2>2. errors \in Nat /\ errors' = errors + 1
    BY <2>1 DEF TypeOK, CallFails
  <2> QED BY <2>1, <2>2 DEF CallFails
<1>1. turn[t] \in TurnType /\ turn \in [Turns -> TurnType]
  BY <1>0, TurnFields
<1> DEFINE x == [turn[t] EXCEPT !.pc = AfterFailure(t), !.hit = TRUE,
                               !.found = turn[t].found /\ ~At(t, {"lookup"})]
<1>2. AfterFailure(t) \in {"answer", "over", "user", "count"}
  BY DEF AfterFailure
<1>3. x \in TurnType /\ x.pc = AfterFailure(t) /\ x.hit = TRUE /\ (x.found => turn[t].found)
  BY <1>1, <1>2 DEF TurnType, Places, Persisting
<1>4. turn' = [turn EXCEPT ![t] = x]
  BY DEF CallFails
<1>5. turn'[t] = x
  BY <1>1, <1>4
<1> HIDE DEF x
<1>6. TurnOK(t)'
  BY <1>0, <1>2, <1>3, <1>5 DEF TurnOK, tables
<1> QED BY <1>0, <1>3, <1>4, <1>6, GoesAlone

LEMMA MessagesDropped ==
  ASSUME msgs \in [Workers -> [Sessions -> Seq(Message) \cup {Absent}]],
         NEW w, NEW s \in Sessions, msgs' = [msgs EXCEPT ![w][s] = Absent]
  PROVE  /\ msgs' \in [Workers -> [Sessions -> Seq(Message) \cup {Absent}]]
         /\ \A v \in Workers, z \in Sessions : msgs'[v][z] \in {msgs[v][z], Absent}
<1> DEFINE m == [msgs[w] EXCEPT ![s] = Absent]
<1>1. msgs' = [msgs EXCEPT ![w] = m]
  OBVIOUS
<1>2. ASSUME w \in Workers PROVE m \in [Sessions -> Seq(Message) \cup {Absent}]
                                /\ \A z \in Sessions : m[z] \in {msgs[w][z], Absent}
  <2>1. msgs[w] \in [Sessions -> Seq(Message) \cup {Absent}]
    BY <1>2
  <2> QED BY <2>1
<1> HIDE DEF m
<1>3. CASE w \in Workers
  <2>1. msgs'[w] = m /\ \A v \in Workers \ {w} : msgs'[v] = msgs[v]
    BY <1>1, <1>3
  <2>2. msgs' \in [Workers -> [Sessions -> Seq(Message) \cup {Absent}]]
    BY <1>1, <1>2, <1>3
  <2> QED BY <1>2, <1>3, <2>1, <2>2
<1>4. CASE w \notin Workers
  <2>1. msgs' = msgs
    BY <1>1, <1>4
  <2> QED BY <2>1
<1> QED BY <1>3, <1>4

\* Replies of queries: what the process remembers is what the query found.
LEMMA Remembered ==
  ASSUME IInv, NEW t \in Turns,
         LookupReply(t) \/ CreateReply(t) \/ AssistantReply(t) \/ CountReply(t) \/ OwnerReply(t)
  PROVE  IInv'
<1>0. TypeOK /\ TurnOK(t) /\ UNCHANGED <<tables, reads, errors>>
  BY DEF IInv, LookupReply, CreateReply, AssistantReply, CountReply, OwnerReply
<1>1. SessionOf[t] \in Sessions /\ turn \in [Turns -> TurnType] /\ turn[t] \in TurnType
  BY <1>0, TurnFields
<1>2. ASSUME NEW x \in TurnType, turn' = [turn EXCEPT ![t] = x], x.hit = turn[t].hit,
             x.found => SessionOf[t] \in rows,
             \/ x.pc = "answer"
             \/ x.pc = "user" /\ turn[t].pc = "created"
             \/ x.pc \in {"trail", "count"} /\ turn[t].pc = "assistanted"
             \/ x.pc = "owner" /\ turn[t].pc = "counted"
             \/ x.pc = "over" /\ (t \in Opens \/ turn[t].pc \in {"counted", "owner"}),
             known' = known \/ (Remember(turn[t].worker, SessionOf[t]) /\ SessionOf[t] \in rows),
             list' = list \/ InvalidateList(turn[t].worker),
             msgs' = msgs \/ msgs' = [msgs EXCEPT ![turn[t].worker][SessionOf[t]] = Absent]
      PROVE  IInv'
  <2>1. turn'[t] = x /\ turn' \in [Turns -> TurnType]
    BY <1>1, <1>2
  <2>2. known' \in [Workers -> SUBSET Sessions] /\ \A w \in Workers : known'[w] \subseteq known[w] \cup rows
    <3>1. known \in [Workers -> SUBSET Sessions]
      BY <1>0 DEF TypeOK
    <3>2. CASE known' = known
      BY <3>1, <3>2
    <3>3. CASE Remember(turn[t].worker, SessionOf[t]) /\ SessionOf[t] \in rows
      <4> DEFINE w == turn[t].worker
                 k == known[w] \cup {SessionOf[t]}
      <4>1. known' = [known EXCEPT ![w] = k]
        BY <3>3 DEF Remember
      <4>2. w \in Workers => k \in SUBSET Sessions /\ k \subseteq known[w] \cup rows
        BY <1>1, <3>1, <3>3
      <4> HIDE DEF k, w
      <4> QED BY <3>1, <4>1, <4>2
    <3> QED BY <1>2, <3>2, <3>3
  <2>3. list' \in [Workers -> [Sessions -> Nat] \cup {Absent}] /\ \A w \in Workers : list'[w] \in {list[w], Absent}
    BY <1>0, <1>2 DEF TypeOK, InvalidateList
  <2>4. /\ msgs' \in [Workers -> [Sessions -> Seq(Message) \cup {Absent}]]
        /\ \A w \in Workers, s \in Sessions : msgs'[w][s] \in {msgs[w][s], Absent}
    <3>1. msgs \in [Workers -> [Sessions -> Seq(Message) \cup {Absent}]]
      BY <1>0 DEF TypeOK
    <3>2. CASE msgs' = msgs
      BY <3>1, <3>2
    <3>3. CASE msgs' = [msgs EXCEPT ![turn[t].worker][SessionOf[t]] = Absent]
      BY <1>1, <3>1, <3>3, MessagesDropped
    <3> QED BY <1>2, <3>2, <3>3
  <2>5. TypeOK'
    BY <1>0, <2>1, <2>2, <2>3, <2>4 DEF TypeOK, TurnType, tables, reads
  <2>6. Grown
    BY <1>0, <2>5, TablesStay
  <2>7. Handed
    BY <1>0, <2>2, <2>3, <2>4 DEF Handed, reads, tables
  <2>8. (Asked(t) <=> Asked(t)') /\ (Saved(t) <=> Saved(t)') /\ rows' = rows
    BY <1>0 DEF Asked, Saved, tables
  <2>9. TurnOK(t)'
    BY <1>0, <1>2, <2>1, <2>8 DEF TurnOK
  <2>10. x.pc \in {"counted", "owner", "over"} /\ ~x.hit /\ t \notin Opens =>
           turn[t].pc \in {"counted", "owner", "over"} /\ ~turn[t].hit
    BY <1>2
  <2> QED BY <1>2, <2>6, <2>7, <2>9, <2>10, Goes
<1>3. ASSUME NEW p \in {"answer", "user", "trail", "count", "over"}, Goto(t, p),
             \/ p = "answer"
             \/ p = "user" /\ turn[t].pc = "created"
             \/ p \in {"trail", "count"} /\ turn[t].pc = "assistanted"
             \/ p = "over" /\ (t \in Opens \/ turn[t].pc \in {"counted", "owner"}),
             known' = known \/ (Remember(turn[t].worker, SessionOf[t]) /\ SessionOf[t] \in rows),
             list' = list \/ InvalidateList(turn[t].worker),
             msgs' = msgs \/ msgs' = [msgs EXCEPT ![turn[t].worker][SessionOf[t]] = Absent]
      PROVE  IInv'
  <2> DEFINE x == [turn[t] EXCEPT !.pc = p]
  <2>0. p \in Places
    BY DEF Places, Persisting
  <2>1. x \in TurnType /\ x.pc = p /\ x.hit = turn[t].hit /\ x.found = turn[t].found
    BY <1>0, <2>0, TurnFields
  <2>2. turn' = [turn EXCEPT ![t] = x]
    BY <1>3 DEF Goto
  <2>3. x.found => SessionOf[t] \in rows
    BY <1>0, <2>1 DEF TurnOK
  <2> HIDE DEF x
  <2> QED BY <1>2, <1>3, <2>1, <2>2, <2>3
<1>4. CASE LookupReply(t)
  <2>1. turn[t].found => SessionOf[t] \in rows
    BY <1>0 DEF TurnOK
  <2> QED BY <1>3, <1>4, <2>1 DEF LookupReply
<1>5. CASE CreateReply(t)
  <2>1. turn[t].pc = "created" /\ SessionOf[t] \in rows
    BY <1>0, <1>5 DEF CreateReply, At, TurnOK
  <2> QED BY <1>3, <1>5, <2>1 DEF CreateReply
<1>6. CASE AssistantReply(t)
  BY <1>3, <1>6 DEF AssistantReply, At, AfterPair
<1>7. CASE OwnerReply(t)
  <2>1. turn[t].found => SessionOf[t] \in rows
    BY <1>0 DEF TurnOK
  <2>2. turn[t].pc = "owner"
    BY <1>7 DEF OwnerReply, At
  <2> QED BY <1>3, <1>7, <2>1, <2>2 DEF OwnerReply
<1>8. CASE CountReply(t)
  <2> DEFINE s == SessionOf[t]
             w == turn[t].worker
  <2>1. turn[t].pc = "counted" /\ known' = known /\ msgs' = msgs
    BY <1>8 DEF CountReply, At
  <2>2. CASE InvalidateList(w) /\ Goto(t, "over")
    BY <1>3, <2>1, <2>2
  <2>3. CASE /\ turn' = [turn EXCEPT ![t].pc = "owner", ![t].found = s \in rows]
             /\ UNCHANGED list
    <3> DEFINE x == [turn[t] EXCEPT !.pc = "owner", !.found = s \in rows]
    <3>0. "owner" \in Places /\ (s \in rows) \in BOOLEAN
      BY DEF Places, Persisting
    <3>1. x \in TurnType /\ x.pc = "owner" /\ x.hit = turn[t].hit /\ (x.found <=> s \in rows)
      BY <1>1, <3>0 DEF TurnType
    <3>2. turn' = [turn EXCEPT ![t] = x]
      BY <1>1, <2>3
    <3> HIDE DEF x
    <3> QED BY <1>2, <2>1, <2>3, <3>1, <3>2
  <2> QED BY <1>8, <2>2, <2>3 DEF CountReply
<1> QED BY <1>4, <1>5, <1>6, <1>7, <1>8

-----------------------------------------------------------------------------
(* Writes of a request                                                     *)

LEMMA Created == ASSUME IInv, NEW t \in Turns, CreateCommits(t) PROVE IInv'
<1>0. TypeOK /\ TurnOK(t) /\ UNCHANGED <<count, messages, trails, caches, reads, errors>>
  BY DEF IInv, CreateCommits
<1> DEFINE x == [turn[t] EXCEPT !.pc = "created"]
<1>1. "created" \in Places
  BY DEF Places, Persisting
<1>2. x \in TurnType /\ x.pc = "created" /\ turn' = [turn EXCEPT ![t] = x] /\ turn'[t].pc = "created"
      /\ turn' \in [Turns -> TurnType] /\ rows' = rows \cup {SessionOf[t]}
  <2>1. Goto(t, "created") /\ rows' = rows \cup {SessionOf[t]}
    BY DEF CreateCommits
  <2>2. x \in TurnType /\ x.pc = "created" /\ turn \in [Turns -> TurnType]
    BY <1>0, <1>1, TurnFields
  <2>3. turn' = [turn EXCEPT ![t] = x]
    BY <2>1 DEF Goto
  <2> HIDE DEF x
  <2> QED BY <2>1, <2>2, <2>3
<1> HIDE DEF x
<1>3. TypeOK'
  <2>1. rows' \subseteq Sessions
    BY <1>0, <1>2, TurnFields DEF TypeOK
  <2> QED BY <1>0, <1>2, <2>1 DEF TypeOK, TurnType, caches, reads
<1>4. Grown
  <2>1. \A s \in Sessions : messages[s] \in Seq(Message) /\ count[s] \in Nat
    BY <1>0 DEF TypeOK
  <2>2. \A s \in Sessions : IsPast(messages[s], messages'[s]) /\ count[s] <= count'[s]
    BY <1>0, <2>1, PastSelf
  <2> QED BY <1>0, <1>2, <1>3, <2>2 DEF Grown
<1>5. Handed
  BY <1>0 DEF Handed, caches, reads
<1>6. TurnOK(t)'
  <2>1. SessionOf[t] \in rows'
    BY <1>2
  <2> QED BY <1>2, <2>1 DEF TurnOK
<1> QED BY <1>2, <1>4, <1>5, <1>6, Goes

\* One message is inserted at the end of its session's list.
LEMMA Inserted ==
  ASSUME IInv, NEW t \in Turns, NEW role \in Roles, NEW p \in {"assistant", "assistanted"},
         Append1(t, role), Goto(t, p), UNCHANGED <<rows, count, trails, caches, reads, errors>>,
         ~turn[t].hit /\ t \notin Opens => SessionOf[t] \in rows,
         p = "assistant" => role = "user",
         p = "assistanted" => role = "assistant" /\ turn[t].pc = "assistant"
  PROVE  IInv'
<1> DEFINE s == SessionOf[t]
           m == [turn |-> t, role |-> role]
           x == [turn[t] EXCEPT !.pc = p]
<1>0. TypeOK /\ TurnOK(t)
  BY DEF IInv
<1>1. s \in Sessions /\ m \in Message /\ messages[s] \in Seq(Message) /\ Len(messages[s]) \in Nat
  <2>1. s \in Sessions
    BY StoreAssumption
  <2>2. m \in Message
    BY DEF Message
  <2>3. messages[s] \in Seq(Message)
    BY <1>0, <2>1 DEF TypeOK
  <2> QED BY <2>1, <2>2, <2>3
<1>2. p \in Places
  BY DEF Places, Persisting
<1>3. x \in TurnType /\ x.pc = p /\ turn' = [turn EXCEPT ![t] = x] /\ turn \in [Turns -> TurnType]
      /\ turn'[t].pc = p /\ turn'[t].hit = turn[t].hit /\ turn'[t].found = turn[t].found
  BY <1>0, <1>2, TurnFields, Gone
<1> HIDE DEF x
<1>4. messages' = [messages EXCEPT ![s] = Append(messages[s], m)]
  BY DEF Append1
<1> HIDE DEF m
<1>5. /\ Append(messages[s], m) \in Seq(Message)
      /\ Len(Append(messages[s], m)) = Len(messages[s]) + 1
      /\ Append(messages[s], m)[Len(messages[s]) + 1] = m
  BY <1>1, AppendProperties
<1>6. /\ messages'[s] = Append(messages[s], m)
      /\ messages' \in [Sessions -> Seq(Message)]
      /\ \A z \in Sessions \ {s} : messages'[z] = messages[z]
  BY <1>0, <1>1, <1>4, <1>5 DEF TypeOK
<1>7. TypeOK'
  BY <1>0, <1>3, <1>6 DEF TypeOK, TurnType, caches, reads
<1>8. Grown
  <2>1. \A z \in Sessions : messages[z] \in Seq(Message) /\ count[z] \in Nat
    BY <1>0 DEF TypeOK
  <2>2. \A z \in Sessions : IsPast(messages[z], messages'[z])
    BY <1>1, <1>6, <2>1, PastSelf, PastAppend
  <2>3. \A z \in Sessions : count[z] <= count'[z]
    BY <2>1
  <2> QED BY <1>0, <1>7, <2>2, <2>3 DEF Grown
<1>9. Handed
  BY DEF Handed, caches, reads
<1>10. TurnOK(t)'
  <2>1. Len(messages'[s]) = Len(messages[s]) + 1 /\ messages'[s][Len(messages[s]) + 1] = m
    BY <1>5, <1>6
  <2>2. CASE p = "assistant"
    <3>1. m = [turn |-> t, role |-> "user"]
      BY <2>2 DEF m
    <3>2. Asked(t)'
      BY <1>1, <2>1, <3>1 DEF Asked
    <3> QED BY <1>0, <1>3, <2>2, <3>2 DEF TurnOK
  <2>3. CASE p = "assistanted"
    <3>1. m = [turn |-> t, role |-> "assistant"]
      BY <2>3 DEF m
    <3>2. Asked(t) => Saved(t)'
      <4> SUFFICES ASSUME Asked(t) PROVE Saved(t)'
        OBVIOUS
      <4>1. PICK i \in 1..Len(messages[s]) : messages[s][i] = [turn |-> t, role |-> "user"]
        BY DEF Asked
      <4>2. i \in 1..Len(messages'[s]) /\ messages'[s][i] = messages[s][i]
        BY <1>1, <1>8, <4>1, MessageStays
      <4>3. i < Len(messages[s]) + 1 /\ Len(messages[s]) + 1 \in 1..Len(messages'[s])
        BY <1>1, <2>1, <4>1
      <4> QED BY <2>1, <3>1, <4>1, <4>2, <4>3 DEF Saved
    <3> QED BY <1>0, <1>3, <2>3, <3>2 DEF TurnOK
  <2> QED BY <2>2, <2>3
<1> QED BY <1>3, <1>8, <1>9, <1>10, Goes

LEMMA PairCommits ==
  ASSUME IInv, NEW t \in Turns, UserCommits(t) \/ AssistantCommits(t) PROVE IInv'
<1>1. TurnOK(t)
  BY DEF IInv
<1>2. CASE UserCommits(t)
  <2>1. "user" \in Roles /\ SessionOf[t] \in rows
    BY <1>2 DEF Roles, UserCommits
  <2> QED BY <1>2, <2>1, Inserted DEF UserCommits
<1>3. CASE AssistantCommits(t)
  <2>1. "assistant" \in Roles /\ turn[t].pc = "assistant"
    BY <1>3 DEF Roles, AssistantCommits, At
  <2>2. ~turn[t].hit /\ t \notin Opens => SessionOf[t] \in rows
    BY <1>1, <2>1 DEF TurnOK
  <2> QED BY <1>3, <2>1, <2>2, Inserted DEF AssistantCommits
<1> QED BY <1>2, <1>3

\* The trail and the count.
LEMMA TailCommits ==
  ASSUME IInv, NEW t \in Turns, TrailCommits(t) \/ CountCommits(t) PROVE IInv'
<1>0. TypeOK /\ TurnOK(t) /\ UNCHANGED <<rows, messages, caches, reads, errors>>
  BY DEF IInv, TrailCommits, CountCommits
<1>1. ASSUME NEW p \in {"count", "counted"}, Goto(t, p),
             p = "count" => turn[t].pc = "trail", p = "counted" => turn[t].pc = "count",
             trails' \subseteq Turns, count' \in [Sessions -> Nat],
             \A s \in Sessions : count[s] <= count'[s],
             p = "counted" /\ SessionOf[t] \in rows => count'[SessionOf[t]] = count[SessionOf[t]] + 2
      PROVE  IInv'
  <2> DEFINE x == [turn[t] EXCEPT !.pc = p]
  <2>1. p \in Places
    BY DEF Places, Persisting
  <2>2. x \in TurnType /\ x.pc = p /\ x.hit = turn[t].hit /\ turn' = [turn EXCEPT ![t] = x] /\ turn \in [Turns -> TurnType]
        /\ turn'[t].pc = p /\ turn'[t].hit = turn[t].hit /\ turn'[t].found = turn[t].found
    BY <1>0, <1>1, <2>1, TurnFields, Gone
  <2> HIDE DEF x
  <2>3. TypeOK'
    BY <1>0, <1>1, <2>2 DEF TypeOK, TurnType, caches, reads
  <2>4. Grown
    <3>1. \A s \in Sessions : messages[s] \in Seq(Message)
      BY <1>0 DEF TypeOK
    <3>2. \A s \in Sessions : IsPast(messages[s], messages'[s])
      BY <1>0, <3>1, PastSelf
    <3> QED BY <1>0, <1>1, <2>3, <3>2 DEF Grown
  <2>5. Handed
    BY <1>0 DEF Handed, caches, reads
  <2>6. (Asked(t) <=> Asked(t)') /\ (Saved(t) <=> Saved(t)') /\ rows' = rows
    BY <1>0 DEF Asked, Saved
  <2>7. TurnOK(t)'
    BY <1>0, <1>1, <2>2, <2>6 DEF TurnOK
  <2>8. p = "counted" /\ ~turn[t].hit /\ t \notin Opens => SessionOf[t] \in rows
    BY <1>0, <1>1 DEF TurnOK
  <2>9. x.pc \in {"counted", "owner", "over"} /\ ~x.hit /\ t \notin Opens =>
           count'[SessionOf[t]] = count[SessionOf[t]] + 2
    BY <1>1, <2>2, <2>8
  <2> QED BY <2>2, <2>4, <2>5, <2>7, <2>9, Goes
<1>2. count \in [Sessions -> Nat] /\ trails \subseteq Turns /\ SessionOf[t] \in Sessions
  BY <1>0, TurnFields DEF TypeOK
<1>3. \A s \in Sessions : count[s] \in Nat
  BY <1>2
<1>4. CASE TrailCommits(t)
  <2>1. /\ Goto(t, "count") /\ turn[t].pc = "trail" /\ trails' \subseteq Turns
        /\ count' \in [Sessions -> Nat] /\ \A s \in Sessions : count[s] <= count'[s]
    BY <1>2, <1>3, <1>4 DEF TrailCommits, At
  <2> QED BY <1>1, <2>1
<1>5. CASE CountCommits(t)
  <2>1. /\ Goto(t, "counted") /\ turn[t].pc = "count" /\ trails' = trails
        /\ count' = IF SessionOf[t] \in rows THEN [count EXCEPT ![SessionOf[t]] = count[SessionOf[t]] + 2] ELSE count
    BY <1>5 DEF CountCommits, At
  <2>2. count' \in [Sessions -> Nat] /\ \A s \in Sessions : count[s] <= count'[s]
    BY <1>2, <1>3, <2>1
  <2>3. SessionOf[t] \in rows => count'[SessionOf[t]] = count[SessionOf[t]] + 2
    BY <1>2, <2>1
  <2> QED BY <1>1, <1>2, <2>1, <2>2, <2>3
<1> QED BY <1>4, <1>5

-----------------------------------------------------------------------------
(* Readers, caches, crashes                                                *)

\* One entry of a table by worker and session is set.
LEMMA EntrySet ==
  ASSUME NEW V, NEW f \in [Workers -> [Sessions -> V]], NEW w \in Workers, NEW s \in Sessions, NEW v \in V,
         NEW g, g = [f EXCEPT ![w][s] = v]
  PROVE  /\ g \in [Workers -> [Sessions -> V]]
         /\ \A x \in Workers, z \in Sessions : g[x][z] = IF x = w /\ z = s THEN v ELSE f[x][z]
<1> DEFINE m == [f[w] EXCEPT ![s] = v]
<1>1. g = [f EXCEPT ![w] = m]
  OBVIOUS
<1>2. f[w] \in [Sessions -> V]
  OBVIOUS
<1>3. m \in [Sessions -> V] /\ \A z \in Sessions : m[z] = IF z = s THEN v ELSE f[w][z]
  BY <1>2
<1> HIDE DEF m
<1>4. g \in [Workers -> [Sessions -> V]] /\ g[w] = m /\ \A x \in Workers \ {w} : g[x] = f[x]
  BY <1>1, <1>3
<1> QED BY <1>3, <1>4

\* A step of readers and caches leaves tables and requests.
LEMMA ReaderKeeps ==
  ASSUME IInv, UNCHANGED <<tables, turn, errors>>, Handed,
         known' \in [Workers -> SUBSET Sessions],
         msgs' \in [Workers -> [Sessions -> Seq(Message) \cup {Absent}]],
         list' \in [Workers -> [Sessions -> Nat] \cup {Absent}],
         reading' \in [Workers -> [Sessions -> Seq(Message) \cup {Absent}]],
         listing' \in [Workers -> [Sessions -> Nat] \cup {Absent}]
  PROVE  IInv'
<1>1. TypeOK'
  BY DEF IInv, TypeOK, tables
<1>2. Grown
  BY <1>1, TablesStay DEF IInv
<1>3. \A t \in Turns : TurnOK(t)'
  BY <1>2, TurnStays
<1>4. \A w \in Workers : CacheOK(w)'
  BY <1>2, CachesKept
<1>5. ASSUME NEW s \in Sessions PROVE CountOK(s)'
  <2>1. Counted(s)' \subseteq Counted(s)
    BY DEF Counted
  <2> QED BY <1>2, <2>1, CountsKept
<1> QED BY <1>1, <1>3, <1>4, <1>5 DEF IInv

LEMMA ReaderTypes ==
  ASSUME TypeOK
  PROVE  /\ known \in [Workers -> SUBSET Sessions]
         /\ msgs \in [Workers -> [Sessions -> Seq(Message) \cup {Absent}]]
         /\ list \in [Workers -> [Sessions -> Nat] \cup {Absent}]
         /\ reading \in [Workers -> [Sessions -> Seq(Message) \cup {Absent}]]
         /\ listing \in [Workers -> [Sessions -> Nat] \cup {Absent}]
         /\ Shown \in [Sessions -> Nat]
<1>1. Shown \in [Sessions -> Nat]
  BY DEF TypeOK, Shown
<1> QED BY <1>1 DEF TypeOK

\* Messages are read, kept and forgotten.
LEMMA MessagesRead ==
  ASSUME IInv, NEW w \in Workers, NEW s \in Sessions,
         \/ ReadMessages(w, s) \/ ReadMessagesReply(w, s) \/ ReadMessagesFails(w, s)
         \/ ExpireMessages(w, s) \/ ExpireOwner(w, s)
  PROVE  IInv'
<1> DEFINE V == Seq(Message) \cup {Absent}
<1>0. TypeOK
  BY DEF IInv
<1>1. /\ known \in [Workers -> SUBSET Sessions]
      /\ msgs \in [Workers -> [Sessions -> V]]
      /\ list \in [Workers -> [Sessions -> Nat] \cup {Absent}]
      /\ reading \in [Workers -> [Sessions -> V]]
      /\ listing \in [Workers -> [Sessions -> Nat] \cup {Absent}]
  BY <1>0, ReaderTypes
<1>2. Absent \in V /\ Stored(s) \in V /\ reading[w][s] \in V
  BY <1>0, <1>1, StoredPast
<1> HIDE DEF V
<1>3. UNCHANGED <<tables, turn, errors, list, listing>>
  BY DEF ReadMessages, ReadMessagesReply, ReadMessagesFails, ExpireMessages, ExpireOwner, caches, reads
<1>4. CASE ReadMessages(w, s)
  <2>1. reading' = [reading EXCEPT ![w][s] = Stored(s)] /\ msgs' = msgs /\ s \in rows
        /\ known' = [known EXCEPT ![w] = known[w] \cup {s}]
    BY <1>4 DEF ReadMessages, Remember
  <2>2. /\ reading' \in [Workers -> [Sessions -> V]]
        /\ \A x \in Workers, z \in Sessions : reading'[x][z] = IF x = w /\ z = s THEN Stored(s) ELSE reading[x][z]
    BY <1>1, <1>2, <2>1, EntrySet
  <2>3. known' \in [Workers -> SUBSET Sessions] /\ \A x \in Workers : known'[x] \subseteq known[x] \cup rows
    BY <1>1, <2>1
  <2>4. Handed
    BY <1>3, <2>1, <2>2, <2>3 DEF Handed, tables
  <2> QED BY <1>1, <1>3, <2>1, <2>2, <2>3, <2>4, ReaderKeeps DEF V
<1>5. CASE ReadMessagesReply(w, s)
  <2>1. /\ msgs' = [msgs EXCEPT ![w][s] = reading[w][s]]
        /\ reading' = [reading EXCEPT ![w][s] = Absent] /\ known' = known
    BY <1>5 DEF ReadMessagesReply
  <2>2. /\ msgs' \in [Workers -> [Sessions -> V]]
        /\ \A x \in Workers, z \in Sessions : msgs'[x][z] = IF x = w /\ z = s THEN reading[w][s] ELSE msgs[x][z]
    BY <1>1, <1>2, <2>1, EntrySet
  <2>3. /\ reading' \in [Workers -> [Sessions -> V]]
        /\ \A x \in Workers, z \in Sessions : reading'[x][z] = IF x = w /\ z = s THEN Absent ELSE reading[x][z]
    BY <1>1, <1>2, <2>1, EntrySet
  <2>4. Handed
    BY <1>3, <2>1, <2>2, <2>3 DEF Handed
  <2> QED BY <1>1, <1>3, <2>1, <2>2, <2>3, <2>4, ReaderKeeps DEF V
<1>6. CASE ReadMessagesFails(w, s)
  <2>1. reading' = [reading EXCEPT ![w][s] = Absent] /\ known' = known /\ msgs' = msgs
    BY <1>6 DEF ReadMessagesFails, caches
  <2>2. /\ reading' \in [Workers -> [Sessions -> V]]
        /\ \A x \in Workers, z \in Sessions : reading'[x][z] = IF x = w /\ z = s THEN Absent ELSE reading[x][z]
    BY <1>1, <1>2, <2>1, EntrySet
  <2>3. Handed
    BY <1>3, <2>1, <2>2 DEF Handed
  <2> QED BY <1>1, <1>3, <2>1, <2>2, <2>3, ReaderKeeps DEF V
<1>7. CASE ExpireMessages(w, s)
  <2>1. msgs' = [msgs EXCEPT ![w][s] = Absent] /\ known' = known /\ reading' = reading
    BY <1>7 DEF ExpireMessages, reads
  <2>2. /\ msgs' \in [Workers -> [Sessions -> V]]
        /\ \A x \in Workers, z \in Sessions : msgs'[x][z] = IF x = w /\ z = s THEN Absent ELSE msgs[x][z]
    BY <1>1, <1>2, <2>1, EntrySet
  <2>3. Handed
    BY <1>3, <2>1, <2>2 DEF Handed
  <2> QED BY <1>1, <1>3, <2>1, <2>2, <2>3, ReaderKeeps DEF V
<1>8. CASE ExpireOwner(w, s)
  <2>1. known' = [known EXCEPT ![w] = known[w] \ {s}] /\ msgs' = msgs /\ reading' = reading
    BY <1>8 DEF ExpireOwner, reads
  <2>2. known' \in [Workers -> SUBSET Sessions] /\ \A x \in Workers : known'[x] \subseteq known[x]
    BY <1>1, <2>1
  <2>3. Handed
    BY <1>3, <2>1, <2>2 DEF Handed
  <2> QED BY <1>1, <1>3, <2>1, <2>2, <2>3, ReaderKeeps DEF V
<1> QED BY <1>4, <1>5, <1>6, <1>7, <1>8

\* Lists of sessions are read, kept and forgotten.
LEMMA ListRead ==
  ASSUME IInv, NEW w \in Workers, ReadList(w) \/ ReadListReply(w) \/ ReadListFails(w) \/ ExpireList(w)
  PROVE  IInv'
<1> DEFINE L == [Sessions -> Nat] \cup {Absent}
<1>0. TypeOK
  BY DEF IInv
<1>1. /\ known \in [Workers -> SUBSET Sessions]
      /\ msgs \in [Workers -> [Sessions -> Seq(Message) \cup {Absent}]]
      /\ list \in [Workers -> L]
      /\ reading \in [Workers -> [Sessions -> Seq(Message) \cup {Absent}]]
      /\ listing \in [Workers -> L] /\ Shown \in L
  BY <1>0, ReaderTypes
<1>2. Absent \in L
  OBVIOUS
<1> HIDE DEF L
<1>3. UNCHANGED <<tables, turn, errors, known, msgs, reading>>
  BY DEF ReadList, ReadListReply, ReadListFails, ExpireList, caches, reads
<1>4. /\ list' \in [Workers -> L] /\ \A x \in Workers : list'[x] \in {list[x], listing[x], Absent}
      /\ listing' \in [Workers -> L] /\ \A x \in Workers : listing'[x] \in {listing[x], Shown, Absent}
  <2>1. CASE ReadList(w)
    <3>1. listing' = [listing EXCEPT ![w] = Shown] /\ list' = list
      BY <2>1 DEF ReadList, caches
    <3> HIDE DEF Shown
    <3> QED BY <1>1, <3>1
  <2>2. CASE ReadListReply(w)
    <3>1. list' = [list EXCEPT ![w] = listing[w]] /\ listing' = [listing EXCEPT ![w] = Absent]
      BY <2>2 DEF ReadListReply
    <3> QED BY <1>1, <1>2, <3>1
  <2>3. CASE ReadListFails(w)
    <3>1. listing' = [listing EXCEPT ![w] = Absent] /\ list' = list
      BY <2>3 DEF ReadListFails, caches
    <3> QED BY <1>1, <1>2, <3>1
  <2>4. CASE ExpireList(w)
    <3>1. list' = [list EXCEPT ![w] = Absent] /\ listing' = listing
      BY <2>4 DEF ExpireList, InvalidateList, reads
    <3> QED BY <1>1, <1>2, <3>1
  <2> QED BY <2>1, <2>2, <2>3, <2>4
<1>5. Handed
  BY <1>3, <1>4 DEF Handed
<1> QED BY <1>1, <1>3, <1>4, <1>5, ReaderKeeps DEF L

LEMMA LostCount == ASSUME NEW T \in SUBSET Turns PROVE Cardinality(T) \in Nat
  BY StoreAssumption, FS_Subset, FS_CardinalityType

\* A crash takes the caches and the requests of one worker.
LEMMA Crashed == ASSUME IInv, NEW w \in Workers, Crash(w) PROVE IInv'
<1> DEFINE V == Seq(Message) \cup {Absent}
           L == [Sessions -> Nat] \cup {Absent}
           lost == {t \in Turns : turn[t].worker = w /\ ~At(t, {"over", "gone"})}
           torn == {t \in lost : At(t, Persisting)}
           none == [s \in Sessions |-> Absent]
<1>0. TypeOK
  BY DEF IInv
<1>1. /\ known \in [Workers -> SUBSET Sessions] /\ msgs \in [Workers -> [Sessions -> V]]
      /\ list \in [Workers -> L] /\ reading \in [Workers -> [Sessions -> V]] /\ listing \in [Workers -> L]
  BY <1>0, ReaderTypes
<1>2. /\ UNCHANGED tables /\ errors' = errors + Cardinality(torn)
      /\ turn' = [t \in Turns |-> IF t \in lost THEN [turn[t] EXCEPT !.pc = "gone", !.hit = TRUE] ELSE turn[t]]
      /\ known' = [known EXCEPT ![w] = {}]
      /\ msgs' = [msgs EXCEPT ![w] = none] /\ reading' = [reading EXCEPT ![w] = none]
      /\ list' = [list EXCEPT ![w] = Absent] /\ listing' = [listing EXCEPT ![w] = Absent]
  BY DEF Crash
<1>3. none \in [Sessions -> V] /\ Absent \in L /\ \A s \in Sessions : none[s] = Absent
  OBVIOUS
<1>4. errors' \in Nat
  <2>1. torn \in SUBSET Turns
    OBVIOUS
  <2>2. Cardinality(torn) \in Nat /\ errors \in Nat
    BY <1>0, <2>1, LostCount DEF TypeOK
  <2> DEFINE n == Cardinality(torn)
  <2>3. errors' = errors + n
    BY <1>2
  <2>4. n \in Nat
    BY <2>2
  <2> HIDE DEF n
  <2> QED BY <2>2, <2>3, <2>4
<1>5. \A t \in Turns : turn[t] \in TurnType
  BY <1>0, TurnFields
<1>6. \A t \in Turns : /\ turn'[t] = turn[t] \/ (turn'[t].pc = "gone" /\ turn'[t].hit = TRUE /\ turn'[t].found = turn[t].found)
                       /\ turn'[t] \in TurnType
  <2> SUFFICES ASSUME NEW t \in Turns
               PROVE  /\ turn'[t] = turn[t] \/ (turn'[t].pc = "gone" /\ turn'[t].hit = TRUE /\ turn'[t].found = turn[t].found)
                      /\ turn'[t] \in TurnType
    OBVIOUS
  <2> DEFINE x == [turn[t] EXCEPT !.pc = "gone", !.hit = TRUE]
  <2>1. x \in TurnType /\ x.pc = "gone" /\ x.hit = TRUE /\ x.found = turn[t].found
    BY <1>5 DEF TurnType, Places
  <2>2. turn'[t] = IF t \in lost THEN x ELSE turn[t]
    BY <1>2
  <2> HIDE DEF x, lost
  <2> QED BY <1>5, <2>1, <2>2
<1>7. turn' \in [Turns -> TurnType]
  <2>1. DOMAIN turn' = Turns /\ turn' = [t \in Turns |-> turn'[t]]
    BY <1>2
  <2> QED BY <1>6, <2>1
<1> HIDE DEF lost, torn, none, V, L
<1>8. /\ known' \in [Workers -> SUBSET Sessions] /\ \A x \in Workers : known'[x] \subseteq known[x]
      /\ msgs' \in [Workers -> [Sessions -> V]] /\ \A x \in Workers : msgs'[x] \in {msgs[x], none}
      /\ reading' \in [Workers -> [Sessions -> V]] /\ \A x \in Workers : reading'[x] \in {reading[x], none}
      /\ list' \in [Workers -> L] /\ \A x \in Workers : list'[x] \in {list[x], Absent}
      /\ listing' \in [Workers -> L] /\ \A x \in Workers : listing'[x] \in {listing[x], Absent}
  <2>1. known' \in [Workers -> SUBSET Sessions] /\ \A x \in Workers : known'[x] \subseteq known[x]
    BY <1>1, <1>2
  <2>2. msgs' \in [Workers -> [Sessions -> V]] /\ \A x \in Workers : msgs'[x] \in {msgs[x], none}
    BY <1>1, <1>2, <1>3
  <2>3. reading' \in [Workers -> [Sessions -> V]] /\ \A x \in Workers : reading'[x] \in {reading[x], none}
    BY <1>1, <1>2, <1>3
  <2>4. list' \in [Workers -> L] /\ \A x \in Workers : list'[x] \in {list[x], Absent}
    BY <1>1, <1>2, <1>3
  <2>5. listing' \in [Workers -> L] /\ \A x \in Workers : listing'[x] \in {listing[x], Absent}
    BY <1>1, <1>2, <1>3
  <2> QED BY <2>1, <2>2, <2>3, <2>4, <2>5
<1>9. TypeOK'
  <2>1. UNCHANGED <<rows, count, messages, trails>>
    BY <1>2 DEF tables
  <2> QED BY <1>0, <1>4, <1>7, <1>8, <2>1 DEF TypeOK, TurnType, V, L
<1>10. Grown
  BY <1>0, <1>2, <1>9, TablesStay
<1>11. Handed
  BY <1>3, <1>8 DEF Handed
<1>12. ASSUME NEW t \in Turns PROVE TurnOK(t)'
  <2>1. CASE turn'[t] = turn[t]
    BY <1>10, <2>1, TurnStays
  <2>2. CASE turn'[t].pc = "gone" /\ turn'[t].hit = TRUE /\ turn'[t].found = turn[t].found
    <3>1. TurnOK(t) /\ rows' = rows
      BY <1>2 DEF IInv, tables
    <3> QED BY <2>2, <3>1 DEF TurnOK
  <2> QED BY <1>6, <2>1, <2>2
<1>13. \A x \in Workers : CacheOK(x)'
  BY <1>10, <1>11, CachesKept
<1>14. ASSUME NEW s \in Sessions PROVE CountOK(s)'
  <2>1. Counted(s)' \subseteq Counted(s)
    BY <1>6 DEF Counted
  <2> QED BY <1>10, <2>1, CountsKept
<1> QED BY <1>9, <1>12, <1>13, <1>14 DEF IInv

-----------------------------------------------------------------------------
(* The invariant and what follows from it                                  *)

LEMMA Started == Init => IInv
<1> SUFFICES ASSUME Init PROVE IInv
  OBVIOUS
<1>1. TypeOK
  <2>1. <<>> \in Seq(Message)
    OBVIOUS
  <2>2. NewTurn \in TurnType
    BY DEF NewTurn, TurnType, Places
  <2> QED BY <2>1, <2>2 DEF Init, TypeOK, TurnType
<1>2. \A t \in Turns : turn[t].pc = "new" /\ turn[t].found = FALSE
  BY DEF Init, NewTurn
<1>3. \A t \in Turns : TurnOK(t)
  BY <1>2 DEF TurnOK
<1>4. \A w \in Workers : CacheOK(w)
  BY DEF Init, CacheOK
<1>5. \A s \in Sessions : CountOK(s)
  <2> SUFFICES ASSUME NEW s \in Sessions PROVE CountOK(s)
    OBVIOUS
  <2>1. Counted(s) = {} /\ count[s] = 0
    BY <1>2 DEF Init, Counted
  <2>2. Cardinality(Counted(s)) = 0
    BY <2>1, FS_EmptySet
  <2> QED BY <2>1, <2>2 DEF CountOK
<1> QED BY <1>1, <1>3, <1>4, <1>5 DEF IInv

LEMMA Stutters == ASSUME IInv, UNCHANGED vars PROVE IInv'
  BY DEF IInv, TypeOK, TurnOK, Asked, Saved, CacheOK, Shown, CountOK, Counted, vars

\* No step of a request, of a reader, of a cache or of a crash ends the invariant.
LEMMA Stepped == IInv /\ [Next]_vars => IInv'
<1> SUFFICES ASSUME IInv, [Next]_vars PROVE IInv'
  OBVIOUS
<1>1. ASSUME NEW t \in Turns, NEW w \in Workers, Receive(t, w) \/ ReceiveReport(t, w) \/ ReceiveOpen(t, w)
      PROVE  IInv'
  BY <1>1, Received
<1>2. ASSUME NEW t \in Turns, Step(t) PROVE IInv'
  BY <1>2, Turns1, Remembered, Created, PairCommits, TailCommits DEF Step
<1>3. ASSUME NEW t \in Turns, GiveUp(t) \/ CallFails(t) PROVE IInv'
  BY <1>3, Turns1, Failed
<1>4. ASSUME NEW w \in Workers, NEW s \in Sessions,
             \/ ReadMessages(w, s) \/ ReadMessagesReply(w, s) \/ ReadMessagesFails(w, s)
             \/ ExpireMessages(w, s) \/ ExpireOwner(w, s)
      PROVE  IInv'
  BY <1>4, MessagesRead
<1>5. ASSUME NEW w \in Workers, ReadList(w) \/ ReadListReply(w) \/ ReadListFails(w) \/ ExpireList(w)
      PROVE  IInv'
  BY <1>5, ListRead
<1>6. ASSUME NEW w \in Workers, Crash(w) PROVE IInv'
  BY <1>6, Crashed
<1>7. CASE UNCHANGED vars
  BY <1>7, Stutters
<1> QED BY <1>1, <1>2, <1>3, <1>4, <1>5, <1>6, <1>7 DEF Next

\* What the store believes and keeps is so in every state the server reaches,
\* through failed calls, departures and crashes.
THEOREM Inductive == Spec => []IInv
  BY Started, Stepped, PTL DEF Spec

\* The state has its types: a request is always at a place of its handler.
THEOREM TypeCorrect == Spec => []TypeOK
<1>1. IInv => TypeOK
  BY DEF IInv
<1> QED BY <1>1, Inductive, PTL

\* A session a worker takes for existing has its row (get_session_owner,
\* create_session and the owner cache).
THEOREM KnownHolds == Spec => []KnownSessionExists
<1>1. IInv => KnownSessionExists
  BY DEF IInv, CacheOK, KnownSessionExists
<1> QED BY <1>1, Inductive, PTL

\* What a read cache serves was true once, whatever invalidations its worker
\* missed.
THEOREM CachesHold == Spec => []CachedIsPast
<1>1. IInv => CachedIsPast
  BY DEF IInv, CacheOK, CachedIsPast
<1> QED BY <1>1, Inductive, PTL

\* A turn none of whose calls failed is saved whole and counted.
THEOREM CleanHolds == Spec => []CleanTurnSaved
<1>1. ASSUME IInv PROVE CleanTurnSaved
  <2>1. \A t \in Turns : Clean(t) => Saved(t)
    BY <1>1 DEF IInv, TurnOK, Clean, At
  <2>2. ASSUME NEW s \in Sessions
        PROVE  count[s] >= 2 * Cardinality({t \in Turns : Clean(t) /\ SessionOf[t] = s})
    <3> DEFINE clean == {t \in Turns : Clean(t) /\ SessionOf[t] = s}
    <3>1. clean \subseteq Counted(s) /\ Counted(s) \in SUBSET Turns /\ clean \in SUBSET Turns
      BY DEF Clean, At, Counted
    <3>2. IsFiniteSet(Counted(s))
      BY <3>1, StoreAssumption, FS_Subset
    <3> HIDE DEF clean
    <3>3. Cardinality(clean) <= Cardinality(Counted(s))
      BY <3>1, <3>2, FS_Subset
    <3>4. Cardinality(clean) \in Nat /\ Cardinality(Counted(s)) \in Nat
      BY <3>1, LostCount
    <3>5. count[s] >= 2 * Cardinality(Counted(s)) /\ count[s] \in Nat
      BY <1>1 DEF IInv, CountOK, TypeOK
    <3>6. count[s] >= 2 * Cardinality(clean)
      BY <3>3, <3>4, <3>5
    <3> QED BY <3>6 DEF clean
  <2> QED BY <2>1, <2>2 DEF CleanTurnSaved
<1> QED BY <1>1, Inductive, PTL

-----------------------------------------------------------------------------
(* The count.                                                              *)

\* The requests of s whose question is in the table and not counted yet, those
\* whose answer is too (or may be: a call failed meanwhile), and those that will
\* perhaps be counted without being saved, as a call failed before the pair.
Half(s) == {t \in Turns : SessionOf[t] = s /\ At(t, {"assistant", "assistanted", "trail", "count"})}
Full(s) == {t \in Turns : SessionOf[t] = s /\ At(t, {"assistanted", "trail", "count"})}
Doubt(s) == {t \in Turns : /\ SessionOf[t] = s /\ turn[t].hit
                           /\ At(t, {"answer", "create", "created", "user"})}

\* What a request under way may add to the messages that are not counted, and
\* to the count that has no messages yet.
Ahead(s) == Cardinality(Half(s)) + Cardinality(Full(s))
Behind(s) == Cardinality(Half(s) \cup Doubt(s)) + Cardinality(Full(s) \cup Doubt(s))

Balanced(s) ==
    /\ s \notin rows => Len(messages[s]) = 0
    /\ Len(messages[s]) <= count[s] + Ahead(s) + 2 * errors
    /\ count[s] + Behind(s) <= Len(messages[s]) + 2 * errors

\* Where only turns and reports are: a request that opens a session neither
\* looks it up nor writes to it.
Chatting == {"lookup", "answer", "user", "assistant", "assistanted", "trail", "count", "counted", "owner"}

\* No call has failed before the first reply, only turns and reports write, and
\* the question is in the table only if the session is.
Placed(t) ==
    /\ At(t, {"new", "lookup"}) => ~turn[t].hit
    /\ At(t, Chatting) => t \notin Opens
    /\ At(t, {"assistant"}) => SessionOf[t] \in rows

EInv == (\A t \in Turns : Placed(t)) /\ (\A s \in Sessions : Balanced(s))

\* The weight of a request in the two sums.
Up(r) == IF r.pc \in {"assistanted", "trail", "count"} THEN 2
         ELSE IF r.pc = "assistant" THEN 1 ELSE 0
Down(r) == IF r.hit /\ r.pc \in {"answer", "create", "created", "user"} THEN 2 ELSE Up(r)

LEMMA SetsOfTurns ==
  ASSUME NEW s
  PROVE  Ahead(s) \in Nat /\ Behind(s) \in Nat /\ Ahead(s)' \in Nat /\ Behind(s)' \in Nat
<1>1. /\ Half(s) \in SUBSET Turns /\ Full(s) \in SUBSET Turns
      /\ Half(s) \cup Doubt(s) \in SUBSET Turns /\ Full(s) \cup Doubt(s) \in SUBSET Turns
      /\ Half(s)' \in SUBSET Turns /\ Full(s)' \in SUBSET Turns
      /\ (Half(s) \cup Doubt(s))' \in SUBSET Turns /\ (Full(s) \cup Doubt(s))' \in SUBSET Turns
  BY DEF Half, Full, Doubt
<1>2. \A T \in SUBSET Turns : Cardinality(T) \in Nat
  BY StoreAssumption, FS_Subset, FS_CardinalityType
<1>3. Ahead(s) \in Nat /\ Behind(s) \in Nat
  BY <1>1, <1>2 DEF Ahead, Behind
<1>4. Ahead(s)' \in Nat /\ Behind(s)' \in Nat
  BY <1>1, <1>2 DEF Ahead, Behind
<1> QED BY <1>3, <1>4

\* Two sets that differ in one element at most.
LEMMA OneDiffers ==
  ASSUME NEW S, NEW R, NEW t, IsFiniteSet(S), IsFiniteSet(R), S \ {t} = R \ {t}
  PROVE  Cardinality(R) + (IF t \in S THEN 1 ELSE 0) = Cardinality(S) + (IF t \in R THEN 1 ELSE 0)
<1> DEFINE B == S \ {t}
<1>1. IsFiniteSet(B) /\ Cardinality(B) \in Nat
  BY FS_Subset, FS_CardinalityType
<1>2. ASSUME NEW T, T \ {t} = B, IsFiniteSet(T)
      PROVE  Cardinality(T) = Cardinality(B) + (IF t \in T THEN 1 ELSE 0)
  <2>1. CASE t \in T
    <3>1. B \cup {t} = T /\ t \notin B
      BY <1>2, <2>1
    <3> HIDE DEF B
    <3> QED BY <1>1, <2>1, <3>1, FS_AddElement
  <2>2. CASE t \notin T
    <3>1. T = B
      BY <1>2, <2>2
    <3> HIDE DEF B
    <3> QED BY <1>1, <2>2, <3>1
  <2> QED BY <2>1, <2>2
<1>3. Cardinality(S) = Cardinality(B) + (IF t \in S THEN 1 ELSE 0)
  BY <1>2
<1>4. Cardinality(R) = Cardinality(B) + (IF t \in R THEN 1 ELSE 0)
  BY <1>2
<1> HIDE DEF B
<1> QED BY <1>1, <1>3, <1>4

\* A request moves: the sums change by its weight, those of other sessions not.
LEMMA Weighed ==
  ASSUME TypeOK, NEW t \in Turns, NEW x \in TurnType, turn' = [turn EXCEPT ![t] = x]
  PROVE  /\ Ahead(SessionOf[t])' + Up(turn[t]) = Ahead(SessionOf[t]) + Up(x)
         /\ Behind(SessionOf[t])' + Down(turn[t]) = Behind(SessionOf[t]) + Down(x)
         /\ \A z : z # SessionOf[t] => Ahead(z)' = Ahead(z) /\ Behind(z)' = Behind(z)
<1>1. turn'[t] = x /\ \A u \in Turns : u # t => turn'[u] = turn[u]
  BY DEF TypeOK
<1>2. ASSUME NEW z, z # SessionOf[t] PROVE Ahead(z)' = Ahead(z) /\ Behind(z)' = Behind(z)
  <2>1. Half(z)' = Half(z) /\ Full(z)' = Full(z) /\ Doubt(z)' = Doubt(z)
    BY <1>1, <1>2 DEF Half, Full, Doubt, At
  <2> QED BY <2>1 DEF Ahead, Behind
<1> DEFINE s == SessionOf[t]
           H == Half(s)
           F == Full(s)
           P == Half(s) \cup Doubt(s)
           Q == Full(s) \cup Doubt(s)
<1>3. /\ H \ {t} = H' \ {t} /\ F \ {t} = F' \ {t} /\ P \ {t} = P' \ {t} /\ Q \ {t} = Q' \ {t}
  BY <1>1 DEF Half, Full, Doubt, At
<1>4. /\ t \in H <=> turn[t].pc \in {"assistant", "assistanted", "trail", "count"}
      /\ t \in H' <=> x.pc \in {"assistant", "assistanted", "trail", "count"}
      /\ t \in F <=> turn[t].pc \in {"assistanted", "trail", "count"}
      /\ t \in F' <=> x.pc \in {"assistanted", "trail", "count"}
  BY <1>1 DEF Half, Full, At
<1>5. /\ t \in P <=> t \in H \/ (turn[t].hit /\ turn[t].pc \in {"answer", "create", "created", "user"})
      /\ t \in P' <=> t \in H' \/ (x.hit /\ x.pc \in {"answer", "create", "created", "user"})
      /\ t \in Q <=> t \in F \/ (turn[t].hit /\ turn[t].pc \in {"answer", "create", "created", "user"})
      /\ t \in Q' <=> t \in F' \/ (x.hit /\ x.pc \in {"answer", "create", "created", "user"})
  BY <1>1 DEF Doubt, At
<1>6. /\ IsFiniteSet(H) /\ IsFiniteSet(H') /\ IsFiniteSet(F) /\ IsFiniteSet(F')
      /\ IsFiniteSet(P) /\ IsFiniteSet(P') /\ IsFiniteSet(Q) /\ IsFiniteSet(Q')
  <2>1. /\ H \in SUBSET Turns /\ H' \in SUBSET Turns /\ F \in SUBSET Turns /\ F' \in SUBSET Turns
        /\ P \in SUBSET Turns /\ P' \in SUBSET Turns /\ Q \in SUBSET Turns /\ Q' \in SUBSET Turns
    BY DEF Half, Full, Doubt
  <2> HIDE DEF H, F, P, Q
  <2> QED BY <2>1, StoreAssumption, FS_Subset
<1>7. /\ Ahead(s) = Cardinality(H) + Cardinality(F) /\ Ahead(s)' = Cardinality(H') + Cardinality(F')
      /\ Behind(s) = Cardinality(P) + Cardinality(Q) /\ Behind(s)' = Cardinality(P') + Cardinality(Q')
  BY DEF Ahead, Behind
<1> DEFINE n(T) == IF t \in T THEN 1 ELSE 0
<1> HIDE DEF H, F, P, Q, s
<1>8. /\ Cardinality(H') + n(H) = Cardinality(H) + n(H') /\ Cardinality(F') + n(F) = Cardinality(F) + n(F')
      /\ Cardinality(P') + n(P) = Cardinality(P) + n(P') /\ Cardinality(Q') + n(Q) = Cardinality(Q) + n(Q')
  BY <1>3, <1>6, OneDiffers
<1>9. /\ Cardinality(H) \in Nat /\ Cardinality(H') \in Nat /\ Cardinality(F) \in Nat /\ Cardinality(F') \in Nat
      /\ Cardinality(P) \in Nat /\ Cardinality(P') \in Nat /\ Cardinality(Q) \in Nat /\ Cardinality(Q') \in Nat
  BY <1>6, FS_CardinalityType
<1>10. n(H) + n(F) = Up(turn[t]) /\ n(H') + n(F') = Up(x)
  BY <1>4 DEF Up
<1>11. n(P) + n(Q) = Down(turn[t]) /\ n(P') + n(Q') = Down(x)
  BY <1>4, <1>5 DEF Up, Down
<1>12. \A T : n(T) \in 0..1
  OBVIOUS
<1> HIDE DEF n
<1>13. Ahead(s)' + Up(turn[t]) = Ahead(s) + Up(x)
  BY <1>7, <1>8, <1>9, <1>10, <1>12
<1>14. Behind(s)' + Down(turn[t]) = Behind(s) + Down(x)
  BY <1>7, <1>8, <1>9, <1>11, <1>12
<1> QED BY <1>2, <1>13, <1>14 DEF s

\* A request moves and its session stays balanced if what it has written and
\* counted and the calls that failed make up for its weight.
LEMMA Accounted ==
  ASSUME TypeOK, TypeOK', EInv, NEW t \in Turns, NEW x \in TurnType, turn' = [turn EXCEPT ![t] = x],
         rows \subseteq rows', errors <= errors',
         \A z \in Sessions : z # SessionOf[t] => messages'[z] = messages[z] /\ count'[z] = count[z],
         SessionOf[t] \notin rows' => Len(messages'[SessionOf[t]]) = 0,
         \/ Len(messages'[SessionOf[t]]) = 0
         \/ Len(messages'[SessionOf[t]]) + Up(turn[t]) + count[SessionOf[t]] + 2 * errors
              <= Len(messages[SessionOf[t]]) + Up(x) + count'[SessionOf[t]] + 2 * errors',
         count'[SessionOf[t]] + Down(x) + Len(messages[SessionOf[t]]) + 2 * errors
           <= count[SessionOf[t]] + Down(turn[t]) + Len(messages'[SessionOf[t]]) + 2 * errors',
         x.pc \in {"new", "lookup"} => ~x.hit,
         x.pc \in Chatting => t \notin Opens,
         x.pc = "assistant" => SessionOf[t] \in rows'
  PROVE  EInv'
<1>1. turn'[t] = x /\ \A u \in Turns : u # t => turn'[u] = turn[u]
  BY DEF TypeOK
<1>2. \A u \in Turns : Placed(u)'
  BY <1>1 DEF EInv, Placed, At
<1> DEFINE s == SessionOf[t]
<1>3. s \in Sessions
  BY StoreAssumption
<1>4. \A z \in Sessions : /\ count[z] \in Nat /\ count'[z] \in Nat /\ errors \in Nat /\ errors' \in Nat
                          /\ Len(messages[z]) \in Nat /\ Len(messages'[z]) \in Nat
  BY DEF TypeOK
<1>5. ASSUME NEW z \in Sessions, z # s PROVE Balanced(z)'
  <2>1. messages'[z] = messages[z] /\ count'[z] = count[z] /\ Ahead(z)' = Ahead(z) /\ Behind(z)' = Behind(z)
    BY <1>5, Weighed
  <2>2. Balanced(z) /\ Ahead(z) \in Nat /\ Behind(z) \in Nat
    BY SetsOfTurns DEF EInv
  <2>3. count[z] \in Nat /\ errors \in Nat /\ errors' \in Nat /\ Len(messages[z]) \in Nat
    BY <1>4
  <2>4. /\ Len(messages[z]) <= count[z] + Ahead(z) + 2 * errors'
        /\ count[z] + Behind(z) <= Len(messages[z]) + 2 * errors'
    <3> DEFINE m == Len(messages[z])
               k == count[z]
               a == Ahead(z)
               b == Behind(z)
               f == errors'
    <3>1. m <= k + a + 2 * errors /\ k + b <= m + 2 * errors /\ errors <= f
      BY <2>2 DEF Balanced
    <3>2. m \in Nat /\ k \in Nat /\ a \in Nat /\ b \in Nat /\ errors \in Nat /\ f \in Nat
      BY <2>2, <2>3
    <3> HIDE DEF m, k, a, b, f
    <3>3. m <= k + a + 2 * f /\ k + b <= m + 2 * f
      BY <3>1, <3>2
    <3> QED BY <3>3 DEF m, k, a, b, f
  <2>5. z \notin rows' => Len(messages'[z]) = 0
    BY <2>1, <2>2 DEF Balanced
  <2>6. /\ Len(messages'[z]) <= count'[z] + Ahead(z)' + 2 * errors'
        /\ count'[z] + Behind(z)' <= Len(messages'[z]) + 2 * errors'
    BY <2>1, <2>4
  <2> QED BY <2>5, <2>6 DEF Balanced
<1>6. Balanced(s)'
  <2>1. /\ Ahead(s)' + Up(turn[t]) = Ahead(s) + Up(x)
        /\ Behind(s)' + Down(turn[t]) = Behind(s) + Down(x)
    BY Weighed
  <2>2. Ahead(s) \in Nat /\ Behind(s) \in Nat /\ Ahead(s)' \in Nat /\ Behind(s)' \in Nat
    BY SetsOfTurns
  <2>3. Up(x) \in 0..2 /\ Up(turn[t]) \in 0..2 /\ Down(x) \in 0..2 /\ Down(turn[t]) \in 0..2
    BY DEF Up, Down
  <2>4. /\ count[s] \in Nat /\ count'[s] \in Nat /\ errors \in Nat /\ errors' \in Nat
        /\ Len(messages[s]) \in Nat /\ Len(messages'[s]) \in Nat
    BY <1>3, <1>4
  <2>5. /\ Len(messages[s]) <= count[s] + Ahead(s) + 2 * errors
        /\ count[s] + Behind(s) <= Len(messages[s]) + 2 * errors
    BY <1>3 DEF EInv, Balanced
  <2> DEFINE a == Ahead(s)
             a1 == Ahead(s)'
             b == Behind(s)
             b1 == Behind(s)'
             m == Len(messages[s])
             m1 == Len(messages'[s])
             k == count[s]
             k1 == count'[s]
             e1 == errors'
             u == Up(turn[t])
             u1 == Up(x)
             d == Down(turn[t])
             d1 == Down(x)
  <2>6. /\ a \in Nat /\ a1 \in Nat /\ b \in Nat /\ b1 \in Nat /\ m \in Nat /\ m1 \in Nat
        /\ k \in Nat /\ k1 \in Nat /\ errors \in Nat /\ e1 \in Nat
        /\ u \in 0..2 /\ u1 \in 0..2 /\ d \in 0..2 /\ d1 \in 0..2
    BY <2>2, <2>3, <2>4
  <2>7. /\ a1 + u = a + u1 /\ b1 + d = b + d1
        /\ m <= k + a + 2 * errors /\ k + b <= m + 2 * errors
        /\ m1 = 0 \/ m1 + u + k + 2 * errors <= m + u1 + k1 + 2 * e1
        /\ k1 + d1 + m + 2 * errors <= k + d + m1 + 2 * e1
    BY <2>1, <2>5
  <2> HIDE DEF a, a1, b, b1, m, m1, k, k1, e1, u, u1, d, d1
  <2>8. m1 <= k1 + a1 + 2 * e1
    <3>1. CASE m1 = 0
      BY <2>6, <3>1
    <3>2. CASE m1 + u + k + 2 * errors <= m + u1 + k1 + 2 * e1
      <4>1. a1 + u = a + u1 /\ m <= k + a + 2 * errors
        BY <2>7
      <4> QED BY <2>6, <3>2, <4>1
    <3> QED BY <2>7, <3>1, <3>2
  <2>9. k1 + b1 <= m1 + 2 * e1
    BY <2>6, <2>7
  <2> QED BY <2>8, <2>9 DEF Balanced, a1, b1, m1, k1, e1
<1> QED BY <1>2, <1>5, <1>6 DEF EInv

\* Steps of a request that write no message and no count.
LEMMA Weighs ==
  ASSUME IInv, IInv', EInv, UNCHANGED <<rows, count, messages, errors>>,
         NEW t \in Turns, NEW x \in TurnType, turn' = [turn EXCEPT ![t] = x],
         Up(turn[t]) <= Up(x), Down(x) <= Down(turn[t]),
         x.pc \in {"new", "lookup"} => ~x.hit,
         x.pc \in Chatting => t \notin Opens,
         x.pc # "assistant"
  PROVE  EInv'
<1> DEFINE s == SessionOf[t]
<1>1. TypeOK /\ TypeOK' /\ s \in Sessions
  BY StoreAssumption DEF IInv
<1>2. count[s] \in Nat /\ errors \in Nat /\ Len(messages[s]) \in Nat
  BY <1>1 DEF TypeOK
<1>3. Up(x) \in 0..2 /\ Up(turn[t]) \in 0..2 /\ Down(x) \in 0..2 /\ Down(turn[t]) \in 0..2
  BY DEF Up, Down
<1>4. s \notin rows' => Len(messages'[s]) = 0
  BY <1>1 DEF EInv, Balanced
<1> DEFINE m == Len(messages[s])
           u == Up(turn[t])
           v == Up(x)
           d == Down(turn[t])
           f == Down(x)
           k == count[s]
<1>5. /\ m \in Nat /\ k \in Nat /\ errors \in Nat /\ u \in 0..2 /\ v \in 0..2 /\ d \in 0..2 /\ f \in 0..2
      /\ u <= v /\ f <= d
  BY <1>2, <1>3
<1> HIDE DEF m, u, v, d, f, k
<1>6. /\ m + u + k + 2 * errors <= m + v + k + 2 * errors
      /\ k + f + m + 2 * errors <= k + d + m + 2 * errors
      /\ errors <= errors
  BY <1>5
<1> QED BY <1>1, <1>4, <1>6, Accounted DEF m, u, v, d, f, k

LEMMA Goes1 ==
  ASSUME IInv, IInv', EInv, UNCHANGED <<rows, count, messages, errors>>,
         NEW t \in Turns, NEW p \in Places, Goto(t, p),
         \/ p = "answer" /\ turn[t].pc = "lookup"
         \/ p \in {"user", "create"} /\ turn[t].pc = "answer"
         \/ p = "gone" /\ turn[t].pc \in {"lookup", "answer"}
         \/ p = "user" /\ turn[t].pc = "created" /\ t \notin Opens
         \/ p = "over" /\ turn[t].pc = "created" /\ t \in Opens
         \/ p = "count" /\ turn[t].pc = "user" /\ turn[t].hit
         \/ p \in {"trail", "count"} /\ turn[t].pc \in {"assistanted", "trail"}
         \/ p = "over" /\ turn[t].pc \in {"counted", "owner"}
         \/ p = "created" /\ turn[t].pc = "create"
  PROVE  EInv'
<1> DEFINE x == [turn[t] EXCEPT !.pc = p]
<1>1. x \in TurnType /\ x.pc = p /\ x.hit = turn[t].hit /\ turn' = [turn EXCEPT ![t] = x]
  <2>1. TypeOK
    BY DEF IInv
  <2> QED BY <2>1, TurnFields, Gone
<1>2. Placed(t)
  BY DEF EInv
<1> HIDE DEF x
<1>3. Up(turn[t]) <= Up(x)
  BY <1>1 DEF Up
<1>4. Down(x) <= Down(turn[t])
  BY <1>1, <1>2 DEF Up, Down, Placed, At
<1>5. x.pc \notin {"new", "lookup", "assistant"}
  BY <1>1
<1>6. x.pc \in Chatting => t \notin Opens
  BY <1>1, <1>2 DEF Placed, At, Chatting
<1> QED BY <1>1, <1>3, <1>4, <1>5, <1>6, Weighs

LEMMA ReceivedE ==
  ASSUME IInv, IInv', EInv, NEW t \in Turns, NEW w \in Workers,
         Receive(t, w) \/ ReceiveReport(t, w) \/ ReceiveOpen(t, w)
  PROVE  EInv'
<1>0. TypeOK /\ turn[t].pc = "new" /\ UNCHANGED <<rows, count, messages, errors>>
  BY DEF IInv, Receive, ReceiveReport, ReceiveOpen, At, tables
<1>1. turn[t] \in TurnType /\ turn \in [Turns -> TurnType] /\ ~turn[t].hit
  BY <1>0, TurnFields DEF EInv, Placed, At
<1>2. ASSUME NEW x \in TurnType, x.pc \in {"create", "answer", "lookup"}, x.hit = turn[t].hit,
             turn' = [turn EXCEPT ![t] = x], x.pc \in {"answer", "lookup"} => t \notin Opens
      PROVE  EInv'
  <2>1. Up(turn[t]) <= Up(x) /\ Down(x) <= Down(turn[t]) /\ (x.pc \in Chatting => t \notin Opens)
    BY <1>0, <1>1, <1>2 DEF Up, Down, Chatting
  <2> QED BY <1>0, <1>1, <1>2, <2>1, Weighs
<1>3. CASE ReceiveOpen(t, w)
  <2> DEFINE x == [turn[t] EXCEPT !.pc = "create", !.worker = w]
  <2>1. x \in TurnType /\ x.pc = "create" /\ x.hit = turn[t].hit
    BY <1>1 DEF TurnType, Places, Persisting
  <2>2. turn' = [turn EXCEPT ![t] = x]
    BY <1>3 DEF ReceiveOpen
  <2> HIDE DEF x
  <2> QED BY <1>2, <2>1, <2>2
<1>4. CASE LookUp(t, w) /\ t \notin Opens
  <2> DEFINE s == SessionOf[t]
             hit == s \in known[w]
             x == [turn[t] EXCEPT !.pc = IF hit THEN "answer" ELSE "lookup", !.worker = w,
                                  !.found = hit \/ s \in rows]
  <2>1. x \in TurnType /\ x.pc \in {"answer", "lookup"} /\ x.hit = turn[t].hit
    BY <1>1 DEF TurnType, Places, Persisting
  <2>2. turn' = [turn EXCEPT ![t] = x]
    BY <1>4 DEF LookUp
  <2> HIDE DEF x
  <2> QED BY <1>2, <1>4, <2>1, <2>2
<1> QED BY <1>3, <1>4, StoreAssumption DEF Receive, ReceiveReport

LEMMA ReturnsE ==
  ASSUME IInv, IInv', EInv, NEW t \in Turns,
         \/ LookupReply(t) \/ Answer(t) \/ AnswerReport(t) \/ RejectReport(t) \/ GiveUp(t)
         \/ CreateReply(t) \/ UserRefused(t) \/ AssistantReply(t) \/ TrailCommits(t) \/ TrailSkipped(t)
         \/ OwnerReply(t)
  PROVE  EInv'
<1>0. UNCHANGED <<rows, count, messages, errors>>
  BY DEF LookupReply, Answer, AnswerReport, RejectReport, GiveUp, CreateReply, UserRefused, AssistantReply,
         TrailCommits, TrailSkipped, OwnerReply, tables
<1>1. \A p \in {"answer", "user", "create", "gone", "over", "count", "trail"} : p \in Places
  BY DEF Places, Persisting
<1>2. TypeOK /\ TurnOK(t) /\ Placed(t)
  BY DEF IInv, EInv
<1>3. CASE LookupReply(t)
  <2>1. turn[t].pc = "lookup" /\ Goto(t, "answer")
    BY <1>3 DEF LookupReply, At
  <2> QED BY <1>0, <1>1, <2>1, Goes1
<1>4. CASE Answer(t) \/ AnswerReport(t)
  <2>1. turn[t].pc = "answer" /\ Goto(t, IF turn[t].found THEN "user" ELSE "create")
    BY <1>4 DEF Answer, AnswerReport, At
  <2> QED BY <1>0, <1>1, <2>1, Goes1
<1>5. CASE RejectReport(t) \/ GiveUp(t)
  <2>1. turn[t].pc \in {"lookup", "answer"} /\ Goto(t, "gone")
    BY <1>5 DEF RejectReport, GiveUp, At
  <2> QED BY <1>0, <1>1, <2>1, Goes1
<1>6. CASE CreateReply(t)
  <2>1. turn[t].pc = "created" /\ Goto(t, IF t \in Opens THEN "over" ELSE "user")
    BY <1>6 DEF CreateReply, At
  <2> QED BY <1>0, <1>1, <2>1, Goes1
<1>7. CASE UserRefused(t)
  <2>1. turn[t].pc = "user" /\ Goto(t, "count") /\ SessionOf[t] \notin rows
    BY <1>7 DEF UserRefused, At
  <2>2. t \notin Opens /\ turn[t].hit
    <3>1. t \notin Opens
      BY <1>2, <2>1 DEF Placed, At, Chatting
    <3> QED BY <1>2, <2>1, <3>1, TurnFields DEF TurnOK, TurnType
  <2> QED BY <1>0, <1>1, <2>1, <2>2, Goes1
<1>8. CASE AssistantReply(t) \/ TrailCommits(t) \/ TrailSkipped(t)
  <2>1. /\ turn[t].pc \in {"assistanted", "trail"}
        /\ Goto(t, "count") \/ Goto(t, "trail")
    BY <1>8 DEF AssistantReply, AfterPair, TrailCommits, TrailSkipped, At
  <2> QED BY <1>0, <1>1, <2>1, Goes1
<1>9. CASE OwnerReply(t)
  <2>1. turn[t].pc = "owner" /\ Goto(t, "over")
    BY <1>9 DEF OwnerReply, At
  <2> QED BY <1>0, <1>1, <2>1, Goes1
<1> QED BY <1>3, <1>4, <1>5, <1>6, <1>7, <1>8, <1>9

LEMMA CountReplyE ==
  ASSUME IInv, IInv', EInv, NEW t \in Turns, CountReply(t) PROVE EInv'
<1>0. TypeOK /\ Placed(t) /\ turn[t].pc = "counted" /\ UNCHANGED <<rows, count, messages, errors>>
  BY DEF IInv, EInv, CountReply, tables, At
<1>1. turn[t] \in TurnType /\ turn \in [Turns -> TurnType]
  BY <1>0, TurnFields
<1>2. CASE Goto(t, "over")
  <2>1. "over" \in Places
    BY DEF Places
  <2> QED BY <1>0, <1>2, <2>1, Goes1
<1>3. CASE turn' = [turn EXCEPT ![t].pc = "owner", ![t].found = SessionOf[t] \in rows]
  <2> DEFINE x == [turn[t] EXCEPT !.pc = "owner", !.found = SessionOf[t] \in rows]
  <2>0. "owner" \in Places /\ (SessionOf[t] \in rows) \in BOOLEAN
    BY DEF Places, Persisting
  <2>1. x \in TurnType /\ x.pc = "owner" /\ x.hit = turn[t].hit
    BY <1>1, <2>0 DEF TurnType
  <2>2. turn' = [turn EXCEPT ![t] = x]
    BY <1>1, <1>3
  <2> HIDE DEF x
  <2>3. Up(turn[t]) <= Up(x) /\ Down(x) <= Down(turn[t]) /\ t \notin Opens
    BY <1>0, <2>1 DEF Up, Down, Placed, At, Chatting
  <2> QED BY <1>0, <2>1, <2>2, <2>3, Weighs
<1> QED BY <1>2, <1>3 DEF CountReply

LEMMA CreatedE ==
  ASSUME IInv, IInv', EInv, NEW t \in Turns, CreateCommits(t) PROVE EInv'
<1> DEFINE x == [turn[t] EXCEPT !.pc = "created"]
           s == SessionOf[t]
<1>1. TypeOK /\ TypeOK' /\ "created" \in Places /\ turn[t].pc = "create"
  BY DEF IInv, CreateCommits, At, Places, Persisting
<1>2. /\ x \in TurnType /\ x.pc = "created" /\ x.hit = turn[t].hit /\ turn' = [turn EXCEPT ![t] = x]
      /\ s \in Sessions
  BY <1>1, TurnFields, Gone DEF CreateCommits
<1>3. rows' = rows \cup {s} /\ UNCHANGED <<count, messages, errors>>
  BY DEF CreateCommits
<1> HIDE DEF x
<1>4. Up(turn[t]) = 0 /\ Up(x) = 0 /\ Down(x) = Down(turn[t]) /\ Down(x) \in 0..2
  BY <1>1, <1>2 DEF Up, Down
<1> DEFINE m == Len(messages[s])
           k == count[s]
           d == Down(x)
<1>5. m \in Nat /\ k \in Nat /\ errors \in Nat
  BY <1>1, <1>2 DEF TypeOK
<1>6. m + Up(turn[t]) + k + 2 * errors <= m + Up(x) + k + 2 * errors
  <2> HIDE DEF m, k
  <2> QED BY <1>4, <1>5
<1>7. k + Down(x) + m + 2 * errors <= k + Down(turn[t]) + m + 2 * errors
  <2> HIDE DEF m, k
  <2> QED BY <1>4, <1>5
<1>8. errors <= errors' /\ rows \subseteq rows' /\ s \in rows'
  BY <1>3, <1>5
<1>9. x.pc \notin Chatting /\ x.pc \notin {"new", "lookup"}
  BY <1>2 DEF Chatting
<1> QED BY <1>1, <1>2, <1>3, <1>6, <1>7, <1>8, <1>9, Accounted

\* One message is inserted and weighed, and the request goes on from p to q.
LEMMA InsertedE ==
  ASSUME IInv, IInv', EInv, NEW t \in Turns, NEW role \in Roles, NEW q \in {"assistant", "assistanted"},
         Append1(t, role), Goto(t, q), UNCHANGED <<rows, count, errors>>, SessionOf[t] \in rows,
         q = "assistant" => turn[t].pc = "user", q = "assistanted" => turn[t].pc = "assistant"
  PROVE  EInv'
<1> DEFINE s == SessionOf[t]
           e == [turn |-> t, role |-> role]
           x == [turn[t] EXCEPT !.pc = q]
<1>1. TypeOK /\ TypeOK' /\ q \in Places /\ Placed(t)
  BY DEF IInv, EInv, Places, Persisting
<1>2. x \in TurnType /\ x.pc = q /\ x.hit = turn[t].hit /\ turn' = [turn EXCEPT ![t] = x] /\ s \in Sessions
  BY <1>1, TurnFields, Gone
<1> HIDE DEF x
<1>3. e \in Message /\ messages \in [Sessions -> Seq(Message)] /\ messages[s] \in Seq(Message)
  BY <1>1, <1>2 DEF Message, TypeOK
<1>4. messages' = [messages EXCEPT ![s] = Append(messages[s], e)]
  BY DEF Append1
<1> HIDE DEF e
<1>5. Len(Append(messages[s], e)) = Len(messages[s]) + 1 /\ Len(messages[s]) \in Nat
  BY <1>3, AppendProperties
<1>6. /\ Len(messages'[s]) = Len(messages[s]) + 1
      /\ \A z \in Sessions : z # s => messages'[z] = messages[z] /\ count'[z] = count[z]
  BY <1>2, <1>3, <1>4, <1>5
<1>7. Up(x) = Up(turn[t]) + 1 /\ Up(x) \in 0..2 /\ Up(turn[t]) \in 0..2
  BY <1>2 DEF Up
<1>8. Down(x) <= Down(turn[t]) + 1 /\ Down(x) \in 0..2 /\ Down(turn[t]) \in 0..2
  BY <1>2 DEF Up, Down
<1>9. count[s] \in Nat /\ errors \in Nat
  BY <1>1, <1>2 DEF TypeOK
<1> DEFINE m == Len(messages[s])
           u == Up(turn[t])
           v == Up(x)
           d == Down(turn[t])
           f == Down(x)
           k == count[s]
<1>10. m \in Nat /\ k \in Nat /\ u \in 0..2 /\ d \in 0..2 /\ f \in 0..2 /\ v = u + 1 /\ f <= d + 1
  BY <1>5, <1>7, <1>8, <1>9
<1> HIDE DEF m, u, v, d, f, k
<1>11. /\ m + 1 + u + k + 2 * errors <= m + v + k + 2 * errors
       /\ k + f + m + 2 * errors <= k + d + (m + 1) + 2 * errors
       /\ errors <= errors
  BY <1>9, <1>10
<1>12. /\ Len(messages'[s]) + Up(turn[t]) + count[s] + 2 * errors <= Len(messages[s]) + Up(x) + count'[s] + 2 * errors'
       /\ count'[s] + Down(x) + Len(messages[s]) + 2 * errors <= count[s] + Down(turn[t]) + Len(messages'[s]) + 2 * errors'
       /\ errors <= errors' /\ rows \subseteq rows' /\ s \in rows'
  BY <1>6, <1>11 DEF m, u, v, d, f, k
<1>13. x.pc \notin {"new", "lookup"} /\ t \notin Opens
  BY <1>1, <1>2 DEF Placed, At, Chatting
<1> QED BY <1>1, <1>2, <1>6, <1>12, <1>13, Accounted

LEMMA PairE ==
  ASSUME IInv, IInv', EInv, NEW t \in Turns, UserCommits(t) \/ AssistantCommits(t) PROVE EInv'
<1>1. TurnOK(t) /\ Placed(t)
  BY DEF IInv, EInv
<1>2. CASE UserCommits(t)
  <2>1. "user" \in Roles /\ turn[t].pc = "user" /\ SessionOf[t] \in rows
    BY <1>2 DEF Roles, UserCommits, At
  <2> QED BY <1>2, <2>1, InsertedE DEF UserCommits
<1>3. CASE AssistantCommits(t)
  <2>1. "assistant" \in Roles /\ turn[t].pc = "assistant"
    BY <1>3 DEF Roles, AssistantCommits, At
  <2>2. SessionOf[t] \in rows
    BY <1>1, <2>1 DEF Placed, At
  <2> QED BY <1>3, <2>1, <2>2, InsertedE DEF AssistantCommits
<1> QED BY <1>2, <1>3

\* message_count goes up by two, or there is no row and no message.
LEMMA CountE ==
  ASSUME IInv, IInv', EInv, NEW t \in Turns, CountCommits(t) PROVE EInv'
<1> DEFINE s == SessionOf[t]
           x == [turn[t] EXCEPT !.pc = "counted"]
<1>1. TypeOK /\ TypeOK' /\ "counted" \in Places /\ turn[t].pc = "count" /\ Placed(t)
  BY DEF IInv, EInv, CountCommits, At, Places, Persisting
<1>2. x \in TurnType /\ x.pc = "counted" /\ turn' = [turn EXCEPT ![t] = x] /\ s \in Sessions
  BY <1>1, TurnFields, Gone DEF CountCommits
<1> HIDE DEF x
<1>3. Up(turn[t]) = 2 /\ Up(x) = 0 /\ Down(turn[t]) = 2 /\ Down(x) = 0
  BY <1>1, <1>2 DEF Up, Down
<1>4. /\ UNCHANGED <<rows, messages, errors>>
      /\ count' = IF s \in rows THEN [count EXCEPT ![s] = count[s] + 2] ELSE count
  BY DEF CountCommits
<1>5. /\ count[s] \in Nat /\ errors \in Nat /\ Len(messages[s]) \in Nat
      /\ count \in [Sessions -> Nat]
  BY <1>1, <1>2 DEF TypeOK
<1>6. \A z \in Sessions : z # s => messages'[z] = messages[z] /\ count'[z] = count[z]
  BY <1>4, <1>5
<1>7. x.pc \notin {"new", "lookup", "assistant"} /\ t \notin Opens
  BY <1>1, <1>2 DEF Placed, At, Chatting
<1>8. s \notin rows => Len(messages[s]) = 0
  BY <1>2 DEF EInv, Balanced
<1> DEFINE m == Len(messages[s])
           k == count[s]
<1>9. CASE s \in rows
  <2>1. count'[s] = count[s] + 2
    BY <1>2, <1>4, <1>5, <1>9
  <2>2. /\ m + 2 + k + 2 * errors <= m + 0 + (k + 2) + 2 * errors
        /\ (k + 2) + 0 + m + 2 * errors <= k + 2 + m + 2 * errors
        /\ errors <= errors
    <3>1. m \in Nat /\ k \in Nat
      BY <1>5
    <3> HIDE DEF m, k
    <3> QED BY <1>5, <3>1
  <2> QED BY <1>1, <1>2, <1>3, <1>4, <1>6, <1>7, <1>9, <2>1, <2>2, Accounted
<1>10. CASE s \notin rows
  <2>1. Len(messages[s]) = 0
    BY <1>8, <1>10
  <2>2. k + 0 + m + 2 * errors <= k + 2 + m + 2 * errors /\ errors <= errors
    <3>1. m \in Nat /\ k \in Nat
      BY <1>5
    <3> HIDE DEF m, k
    <3> QED BY <1>5, <3>1
  <2> QED BY <1>1, <1>2, <1>3, <1>4, <1>6, <1>7, <1>10, <2>1, <2>2, Accounted
<1> QED BY <1>9, <1>10

\* A call that failed pays for both messages of its request.
LEMMA FailedE ==
  ASSUME IInv, IInv', EInv, NEW t \in Turns, CallFails(t) PROVE EInv'
<1> DEFINE s == SessionOf[t]
           x == [turn[t] EXCEPT !.pc = AfterFailure(t), !.hit = TRUE,
                               !.found = turn[t].found /\ ~At(t, {"lookup"})]
<1>1. TypeOK /\ TypeOK' /\ turn[t] \in TurnType /\ s \in Sessions /\ Placed(t)
  BY TurnFields DEF IInv, EInv
<1>2. AfterFailure(t) \in {"answer", "over", "user", "count"}
  BY DEF AfterFailure
<1>3. AfterFailure(t) \in {"answer", "user", "count"} => t \notin Opens
  BY <1>1 DEF AfterFailure, Placed, At, Chatting
<1>4. x \in TurnType /\ x.pc = AfterFailure(t) /\ turn' = [turn EXCEPT ![t] = x]
  BY <1>1, <1>2 DEF TurnType, Places, Persisting, CallFails
<1> HIDE DEF x
<1>5. UNCHANGED <<rows, count, messages>> /\ errors' = errors + 1
  BY DEF CallFails, tables
<1>6. count[s] \in Nat /\ errors \in Nat /\ Len(messages[s]) \in Nat
  BY <1>1 DEF TypeOK
<1>7. Up(x) \in 0..2 /\ Up(turn[t]) \in 0..2 /\ Down(x) \in 0..2 /\ Down(turn[t]) \in 0..2
  BY DEF Up, Down
<1>8. s \notin rows' => Len(messages'[s]) = 0
  BY <1>1, <1>5 DEF EInv, Balanced
<1> DEFINE m == Len(messages[s])
           u == Up(turn[t])
           v == Up(x)
           d == Down(turn[t])
           f == Down(x)
           k == count[s]
<1>9. m \in Nat /\ k \in Nat /\ errors \in Nat /\ u \in 0..2 /\ v \in 0..2 /\ d \in 0..2 /\ f \in 0..2
  BY <1>6, <1>7
<1> HIDE DEF m, u, v, d, f, k
<1>10. /\ m + u + k + 2 * errors <= m + v + k + 2 * (errors + 1)
       /\ k + f + m + 2 * errors <= k + d + m + 2 * (errors + 1)
       /\ errors <= errors + 1
  BY <1>9
<1>11. /\ Len(messages'[s]) + Up(turn[t]) + count[s] + 2 * errors <= Len(messages[s]) + Up(x) + count'[s] + 2 * errors'
       /\ count'[s] + Down(x) + Len(messages[s]) + 2 * errors <= count[s] + Down(turn[t]) + Len(messages'[s]) + 2 * errors'
       /\ errors <= errors'
  BY <1>5, <1>10 DEF m, u, v, d, f, k
<1>12. x.pc \notin {"new", "lookup", "assistant"} /\ (x.pc \in Chatting => t \notin Opens)
  BY <1>2, <1>3, <1>4 DEF Chatting
<1> QED BY <1>1, <1>4, <1>5, <1>8, <1>11, <1>12, Accounted

LEMMA Fewer ==
  ASSUME NEW A \in SUBSET Turns, NEW B \in SUBSET Turns, NEW C \in SUBSET Turns, A \subseteq B \cup C
  PROVE  Cardinality(A) <= Cardinality(B) + Cardinality(C)
<1>1. IsFiniteSet(A) /\ IsFiniteSet(B) /\ IsFiniteSet(C) /\ IsFiniteSet(B \cup C) /\ IsFiniteSet(B \cap C)
  BY StoreAssumption, FS_Subset
<1>2. Cardinality(A) <= Cardinality(B \cup C)
  BY <1>1, FS_Subset
<1>3. Cardinality(B \cup C) = Cardinality(B) + Cardinality(C) - Cardinality(B \cap C)
  BY <1>1, FS_Union
<1>4. /\ Cardinality(A) \in Nat /\ Cardinality(B) \in Nat /\ Cardinality(C) \in Nat
      /\ Cardinality(B \cap C) \in Nat /\ Cardinality(B \cup C) \in Nat
  BY <1>1, FS_CardinalityType
<1> QED BY <1>2, <1>3, <1>4

\* A crash pays for the requests it tears, and adds nothing to either sum.
LEMMA CrashedE == ASSUME IInv, IInv', EInv, NEW w \in Workers, Crash(w) PROVE EInv'
<1> DEFINE lost == {t \in Turns : turn[t].worker = w /\ ~At(t, {"over", "gone"})}
           torn == {t \in lost : At(t, Persisting)}
           n == Cardinality(torn)
<1>1. TypeOK /\ TypeOK' /\ torn \in SUBSET Turns
  BY DEF IInv
<1>2. /\ UNCHANGED <<rows, count, messages>> /\ errors' = errors + n
      /\ turn' = [t \in Turns |-> IF t \in lost THEN [turn[t] EXCEPT !.pc = "gone", !.hit = TRUE] ELSE turn[t]]
  BY DEF Crash, tables
<1>3. n \in Nat /\ errors \in Nat
  BY <1>1, LostCount DEF TypeOK
<1>4. ASSUME NEW t \in Turns
      PROVE  turn'[t] = turn[t] \/ (t \in lost /\ turn'[t].pc = "gone")
  <2> DEFINE x == [turn[t] EXCEPT !.pc = "gone", !.hit = TRUE]
  <2>1. turn[t] \in TurnType
    BY <1>1, TurnFields
  <2>2. x.pc = "gone"
    BY <2>1 DEF TurnType
  <2> HIDE DEF x
  <2>3. turn'[t] = IF t \in lost THEN x ELSE turn[t]
    BY <1>2 DEF x
  <2> HIDE DEF lost
  <2> QED BY <2>2, <2>3
<1>5. \A t \in lost : turn[t].pc \in {"assistant", "assistanted", "trail", "count"} => t \in torn
  BY DEF Persisting, At
<1> HIDE DEF lost, torn
<1>6. \A t \in Turns : Placed(t)'
  BY <1>2, <1>4 DEF EInv, Placed, At, Chatting
<1>7. ASSUME NEW s \in Sessions PROVE Balanced(s)'
  <2> DEFINE H == Half(s)
             F == Full(s)
             P == Half(s) \cup Doubt(s)
             Q == Full(s) \cup Doubt(s)
  <2>1. /\ H \in SUBSET Turns /\ H' \in SUBSET Turns /\ F \in SUBSET Turns /\ F' \in SUBSET Turns
        /\ P \in SUBSET Turns /\ P' \in SUBSET Turns /\ Q \in SUBSET Turns /\ Q' \in SUBSET Turns
        /\ {} \in SUBSET Turns
    BY DEF Half, Full, Doubt
  <2>2. H \subseteq H' \cup torn /\ F \subseteq F' \cup torn
    BY <1>4, <1>5 DEF Half, Full, At
  <2>3. P' \subseteq P \cup {} /\ Q' \subseteq Q \cup {}
    BY <1>4 DEF Half, Full, Doubt, At
  <2>4. /\ Ahead(s) = Cardinality(H) + Cardinality(F) /\ Ahead(s)' = Cardinality(H') + Cardinality(F')
        /\ Behind(s) = Cardinality(P) + Cardinality(Q) /\ Behind(s)' = Cardinality(P') + Cardinality(Q')
    BY DEF Ahead, Behind
  <2> HIDE DEF H, F, P, Q
  <2>5. Cardinality(H) <= Cardinality(H') + n /\ Cardinality(F) <= Cardinality(F') + n
    BY <1>1, <2>1, <2>2, Fewer
  <2>6. Cardinality(P') <= Cardinality(P) /\ Cardinality(Q') <= Cardinality(Q)
    <3>1. Cardinality({}) = 0
      BY FS_EmptySet
    <3>2. Cardinality(P') <= Cardinality(P) + Cardinality({}) /\ Cardinality(Q') <= Cardinality(Q) + Cardinality({})
      BY <2>1, <2>3, Fewer
    <3> QED BY <2>1, <3>1, <3>2, LostCount
  <2>7. /\ Cardinality(H) \in Nat /\ Cardinality(H') \in Nat /\ Cardinality(F) \in Nat /\ Cardinality(F') \in Nat
        /\ Cardinality(P) \in Nat /\ Cardinality(P') \in Nat /\ Cardinality(Q) \in Nat /\ Cardinality(Q') \in Nat
    BY <2>1, LostCount
  <2>8. /\ Len(messages[s]) <= count[s] + Ahead(s) + 2 * errors
        /\ count[s] + Behind(s) <= Len(messages[s]) + 2 * errors
        /\ s \notin rows => Len(messages[s]) = 0
    BY DEF EInv, Balanced
  <2> DEFINE a == Ahead(s)
             a1 == Ahead(s)'
             b == Behind(s)
             b1 == Behind(s)'
             m == Len(messages[s])
             k == count[s]
  <2>9. a <= a1 + 2 * n /\ b1 <= b /\ a \in Nat /\ a1 \in Nat /\ b \in Nat /\ b1 \in Nat
    <3> HIDE DEF n
    <3> QED BY <1>3, <2>4, <2>5, <2>6, <2>7
  <2>10. m \in Nat /\ k \in Nat /\ m <= k + a + 2 * errors /\ k + b <= m + 2 * errors
    BY <1>1, <2>8 DEF TypeOK
  <2> HIDE DEF a, a1, b, b1, m, k, n
  <2>11. m <= k + a1 + 2 * (errors + n) /\ k + b1 <= m + 2 * (errors + n)
    BY <1>3, <2>9, <2>10
  <2> QED BY <1>2, <2>8, <2>11 DEF Balanced, m, k, a1, b1
<1> QED BY <1>6, <1>7 DEF EInv

\* Readers and caches leave the tables and the requests alone.
LEMMA StaysE == ASSUME EInv, UNCHANGED <<rows, count, messages, turn, errors>> PROVE EInv'
<1>1. \A s \in Sessions : Half(s)' = Half(s) /\ Full(s)' = Full(s) /\ Doubt(s)' = Doubt(s)
  BY DEF Half, Full, Doubt, At
<1>2. \A s \in Sessions : Ahead(s)' = Ahead(s) /\ Behind(s)' = Behind(s)
  BY <1>1 DEF Ahead, Behind
<1> QED BY <1>2 DEF EInv, Placed, At, Balanced

LEMMA SteppedE == ASSUME IInv, IInv', EInv, [Next]_vars PROVE EInv'
<1>1. ASSUME NEW t \in Turns, NEW w \in Workers, Receive(t, w) \/ ReceiveReport(t, w) \/ ReceiveOpen(t, w)
      PROVE  EInv'
  BY <1>1, ReceivedE
<1>2. ASSUME NEW t \in Turns, Step(t) PROVE EInv'
  BY <1>2, ReturnsE, CountReplyE, CreatedE, PairE, CountE DEF Step
<1>3. ASSUME NEW t \in Turns, GiveUp(t) \/ CallFails(t) PROVE EInv'
  BY <1>3, ReturnsE, FailedE
<1>4. ASSUME NEW w \in Workers, NEW s \in Sessions,
             \/ ReadMessages(w, s) \/ ReadMessagesReply(w, s) \/ ReadMessagesFails(w, s)
             \/ ExpireMessages(w, s) \/ ExpireOwner(w, s)
      PROVE  EInv'
  BY <1>4, StaysE DEF ReadMessages, ReadMessagesReply, ReadMessagesFails, ExpireMessages, ExpireOwner, tables
<1>5. ASSUME NEW w \in Workers, ReadList(w) \/ ReadListReply(w) \/ ReadListFails(w) \/ ExpireList(w)
      PROVE  EInv'
  BY <1>5, StaysE DEF ReadList, ReadListReply, ReadListFails, ExpireList, tables
<1>6. ASSUME NEW w \in Workers, Crash(w) PROVE EInv'
  BY <1>6, CrashedE
<1>7. CASE UNCHANGED vars
  BY <1>7, StaysE DEF vars
<1> QED BY <1>1, <1>2, <1>3, <1>4, <1>5, <1>6, <1>7 DEF Next

LEMMA StartedE == Init => EInv
<1> SUFFICES ASSUME Init PROVE EInv
  OBVIOUS
<1>1. \A t \in Turns : turn[t].pc = "new" /\ turn[t].hit = FALSE
  BY DEF Init, NewTurn
<1>2. \A t \in Turns : Placed(t)
  BY <1>1 DEF Placed, At, Chatting
<1>3. ASSUME NEW s \in Sessions PROVE Balanced(s)
  <2>1. Half(s) = {} /\ Full(s) = {} /\ Doubt(s) = {}
    BY <1>1 DEF Half, Full, Doubt, At
  <2>2. Ahead(s) = 0 /\ Behind(s) = 0
    BY <2>1, FS_EmptySet DEF Ahead, Behind
  <2>3. messages[s] = <<>> /\ count[s] = 0 /\ errors = 0
    BY DEF Init
  <2> QED BY <2>2, <2>3 DEF Balanced
<1> QED BY <1>2, <1>3 DEF EInv

\* The rows of a session and its message_count differ by the requests under way
\* and the calls that failed, in every state the server reaches.
THEOREM MessagesBalanced == Spec => []EInv
<1>1. Init => EInv
  BY StartedE
<1>2. IInv /\ IInv' /\ EInv /\ [Next]_vars => EInv'
  BY SteppedE
<1> QED BY <1>1, <1>2, Inductive, PTL DEF Spec

\* When no turn of a session is being written, its message_count is off by two
\* for each failed call or torn turn at most.
THEOREM CountHolds == Spec => []CountWithinErrors
<1>1. ASSUME IInv, EInv PROVE CountWithinErrors
  <2> SUFFICES ASSUME NEW s \in Sessions, \A t \in Turns : SessionOf[t] = s => ~At(t, Persisting)
               PROVE  /\ Len(messages[s]) <= count[s] + 2 * errors
                      /\ count[s] <= Len(messages[s]) + 2 * errors
    BY DEF CountWithinErrors
  <2>1. Half(s) = {} /\ Full(s) = {}
    BY DEF Half, Full, At, Persisting
  <2>2. Ahead(s) = 0 /\ Behind(s) \in Nat
    BY <2>1, FS_EmptySet, SetsOfTurns DEF Ahead
  <2>3. /\ Len(messages[s]) <= count[s] + Ahead(s) + 2 * errors
        /\ count[s] + Behind(s) <= Len(messages[s]) + 2 * errors
    BY <1>1 DEF EInv, Balanced
  <2>4. count[s] \in Nat /\ errors \in Nat /\ Len(messages[s]) \in Nat
    BY <1>1 DEF IInv, TypeOK
  <2> DEFINE m == Len(messages[s])
             k == count[s]
             b == Behind(s)
  <2>5. m \in Nat /\ k \in Nat /\ b \in Nat /\ m <= k + 0 + 2 * errors /\ k + b <= m + 2 * errors
    BY <2>2, <2>3, <2>4
  <2> HIDE DEF m, k, b
  <2>6. m <= k + 2 * errors /\ k <= m + 2 * errors
    BY <2>4, <2>5
  <2> QED BY <2>6 DEF m, k
<1> QED BY <1>1, Inductive, MessagesBalanced, PTL

-----------------------------------------------------------------------------
(* The documents of the session: the conversation's other copy, which the    *)
(* tables know nothing of.                                                  *)

\* The turns of the order in which they read differ, and are those that began.
OrderOK ==
    /\ \A i, j \in 1..Len(order) : order[i] = order[j] => i = j
    /\ \A i \in 1..Len(order) : save[order[i]].pc # "new"
    /\ \A t \in Exchanges : save[t].pc \notin {"new", "done"} => \E i \in 1..Len(order) : order[i] = t

\* A list of turns that follows o.
Ranked(c, o) ==
    /\ c \in Seq(Exchanges) /\ Len(c) <= Keep
    /\ \A i \in 1..Len(c) : \E k \in 1..Len(o) : o[k] = c[i]
    /\ \A i, j \in 1..Len(c) : i < j =>
         \A k, l \in 1..Len(o) : o[k] = c[i] /\ o[l] = c[j] => k < l

\* Every list there is, in a copy or about to be written.
Held == {doc, cached} \cup {local[w] : w \in Processes} \cup {save[t].turns : t \in Exchanges}
ListsOK == \A c \in Held : c = None \/ Ranked(c, order)

\* The turns that have added to a count, by their places in the order; every
\* metadata there is; and what a turn is about to add to.
Adding == {"merged", "write", "insert", "done"}
Added == {i \in 1..Len(order) : save[order[i]].pc \in Adding}
AllMetas == {meta, metaCached} \cup {metaLocal[w] : w \in Processes} \cup {save[t].merged : t \in Exchanges}
         \cup {put[t].doc : t \in {u \in Exchanges : put[u] # None}}
MetasOK ==
    /\ \A m \in AllMetas : m = None \/ m.count <= 2 * Cardinality(Added)
    /\ \A t \in Exchanges : save[t].pc = "update" => save[t].count <= 2 * Cardinality(Added)

\* What the first n turns of o leave behind when they follow each other and
\* nothing fails.
Oldest(n) == IF n > Keep THEN n - Keep + 1 ELSE 1
EndOf(o, n) == SubSeq(o, Oldest(n), n)
ListAfter(o, n) == IF n = 0 THEN None ELSE EndOf(o, n)
TitleAfter(o, n) ==
    LET titled == {i \in 1..n : o[i] \notin Wordless} IN
    IF titled = {} THEN None ELSE o[CHOOSE i \in titled : \A j \in titled : i <= j]
MetaAfter(o, n) ==
    IF opener = "report" THEN None
    ELSE IF n = 0 THEN Blank ELSE [count |-> 2 * n, title |-> TitleAfter(o, n)]

\* How far the n-th of them, the last, has come: r is its save, p its write of
\* the metadata; d and c are the document and the shared copy, m the metadata.
Reached(o, n, d, c, m, r, p) ==
    /\ r.pc # "new"
    /\ r.pc # "done" => r.turns = EndOf(o, n) /\ (r.prior <=> n > 1)
    /\ d = ListAfter(o, IF r.pc = "done" THEN n ELSE n - 1)
    /\ c = ListAfter(o, IF r.pc = "store" THEN n - 1 ELSE n)
    /\ r.pc = "insert" => n = 1
    /\ r.pc = "update" /\ opener # "report" =>
         r.count = 2 * (n - 1) /\ (r.fresh <=> TitleAfter(o, n - 1) = None)
    /\ r.pc = "merged" => opener # "report" /\ r.merged = MetaAfter(o, n)
    /\ r.pc \in {"write", "insert", "done"} =>
         \/ p = None /\ m = MetaAfter(o, n)
         \/ /\ opener # "report" /\ p = [doc |-> MetaAfter(o, n), late |-> FALSE]
            /\ m = MetaAfter(o, n - 1)
    /\ r.pc \notin {"write", "insert", "done"} => p = None /\ m = MetaAfter(o, n - 1)

Latest == order[Len(order)]

NoneYet ==
    /\ doc = None /\ cached = None /\ \A w \in Processes : local[w] = None
    /\ \A t \in Exchanges : save[t].pc = "new" /\ put[t] = None
    /\ meta = IF creation = 0 THEN MetaAfter(<<>>, 0) ELSE None

LatestOnly ==
    /\ creation = 0
    /\ Reached(order, Len(order), doc, cached, meta, save[Latest], put[Latest])
    /\ \A t \in Exchanges : t # Latest => save[t].pc \in {"new", "done"} /\ put[t] = None

InTurn == IF order = <<>> THEN NoneYet ELSE LatestOnly
InTurnOK == ~overlap /\ faults = 0 => InTurn

\* A session that a report opened has no metadata, whatever is done to it.
Bare ==
    /\ creation = 0 /\ meta = None /\ metaCached = None
    /\ \A w \in Processes : metaLocal[w] = None
    /\ \A t \in Exchanges : save[t].merged = None /\ put[t] = None
BareOK == opener = "report" => Bare

MetaType == [count : Nat, title : Exchanges \cup {None, Given}]
SaveType == [pc : {"new", "store", "sync", "update", "merged", "write", "insert", "done"},
             worker : Processes \cup {None}, turns : Seq(Exchanges), prior : BOOLEAN,
             count : Nat, fresh : BOOLEAN, merged : MetaType \cup {None}]
PutType == [doc : MetaType, late : BOOLEAN]

\* An update that found metadata has some to store, and a process is at it.
SaveOK(r) ==
    /\ r.pc = "merged" => r.merged # None
    /\ r.pc \notin {"new", "done"} => r.worker \in Processes

Typed ==
    /\ doc \in Seq(Exchanges) \cup {None}
    /\ cached \in Seq(Exchanges) \cup {None}
    /\ local \in [Processes -> Seq(Exchanges) \cup {None}]
    /\ meta \in MetaType \cup {None}
    /\ metaCached \in MetaType \cup {None}
    /\ metaLocal \in [Processes -> MetaType \cup {None}]
    /\ opener \in {"endpoint", "chat", "report"}
    /\ creation \in 0..2
    /\ save \in [Exchanges -> SaveType]
    /\ put \in [Exchanges -> PutType \cup {None}]
    /\ faults \in Nat
    /\ order \in Seq(Exchanges)
    /\ overlap \in BOOLEAN
    /\ \A t \in Exchanges : SaveOK(save[t])

HInv == Typed /\ OrderOK /\ ListsOK /\ MetasOK /\ InTurnOK /\ BareOK

-----------------------------------------------------------------------------
(* Types of the documents.                                                 *)

LEMMA Apart ==
  /\ None \notin Seq(Exchanges) /\ None \notin MetaType /\ None \notin PutType /\ None \notin Exchanges
  /\ Keep \in Nat \ {0} /\ MaxFaults \in Nat
  BY HistoryAssumption DEF MetaType, PutType

LEMMA TypedIs == ASSUME Typed PROVE HistoryTypeOK
<1>1. Metas \ {None} = MetaType /\ Metas = MetaType \cup {None}
  BY Apart DEF Metas, MetaType
<1>2. Lists = Seq(Exchanges) \cup {None}
  BY DEF Lists
<1> QED BY <1>1, <1>2 DEF HistoryTypeOK, Typed, SaveType, PutType

\* The record of a turn, at another place.
Place(t, p) == [save[t] EXCEPT !.pc = p]
SaveTo == {"sync", "update", "write", "insert", "done"}

LEMMA SaveFields ==
  ASSUME Typed, NEW t \in Exchanges, NEW p \in SaveTo
  PROVE  /\ Place(t, p) \in SaveType /\ Place(t, p).pc = p
         /\ Place(t, p).turns = save[t].turns /\ Place(t, p).prior = save[t].prior
         /\ Place(t, p).count = save[t].count /\ Place(t, p).fresh = save[t].fresh
         /\ Place(t, p).merged = save[t].merged
         /\ save[t].pc \notin {"new", "done"} => SaveOK(Place(t, p))
<1>1. save[t] \in SaveType /\ SaveOK(save[t])
  BY DEF Typed
<1> QED BY <1>1 DEF Place, SaveType, SaveTo, SaveOK

\* A turn moves on.
LEMMA Saved1 ==
  ASSUME Typed, NEW t \in Exchanges, NEW x \in SaveType, save' = [save EXCEPT ![t] = x], SaveOK(x)
  PROVE  /\ save' \in [Exchanges -> SaveType] /\ save'[t] = x
         /\ \A u \in Exchanges : u # t => save'[u] = save[u]
         /\ \A u \in Exchanges : SaveOK(save'[u])
<1>1. save' \in [Exchanges -> SaveType] /\ save'[t] = x /\ \A u \in Exchanges : u # t => save'[u] = save[u]
  BY DEF Typed
<1> QED BY <1>1 DEF Typed

-----------------------------------------------------------------------------
(* The order of the turns and the lists.                                   *)

\* No turn begins: the order stays, and the lists are handed on.
Handed1 ==
    /\ order' = order
    /\ \A t \in Exchanges : /\ save'[t].turns = save[t].turns
                            /\ save[t].pc # "new" => save'[t].pc # "new"
                            /\ save'[t].pc \notin {"new", "done"} => save[t].pc \notin {"new", "done"}
    /\ doc' \in Held \cup {None} /\ cached' \in Held \cup {None}
    /\ \A w \in Processes : local'[w] \in Held \cup {None}

LEMMA OrderStays == ASSUME HInv, Handed1 PROVE OrderOK' /\ ListsOK'
<1>1. OrderOK /\ ListsOK /\ order \in Seq(Exchanges)
  BY DEF HInv, Typed
<1>2. \A i \in 1..Len(order) : order[i] \in Exchanges
  BY <1>1
<1>3. OrderOK'
  BY <1>1, <1>2 DEF OrderOK, Handed1
<1>4. Held' \subseteq Held \cup {None}
  BY DEF Held, Handed1
<1>5. ListsOK'
  <2> SUFFICES ASSUME NEW c \in Held' PROVE c = None \/ Ranked(c, order)
    BY DEF ListsOK, Handed1
  <2> QED BY <1>1, <1>4 DEF ListsOK
<1> QED BY <1>3, <1>5

\* A turn is added to the order: lists in order stay so.
LEMMA RankedOn ==
  ASSUME NEW o \in Seq(Exchanges), NEW t \in Exchanges, NEW c, Ranked(c, o),
         \A k \in 1..Len(o) : o[k] # t
  PROVE  Ranked(c, Append(o, t))
<1> DEFINE a == Append(o, t)
<1>1. /\ Len(a) = Len(o) + 1 /\ a[Len(o) + 1] = t /\ Len(o) \in Nat
      /\ \A k \in 1..Len(o) : a[k] = o[k]
  BY AppendProperties
<1>2. c \in Seq(Exchanges) /\ Len(c) \in Nat /\ Len(c) <= Keep
  BY DEF Ranked
<1> HIDE DEF a
<1>3. ASSUME NEW i \in 1..Len(c) PROVE \E k \in 1..Len(a) : a[k] = c[i]
  <2>1. PICK k \in 1..Len(o) : o[k] = c[i]
    BY DEF Ranked
  <2> QED BY <1>1, <2>1
<1>4. ASSUME NEW i \in 1..Len(c), NEW k \in 1..Len(a), a[k] = c[i] PROVE k \in 1..Len(o) /\ o[k] = c[i]
  <2>1. PICK m \in 1..Len(o) : o[m] = c[i]
    BY DEF Ranked
  <2>2. c[i] # t
    BY <2>1
  <2>3. k # Len(o) + 1
    BY <1>1, <1>4, <2>2
  <2> QED BY <1>1, <1>4, <2>3
<1>5. ASSUME NEW i \in 1..Len(c), NEW j \in 1..Len(c), i < j,
             NEW k \in 1..Len(a), NEW l \in 1..Len(a), a[k] = c[i], a[l] = c[j]
      PROVE  k < l
  <2>1. k \in 1..Len(o) /\ o[k] = c[i] /\ l \in 1..Len(o) /\ o[l] = c[j]
    BY <1>4, <1>5
  <2> QED BY <1>5, <2>1 DEF Ranked
<1>6. Ranked(c, a)
  BY <1>2, <1>3, <1>5 DEF Ranked
<1> QED BY <1>6 DEF a

LEMMA OldestIs ==
  ASSUME NEW n \in Nat, n # 0
  PROVE  Oldest(n) \in 1..n /\ n - Oldest(n) + 1 \in 1..Keep
<1>1. Keep \in Nat \ {0}
  BY Apart
<1> QED BY <1>1 DEF Oldest

\* The list a turn is about to write: what it read, and itself.
LEMMA Extended ==
  ASSUME NEW c \in Seq(Exchanges), NEW t \in Exchanges
  PROVE  /\ Extend(c, t) \in Seq(Exchanges) /\ Len(Append(c, t)) = Len(c) + 1
         /\ Oldest(Len(c) + 1) \in 1..(Len(c) + 1)
         /\ Len(Extend(c, t)) = (Len(c) + 1) - Oldest(Len(c) + 1) + 1
         /\ Len(Extend(c, t)) \in 1..Keep
         /\ \A i \in 1..Len(Extend(c, t)) :
              /\ Oldest(Len(c) + 1) + i - 1 \in 1..(Len(c) + 1)
              /\ Extend(c, t)[i] = Append(c, t)[Oldest(Len(c) + 1) + i - 1]
<1> DEFINE all == Append(c, t)
           n == Len(all)
           from == Oldest(n)
           e == Extend(c, t)
<1>1. all \in Seq(Exchanges) /\ n = Len(c) + 1 /\ n \in Nat /\ n # 0 /\ Len(c) \in Nat
  BY AppendProperties
<1>3. e = SubSeq(all, from, n)
  BY DEF Extend, Oldest
<1> HIDE DEF all, e, n
<1>4. from \in 1..n /\ n - from + 1 \in 1..Keep
  BY <1>1, OldestIs
<1> HIDE DEF from
<1>5. \A i \in from..n : all[i] \in Exchanges
  BY <1>1, <1>4 DEF n
<1>6. /\ SubSeq(all, from, n) \in Seq(Exchanges)
      /\ Len(SubSeq(all, from, n)) = (IF from <= n THEN n - from + 1 ELSE 0)
      /\ \A i \in 1..(n - from + 1) : SubSeq(all, from, n)[i] = all[from + i - 1]
  <2>1. from \in Int /\ n \in Int
    BY <1>1, <1>4
  <2> QED BY <1>5, <2>1, SubSeqProperties
<1>7. e \in Seq(Exchanges) /\ Len(e) = n - from + 1
  BY <1>1, <1>3, <1>4, <1>6
<1>8. ASSUME NEW i \in 1..Len(e) PROVE from + i - 1 \in 1..n /\ e[i] = all[from + i - 1]
  <2>1. i \in 1..(n - from + 1)
    BY <1>7
  <2>2. e[i] = all[from + i - 1]
    BY <1>3, <1>6, <2>1
  <2>3. from + i - 1 \in 1..n
    BY <1>1, <1>4, <2>1
  <2> QED BY <2>2, <2>3
<1>9. n = Len(c) + 1 /\ from = Oldest(Len(c) + 1)
  BY <1>1 DEF from
<1> QED BY <1>1, <1>4, <1>7, <1>8, <1>9 DEF e, all

LEMMA ExtendedRanked ==
  ASSUME NEW o \in Seq(Exchanges), NEW t \in Exchanges, NEW c, c = <<>> \/ Ranked(c, o),
         \A k \in 1..Len(o) : o[k] # t
  PROVE  Ranked(Extend(c, t), Append(o, t))
<1> DEFINE a == Append(o, t)
           all == Append(c, t)
           n == Len(all)
           from == Oldest(n)
           e == Extend(c, t)
<1>1. c \in Seq(Exchanges) /\ Len(c) \in Nat
  <2>1. <<>> \in Seq(Exchanges)
    OBVIOUS
  <2>2. c \in Seq(Exchanges)
    BY <2>1 DEF Ranked
  <2> QED BY <2>2
<1>2. /\ Len(a) = Len(o) + 1 /\ a[Len(o) + 1] = t /\ Len(o) \in Nat
      /\ \A k \in 1..Len(o) : a[k] = o[k]
  BY AppendProperties
<1>3. n = Len(c) + 1 /\ all[Len(c) + 1] = t /\ \A i \in 1..Len(c) : all[i] = c[i]
  BY <1>1, AppendProperties
<1>4. /\ e \in Seq(Exchanges) /\ Len(e) = n - from + 1 /\ Len(e) \in 1..Keep /\ from \in 1..n
      /\ \A i \in 1..Len(e) : from + i - 1 \in 1..n /\ e[i] = all[from + i - 1]
  <2> HIDE DEF a
  <2>1. /\ e \in Seq(Exchanges) /\ Oldest(Len(c) + 1) \in 1..(Len(c) + 1)
        /\ Len(e) = (Len(c) + 1) - Oldest(Len(c) + 1) + 1 /\ Len(e) \in 1..Keep
        /\ \A i \in 1..Len(e) : /\ Oldest(Len(c) + 1) + i - 1 \in 1..(Len(c) + 1)
                                /\ e[i] = all[Oldest(Len(c) + 1) + i - 1]
    BY <1>1, Extended
  <2>2. from = Oldest(Len(c) + 1)
    BY <1>3
  <2> HIDE DEF e, from, all, n
  <2> QED BY <1>3, <2>1, <2>2
<1> HIDE DEF a, all, n, from, e
<1>5. \A i \in 1..Len(c) : \E k \in 1..Len(o) : o[k] = c[i]
  <2>1. CASE c = <<>>
    <3>1. Len(c) = 0
      BY <2>1
    <3> QED BY <3>1
  <2>2. CASE Ranked(c, o)
    BY <2>2 DEF Ranked
  <2> QED BY <2>1, <2>2
<1>6. \A i \in 1..n : \E k \in 1..Len(a) : a[k] = all[i]
  <2> SUFFICES ASSUME NEW i \in 1..n PROVE \E k \in 1..Len(a) : a[k] = all[i]
    OBVIOUS
  <2>1. CASE i = Len(c) + 1
    <3>1. Len(o) + 1 \in 1..Len(a) /\ a[Len(o) + 1] = all[i]
      BY <1>2, <1>3, <2>1
    <3> QED BY <3>1
  <2>2. CASE i # Len(c) + 1
    <3>1. i \in 1..Len(c) /\ all[i] = c[i]
      BY <1>1, <1>3, <2>2
    <3>2. PICK k \in 1..Len(o) : o[k] = c[i]
      BY <1>5, <3>1
    <3>3. k \in 1..Len(a) /\ a[k] = all[i]
      BY <1>2, <3>1, <3>2
    <3> QED BY <3>3
  <2> QED BY <2>1, <2>2
<1>7. ASSUME NEW i \in 1..n, NEW j \in 1..n, i < j,
             NEW k \in 1..Len(a), NEW l \in 1..Len(a), a[k] = all[i], a[l] = all[j]
      PROVE  k < l
  <2>1. i \in 1..Len(c) /\ all[i] = c[i]
    BY <1>1, <1>3, <1>7
  <2>2. PICK m \in 1..Len(o) : o[m] = c[i]
    BY <1>5, <2>1
  <2>3. k \in 1..Len(o) /\ o[k] = c[i]
    <3>1. k # Len(o) + 1
      BY <1>2, <1>7, <2>1, <2>2
    <3> QED BY <1>2, <1>7, <2>1, <3>1
  <2>4. CASE j = Len(c) + 1
    <3>1. a[l] = t
      BY <1>3, <1>7, <2>4
    <3>2. l = Len(o) + 1
      BY <1>2, <3>1
    <3> QED BY <1>2, <2>3, <3>2
  <2>5. CASE j # Len(c) + 1
    <3>1. j \in 1..Len(c) /\ all[j] = c[j]
      BY <1>1, <1>3, <1>7, <2>5
    <3>2. PICK q \in 1..Len(o) : o[q] = c[j]
      BY <1>5, <3>1
    <3>3. l # Len(o) + 1
      BY <1>2, <1>7, <3>1, <3>2
    <3>4. l \in 1..Len(o) /\ o[l] = c[j]
      BY <1>2, <1>7, <3>1, <3>3
    <3>5. c # <<>>
      BY <2>1
    <3> QED BY <1>7, <2>1, <2>3, <3>1, <3>4, <3>5 DEF Ranked
  <2> QED BY <2>4, <2>5
<1>8. \A i \in 1..Len(e) : \E k \in 1..Len(a) : a[k] = e[i]
  BY <1>4, <1>6
<1>9. ASSUME NEW i \in 1..Len(e), NEW j \in 1..Len(e), i < j,
             NEW k \in 1..Len(a), NEW l \in 1..Len(a), a[k] = e[i], a[l] = e[j]
      PROVE  k < l
  <2>1. /\ from + i - 1 \in 1..n /\ from + j - 1 \in 1..n
        /\ a[k] = all[from + i - 1] /\ a[l] = all[from + j - 1]
    BY <1>4, <1>9
  <2>2. from + i - 1 < from + j - 1
    BY <1>4, <1>9, <2>1
  <2> QED BY <1>7, <2>1, <2>2
<1>10. Len(e) <= Keep
  BY <1>4, Apart
<1>11. Ranked(e, a)
  BY <1>4, <1>8, <1>9, <1>10 DEF Ranked
<1> QED BY <1>11 DEF e, a

\* A turn begins: it is last in the order, and what it will write extends what
\* it read.
LEMMA OrderGrows ==
  ASSUME HInv, NEW t \in Exchanges, save[t].pc = "new", order' = Append(order, t),
         NEW x \in SaveType, save' = [save EXCEPT ![t] = x], x.pc = "store",
         NEW c, c = <<>> \/ (c \in Held /\ c # None), x.turns = Extend(c, t),
         UNCHANGED <<doc, cached, local>>
  PROVE  OrderOK' /\ ListsOK'
<1>1. OrderOK /\ ListsOK /\ order \in Seq(Exchanges) /\ save \in [Exchanges -> SaveType]
  BY DEF HInv, Typed
<1>2. /\ Len(order') = Len(order) + 1 /\ order'[Len(order) + 1] = t /\ Len(order) \in Nat
      /\ \A k \in 1..Len(order) : order'[k] = order[k] /\ order[k] \in Exchanges
  BY <1>1, AppendProperties
<1>3. \A k \in 1..Len(order) : order[k] # t
  BY <1>1 DEF OrderOK
<1>4. save'[t] = x /\ \A u \in Exchanges : u # t => save'[u] = save[u]
  BY <1>1
<1>5. OrderOK'
  <2>1. \A k \in 1..Len(order') : k = Len(order) + 1 \/ k \in 1..Len(order)
    BY <1>2
  <2>2. \A i, j \in 1..Len(order') : order'[i] = order'[j] => i = j
    BY <1>1, <1>2, <1>3, <2>1 DEF OrderOK
  <2>3. \A i \in 1..Len(order') : save'[order'[i]].pc # "new"
    BY <1>1, <1>2, <1>3, <1>4, <2>1 DEF OrderOK
  <2>4. ASSUME NEW u \in Exchanges, save'[u].pc \notin {"new", "done"}
        PROVE  \E i \in 1..Len(order') : order'[i] = u
    <3>1. CASE u = t
      <4>1. Len(order) + 1 \in 1..Len(order')
        BY <1>2
      <4> QED BY <1>2, <3>1, <4>1
    <3>2. CASE u # t
      <4>1. PICK i \in 1..Len(order) : order[i] = u
        BY <1>1, <1>4, <2>4, <3>2 DEF OrderOK
      <4>2. i \in 1..Len(order')
        BY <1>2
      <4> QED BY <1>2, <4>1, <4>2
    <3> QED BY <3>1, <3>2
  <2> QED BY <2>2, <2>3, <2>4 DEF OrderOK
<1>6. Held' \subseteq Held \cup {x.turns}
  BY <1>4 DEF Held
<1>7. ASSUME NEW d \in Held' PROVE d = None \/ Ranked(d, Append(order, t))
  <2>1. CASE d \in Held
    BY <1>1, <1>3, <2>1, RankedOn DEF ListsOK
  <2>2. CASE d = x.turns
    <3>1. c = <<>> \/ Ranked(c, order)
      BY <1>1 DEF ListsOK
    <3>2. Ranked(Extend(c, t), Append(order, t))
      BY <1>1, <1>3, <3>1, ExtendedRanked
    <3> QED BY <2>2, <3>2
  <2> QED BY <1>6, <2>1, <2>2
<1> QED BY <1>5, <1>7 DEF ListsOK

-----------------------------------------------------------------------------
(* The counts.                                                             *)

LEMMA AddedFinite ==
  ASSUME NEW n \in Nat, NEW A \in SUBSET (1..n)
  PROVE  IsFiniteSet(A) /\ Cardinality(A) \in Nat /\ Cardinality(A) <= n
<1>1. 1 \in Int /\ n \in Int
  OBVIOUS
<1>2. IsFiniteSet(1..n) /\ Cardinality(1..n) = IF 1 > n THEN 0 ELSE n - 1 + 1
  BY <1>1, FS_Interval, Zenon
<1>3. Cardinality(1..n) = n
  BY <1>2
<1>4. IsFiniteSet(A) /\ Cardinality(A) <= Cardinality(1..n)
  BY <1>2, FS_Subset
<1> QED BY <1>3, <1>4, FS_CardinalityType

LEMMA CountsAre == ASSUME Typed, NEW m \in AllMetas PROVE m = None \/ m.count \in Nat
<1>1. \A t \in Exchanges : save[t].merged \in MetaType \cup {None}
  BY DEF Typed, SaveType
<1>2. \A t \in Exchanges : put[t] # None => put[t].doc \in MetaType
  BY DEF Typed, PutType
<1>3. m \in MetaType \cup {None}
  BY <1>1, <1>2 DEF AllMetas, Typed
<1> QED BY <1>3 DEF MetaType

\* No turn adds to a count: what there is was there, or is 0.
Counted1(t) ==
    \/ save'[t].pc # "update"
    \/ save'[t] = save[t]
    \/ save'[t].count = 0
    \/ \E m \in AllMetas : m # None /\ save'[t].count = m.count

LEMMA MetasStay ==
  ASSUME HInv, Typed', Added \subseteq Added', AllMetas' \subseteq AllMetas \cup {None, Blank},
         \A t \in Exchanges : Counted1(t)
  PROVE  MetasOK'
<1> DEFINE a == Cardinality(Added)
           b == Cardinality(Added')
<1>1. Len(order) \in Nat /\ Len(order') \in Nat
  BY DEF HInv, Typed
<1>2. Added \in SUBSET (1..Len(order)) /\ Added' \in SUBSET (1..Len(order'))
  BY DEF Added
<1>3. a \in Nat /\ b \in Nat /\ IsFiniteSet(Added')
  BY <1>1, <1>2, AddedFinite
<1>4. a <= b
  BY <1>3, FS_Subset
<1>5. MetasOK /\ \A m \in AllMetas : m = None \/ m.count \in Nat
  BY CountsAre DEF HInv
<1>6. \A m \in AllMetas : m = None \/ (m.count \in Nat /\ m.count <= 2 * a)
  BY <1>5 DEF MetasOK
<1>7. \A t \in Exchanges : save[t].pc = "update" => save[t].count \in Nat /\ save[t].count <= 2 * a
  BY <1>5 DEF HInv, Typed, MetasOK, SaveType
<1> HIDE DEF a, b
<1>8. \A n \in Nat : n <= 2 * a => n <= 2 * b
  BY <1>3, <1>4
<1>9. Blank.count = 0 /\ 0 <= 2 * b
  BY <1>3 DEF Blank
<1>10. \A m \in AllMetas' : m = None \/ m.count <= 2 * b
  BY <1>6, <1>8, <1>9
<1>11. \A t \in Exchanges : save'[t].pc = "update" => save'[t].count <= 2 * b
  BY <1>6, <1>7, <1>8, <1>9 DEF Counted1
<1> QED BY <1>10, <1>11 DEF MetasOK, b

\* A turn adds its two messages to the count it read.
LEMMA MetasMerge ==
  ASSUME HInv, Typed', NEW t \in Exchanges, save[t].pc = "update", save'[t].pc = "merged",
         save'[t].merged.count = save[t].count + 2, order' = order,
         \A u \in Exchanges : u # t => save'[u] = save[u],
         AllMetas' \subseteq AllMetas \cup {save'[t].merged}
  PROVE  MetasOK'
<1> DEFINE a == Cardinality(Added)
           b == Cardinality(Added')
<1>1. Len(order) \in Nat /\ OrderOK /\ order \in Seq(Exchanges)
  BY DEF HInv, Typed
<1>2. PICK i \in 1..Len(order) : order[i] = t
  BY DEF HInv, OrderOK
<1>3. i \notin Added /\ Added' = Added \cup {i}
  <2>1. i \notin Added
    BY <1>2 DEF Added, Adding
  <2>2. \A j \in 1..Len(order) : order[j] \in Exchanges /\ (j # i => order[j] # t)
    BY <1>1, <1>2 DEF OrderOK
  <2>3. \A j \in 1..Len(order) : j \in Added' <=> j \in Added \cup {i}
    BY <1>2, <2>2 DEF Added, Adding
  <2> QED BY <2>1, <2>3 DEF Added
<1>4. Added \in SUBSET (1..Len(order))
  BY DEF Added
<1>5. a \in Nat /\ IsFiniteSet(Added)
  BY <1>1, <1>4, AddedFinite
<1>6. b = a + 1
  <2>1. Cardinality(Added \cup {i}) = Cardinality(Added) + 1
    BY <1>3, <1>5, FS_AddElement
  <2> QED BY <1>3, <2>1
<1>7. MetasOK /\ \A m \in AllMetas : m = None \/ m.count \in Nat
  BY CountsAre DEF HInv
<1>8. \A m \in AllMetas : m = None \/ (m.count \in Nat /\ m.count <= 2 * a)
  BY <1>7 DEF MetasOK
<1>9. \A u \in Exchanges : save[u].pc = "update" => save[u].count \in Nat /\ save[u].count <= 2 * a
  BY <1>7 DEF HInv, Typed, MetasOK, SaveType
<1> HIDE DEF a, b
<1>10. \A n \in Nat : n <= 2 * a => n <= 2 * b /\ n + 2 <= 2 * b
  BY <1>5, <1>6
<1>11. save'[t].merged.count <= 2 * b
  BY <1>9, <1>10
<1>12. \A m \in AllMetas' : m = None \/ m.count <= 2 * b
  BY <1>8, <1>10, <1>11
<1>13. \A u \in Exchanges : save'[u].pc = "update" => save'[u].count <= 2 * b
  BY <1>9, <1>10
<1> QED BY <1>12, <1>13 DEF MetasOK, b

\* All of the invariant but what holds of turns that follow each other.
HBase == Typed /\ OrderOK /\ ListsOK /\ MetasOK

LEMMA AddedStays ==
  ASSUME Typed, order' = order,
         \A t \in Exchanges : save[t].pc \in Adding => save'[t].pc \in Adding
  PROVE  Added \subseteq Added'
<1>1. \A i \in 1..Len(order) : order[i] \in Exchanges
  BY DEF Typed
<1> QED BY <1>1 DEF Added

\* One turn moves on, past the count or not, and no metadata is new.
LEMMA OneMoves ==
  ASSUME HInv, NEW t \in Exchanges, NEW x \in SaveType, save' = [save EXCEPT ![t] = x],
         save[t].pc \notin {"new", "done"}, x.pc \notin {"new", "merged"}, x.turns = save[t].turns,
         save[t].pc \in Adding => x.pc \in Adding, order' = order,
         doc' \in Held \cup {None}, cached' \in Held \cup {None},
         \A w \in Processes : local'[w] \in Held \cup {None},
         Typed', AllMetas' \subseteq AllMetas \cup {None, Blank},
         SaveOK(x),
         \/ x.pc # "update"
         \/ x.count = 0
         \/ \E m \in AllMetas : m # None /\ x.count = m.count
  PROVE  HBase'
<1>1. Typed
  BY DEF HInv
<1>2. save'[t] = x /\ \A u \in Exchanges : u # t => save'[u] = save[u]
  BY <1>1, Saved1
<1>3. Handed1
  BY <1>2 DEF Handed1
<1>4. Added \subseteq Added'
  BY <1>1, <1>2, AddedStays
<1>5. \A u \in Exchanges : Counted1(u)
  BY <1>2 DEF Counted1
<1>6. MetasOK'
  BY <1>4, <1>5, MetasStay
<1> QED BY <1>1, <1>3, <1>6, OrderStays DEF HBase

LEMMA HRead ==
  ASSUME HInv, NEW t \in Exchanges, NEW w \in Processes,
         ReadHistory(t, w) \/ ReadHistoryFails(t, w)
  PROVE  HBase'
<1>1. Typed
  BY DEF HInv
<1>2. PICK found \in {doc, cached, local[w], None} : Got(t, w, found)
  BY DEF ReadHistory, ReadHistoryFails, Fallback
<1>3. /\ save[t].pc = "new" /\ UNCHANGED <<doc, cached, local, meta, metaCached, metaLocal, opener, creation, put>>
      /\ faults' = faults \/ faults' = faults + 1
  BY DEF ReadHistory, ReadHistoryFails, MayBegin, Saving, history,
         metadata, Fault
<1> DEFINE c == IF found = None THEN <<>> ELSE found
           x == [save[t] EXCEPT !.pc = "store", !.worker = w, !.turns = Extend(c, t), !.prior = c # <<>>]
<1>4. c = <<>> \/ (c \in Held /\ c # None)
  BY DEF Held
<1>5. c \in Seq(Exchanges)
  <2>1. <<>> \in Seq(Exchanges)
    OBVIOUS
  <2> QED BY <1>1, <2>1 DEF Typed
<1>6. save' = [save EXCEPT ![t] = x] /\ order' = Append(order, t) /\ overlap' \in BOOLEAN
  BY <1>2 DEF Got
<1> HIDE DEF c
<1>7. Extend(c, t) \in Seq(Exchanges)
  BY <1>1, <1>5, Extended
<1>8. save[t] \in SaveType /\ (c # <<>>) \in BOOLEAN
  BY <1>1 DEF Typed
<1> DEFINE e == Extend(c, t)
           q == (c # <<>>)
<1>9. x \in SaveType /\ x.pc = "store" /\ x.turns = Extend(c, t) /\ x.merged = save[t].merged
      /\ SaveOK(x)
  <2>1. e \in Seq(Exchanges) /\ q \in BOOLEAN
    BY <1>7, <1>8
  <2> HIDE DEF e, q
  <2>2. [save[t] EXCEPT !.pc = "store", !.worker = w, !.turns = e, !.prior = q] \in SaveType
    BY <1>8, <2>1 DEF SaveType
  <2>3. LET y == [save[t] EXCEPT !.pc = "store", !.worker = w, !.turns = e, !.prior = q]
        IN  y.pc = "store" /\ y.turns = e /\ y.merged = save[t].merged /\ SaveOK(y)
    BY <1>8 DEF SaveType, SaveOK
  <2> QED BY <2>2, <2>3 DEF e, q
<1> HIDE DEF x
<1>10. OrderOK' /\ ListsOK'
  BY <1>3, <1>4, <1>6, <1>9, OrderGrows
<1>11. save'[t] = x /\ \A u \in Exchanges : u # t => save'[u] = save[u]
  BY <1>1, <1>6, <1>9, Saved1
<1>12. Typed'
  <2>1. order' \in Seq(Exchanges)
    BY <1>1, <1>6, AppendProperties DEF Typed
  <2>2. faults' \in Nat
    BY <1>1, <1>3 DEF Typed
  <2>3. save' \in [Exchanges -> SaveType] /\ \A u \in Exchanges : SaveOK(save'[u])
    BY <1>1, <1>6, <1>9, Saved1
  <2> QED BY <1>1, <1>3, <1>6, <2>1, <2>2, <2>3 DEF Typed
<1>13. Added \subseteq Added'
  <2>1. Len(order) \in Nat /\ Len(order') = Len(order) + 1 /\ \A i \in 1..Len(order) : order'[i] = order[i] /\ order[i] \in Exchanges
    BY <1>1, <1>6, AppendProperties DEF Typed
  <2>2. ASSUME NEW i \in Added PROVE i \in Added'
    <3>1. i \in 1..Len(order) /\ save[order[i]].pc \in Adding
      BY DEF Added
    <3>2. order[i] # t
      BY <1>3, <3>1 DEF Adding
    <3>3. i \in 1..Len(order') /\ save'[order'[i]].pc \in Adding
      BY <1>11, <2>1, <3>1, <3>2
    <3> QED BY <3>3 DEF Added
  <2> QED BY <2>2
<1>14. AllMetas' \subseteq AllMetas
  BY <1>3, <1>9, <1>11 DEF AllMetas
<1>15. MetasOK'
  <2>1. \A u \in Exchanges : Counted1(u)
    BY <1>9, <1>11 DEF Counted1
  <2> QED BY <1>12, <1>13, <1>14, <2>1, MetasStay
<1> QED BY <1>1, <1>10, <1>12, <1>15 DEF HBase

\* The copies in the cache and in the memory of the process.
LEMMA HStore == ASSUME HInv, NEW t \in Exchanges, Store(t) PROVE HBase'
<1> DEFINE x == Place(t, "sync")
<1>1. Typed
  BY DEF HInv
<1>2. /\ save[t].pc = "store" /\ save' = [save EXCEPT ![t] = x]
      /\ UNCHANGED <<doc, meta, metaCached, metaLocal, opener, creation, put, order, overlap>>
      /\ local' = [local EXCEPT ![save[t].worker] = save[t].turns]
      /\ cached' \in {cached, save[t].turns} /\ faults' \in {faults, faults + 1}
  BY DEF Store, Saving, MovesTo, metadata, observed, Fault, Place
<1>3. /\ x \in SaveType /\ x.pc = "sync" /\ x.turns = save[t].turns /\ x.merged = save[t].merged
      /\ save[t].turns \in Seq(Exchanges) /\ SaveOK(x)
  BY <1>1, <1>2, SaveFields DEF SaveTo, Typed, SaveType
<1> HIDE DEF x
<1>4. local' \in [Processes -> Seq(Exchanges) \cup {None}] /\ \A w \in Processes : local'[w] \in {local[w], save[t].turns}
  BY <1>1, <1>2, <1>3 DEF Typed
<1>5. save' \in [Exchanges -> SaveType] /\ \A u \in Exchanges : SaveOK(save'[u])
  BY <1>1, <1>2, <1>3, Saved1
<1>6. Typed'
  BY <1>1, <1>2, <1>3, <1>4, <1>5 DEF Typed
<1>7. AllMetas' \subseteq AllMetas
  <2>1. \A u \in Exchanges : save'[u].merged = save[u].merged
    BY <1>1, <1>2, <1>3, Saved1
  <2> QED BY <1>2, <2>1 DEF AllMetas
<1>8. doc' \in Held /\ cached' \in Held /\ \A w \in Processes : local'[w] \in Held
  BY <1>2, <1>4 DEF Held
<1> QED BY <1>2, <1>3, <1>6, <1>7, <1>8, OneMoves DEF Adding

LEMMA Fetched ==
  ASSUME Typed, NEW w \in Processes, NEW found \in {MetaFetched(w)} \cup MetaUnfetched(w)
  PROVE  found \in AllMetas /\ found \in MetaType \cup {None}
<1>1. found \in {meta, metaCached, metaLocal[w]}
  BY DEF MetaFetched, MetaUnfetched, Fallback
<1> QED BY <1>1 DEF AllMetas, Typed

\* What a turn adds to is what it found.
LEMMA HSync == ASSUME HInv, NEW t \in Exchanges, Sync(t) PROVE HBase'
<1>1. Typed
  BY DEF HInv
<1>2. /\ save[t].pc = "sync" /\ save[t].worker \in Processes
      /\ UNCHANGED <<doc, cached, local, meta, metaCached, metaLocal, opener, creation, put, order, overlap>>
      /\ faults' \in {faults, faults + 1}
  BY <1>1 DEF Sync, Saving, history, metadata, observed, Fault,
              Typed, SaveOK
<1>3. PICK found \in {MetaFetched(save[t].worker)} \cup MetaUnfetched(save[t].worker) :
        SyncRead(t, found)
  BY DEF Sync
<1>4. found \in AllMetas /\ found \in MetaType \cup {None}
  BY <1>1, <1>2, <1>3, Fetched
<1> DEFINE k == IF found = None THEN 0 ELSE found.count
           f == found # None /\ (found.count = 0 \/ found.title = None)
           x == [save[t] EXCEPT !.pc = "update", !.count = k, !.fresh = f]
<1>5. k \in Nat /\ f \in BOOLEAN /\ (k = 0 \/ (found # None /\ k = found.count))
  BY <1>4 DEF MetaType
<1>6. save' = [save EXCEPT ![t] = x]
  BY <1>3 DEF SyncRead
<1>7. save[t] \in SaveType
  BY <1>1 DEF Typed
<1> HIDE DEF k, f
<1>8. /\ x \in SaveType /\ x.pc = "update" /\ x.count = k /\ x.turns = save[t].turns
      /\ x.merged = save[t].merged /\ SaveOK(x)
  BY <1>2, <1>5, <1>7 DEF SaveType, SaveOK
<1> HIDE DEF x
<1>9. save' \in [Exchanges -> SaveType] /\ \A u \in Exchanges : SaveOK(save'[u])
  BY <1>1, <1>6, <1>8, Saved1
<1>10. Typed'
  BY <1>1, <1>2, <1>9 DEF Typed
<1>11. AllMetas' \subseteq AllMetas
  <2>1. \A u \in Exchanges : save'[u].merged = save[u].merged
    BY <1>1, <1>6, <1>8, Saved1
  <2> QED BY <1>2, <2>1 DEF AllMetas
<1>12. doc' \in Held /\ cached' \in Held /\ \A w \in Processes : local'[w] \in Held
  BY <1>2 DEF Held
<1> QED BY <1>2, <1>4, <1>5, <1>6, <1>8, <1>10, <1>11, <1>12, OneMoves DEF Adding

LEMMA HUpdate == ASSUME HInv, NEW t \in Exchanges, Update(t) PROVE HBase'
<1>1. Typed
  BY DEF HInv
<1>2. /\ save[t].pc = "update" /\ save[t].worker \in Processes
      /\ UNCHANGED <<doc, cached, local, meta, metaCached, metaLocal, opener, creation, put, order, overlap>>
      /\ faults' \in {faults, faults + 1}
  BY <1>1 DEF Update, Saving, history, metadata, observed, Fault,
              Typed, SaveOK
<1>3. PICK found \in {MetaFetched(save[t].worker)} \cup MetaUnfetched(save[t].worker) :
        UpdateWith(t, found)
  BY DEF Update
<1>4. found \in AllMetas /\ found \in MetaType \cup {None}
  BY <1>1, <1>2, <1>3, Fetched
<1> DEFINE m == IF found = None THEN None ELSE Merged(t, found)
           p == IF found = None THEN "write" ELSE "merged"
           x == [save[t] EXCEPT !.pc = p, !.count = 0, !.fresh = FALSE, !.merged = m]
<1>5. save[t] \in SaveType /\ save \in [Exchanges -> SaveType]
  BY <1>1 DEF Typed
<1>6. save' = [save EXCEPT ![t] = x]
  BY <1>3 DEF UpdateWith
<1>7. /\ m \in MetaType \cup {None} /\ p \in {"write", "merged"}
      /\ p = "merged" => m # None /\ m.count = save[t].count + 2
  <2>1. /\ found # None => found.title \in Exchanges \cup {None, Given}
        /\ TitleOf(t) \in Exchanges \cup {None, Given}
    BY <1>4 DEF MetaType, TitleOf
  <2>2. found # None => m \in MetaType /\ m.count = save[t].count + 2
    BY <1>5, <2>1 DEF Merged, MetaType, SaveType
  <2> QED BY <1>1, <2>2, Apart
<1> HIDE DEF m, p
<1>8. /\ x \in SaveType /\ x.pc = p /\ x.merged = m /\ x.turns = save[t].turns /\ SaveOK(x)
  BY <1>2, <1>5, <1>7 DEF SaveType, SaveOK
<1> HIDE DEF x
<1>9. /\ save' \in [Exchanges -> SaveType] /\ save'[t] = x /\ \A u \in Exchanges : SaveOK(save'[u])
      /\ \A u \in Exchanges : u # t => save'[u] = save[u]
  BY <1>1, <1>6, <1>8, Saved1
<1>10. Typed'
  BY <1>1, <1>2, <1>9 DEF Typed
<1>11. doc' \in Held /\ cached' \in Held /\ \A w \in Processes : local'[w] \in Held
  BY <1>2 DEF Held
<1>12. AllMetas' \subseteq AllMetas \cup {m}
  BY <1>2, <1>8, <1>9 DEF AllMetas
<1>13. CASE p = "write"
  <2>1. m = None
    BY <1>13 DEF m, p
  <2>2. AllMetas' \subseteq AllMetas \cup {None}
    BY <1>12, <2>1
  <2> QED BY <1>2, <1>6, <1>8, <1>10, <1>11, <1>13, <2>2, OneMoves DEF Adding
<1>14. CASE p = "merged"
  <2>1. Handed1
    BY <1>2, <1>8, <1>9, <1>11, <1>14 DEF Handed1
  <2>2. MetasOK'
    BY <1>2, <1>7, <1>8, <1>9, <1>10, <1>12, <1>14, MetasMerge
  <2> QED BY <1>1, <1>10, <2>1, <2>2, OrderStays DEF HBase
<1> QED BY <1>7, <1>13, <1>14

LEMMA HStoreMeta == ASSUME HInv, NEW t \in Exchanges, StoreMeta(t) PROVE HBase'
<1>1. Typed
  BY DEF HInv
<1>2. /\ save[t].pc = "merged" /\ save[t].worker \in Processes /\ save[t].merged \in MetaType
      /\ save[t] \in SaveType /\ save \in [Exchanges -> SaveType]
  BY <1>1 DEF StoreMeta, Saving, Typed, SaveOK, SaveType
<1>3. /\ UNCHANGED <<doc, cached, local, meta, opener, creation, order, overlap>>
      /\ faults' \in {faults, faults + 1} /\ metaCached' \in {metaCached, save[t].merged}
      /\ metaLocal' = [metaLocal EXCEPT ![save[t].worker] = save[t].merged]
      /\ put' = [put EXCEPT ![t] = [doc |-> save[t].merged, late |-> FALSE]]
  BY DEF StoreMeta, history, observed, Fault
<1> DEFINE m == save[t].merged
           x == [save[t] EXCEPT !.pc = "write", !.merged = None]
<1>4. save' = [save EXCEPT ![t] = x]
  <2>1. save' = [save EXCEPT ![t].pc = "write", ![t].merged = None]
    BY DEF StoreMeta
  <2> QED BY <1>2, <2>1
<1>5. /\ x \in SaveType /\ x.pc = "write" /\ x.merged = None /\ x.turns = save[t].turns /\ SaveOK(x)
  BY <1>2 DEF SaveType, SaveOK
<1> HIDE DEF x
<1>6. /\ save' \in [Exchanges -> SaveType] /\ save'[t] = x /\ \A u \in Exchanges : SaveOK(save'[u])
      /\ \A u \in Exchanges : u # t => save'[u] = save[u]
  BY <1>1, <1>4, <1>5, Saved1
<1>7. /\ put' \in [Exchanges -> PutType \cup {None}] /\ put'[t].doc = m
      /\ \A u \in Exchanges : u # t => put'[u] = put[u]
  <2>1. [doc |-> m, late |-> FALSE] \in PutType
    BY <1>2 DEF PutType
  <2> QED BY <1>1, <1>3, <2>1 DEF Typed
<1>8. /\ metaLocal' \in [Processes -> MetaType \cup {None}]
      /\ \A w \in Processes : metaLocal'[w] \in {metaLocal[w], m}
  BY <1>1, <1>2, <1>3 DEF Typed
<1>9. Typed'
  BY <1>1, <1>2, <1>3, <1>6, <1>7, <1>8 DEF Typed
<1>10. AllMetas' \subseteq AllMetas \cup {None}
  <2>1. m \in AllMetas
    BY DEF AllMetas
  <2>2. \A u \in Exchanges : save'[u].merged \in AllMetas \cup {None}
    BY <1>5, <1>6 DEF AllMetas
  <2>3. \A u \in Exchanges : put'[u] # None => put'[u].doc \in AllMetas
    <3> SUFFICES ASSUME NEW u \in Exchanges, put'[u] # None PROVE put'[u].doc \in AllMetas
      OBVIOUS
    <3>1. CASE u = t
      BY <1>7, <2>1, <3>1
    <3>2. CASE u # t
      BY <1>7, <3>2 DEF AllMetas
    <3> QED BY <3>1, <3>2
  <2>4. meta' \in AllMetas /\ metaCached' \in AllMetas /\ \A w \in Processes : metaLocal'[w] \in AllMetas
    BY <1>3, <1>8 DEF AllMetas
  <2> QED BY <2>2, <2>3, <2>4 DEF AllMetas
<1>11. doc' \in Held /\ cached' \in Held /\ \A w \in Processes : local'[w] \in Held
  BY <1>3 DEF Held
<1> QED BY <1>2, <1>3, <1>4, <1>5, <1>9, <1>10, <1>11, OneMoves DEF Adding

\* The background writes of the history.
LEMMA HWrite ==
  ASSUME HInv, NEW t \in Exchanges, Write(t) \/ Insert(t) \/ WriteFails(t)
  PROVE  HBase'
<1>1. Typed
  BY DEF HInv
<1>2. /\ save[t].pc \in {"write", "insert"} /\ faults' \in {faults, faults + 1}
      /\ UNCHANGED <<cached, local, meta, metaCached, metaLocal, opener, creation, put, order, overlap>>
      /\ doc' \in {doc, save[t].turns}
      /\ MovesTo(t, "done") \/ MovesTo(t, "insert")
  BY DEF Write, Insert, WriteFails, Saving, history, metadata,
         observed, Fault
<1>3. PICK p \in {"done", "insert"} : save' = [save EXCEPT ![t] = Place(t, p)]
  BY <1>2 DEF MovesTo, Place
<1> DEFINE x == Place(t, p)
<1>4. /\ x \in SaveType /\ x.pc = p /\ x.turns = save[t].turns /\ x.merged = save[t].merged
      /\ save[t].turns \in Seq(Exchanges) /\ SaveOK(x)
  BY <1>1, <1>2, SaveFields DEF SaveTo, Typed, SaveType
<1> HIDE DEF x
<1>5. /\ save' \in [Exchanges -> SaveType] /\ \A u \in Exchanges : SaveOK(save'[u])
      /\ \A u \in Exchanges : save'[u].merged = save[u].merged
  BY <1>1, <1>3, <1>4, Saved1 DEF x
<1>6. Typed'
  BY <1>1, <1>2, <1>4, <1>5 DEF Typed
<1>7. AllMetas' \subseteq AllMetas
  BY <1>2, <1>5 DEF AllMetas
<1>8. doc' \in Held /\ cached' \in Held /\ \A w \in Processes : local'[w] \in Held
  BY <1>2 DEF Held
<1>9. save' = [save EXCEPT ![t] = x]
  BY <1>3 DEF x
<1> QED BY <1>2, <1>4, <1>6, <1>7, <1>8, <1>9, OneMoves DEF Adding

\* The background writes of the metadata, and the insert of create_session.
PutKept ==
    /\ meta' \in AllMetas \cup {Blank} /\ creation' \in 0..2
    /\ put' \in [Exchanges -> PutType \cup {None}]
    /\ \A u \in Exchanges : put'[u] # None => put[u] # None /\ put'[u].doc = put[u].doc

LEMMA HPut ==
  ASSUME HInv, \/ \E t \in Exchanges : PutMeta(t) \/ PutMetaFails(t)
               \/ CreateInserts \/ CreateFails
  PROVE  HBase'
<1>1. Typed
  BY DEF HInv
<1>2. /\ UNCHANGED <<doc, cached, local, metaCached, metaLocal, opener, save, order, overlap>>
      /\ faults' \in {faults, faults + 1}
  BY DEF PutMeta, PutMetaFails, CreateInserts, CreateFails, history,
         metadata, observed, Fault
<1>3. PutKept
  <2>1. ASSUME NEW t \in Exchanges, PutMeta(t) \/ PutMetaFails(t) PROVE PutKept
    <3>1. put[t] # None /\ put[t] \in PutType /\ creation' = creation
      BY <1>1, <2>1 DEF PutMeta, PutMetaFails, Typed
    <3>2. meta' \in {meta, put[t].doc}
      BY <2>1 DEF PutMeta, PutMetaFails, metadata
    <3>3. put' = [put EXCEPT ![t] = None] \/ put' = [put EXCEPT ![t].late = TRUE]
      BY <2>1 DEF PutMeta, PutMetaFails
    <3>4. CASE put' = [put EXCEPT ![t] = None]
      BY <1>1, <3>1, <3>2, <3>4 DEF Typed, AllMetas, PutKept
    <3>5. CASE put' = [put EXCEPT ![t].late = TRUE]
      <4> DEFINE y == [put[t] EXCEPT !.late = TRUE]
      <4>1. y \in PutType /\ y.doc = put[t].doc
        BY <3>1 DEF PutType
      <4>2. put' = [put EXCEPT ![t] = y]
        BY <3>5
      <4> HIDE DEF y
      <4>3. put' \in [Exchanges -> PutType \cup {None}] /\ put'[t] = y /\ \A u \in Exchanges : u # t => put'[u] = put[u]
        BY <1>1, <4>1, <4>2 DEF Typed
      <4>4. meta' \in AllMetas /\ creation' \in 0..2
        BY <1>1, <3>1, <3>2 DEF Typed, AllMetas
      <4> QED BY <3>1, <4>1, <4>3, <4>4 DEF PutKept
    <3> QED BY <3>3, <3>4, <3>5
  <2>2. CASE CreateInserts
    BY <1>1, <2>2 DEF CreateInserts, Typed, AllMetas, PutKept
  <2>3. CASE CreateFails
    BY <1>1, <2>3 DEF CreateFails, metadata, Typed, AllMetas, PutKept
  <2> QED BY <2>1, <2>2, <2>3
<1>4. Blank \in MetaType
  BY DEF Blank, MetaType
<1>5. meta' \in MetaType \cup {None}
  <2>1. \A m \in AllMetas : m \in MetaType \cup {None}
    BY <1>1 DEF AllMetas, Typed, SaveType, PutType
  <2> QED BY <1>3, <1>4, <2>1 DEF PutKept
<1>6. Typed'
  BY <1>1, <1>2, <1>3, <1>5 DEF Typed, PutKept
<1>7. AllMetas' \subseteq AllMetas \cup {Blank}
  <2>1. \A u \in Exchanges : put'[u] # None => put'[u].doc \in AllMetas
    BY <1>3 DEF AllMetas, PutKept
  <2> QED BY <1>2, <1>3, <2>1 DEF AllMetas, PutKept
<1>8. Handed1
  BY <1>2 DEF Handed1, Held
<1>9. Added \subseteq Added' /\ \A u \in Exchanges : Counted1(u)
  BY <1>1, <1>2, AddedStays DEF Counted1
<1>10. MetasOK'
  BY <1>6, <1>7, <1>9, MetasStay
<1> QED BY <1>1, <1>6, <1>8, <1>10, OrderStays DEF HBase

LEMMA HCrash == ASSUME HInv, NEW w \in Processes, ProcessDies(w) PROVE HBase'
<1>1. Typed
  BY DEF HInv
<1>2. /\ UNCHANGED <<doc, cached, meta, metaCached, opener, order, overlap>> /\ faults' = faults + 1
      /\ creation' \in {0, creation}
      /\ local' = [local EXCEPT ![w] = None] /\ metaLocal' = [metaLocal EXCEPT ![w] = None]
      /\ save' = [t \in Exchanges |-> IF save[t].worker = w THEN Place(t, "done") ELSE save[t]]
      /\ put' = [t \in Exchanges |-> IF save[t].worker = w THEN None ELSE put[t]]
  BY DEF ProcessDies, observed, Fault, Place
<1>3. \A t \in Exchanges : /\ save'[t] \in SaveType /\ save'[t].turns = save[t].turns /\ save'[t].merged = save[t].merged
                           /\ save'[t] = save[t] \/ save'[t].pc = "done"
                           /\ SaveOK(save'[t])
  <2> SUFFICES ASSUME NEW t \in Exchanges
               PROVE  /\ save'[t] \in SaveType /\ save'[t].turns = save[t].turns /\ save'[t].merged = save[t].merged
                      /\ save'[t] = save[t] \/ save'[t].pc = "done"
                      /\ SaveOK(save'[t])
    OBVIOUS
  <2>1. /\ Place(t, "done") \in SaveType /\ Place(t, "done").turns = save[t].turns
        /\ Place(t, "done").merged = save[t].merged /\ Place(t, "done").pc = "done"
    BY <1>1, SaveFields DEF SaveTo
  <2>2. save'[t] = (IF save[t].worker = w THEN Place(t, "done") ELSE save[t])
    BY <1>2
  <2>3. save[t] \in SaveType /\ SaveOK(save[t])
    BY <1>1 DEF Typed
  <2>4. SaveOK(Place(t, "done"))
    BY <2>1 DEF SaveOK
  <2> QED BY <2>1, <2>2, <2>3, <2>4
<1>4. save' \in [Exchanges -> SaveType]
  <2>1. save' = [t \in Exchanges |-> save'[t]]
    BY <1>2
  <2> QED BY <1>3, <2>1
<1>5. /\ local' \in [Processes -> Seq(Exchanges) \cup {None}] /\ \A v \in Processes : local'[v] \in {local[v], None}
      /\ metaLocal' \in [Processes -> MetaType \cup {None}]
      /\ \A v \in Processes : metaLocal'[v] \in {metaLocal[v], None}
  BY <1>1, <1>2 DEF Typed
<1>6. put' \in [Exchanges -> PutType \cup {None}] /\ \A u \in Exchanges : put'[u] \in {put[u], None}
  BY <1>1, <1>2 DEF Typed
<1>7. Typed'
  BY <1>1, <1>2, <1>3, <1>4, <1>5, <1>6 DEF Typed
<1>8. AllMetas' \subseteq AllMetas \cup {None}
  <2>1. \A u \in Exchanges : put'[u] # None => put'[u].doc \in AllMetas
    BY <1>6 DEF AllMetas
  <2>2. \A u \in Exchanges : save'[u].merged \in AllMetas
    BY <1>3 DEF AllMetas
  <2>3. \A v \in Processes : metaLocal'[v] \in AllMetas \cup {None}
    BY <1>5 DEF AllMetas
  <2> QED BY <1>2, <2>1, <2>2, <2>3 DEF AllMetas
<1>9. Handed1
  <2>1. doc' \in Held /\ cached' \in Held /\ \A v \in Processes : local'[v] \in Held \cup {None}
    BY <1>2, <1>5 DEF Held
  <2> QED BY <1>2, <1>3, <2>1 DEF Handed1
<1>10. Added \subseteq Added'
  BY <1>1, <1>2, <1>3, AddedStays DEF Adding
<1>11. \A u \in Exchanges : Counted1(u)
  BY <1>3 DEF Counted1
<1>12. MetasOK'
  BY <1>7, <1>8, <1>10, <1>11, MetasStay
<1> QED BY <1>1, <1>7, <1>9, <1>12, OrderStays DEF HBase

-----------------------------------------------------------------------------
(* Turns that follow each other.                                           *)

LEMMA EndIs ==
  ASSUME NEW o \in Seq(Exchanges), NEW n \in 1..Len(o)
  PROVE  /\ EndOf(o, n) \in Seq(Exchanges) /\ Len(EndOf(o, n)) = n - Oldest(n) + 1
         /\ \A i \in 1..(n - Oldest(n) + 1) : EndOf(o, n)[i] = o[Oldest(n) + i - 1]
<1>1. n \in Nat /\ n # 0 /\ Len(o) \in Nat
  OBVIOUS
<1>2. Oldest(n) \in 1..n
  BY <1>1, OldestIs
<1>3. EndOf(o, n) = SubSeq(o, Oldest(n), n)
  BY DEF EndOf
<1>4. \A i \in Oldest(n)..n : o[i] \in Exchanges
  BY <1>1, <1>2
<1>5. Oldest(n) \in Int /\ n \in Int /\ Oldest(n) <= n
  BY <1>1, <1>2
<1>6. /\ SubSeq(o, Oldest(n), n) \in Seq(Exchanges)
      /\ Len(SubSeq(o, Oldest(n), n)) = (IF Oldest(n) <= n THEN n - Oldest(n) + 1 ELSE 0)
      /\ \A i \in 1..(n - Oldest(n) + 1) : SubSeq(o, Oldest(n), n)[i] = o[Oldest(n) + i - 1]
  BY <1>4, <1>5, SubSeqProperties
<1> QED BY <1>3, <1>5, <1>6

LEMMA LeastPlace ==
  ASSUME NEW S \in SUBSET Nat, S # {}
  PROVE  \E k \in S : \A m \in S : k <= m
<1> DEFINE R == OpToRel(<, Nat)
<1>1. R = {ss \in Nat \X Nat : ss[1] < ss[2]}
  BY DEF OpToRel
<1>2. IsWellFoundedOn(R, Nat)
  BY NatLessThanWellFounded DEF OpToRel
<1> HIDE DEF R
<1>3. PICK k \in S : \A m \in S : <<m, k>> \notin R
  BY <1>2, WFMin, Zenon
<1>4. \A m \in S : ~(m < k)
  BY <1>1, <1>3
<1> QED BY <1>4

\* A conversation has the title of its first question that gives one.
LEMMA TitleIs ==
  ASSUME NEW o \in Seq(Exchanges), NEW n \in 0..Len(o)
  PROVE  \/ TitleAfter(o, n) = None /\ \A i \in 1..n : o[i] \in Wordless
         \/ \E k \in 1..n : /\ TitleAfter(o, n) = o[k] /\ o[k] \in Exchanges \ Wordless
                             /\ \A i \in 1..n : o[i] \notin Wordless => k <= i
<1> DEFINE T == {i \in 1..n : o[i] \notin Wordless}
<1>1. TitleAfter(o, n) = IF T = {} THEN None ELSE o[CHOOSE i \in T : \A j \in T : i <= j]
  BY DEF TitleAfter
<1>2. CASE T = {}
  BY <1>1, <1>2
<1>3. CASE T # {}
  <2> DEFINE k == CHOOSE i \in T : \A j \in T : i <= j
  <2>1. T \in SUBSET Nat
    OBVIOUS
  <2>2. \E i \in T : \A j \in T : i <= j
    BY <1>3, <2>1, LeastPlace
  <2>3. k \in T /\ \A j \in T : k <= j
    BY <2>2
  <2>4. TitleAfter(o, n) = o[k]
    BY <1>1, <1>3
  <2> HIDE DEF k
  <2>5. o[k] \in Exchanges
    BY <2>3
  <2> QED BY <2>3, <2>4, <2>5
<1> QED BY <1>2, <1>3

\* Each turn keeps the title there is, and gives its own when there is none.
LEMMA TitleNext ==
  ASSUME NEW o \in Seq(Exchanges), NEW n \in 1..Len(o)
  PROVE  TitleAfter(o, n) = IF TitleAfter(o, n - 1) = None THEN TitleOf(o[n]) ELSE TitleAfter(o, n - 1)
<1>1. None \notin Exchanges /\ n - 1 \in 0..Len(o) /\ n \in 0..Len(o) /\ n \in Nat
  BY Apart
<1>2. CASE TitleAfter(o, n - 1) = None
  <2>1. \A i \in 1..(n - 1) : o[i] \in Wordless
    BY <1>1, <1>2, TitleIs
  <2>2. \A i \in 1..n : o[i] \notin Wordless => i = n
    BY <2>1
  <2>3. n \in 1..n
    BY <1>1
  <2>4. CASE o[n] \in Wordless
    BY <1>1, <1>2, <2>2, <2>4, TitleIs DEF TitleOf
  <2>5. CASE o[n] \notin Wordless
    BY <1>1, <1>2, <2>2, <2>3, <2>5, TitleIs DEF TitleOf
  <2> QED BY <2>4, <2>5
<1>3. CASE TitleAfter(o, n - 1) # None
  <2>1. PICK k \in 1..(n - 1) : /\ TitleAfter(o, n - 1) = o[k] /\ o[k] \notin Wordless
                               /\ \A i \in 1..(n - 1) : o[i] \notin Wordless => k <= i
    BY <1>1, <1>3, TitleIs
  <2>2. k \in 1..n
    BY <1>1
  <2>3. PICK m \in 1..n : /\ TitleAfter(o, n) = o[m] /\ o[m] \notin Wordless
                          /\ \A i \in 1..n : o[i] \notin Wordless => m <= i
    BY <1>1, <2>1, <2>2, TitleIs
  <2>4. m <= k
    BY <2>1, <2>2, <2>3
  <2>5. m \in 1..(n - 1)
    BY <1>1, <2>4
  <2>6. k <= m
    BY <2>1, <2>3, <2>5
  <2>7. m = k
    BY <2>4, <2>6
  <2> QED BY <1>3, <2>1, <2>3, <2>7
<1> QED BY <1>2, <1>3

LEMMA TitleStays ==
  ASSUME NEW o \in Seq(Exchanges), NEW a \in Seq(Exchanges), NEW n \in Nat, n <= Len(o), n <= Len(a),
         \A i \in 1..n : a[i] = o[i]
  PROVE  TitleAfter(a, n) = TitleAfter(o, n)
<1> DEFINE S == {i \in 1..n : a[i] \notin Wordless}
           T == {i \in 1..n : o[i] \notin Wordless}
<1>1. S = T
  OBVIOUS
<1>2. /\ TitleAfter(a, n) = IF S = {} THEN None ELSE a[CHOOSE i \in S : \A j \in S : i <= j]
      /\ TitleAfter(o, n) = IF T = {} THEN None ELSE o[CHOOSE i \in T : \A j \in T : i <= j]
  BY DEF TitleAfter
<1>3. CASE T = {}
  BY <1>1, <1>2, <1>3
<1>4. CASE T # {}
  <2> DEFINE k == CHOOSE i \in T : \A j \in T : i <= j
  <2>1. T \in SUBSET Nat
    OBVIOUS
  <2>2. \E i \in T : \A j \in T : i <= j
    BY <1>4, <2>1, LeastPlace
  <2>3. k \in T
    BY <2>2
  <2>4. TitleAfter(a, n) = a[k] /\ TitleAfter(o, n) = o[k]
    BY <1>1, <1>2, <1>4
  <2> HIDE DEF k
  <2> QED BY <2>3, <2>4
<1> QED BY <1>3, <1>4

\* A turn that begins changes nothing of what the others leave.
LEMMA EndStays ==
  ASSUME NEW o \in Seq(Exchanges), NEW t \in Exchanges, NEW n \in 0..Len(o)
  PROVE  ListAfter(Append(o, t), n) = ListAfter(o, n) /\ MetaAfter(Append(o, t), n) = MetaAfter(o, n)
<1> DEFINE a == Append(o, t)
<1>1. /\ a \in Seq(Exchanges) /\ Len(a) = Len(o) + 1 /\ Len(o) \in Nat /\ \A i \in 1..Len(o) : a[i] = o[i]
  BY AppendProperties
<1> HIDE DEF a
<1>2. CASE n = 0
  BY <1>2 DEF ListAfter, MetaAfter, a
<1>3. CASE n # 0
  <2> DEFINE s == Oldest(n)
             x == EndOf(o, n)
             y == EndOf(a, n)
  <2>1. n \in 1..Len(o) /\ n \in 1..Len(a) /\ a[1] = o[1] /\ n \in Nat
    BY <1>1, <1>3
  <2>2. s \in 1..n
    BY <1>3, <2>1, OldestIs
  <2>3. x \in Seq(Exchanges) /\ Len(x) = n - s + 1 /\ \A i \in 1..(n - s + 1) : x[i] = o[s + i - 1]
    BY <2>1, EndIs
  <2>4. y \in Seq(Exchanges) /\ Len(y) = n - s + 1 /\ \A i \in 1..(n - s + 1) : y[i] = a[s + i - 1]
    BY <1>1, <2>1, EndIs
  <2> HIDE DEF s, x, y
  <2>5. \A i \in 1..(n - s + 1) : s + i - 1 \in 1..Len(o)
    BY <1>1, <2>1, <2>2
  <2>6. \A i \in 1..Len(x) : x[i] = y[i]
    BY <1>1, <2>3, <2>4, <2>5
  <2>7. x = y
    BY <2>3, <2>4, <2>6, SeqEqual
  <2>8. EndOf(o, n) = EndOf(a, n)
    BY <2>7 DEF x, y
  <2>9. TitleAfter(a, n) = TitleAfter(o, n)
    BY <1>1, <2>1, TitleStays
  <2> QED BY <1>3, <2>1, <2>8, <2>9 DEF ListAfter, MetaAfter, a
<1> QED BY <1>2, <1>3

\* What a turn writes that read what the one before it left.
LEMMA EndNext ==
  ASSUME NEW o \in Seq(Exchanges), NEW t \in Exchanges, Len(o) # 0
  PROVE  Extend(EndOf(o, Len(o)), t) = EndOf(Append(o, t), Len(o) + 1)
<1> DEFINE n == Len(o)
           m == Len(o) + 1
           a == Append(o, t)
           s == Oldest(n)
           e == EndOf(o, n)
           all == Append(e, t)
           k == Len(e) + 1
           cut == Oldest(k)
           g == Extend(e, t)
           u == Oldest(m)
           f == EndOf(a, m)
<1>1. /\ a \in Seq(Exchanges) /\ Len(a) = m /\ n \in Nat /\ n # 0 /\ a[m] = t
      /\ \A i \in 1..n : a[i] = o[i]
  BY AppendProperties
<1>2. Keep \in Nat \ {0} /\ n \in Nat \ {0} /\ m = n + 1 /\ m \in Nat \ {0}
  BY <1>1, Apart
<1> HIDE DEF a, m
<1>3. n \in 1..Len(o) /\ m \in 1..Len(a)
  BY <1>1, <1>2
<1>4. e \in Seq(Exchanges) /\ Len(e) = n - s + 1 /\ \A i \in 1..(n - s + 1) : e[i] = o[s + i - 1]
  BY <1>3, EndIs
<1>5. f \in Seq(Exchanges) /\ Len(f) = m - u + 1 /\ \A i \in 1..(m - u + 1) : f[i] = a[u + i - 1]
  BY <1>1, <1>3, EndIs
<1>6. s = (IF n > Keep THEN n - Keep + 1 ELSE 1) /\ u = (IF m > Keep THEN m - Keep + 1 ELSE 1)
  BY DEF Oldest
<1>7. s \in 1..n /\ u \in 1..m
  BY <1>2, OldestIs
<1> HIDE DEF e, f, n, s, u
<1>8. all[k] = t /\ \A i \in 1..Len(e) : all[i] = e[i]
  BY <1>4, AppendProperties
<1>9. g \in Seq(Exchanges) /\ Len(g) = k - cut + 1 /\ \A i \in 1..Len(g) : g[i] = all[cut + i - 1]
  <2>1. g \in Seq(Exchanges) /\ Len(g) = k - cut + 1
    BY <1>4, Extended
  <2>2. ASSUME NEW i \in 1..Len(g) PROVE g[i] = all[cut + i - 1]
    BY <1>4, Extended
  <2> HIDE DEF g, k, cut, all
  <2> QED BY <2>1, <2>2
<1>10. cut = IF k > Keep THEN k - Keep + 1 ELSE 1
  BY DEF Oldest
<1>11. Len(e) \in Nat /\ s \in Nat /\ u \in Nat /\ Len(e) = n - s + 1 /\ k = Len(e) + 1 /\ k \in Nat
  BY <1>2, <1>4, <1>7
<1> HIDE DEF all, g, k, cut
<1>12. CASE n < Keep
  <2>1. s = 1 /\ u = 1
    BY <1>2, <1>6, <1>12
  <2>2. Len(e) = n /\ k = n + 1
    BY <1>2, <1>11, <2>1
  <2>3. cut = 1
    BY <1>2, <1>10, <1>12, <2>2
  <2>4. Len(g) = n + 1 /\ Len(f) = n + 1 /\ k = n + 1
    BY <1>2, <1>5, <1>9, <2>1, <2>2, <2>3
  <2>5. ASSUME NEW i \in 1..(n + 1) PROVE g[i] = f[i]
    <3>1. i \in 1..Len(g) /\ cut + i - 1 = i /\ i \in 1..(m - u + 1) /\ u + i - 1 = i
      BY <1>2, <2>1, <2>3, <2>4
    <3>2. g[i] = all[i] /\ f[i] = a[i]
      BY <1>5, <1>9, <3>1
    <3>3. CASE i = n + 1
      BY <1>1, <1>2, <1>8, <2>4, <3>2, <3>3
    <3>4. CASE i # n + 1
      <4>1. i \in 1..n /\ s + i - 1 = i /\ i \in 1..(n - s + 1)
        BY <1>2, <2>1, <3>4
      <4>2. all[i] = e[i] /\ e[i] = o[i] /\ a[i] = o[i]
        BY <1>1, <1>4, <1>8, <2>2, <4>1
      <4> QED BY <3>2, <4>2
    <3> QED BY <3>3, <3>4
  <2>6. Len(g) = Len(f) /\ \A i \in 1..Len(g) : g[i] = f[i]
    BY <2>4, <2>5
  <2>7. g = f
    BY <1>5, <1>9, <2>6, SeqEqual
  <2> QED BY <2>7 DEF g, e, f, n, a, m
<1>13. CASE n >= Keep
  <2>1. s = n - Keep + 1 /\ u = n + 2 - Keep
    <3>1. s = n - Keep + 1
      BY <1>2, <1>6, <1>13
    <3>2. m > Keep /\ u = m - Keep + 1
      BY <1>2, <1>6, <1>13
    <3> QED BY <1>2, <3>1, <3>2
  <2>2. Len(e) = Keep /\ k = Keep + 1
    <3>1. n - s + 1 = Keep
      BY <1>2, <2>1
    <3>2. Len(e) = Keep
      BY <1>11, <3>1
    <3> QED BY <1>11, <3>2
  <2>3. cut = 2
    BY <1>2, <1>10, <2>2
  <2>4. Len(g) = Keep /\ Len(f) = Keep
    BY <1>2, <1>5, <1>9, <2>1, <2>2, <2>3
  <2>5. ASSUME NEW i \in 1..Keep PROVE g[i] = f[i]
    <3>1. i \in 1..Len(g) /\ cut + i - 1 = i + 1
      BY <1>2, <2>3, <2>4
    <3>2. i \in 1..(m - u + 1) /\ u + i - 1 = n + 1 - Keep + i
      BY <1>2, <2>1
    <3>3. g[i] = all[i + 1] /\ f[i] = a[n + 1 - Keep + i]
      BY <1>5, <1>9, <3>1, <3>2
    <3>4. CASE i = Keep
      <4>1. n + 1 - Keep + i = m /\ i + 1 = k
        BY <1>2, <2>2, <3>4
      <4> QED BY <1>1, <1>8, <3>3, <4>1
    <3>5. CASE i # Keep
      <4>1. i + 1 \in 1..Keep
        BY <1>2, <3>5
      <4>2. n + 1 - Keep + i \in 1..n
        BY <1>2, <1>13, <3>5
      <4>3. n - s + 1 = Keep /\ s + (i + 1) - 1 = n + 1 - Keep + i
        BY <1>2, <2>1
      <4>4. all[i + 1] = e[i + 1]
        BY <1>8, <2>2, <4>1
      <4>5. e[i + 1] = o[n + 1 - Keep + i]
        BY <1>4, <4>1, <4>3
      <4> QED BY <1>1, <3>3, <4>2, <4>4, <4>5
    <3> QED BY <3>4, <3>5
  <2>6. Len(g) = Len(f) /\ \A i \in 1..Len(g) : g[i] = f[i]
    BY <2>4, <2>5
  <2>7. g = f
    BY <1>5, <1>9, <2>6, SeqEqual
  <2> QED BY <2>7 DEF g, e, f, n, a, m
<1> QED BY <1>2, <1>12, <1>13

\* What the turns leave behind is there, unless there was none.
LEMMA AfterIs ==
  ASSUME HInv, NEW n \in 0..Len(order)
  PROVE  /\ ListAfter(order, n) = None <=> n = 0
         /\ n # 0 => ListAfter(order, n) = EndOf(order, n) /\ EndOf(order, n) # <<>>
         /\ opener = "report" => MetaAfter(order, n) = None
         /\ opener # "report" =>
              /\ MetaAfter(order, n) \in MetaType
              /\ MetaAfter(order, n).count = 2 * n
              /\ n # 0 => MetaAfter(order, n).title = TitleAfter(order, n)
              /\ [doc |-> MetaAfter(order, n), late |-> FALSE] # None
<1>1. order \in Seq(Exchanges) /\ n \in Nat
  BY DEF HInv, Typed
<1>4. \A m \in MetaType : [doc |-> m, late |-> FALSE] # None
  <2>1. \A m \in MetaType : [doc |-> m, late |-> FALSE] \in PutType
    BY DEF PutType
  <2> QED BY <1>1, <2>1, Apart
<1>2. CASE n = 0
  <2>1. /\ opener = "report" => MetaAfter(order, n) = None
        /\ opener # "report" => MetaAfter(order, n) = Blank
        /\ ListAfter(order, n) = None
    BY <1>2 DEF ListAfter, MetaAfter
  <2>2. Blank \in MetaType /\ Blank.count = 0
    BY DEF Blank, MetaType
  <2> QED BY <1>1, <1>2, <1>4, <2>1, <2>2
<1>3. CASE n # 0
  <2>1. n \in 1..Len(order) /\ 2 * n \in Nat
    BY <1>1, <1>3
  <2>2. n - Oldest(n) + 1 \in 1..Keep
    BY <1>1, <1>3, OldestIs
  <2>3. EndOf(order, n) \in Seq(Exchanges) /\ Len(EndOf(order, n)) = n - Oldest(n) + 1
    BY <1>1, <2>1, EndIs
  <2>4. Len(EndOf(order, n)) # 0 /\ EndOf(order, n) # None
    BY <1>1, <2>2, <2>3, Apart
  <2>5. EndOf(order, n) # <<>>
    BY <2>3, <2>4
  <2>6. MetaAfter(order, n) = IF opener = "report" THEN None
                              ELSE [count |-> 2 * n, title |-> TitleAfter(order, n)]
    BY <1>3 DEF MetaAfter
  <2>8. TitleAfter(order, n) \in Exchanges \cup {None}
    BY <1>1, TitleIs
  <2>7. opener # "report" => MetaAfter(order, n) \in MetaType
    BY <2>1, <2>6, <2>8 DEF MetaType
  <2> QED BY <1>3, <1>4, <2>4, <2>5, <2>6, <2>7 DEF ListAfter
<1> QED BY <1>2, <1>3

\* While nothing has overlapped, only the last turn has anything to do.
LEMMA Mover ==
  ASSUME HInv, InTurn, NEW t \in Exchanges, save[t].pc \notin {"new", "done"} \/ put[t] # None
  PROVE  /\ LatestOnly /\ t = Latest /\ order # <<>> /\ Len(order) \in Nat \ {0}
         /\ Len(order) \in 0..Len(order) /\ Len(order) - 1 \in 0..Len(order)
<1>1. order # <<>> /\ LatestOnly
  BY DEF InTurn, NoneYet
<1>2. t = Latest
  BY <1>1 DEF LatestOnly
<1>3. Len(order) \in Nat \ {0}
  BY <1>1 DEF HInv, Typed
<1> QED BY <1>1, <1>2, <1>3

\* The last turn moves on.
LEMMA MovesOn ==
  ASSUME LatestOnly, order # <<>>, order' = order, creation' = creation, opener' = opener,
         NEW t \in Exchanges, t = Latest,
         \A u \in Exchanges : u # t => save'[u] = save[u] /\ put'[u] = put[u],
         Reached(order, Len(order), doc', cached', meta', save'[t], put'[t])
  PROVE  InTurn'
<1>1. Latest' = t
  BY DEF Latest
<1> HIDE DEF Latest
<1>2. creation = 0 /\ \A u \in Exchanges : u # t => save'[u].pc \in {"new", "done"} /\ put'[u] = None
  BY DEF LatestOnly
<1>3. creation' = 0
  BY <1>2
<1>4. Reached(order', Len(order'), doc', cached', meta', save'[t], put'[t])
  BY Zenon
<1> QED BY <1>1, <1>2, <1>3, <1>4 DEF LatestOnly, InTurn, Reached, MetaAfter, Blank

\* A turn begins after all there was to do is done.
LEMMA TRead ==
  ASSUME HInv, InTurn, NEW t \in Exchanges, NEW w \in Processes, ReadHistory(t, w), ~overlap'
  PROVE  InTurn'
<1>1. Typed /\ OrderOK /\ order \in Seq(Exchanges)
  BY DEF HInv, Typed
<1> DEFINE found == IF doc # None THEN doc ELSE Fallback(cached, local[w])
           c == IF found = None THEN <<>> ELSE found
           n == Len(order)
           m == Len(order) + 1
           e == Extend(c, t)
           q == (c # <<>>)
           x == [save[t] EXCEPT !.pc = "store", !.worker = w, !.turns = e, !.prior = q]
<1>2. /\ save[t].pc = "new" /\ UNCHANGED <<doc, cached, local, meta, opener, creation, put>>
      /\ Got(t, w, found)
  BY DEF ReadHistory, MayBegin, Saving, history, metadata
<1>3. /\ save' = [save EXCEPT ![t] = x] /\ order' = Append(order, t)
      /\ creation = 0 /\ \A u \in Exchanges : ~Busy(u)
  <2>1. save' = [save EXCEPT ![t] = x] /\ order' = Append(order, t)
    BY <1>2 DEF Got
  <2>2. creation \in Nat /\ ~(creation > 0) /\ \A u \in Exchanges : ~Busy(u)
    <3>1. overlap' = (overlap \/ (\E u \in Exchanges : Busy(u)) \/ creation > 0)
      BY <1>2 DEF Got
    <3>2. ~(creation > 0) /\ \A u \in Exchanges : ~Busy(u)
      BY <3>1, Zenon
    <3> QED BY <1>1, <3>2 DEF Typed
  <2> QED BY <2>1, <2>2
<1>4. /\ order' \in Seq(Exchanges) /\ Len(order') = m /\ order'[m] = t /\ n \in Nat
  BY <1>1, <1>3, AppendProperties
<1>5. save[t] \in SaveType
  BY <1>1 DEF Typed
<1> HIDE DEF e, q
<1>6. x.pc = "store" /\ x.turns = e /\ x.prior = q
  BY <1>5 DEF SaveType
<1> HIDE DEF c, x, found
<1>7. save'[t] = x /\ \A u \in Exchanges : u # t => save'[u] = save[u]
  BY <1>1, <1>3 DEF Typed
<1>8. \A u \in Exchanges : save[u].pc \in {"new", "done"} /\ put[u] = None
  BY <1>3 DEF Busy
<1>9. /\ x.turns = EndOf(order', m) /\ (x.prior <=> m > 1)
      /\ doc = ListAfter(order', n) /\ cached = ListAfter(order', n) /\ meta = MetaAfter(order', n)
  <2>1. CASE order = <<>>
    <3>1. n = 0 /\ NoneYet
      BY <2>1 DEF InTurn
    <3>2. doc = None /\ cached = None /\ meta = MetaAfter(<<>>, 0) /\ found = None
      BY <1>3, <3>1 DEF NoneYet, found, Fallback
    <3>3. c = <<>>
      BY <3>2 DEF c
    <3>4. Extend(<<>>, t) = EndOf(order', 1)
      <4>1. Append(<<>>, t) = <<t>> /\ Len(<<t>>) = 1 /\ order' = <<t>>
        BY <1>3, <2>1
      <4>2. Keep \in Nat \ {0}
        BY <1>1, Apart
      <4>3. ~(1 > Keep)
        BY <4>2
      <4>4. Extend(<<>>, t) = SubSeq(<<t>>, 1, 1)
        <5> DEFINE all == Append(<<>>, t)
        <5>1. Extend(<<>>, t) = SubSeq(all, IF Len(all) > Keep THEN Len(all) - Keep + 1 ELSE 1, Len(all))
          BY DEF Extend
        <5>2. all = <<t>> /\ Len(all) = 1
          BY <4>1
        <5> HIDE DEF all
        <5> QED BY <4>3, <5>1, <5>2
      <4>5. EndOf(<<t>>, 1) = SubSeq(<<t>>, 1, 1)
        BY <4>3 DEF EndOf, Oldest
      <4> QED BY <4>1, <4>4, <4>5
    <3>5. m = 1 /\ ~(m > 1) /\ ~q
      BY <3>1, <3>3 DEF q
    <3>6. e = EndOf(order', m)
      BY <3>3, <3>4, <3>5 DEF e
    <3> QED BY <1>6, <3>1, <3>2, <3>5, <3>6 DEF ListAfter, MetaAfter
  <2>2. CASE order # <<>>
    <3>1. LatestOnly /\ n # 0 /\ n \in 1..n /\ Latest \in Exchanges
      BY <1>1, <1>4, <2>2 DEF InTurn, Latest
    <3>2. save[Latest].pc = "done" /\ put[Latest] = None
      BY <1>8, <3>1 DEF LatestOnly, Reached
    <3>3. doc = ListAfter(order, n) /\ cached = ListAfter(order, n) /\ meta = MetaAfter(order, n)
      <4>1. Reached(order, n, doc, cached, meta, save[Latest], put[Latest])
        BY <3>1 DEF LatestOnly
      <4>2. opener # "report" => [doc |-> MetaAfter(order, n), late |-> FALSE] # None
        BY <1>4, <3>1, AfterIs
      <4> QED BY <3>2, <4>1, <4>2 DEF Reached
    <3>4. ListAfter(order', n) = ListAfter(order, n) /\ MetaAfter(order', n) = MetaAfter(order, n)
      BY <1>1, <1>3, <1>4, EndStays
    <3>5. doc # None /\ doc = EndOf(order, n) /\ doc # <<>>
      BY <1>4, <3>1, <3>3, AfterIs
    <3>6. c = EndOf(order, n) /\ c # <<>>
      BY <3>5 DEF c, found
    <3>7. Extend(EndOf(order, n), t) = EndOf(order', m)
      BY <1>1, <1>3, <3>1, EndNext
    <3>8. m > 1
      BY <1>4, <3>1
    <3> QED BY <1>6, <3>3, <3>4, <3>6, <3>7, <3>8 DEF e, q
  <2> QED BY <2>1, <2>2
<1>10. order' # <<>> /\ m - 1 = n
  BY <1>4
<1>11. Reached(order', m, doc', cached', meta', save'[t], put'[t])
  BY <1>2, <1>6, <1>7, <1>8, <1>9, <1>10 DEF Reached
<1>12. Latest' = t
  BY <1>4 DEF Latest
<1>13. creation' = 0 /\ \A u \in Exchanges : u # t => save'[u].pc \in {"new", "done"} /\ put'[u] = None
  BY <1>2, <1>3, <1>7, <1>8
<1>14. LatestOnly'
  BY <1>2, <1>4, <1>11, <1>12, <1>13 DEF LatestOnly, Reached, MetaAfter, Blank
<1> QED BY <1>10, <1>14 DEF InTurn

\* A failed call or a crash: there is nothing more to show.
LEMMA NoFault ==
  ASSUME Typed, faults' = 0
  PROVE  ~Fault
<1>1. faults \in Nat
  BY DEF Typed
<1> QED BY <1>1 DEF Fault

LEMMA TStore ==
  ASSUME HInv, InTurn, NEW t \in Exchanges, Store(t), faults' = 0
  PROVE  InTurn'
<1> DEFINE x == Place(t, "sync")
           n == Len(order)
<1>1. Typed
  BY DEF HInv
<1>2. ~Fault
  BY <1>1, NoFault
<1>3. /\ save[t].pc = "store" /\ save' = [save EXCEPT ![t] = x] /\ cached' = save[t].turns
      /\ UNCHANGED <<doc, meta, opener, creation, put, order>>
  BY <1>2 DEF Store, Saving, MovesTo, metadata, observed, Place
<1>4. /\ LatestOnly /\ t = Latest /\ order # <<>> /\ n \in Nat \ {0} /\ n \in 0..n
  BY <1>3, Mover
<1>5. x.pc = "sync" /\ x.turns = save[t].turns /\ x.prior = save[t].prior /\ x \in SaveType /\ SaveOK(x)
  BY <1>1, <1>3, SaveFields DEF SaveTo
<1> HIDE DEF x, n
<1>6. save'[t] = x /\ \A u \in Exchanges : u # t => save'[u] = save[u]
  BY <1>1, <1>3, <1>5, Saved1
<1>7. Reached(order, n, doc, cached, meta, save[t], put[t])
  BY <1>4 DEF LatestOnly, n
<1>8. ListAfter(order, n) = EndOf(order, n)
  BY <1>4 DEF ListAfter
<1>9. Reached(order, n, doc', cached', meta', save'[t], put'[t])
  BY <1>3, <1>5, <1>6, <1>7, <1>8 DEF Reached
<1>10. \A u \in Exchanges : u # t => save'[u] = save[u] /\ put'[u] = put[u]
  BY <1>3, <1>6
<1> QED BY <1>3, <1>4, <1>9, <1>10, MovesOn DEF n

LEMMA TSync ==
  ASSUME HInv, InTurn, NEW t \in Exchanges, Sync(t), faults' = 0
  PROVE  InTurn'
<1> DEFINE n == Len(order)
           found == MetaFetched(save[t].worker)
           k == IF found = None THEN 0 ELSE found.count
           f == (found # None /\ (found.count = 0 \/ found.title = None))
           x == [save[t] EXCEPT !.pc = "update", !.count = k, !.fresh = f]
<1>1. Typed /\ order \in Seq(Exchanges)
  BY DEF HInv, Typed
<1>2. ~Fault
  BY <1>1, NoFault
<1>3. /\ save[t].pc = "sync" /\ SyncRead(t, found)
      /\ UNCHANGED <<doc, cached, meta, opener, creation, put, order>>
  BY <1>2 DEF Sync, Saving, history, metadata, observed
<1>4. /\ LatestOnly /\ t = Latest /\ order # <<>> /\ n \in Nat \ {0} /\ n - 1 \in 0..n
  BY <1>3, Mover
<1>5. Reached(order, n, doc, cached, meta, save[t], put[t])
  BY <1>4 DEF LatestOnly
<1>8. save' = [save EXCEPT ![t] = x]
  BY <1>3 DEF SyncRead
<1>9. opener # "report" => k = 2 * (n - 1) /\ (f <=> TitleAfter(order, n - 1) = None)
  <2> SUFFICES ASSUME opener # "report" PROVE k = 2 * (n - 1) /\ (f <=> TitleAfter(order, n - 1) = None)
    OBVIOUS
  <2>1. /\ meta = MetaAfter(order, n - 1) /\ meta \in MetaType /\ meta.count = 2 * (n - 1)
        /\ n - 1 # 0 => meta.title = TitleAfter(order, n - 1)
    BY <1>3, <1>4, <1>5, AfterIs DEF Reached
  <2>2. meta # None /\ found = meta
    BY <2>1, Apart DEF MetaFetched
  <2>3. k = 2 * (n - 1) /\ (f <=> (meta.count = 0 \/ meta.title = None))
    BY <2>1, <2>2
  <2> HIDE DEF n, k, f, found
  <2>4. CASE n - 1 = 0
    <3>1. TitleAfter(order, n - 1) = None
      BY <2>4 DEF TitleAfter
    <3>2. meta.count = 0
      BY <2>1, <2>4
    <3> QED BY <2>3, <3>1, <3>2
  <2>5. CASE n - 1 # 0
    <3>1. meta.count # 0
      BY <1>4, <2>1, <2>5
    <3> QED BY <2>1, <2>3, <2>5, <3>1
  <2> QED BY <2>4, <2>5
<1>10. save[t] \in SaveType
  BY <1>1 DEF Typed
<1> HIDE DEF k, f, n, found
<1>11. x.pc = "update" /\ x.turns = save[t].turns /\ x.prior = save[t].prior /\ x.count = k /\ x.fresh = f
  BY <1>10 DEF SaveType
<1> HIDE DEF x
<1>12. save'[t] = x /\ \A u \in Exchanges : u # t => save'[u] = save[u]
  BY <1>1, <1>8 DEF Typed
<1>13. Reached(order, n, doc', cached', meta', save'[t], put'[t])
  BY <1>3, <1>5, <1>9, <1>11, <1>12 DEF Reached
<1>14. \A u \in Exchanges : u # t => save'[u] = save[u] /\ put'[u] = put[u]
  BY <1>3, <1>12
<1> QED BY <1>3, <1>4, <1>13, <1>14, MovesOn DEF n

LEMMA TUpdate ==
  ASSUME HInv, InTurn, NEW t \in Exchanges, Update(t), faults' = 0
  PROVE  InTurn'
<1> DEFINE n == Len(order)
           found == MetaFetched(save[t].worker)
           m == IF found = None THEN None ELSE Merged(t, found)
           p == IF found = None THEN "write" ELSE "merged"
           x == [save[t] EXCEPT !.pc = p, !.count = 0, !.fresh = FALSE, !.merged = m]
<1>1. Typed /\ BareOK /\ order \in Seq(Exchanges)
  BY DEF HInv, Typed
<1>2. ~Fault
  BY <1>1, NoFault
<1>3. /\ save[t].pc = "update" /\ UpdateWith(t, found)
      /\ UNCHANGED <<doc, cached, meta, opener, creation, put, order>>
  BY <1>2 DEF Update, Saving, history, metadata, observed
<1>4. /\ LatestOnly /\ t = Latest /\ order # <<>> /\ n \in Nat \ {0} /\ n - 1 \in 0..n
  BY <1>3, Mover
<1>5. Reached(order, n, doc, cached, meta, save[t], put[t])
  BY <1>4 DEF LatestOnly
<1>6. save[t] \in SaveType /\ save[t].worker \in Processes
  BY <1>1, <1>3 DEF Typed, SaveOK
<1>7. save' = [save EXCEPT ![t] = x]
  BY <1>3 DEF UpdateWith
<1>8. \/ opener = "report" /\ p = "write"
      \/ opener # "report" /\ p = "merged" /\ m = MetaAfter(order, n)
  <2>1. CASE opener = "report"
    <3>1. found = None
      BY <1>1, <1>6, <2>1 DEF BareOK, Bare, MetaFetched, Fallback
    <3> QED BY <2>1, <3>1
  <2>2. CASE opener # "report"
    <3> DEFINE b == TitleAfter(order, n - 1)
    <3>1. /\ meta = MetaAfter(order, n - 1) /\ meta \in MetaType
          /\ n - 1 # 0 => meta.title = b
          /\ save[t].count = 2 * (n - 1) /\ (save[t].fresh <=> b = None)
          /\ (save[t].prior <=> n > 1)
      BY <1>3, <1>4, <1>5, <2>2, AfterIs DEF Reached
    <3>2. meta # None /\ found = meta
      BY <3>1, Apart DEF MetaFetched
    <3>3. p = "merged" /\ m = Merged(t, meta)
      BY <3>2
    <3>4. m = [count |-> save[t].count + 2,
               title |-> IF ~save[t].prior \/ save[t].fresh THEN TitleOf(t) ELSE meta.title]
      BY <3>3 DEF Merged
    <3>5. t = order[n] /\ n \in 1..Len(order)
      BY <1>4 DEF Latest
    <3>6. TitleAfter(order, n) = IF b = None THEN TitleOf(t) ELSE b
      BY <1>1, <3>5, TitleNext
    <3>7. n = 1 => b = None
      BY DEF TitleAfter
    <3>8. MetaAfter(order, n) = [count |-> 2 * n, title |-> TitleAfter(order, n)]
      BY <1>4, <2>2 DEF MetaAfter
    <3> HIDE DEF n, b, m, p, found
    <3>9. save[t].count + 2 = 2 * n
      BY <1>4, <3>1
    <3>10. (IF ~save[t].prior \/ save[t].fresh THEN TitleOf(t) ELSE meta.title) = TitleAfter(order, n)
      <4>1. CASE b = None
        BY <3>1, <3>6, <4>1
      <4>2. CASE b # None
        <5>1. n # 1
          BY <3>7, <4>2
        <5>2. n > 1 /\ n - 1 # 0
          BY <1>4, <5>1
        <5> QED BY <3>1, <3>6, <4>2, <5>2
      <4> QED BY <4>1, <4>2
    <3> QED BY <2>2, <3>3, <3>4, <3>8, <3>9, <3>10
  <2> QED BY <2>1, <2>2
<1> HIDE DEF m, n, p, found
<1>11. x.pc = p /\ x.turns = save[t].turns /\ x.prior = save[t].prior /\ x.merged = m
  BY <1>6 DEF SaveType
<1> HIDE DEF x
<1>12. save'[t] = x /\ \A u \in Exchanges : u # t => save'[u] = save[u]
  BY <1>1, <1>7 DEF Typed
<1>13. Reached(order, n, doc', cached', meta', save'[t], put'[t])
  <2>1. opener = "report" => MetaAfter(order, n) = MetaAfter(order, n - 1)
    BY DEF MetaAfter
  <2> QED BY <1>3, <1>5, <1>8, <1>11, <1>12, <2>1 DEF Reached
<1>14. \A u \in Exchanges : u # t => save'[u] = save[u] /\ put'[u] = put[u]
  BY <1>3, <1>12
<1> QED BY <1>3, <1>4, <1>13, <1>14, MovesOn DEF n

LEMMA TStoreMeta ==
  ASSUME HInv, InTurn, NEW t \in Exchanges, StoreMeta(t), faults' = 0
  PROVE  InTurn'
<1> DEFINE n == Len(order)
           p == [doc |-> MetaAfter(order, n), late |-> FALSE]
           x == [save[t] EXCEPT !.pc = "write", !.merged = None]
<1>1. Typed /\ save[t] \in SaveType /\ save \in [Exchanges -> SaveType]
  BY DEF HInv, Typed
<1>2. /\ save[t].pc = "merged" /\ UNCHANGED <<doc, cached, meta, opener, creation, order>>
      /\ put' = [put EXCEPT ![t] = [doc |-> save[t].merged, late |-> FALSE]]
      /\ cached' = cached
  BY DEF StoreMeta, Saving, history, observed
<1>3. /\ LatestOnly /\ t = Latest /\ order # <<>> /\ n \in Nat \ {0}
  BY <1>2, Mover
<1>4. Reached(order, n, doc, cached, meta, save[t], put[t])
  BY <1>3 DEF LatestOnly
<1>5. save[t].merged = MetaAfter(order, n) /\ meta = MetaAfter(order, n - 1) /\ opener # "report"
  BY <1>2, <1>4 DEF Reached
<1>6. save' = [save EXCEPT ![t] = x]
  <2>1. save' = [save EXCEPT ![t].pc = "write", ![t].merged = None]
    BY DEF StoreMeta
  <2> QED BY <1>1, <2>1
<1>7. x.pc = "write" /\ x.turns = save[t].turns /\ x.prior = save[t].prior
  BY <1>1 DEF SaveType
<1> HIDE DEF x, n
<1>8. save'[t] = x /\ \A u \in Exchanges : u # t => save'[u] = save[u]
  BY <1>1, <1>6
<1>9. put'[t] = p /\ \A u \in Exchanges : u # t => put'[u] = put[u]
  BY <1>1, <1>2, <1>5 DEF Typed
<1>10. Reached(order, n, doc', cached', meta', save'[t], put'[t])
  BY <1>2, <1>4, <1>5, <1>7, <1>8, <1>9 DEF Reached
<1> QED BY <1>2, <1>3, <1>8, <1>9, <1>10, MovesOn DEF n

LEMMA TPutMeta ==
  ASSUME HInv, InTurn, NEW t \in Exchanges, PutMeta(t)
  PROVE  InTurn'
<1> DEFINE n == Len(order)
<1>1. Typed
  BY DEF HInv
<1>2. put[t] # None /\ UNCHANGED <<doc, cached, opener, save, creation, order>>
  BY DEF PutMeta, history, observed
<1>3. /\ LatestOnly /\ t = Latest /\ order # <<>> /\ n \in Nat \ {0} /\ n - 1 \in 0..n
  BY <1>2, Mover
<1>4. Reached(order, n, doc, cached, meta, save[t], put[t])
  BY <1>3 DEF LatestOnly
<1> HIDE DEF n
<1>5. /\ save[t].pc \in {"write", "insert", "done"} /\ put[t] = [doc |-> MetaAfter(order, n), late |-> FALSE]
      /\ meta = MetaAfter(order, n - 1) /\ opener # "report"
  BY <1>2, <1>4 DEF Reached
<1>6. meta # None
  <2>1. meta \in MetaType
    BY <1>3, <1>5, AfterIs DEF n
  <2> QED BY <1>1, <2>1, Apart
<1>7. put[t].late = FALSE /\ put[t].doc = MetaAfter(order, n)
  BY <1>5
<1>8. meta' = put[t].doc /\ put' = [put EXCEPT ![t] = None]
  BY <1>6, <1>7 DEF PutMeta
<1>9. put'[t] = None /\ \A u \in Exchanges : u # t => put'[u] = put[u]
  BY <1>1, <1>8 DEF Typed
<1>10. Reached(order, n, doc', cached', meta', save'[t], put'[t])
  BY <1>2, <1>4, <1>5, <1>7, <1>8, <1>9 DEF Reached
<1>11. \A u \in Exchanges : u # t => save'[u] = save[u] /\ put'[u] = put[u]
  BY <1>2, <1>9
<1> QED BY <1>2, <1>3, <1>10, <1>11, MovesOn DEF n

LEMMA TWrite ==
  ASSUME HInv, InTurn, NEW t \in Exchanges, Write(t) \/ Insert(t)
  PROVE  InTurn'
<1> DEFINE n == Len(order)
<1>1. Typed
  BY DEF HInv
<1>2. /\ save[t].pc \in {"write", "insert"} /\ UNCHANGED <<cached, meta, opener, put, creation, order>>
  BY DEF Write, Insert, Saving, metadata, observed
<1>3. /\ LatestOnly /\ t = Latest /\ order # <<>> /\ n \in Nat \ {0} /\ n - 1 \in 0..n
  BY <1>2, Mover
<1>4. Reached(order, n, doc, cached, meta, save[t], put[t])
  BY <1>3 DEF LatestOnly
<1>5. /\ doc = ListAfter(order, n - 1) /\ save[t].turns = EndOf(order, n)
      /\ save[t].pc = "insert" => n = 1
  BY <1>2, <1>4 DEF Reached
<1>6. doc = None <=> n = 1
  <2>1. doc = None <=> n - 1 = 0
    BY <1>3, <1>5, AfterIs
  <2> HIDE DEF n
  <2> QED BY <1>3, <2>1
<1>7. ListAfter(order, n) = EndOf(order, n)
  BY <1>3 DEF ListAfter
<1> HIDE DEF n
<1>8. \/ doc' = ListAfter(order, n) /\ save' = [save EXCEPT ![t] = Place(t, "done")]
      \/ n = 1 /\ doc' = doc /\ save' = [save EXCEPT ![t] = Place(t, "insert")]
  BY <1>5, <1>6, <1>7 DEF Write, Insert, Saving, MovesTo, Place
<1>9. /\ Place(t, "done").pc = "done" /\ Place(t, "insert").pc = "insert"
      /\ Place(t, "insert").turns = save[t].turns /\ Place(t, "insert").prior = save[t].prior
  BY <1>1, SaveFields DEF SaveTo
<1>10. ASSUME NEW x, save' = [save EXCEPT ![t] = x]
       PROVE  save'[t] = x /\ \A u \in Exchanges : u # t => save'[u] = save[u]
  BY <1>1, <1>10 DEF Typed
<1>11. Reached(order, n, doc', cached', meta', save'[t], put'[t])
  <2>1. CASE doc' = ListAfter(order, n) /\ save' = [save EXCEPT ![t] = Place(t, "done")]
    <3>1. save'[t] = Place(t, "done")
      BY <1>10, <2>1
    <3> QED BY <1>2, <1>4, <1>9, <2>1, <3>1 DEF Reached
  <2>2. CASE n = 1 /\ doc' = doc /\ save' = [save EXCEPT ![t] = Place(t, "insert")]
    <3>1. save'[t] = Place(t, "insert")
      BY <1>10, <2>2
    <3> QED BY <1>2, <1>4, <1>9, <2>2, <3>1 DEF Reached
  <2> QED BY <1>8, <2>1, <2>2
<1>12. \A u \in Exchanges : u # t => save'[u] = save[u] /\ put'[u] = put[u]
  BY <1>2, <1>8, <1>10
<1> QED BY <1>2, <1>3, <1>11, <1>12, MovesOn DEF n

LEMMA TCreate ==
  ASSUME HInv, InTurn, CreateInserts
  PROVE  InTurn'
<1>1. creation \in 0..2 /\ creation > 0 /\ UNCHANGED <<doc, cached, local, opener, save, put, order>>
  BY DEF HInv, Typed, CreateInserts, history, observed
<1>2. creation # 0
  BY <1>1
<1>3. order = <<>> /\ NoneYet
  BY <1>2 DEF InTurn, LatestOnly
<1>4. meta = None
  BY <1>2, <1>3 DEF NoneYet
<1>5. meta' = Blank /\ creation' = 0
  BY <1>4 DEF CreateInserts
<1>6. opener # "report"
  BY <1>2 DEF HInv, BareOK, Bare
<1>7. NoneYet'
  BY <1>1, <1>3, <1>5, <1>6 DEF NoneYet, MetaAfter, Blank
<1> QED BY <1>1, <1>3, <1>7 DEF InTurn

\* Nothing gives metadata to a session that a report opened.
LEMMA BareStays == ASSUME HInv, HistoryNext PROVE BareOK'
<1>1. Typed /\ opener' = opener
  BY DEF HInv, HistoryNext, Task, ReadHistory, ReadHistoryFails, Store, Sync, Update, StoreMeta, PutMeta,
         PutMetaFails, Write, Insert, WriteFails, CreateInserts, CreateFails, ProcessDies, metadata
<1> SUFFICES ASSUME opener = "report" PROVE Bare'
  BY <1>1 DEF BareOK
<1>2. Bare
  BY DEF HInv, BareOK
<1>3. /\ ~CreateInserts /\ ~CreateFails
      /\ \A t \in Exchanges : ~PutMeta(t) /\ ~PutMetaFails(t)
  BY <1>2 DEF Bare, CreateInserts, CreateFails, PutMeta, PutMetaFails
<1>4. \A t \in Exchanges : ~StoreMeta(t)
  BY <1>1, <1>2 DEF Bare, StoreMeta, Saving, Typed, SaveOK
<1>5. ASSUME NEW t \in Exchanges,
             \/ \E w \in Processes : ReadHistory(t, w) \/ ReadHistoryFails(t, w)
             \/ Store(t) \/ Sync(t) \/ Write(t) \/ Insert(t) \/ WriteFails(t)
      PROVE  Bare'
  <2>1. UNCHANGED <<creation, meta, metaCached, metaLocal, put>>
    BY <1>5 DEF ReadHistory, ReadHistoryFails, Store, Sync, Write, Insert, WriteFails, metadata
  <2>2. \E x : save' = [save EXCEPT ![t] = x] /\ x.merged = save[t].merged
    <3>1. save[t] \in SaveType
      BY <1>1 DEF Typed
    <3>2. ASSUME NEW p PROVE [save[t] EXCEPT !.pc = p].merged = save[t].merged
      BY <3>1 DEF SaveType
    <3>3. ASSUME NEW p, MovesTo(t, p) PROVE \E x : save' = [save EXCEPT ![t] = x] /\ x.merged = save[t].merged
      BY <3>2, <3>3 DEF MovesTo
    <3>4. ASSUME NEW w \in Processes, NEW found, Got(t, w, found)
          PROVE  \E x : save' = [save EXCEPT ![t] = x] /\ x.merged = save[t].merged
      <4> DEFINE y(e, q) == [save[t] EXCEPT !.pc = "store", !.worker = w, !.turns = e, !.prior = q]
      <4>1. ASSUME NEW e, NEW q PROVE y(e, q).merged = save[t].merged
        BY <3>1 DEF SaveType
      <4>2. \E e, q : save' = [save EXCEPT ![t] = y(e, q)]
        BY <3>4 DEF Got
      <4> HIDE DEF y
      <4> QED BY <4>1, <4>2
    <3>5. ASSUME NEW found, SyncRead(t, found)
          PROVE  \E x : save' = [save EXCEPT ![t] = x] /\ x.merged = save[t].merged
      <4> DEFINE y(k, f) == [save[t] EXCEPT !.pc = "update", !.count = k, !.fresh = f]
      <4>1. ASSUME NEW k, NEW f PROVE y(k, f).merged = save[t].merged
        BY <3>1 DEF SaveType
      <4>2. \E k, f : save' = [save EXCEPT ![t] = y(k, f)]
        BY <3>5 DEF SyncRead
      <4> HIDE DEF y
      <4> QED BY <4>1, <4>2
    <3>6. \/ \E w \in Processes : \E found : Got(t, w, found)
          \/ \E p : MovesTo(t, p)
          \/ \E found : SyncRead(t, found)
      BY <1>5 DEF ReadHistory, ReadHistoryFails, Store, Sync, Write, Insert, WriteFails
    <3> QED BY <3>3, <3>4, <3>5, <3>6
  <2>3. \A u \in Exchanges : save'[u].merged = save[u].merged
    BY <1>1, <2>2 DEF Typed
  <2> QED BY <1>2, <2>1, <2>3 DEF Bare
<1>6. ASSUME NEW t \in Exchanges, Update(t) PROVE Bare'
  <2>1. save[t].worker \in Processes /\ save[t] \in SaveType
    BY <1>1, <1>6 DEF Update, Saving, Typed, SaveOK
  <2>2. MetaFetched(save[t].worker) = None /\ MetaUnfetched(save[t].worker) = {None}
    BY <1>2, <2>1 DEF Bare, MetaFetched, MetaUnfetched, Fallback
  <2>3. UpdateWith(t, None) /\ UNCHANGED <<creation, meta, metaCached, metaLocal, put>>
    BY <1>6, <2>2 DEF Update, metadata
  <2> DEFINE x == [save[t] EXCEPT !.pc = "write", !.count = 0, !.fresh = FALSE, !.merged = None]
  <2>4. save' = [save EXCEPT ![t] = x]
    BY <2>3 DEF UpdateWith
  <2>5. x.merged = None
    BY <2>1 DEF SaveType
  <2> HIDE DEF x
  <2>6. \A u \in Exchanges : save'[u].merged = None
    BY <1>1, <1>2, <2>4, <2>5 DEF Typed, Bare
  <2> QED BY <1>2, <2>3, <2>6 DEF Bare
<1>7. ASSUME NEW w \in Processes, ProcessDies(w) PROVE Bare'
  <2>1. /\ UNCHANGED <<meta, metaCached>> /\ creation' \in {0, creation}
        /\ metaLocal' = [metaLocal EXCEPT ![w] = None]
        /\ save' = [t \in Exchanges |-> IF save[t].worker = w THEN Place(t, "done") ELSE save[t]]
        /\ put' = [t \in Exchanges |-> IF save[t].worker = w THEN None ELSE put[t]]
    BY <1>7 DEF ProcessDies, Place
  <2>2. \A t \in Exchanges : Place(t, "done").merged = save[t].merged
    BY <1>1, SaveFields DEF SaveTo
  <2> QED BY <1>1, <1>2, <2>1, <2>2 DEF Bare, Typed
<1> QED BY <1>3, <1>4, <1>5, <1>6, <1>7 DEF HistoryNext, Task

-----------------------------------------------------------------------------
(* The invariant of the documents.                                         *)

LEMMA HInit == ASSUME HistoryInit PROVE HInv
<1>1. Typed
  <2>1. <<>> \in Seq(Exchanges) /\ Blank \in MetaType
    BY DEF Blank, MetaType
  <2>2. NewSave \in SaveType /\ SaveOK(NewSave)
    BY <2>1 DEF NewSave, SaveType, SaveOK
  <2>3. metaLocal \in [Processes -> MetaType \cup {None}]
    BY <2>1 DEF HistoryInit
  <2>4. save \in [Exchanges -> SaveType] /\ \A t \in Exchanges : SaveOK(save[t])
    BY <2>2 DEF HistoryInit
  <2>5. local \in [Processes -> Seq(Exchanges) \cup {None}] /\ put \in [Exchanges -> PutType \cup {None}]
    BY DEF HistoryInit
  <2>6. /\ doc = None /\ cached = None /\ meta = None /\ metaCached \in {Blank, None}
        /\ creation \in {0, 2} /\ faults \in {0, 1} /\ order = <<>> /\ overlap = FALSE
        /\ opener \in {"endpoint", "chat", "report"}
    BY DEF HistoryInit
  <2>7. /\ doc \in Seq(Exchanges) \cup {None} /\ cached \in Seq(Exchanges) \cup {None}
        /\ meta \in MetaType \cup {None} /\ metaCached \in MetaType \cup {None}
        /\ order \in Seq(Exchanges)
    BY <2>1, <2>6
  <2>8. creation \in 0..2 /\ faults \in Nat
    BY <2>6
  <2>9. overlap \in BOOLEAN
    BY <2>6
  <2> QED BY <2>3, <2>4, <2>5, <2>6, <2>7, <2>8, <2>9, Zenon DEF Typed
<1>2. /\ order = <<>> /\ Len(order) = 0 /\ doc = None /\ cached = None /\ \A w \in Processes : local[w] = None
      /\ meta = None /\ creation = (IF opener = "report" THEN 0 ELSE 2)
      /\ \A t \in Exchanges : /\ save[t].pc = "new" /\ save[t].turns = <<>> /\ save[t].merged = None /\ put[t] = None
  BY DEF HistoryInit, NewSave
<1>3. OrderOK
  BY <1>2 DEF OrderOK
<1>4. Ranked(<<>>, order)
  <2>1. <<>> \in Seq(Exchanges) /\ Len(<<>>) = 0 /\ Keep \in Nat
    BY Apart
  <2> QED BY <2>1 DEF Ranked
<1>5. ListsOK
  BY <1>2, <1>4 DEF ListsOK, Held
<1>6. MetasOK
  <2>1. \A m \in AllMetas : m = None \/ m = Blank
    BY <1>2 DEF AllMetas, HistoryInit
  <2>2. Added \in SUBSET (1..0)
    BY <1>2 DEF Added
  <2>3. Cardinality(Added) \in Nat
    BY <2>2, AddedFinite
  <2> DEFINE b == Cardinality(Added)
  <2>4. Blank.count = 0 /\ 0 <= 2 * b
    BY <2>3 DEF Blank
  <2> HIDE DEF b
  <2>5. \A m \in AllMetas : m = None \/ m.count <= 2 * b
    BY <2>1, <2>4
  <2> QED BY <1>2, <2>5 DEF MetasOK, b
<1>7. InTurn
  BY <1>2 DEF InTurn, NoneYet, MetaAfter
<1>8. BareOK
  BY DEF BareOK, Bare, HistoryInit, NewSave
<1> QED BY <1>1, <1>3, <1>5, <1>6, <1>7, <1>8 DEF HInv, InTurnOK

LEMMA HNext == ASSUME HInv, HistoryNext PROVE HInv'
<1>1. Typed /\ faults \in Nat
  BY DEF HInv, Typed
<1>2. HBase'
  BY HRead, HStore, HSync, HUpdate, HStoreMeta, HWrite, HPut, HCrash DEF HistoryNext, Task
<1>3. /\ faults' \in {faults, faults + 1} /\ (overlap => overlap')
  <2>1. ASSUME NEW t \in Exchanges, NEW w \in Processes, ReadHistory(t, w) \/ ReadHistoryFails(t, w)
        PROVE  faults' \in {faults, faults + 1} /\ (overlap => overlap')
    <3>1. faults' \in {faults, faults + 1}
      BY <2>1 DEF ReadHistory, ReadHistoryFails, Fault
    <3>2. overlap' = (overlap \/ (\E u \in Exchanges : Busy(u)) \/ creation > 0)
      BY <2>1 DEF ReadHistory, ReadHistoryFails, Got
    <3>3. overlap => overlap'
      BY <3>2, Zenon
    <3> QED BY <3>1, <3>3
  <2>2. ASSUME NEW t \in Exchanges, Task(t) \/ PutMetaFails(t) \/ WriteFails(t)
        PROVE  faults' \in {faults, faults + 1} /\ (overlap => overlap')
    <3>1. faults' \in {faults, faults + 1} /\ UNCHANGED overlap
      BY <2>2 DEF Task, Store, Sync, Update, StoreMeta, PutMeta,
                  PutMetaFails, Write, Insert, WriteFails, Fault,
                  observed
    <3> QED BY <3>1
  <2>3. ASSUME CreateInserts \/ CreateFails \/ \E w \in Processes : ProcessDies(w)
        PROVE  faults' \in {faults, faults + 1} /\ (overlap => overlap')
    <3>1. faults' \in {faults, faults + 1} /\ UNCHANGED overlap
      BY <2>3 DEF CreateInserts, CreateFails, ProcessDies, Fault, observed
    <3> QED BY <3>1
  <2> QED BY <2>1, <2>2, <2>3, Zenon DEF HistoryNext
<1>4. ASSUME ~overlap', faults' = 0 PROVE InTurn'
  <2>1. ~overlap /\ faults = 0
    BY <1>1, <1>3, <1>4
  <2>2. InTurn
    BY <2>1 DEF HInv, InTurnOK
  <2>3. ~Fault
    BY <1>1, <1>4, NoFault
  <2>4. ASSUME NEW t \in Exchanges, NEW w \in Processes, ReadHistory(t, w) PROVE InTurn'
    BY <1>4, <2>2, <2>4, TRead
  <2>5. ASSUME NEW t \in Exchanges, Task(t) PROVE InTurn'
    BY <1>4, <2>2, <2>5, TStore, TSync, TUpdate, TStoreMeta, TPutMeta, TWrite DEF Task
  <2>6. ASSUME CreateInserts PROVE InTurn'
    BY <2>2, <2>6, TCreate
  <2>7. /\ \A t \in Exchanges, w \in Processes : ~ReadHistoryFails(t, w)
        /\ \A t \in Exchanges : ~PutMetaFails(t) /\ ~WriteFails(t)
        /\ ~CreateFails
        /\ \A w \in Processes : ~ProcessDies(w)
    BY <2>3 DEF ReadHistoryFails, PutMetaFails, WriteFails, CreateFails,
                ProcessDies
  <2> QED BY <2>4, <2>5, <2>6, <2>7 DEF HistoryNext
<1> QED BY <1>2, <1>4, BareStays DEF HBase, HInv, InTurnOK

LEMMA HStays == ASSUME HInv, UNCHANGED historyVars PROVE HInv'
<1>1. UNCHANGED <<doc, cached, local, meta, metaCached, metaLocal, opener, creation, save, put, faults, order, overlap>>
  BY DEF historyVars
<1>2. HBase' /\ BareOK'
  BY <1>1 DEF HInv, HBase, Typed, OrderOK, ListsOK, Held, MetasOK, AllMetas, Added, BareOK, Bare
<1>3. NoneYet => NoneYet'
  BY <1>1 DEF NoneYet, MetaAfter, Blank
<1>4. LatestOnly => LatestOnly'
  BY <1>1 DEF LatestOnly, Latest, Reached, MetaAfter, Blank
<1>5. InTurnOK'
  BY <1>1, <1>3, <1>4 DEF HInv, InTurnOK, InTurn
<1> QED BY <1>2, <1>5 DEF HInv, HBase

\* The documents keep the invariant, under any failure and any crash.
THEOREM DocumentsKept == HistorySpec => []HInv
<1>1. HistoryInit => HInv
  BY HInit
<1>2. HInv /\ [HistoryNext]_historyVars => HInv'
  BY HNext, HStays
<1> QED BY <1>1, <1>2, PTL DEF HistorySpec

\* The types of the state, from the invariant.
THEOREM DocumentsTyped == HistorySpec => []HistoryTypeOK
<1>1. HInv => HistoryTypeOK
  BY TypedIs DEF HInv
<1> QED BY <1>1, DocumentsKept, PTL

\* Every copy of the history holds turns in the order of the conversation,
\* each once, and no more than it should, whatever raced, failed or was lost.
THEOREM CopiesInOrder == HistorySpec => []HistoryInOrder
<1>1. ASSUME HInv PROVE HistoryInOrder
  <2> SUFFICES ASSUME NEW c \in Copies, c # None
               PROVE  /\ Len(c) <= Keep
                      /\ \A i, j \in 1..Len(c) : i < j => Position(c[i]) < Position(c[j])
    BY DEF HistoryInOrder
  <2>1. c \in Held
    BY DEF Copies, Held
  <2>2. Ranked(c, order)
    BY <1>1, <2>1 DEF HInv, ListsOK
  <2>3. ASSUME NEW i \in 1..Len(c)
        PROVE  Position(c[i]) \in 1..Len(order) /\ order[Position(c[i])] = c[i]
    <3>1. \E k \in 1..Len(order) : order[k] = c[i]
      BY <2>2 DEF Ranked
    <3> QED BY <3>1 DEF Position
  <2> QED BY <2>2, <2>3 DEF Ranked
<1> QED BY <1>1, DocumentsKept, PTL

\* No count of messages, stored or about to be, counts a turn twice.
THEOREM CountsNeverOver == HistorySpec => []CountNeverOver
<1>1. ASSUME HInv PROVE CountNeverOver
  <2> DEFINE b == Cardinality(Added)
             n == Len(order)
  <2>1. n \in Nat /\ Added \in SUBSET (1..n) /\ Typed
    BY <1>1 DEF HInv, Typed, Added
  <2>2. b \in Nat /\ b <= n
    BY <2>1, AddedFinite
  <2>3. \A m \in AllMetas : m = None \/ (m.count \in Nat /\ m.count <= 2 * b)
    BY <1>1, <2>1, CountsAre DEF HInv, MetasOK
  <2> HIDE DEF b, n
  <2>4. \A m \in AllMetas : m = None \/ m.count <= 2 * n
    BY <2>1, <2>2, <2>3
  <2>5. \A t \in Exchanges : put[t] # None => put[t].doc # None
    BY <1>1, <2>1, Apart DEF Typed, PutType, HInv
  <2>6. \A c \in Counts : \E m \in AllMetas : m # None /\ c = m.count
    BY <2>5 DEF Counts, AllMetas
  <2>7. \A c \in Counts : c <= 2 * n
    BY <2>4, <2>6
  <2> QED BY <2>7 DEF CountNeverOver, n
<1> QED BY <1>1, DocumentsKept, PTL

\* When the turns follow each other and nothing fails, the stored history is
\* the end of the conversation once all tasks have ended.  The count is then
\* exact and the title the first a question gave, unless a report opened the
\* session: it then has no metadata.
THEOREM NothingLost == HistorySpec => []NothingLostWithoutOverlap
<1>1. ASSUME HInv PROVE NothingLostWithoutOverlap
  <2> DEFINE n == Len(order)
  <2> SUFFICES ASSUME Settled, ~overlap, faults = 0, order # <<>>
               PROVE  /\ doc = Recent /\ cached = Recent
                      /\ meta = IF opener = "report" THEN None ELSE [count |-> 2 * n, title |-> Title(order)]
    BY DEF NothingLostWithoutOverlap
  <2>1. LatestOnly /\ order \in Seq(Exchanges) /\ n \in Nat \ {0}
    BY <1>1 DEF HInv, Typed, InTurnOK, InTurn
  <2>2. Latest \in Exchanges /\ n \in 0..n
    BY <2>1 DEF Latest
  <2>3. save[Latest].pc = "done" /\ put[Latest] = None
    BY <2>1, <2>2 DEF Settled, Busy, LatestOnly, Reached
  <2>4. Reached(order, n, doc, cached, meta, save[Latest], put[Latest])
    BY <2>1 DEF LatestOnly
  <2>5. opener # "report" => [doc |-> MetaAfter(order, n), late |-> FALSE] # None
    BY <1>1, <2>2, AfterIs
  <2>6. TitleAfter(order, n) = Title(order)
    BY DEF TitleAfter, Title
  <2> HIDE DEF n
  <2>7. doc = ListAfter(order, n) /\ cached = ListAfter(order, n) /\ meta = MetaAfter(order, n)
    BY <2>3, <2>4, <2>5 DEF Reached
  <2>8. ListAfter(order, n) = Recent
    BY <2>1 DEF ListAfter, EndOf, Oldest, Recent, n
  <2>9. MetaAfter(order, n) = IF opener = "report" THEN None ELSE [count |-> 2 * n, title |-> Title(order)]
    BY <2>1, <2>6 DEF MetaAfter
  <2> QED BY <2>7, <2>8, <2>9
<1> QED BY <1>1, DocumentsKept, PTL
=============================================================================
