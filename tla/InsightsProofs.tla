--------------------------- MODULE InsightsProofs ---------------------------
(* What a stored score was made from, for any tables, any names and any      *)
(* number of concurrent calls.                                              *)
EXTENDS Insights, FiniteSetTheorems, TLAPS

Jobs == Calls \X Accused

\* TypeOK, but for how many places a semaphore has left, which is counted below.
Typed ==
    /\ caseOf \in Placements
    /\ entered \subseteq Accused /\ arrested \subseteq entered
    /\ score \in [Accused -> Score \union {None}]
    /\ \A a \in Accused : score[a] # None => a \in entered
    /\ call \in [Calls -> CallType]
    /\ \A c \in Calls : call[c].who \in Asked(call[c].kind)
    /\ job \in [Calls \X Accused -> JobType]
    /\ free \in [Calls -> Int]

\* A score that says "at large" of nobody it should not: if it does not say so
\* there is an arrest, in a case it was made from.
Arrested(r, a) == \E b \in Named(a) \intersect arrested : \E x \in r.seen : caseOf[x] = caseOf[b]
Backed(r, a) == r.seen \subseteq Named(a) /\ (r = Empty \/ r.large \/ Arrested(r, a))

\* What a computation has found so far, against the score it will replace.
Finds(x, a) ==
    /\ x.pc \in {"arrests", "check", "save"} => Backed(x.result, a)
    /\ x.pc = "arrests" => x.result.large
    /\ x.clean /\ x.pc = "arrests" =>
         score[a] \in {None, Empty} \/ score[a].seen \subseteq x.result.seen
    /\ x.clean /\ x.pc \in {"check", "save"} =>
         score[a] = None \/ Covers(x.result, score[a])

Stored(a) == score[a] # None => Backed(score[a], a)

IInv ==
    /\ Typed
    /\ \A a \in Accused : Stored(a)
    /\ \A j \in Jobs : Finds(job[j], j[2])

\* What the proofs need to know of a score is that it is a pair.
LEMMA ScoreFields == ASSUME NEW r \in Score PROVE r.seen \in SUBSET Accused /\ r.large \in BOOLEAN
  BY DEF Score

LEMMA EmptyScore == Empty \in Score /\ Empty.seen = {} /\ Empty.large = FALSE
  BY DEF Score, Empty

LEMMA JobFields ==
  ASSUME NEW x \in JobType PROVE x.result \in Score /\ x.clean \in BOOLEAN
  BY DEF JobType

\* A call moves on: its type is kept, and so is what it is about.
LEMMA Moves ==
  ASSUME Typed, NEW c, NEW pc,
         pc \in {"idle", "cached", "compute", "gather", "accused", "similar", "appearances",
                 "links", "stations", "commands", "done", "failed", "missing"},
         Goto(c, pc)
  PROVE  /\ call' \in [Calls -> CallType]
         /\ \A d \in Calls : call'[d].kind = call[d].kind /\ call'[d].who = call[d].who
         /\ \A d \in Calls : call'[d].who \in Asked(call'[d].kind)
<1>1. call \in [Calls -> CallType] /\ \A d \in Calls : call[d].who \in Asked(call[d].kind)
  BY DEF Typed
<1>2. call' = [call EXCEPT ![c].pc = pc]
  BY DEF Goto
<1>3. call' \in [Calls -> CallType]
  BY <1>1, <1>2 DEF CallType
<1>4. \A d \in Calls : call'[d].kind = call[d].kind /\ call'[d].who = call[d].who
  BY <1>1, <1>2 DEF CallType
<1> QED BY <1>1, <1>3, <1>4

\* A step that leaves the tables, the scores and the jobs alone.
LEMMA CallsOnly ==
  ASSUME IInv, UNCHANGED <<cases, score, job>>,
         call' \in [Calls -> CallType], \A d \in Calls : call'[d].who \in Asked(call'[d].kind),
         free' \in [Calls -> Int]
  PROVE  IInv'
<1>1. Typed'
  BY DEF IInv, Typed, cases
<1>2. \A a \in Accused : Stored(a)'
  BY DEF IInv, Stored, Backed, Arrested, Named, cases
<1>3. \A j \in Jobs : Finds(job[j], j[2])'
  BY DEF IInv, Finds, Backed, Arrested, Named, cases
<1> QED BY <1>1, <1>2, <1>3 DEF IInv

\* A step that changes some jobs, into others that are right about the scores.
LEMMA JobsOnly ==
  ASSUME IInv, UNCHANGED <<cases, score>>,
         call' \in [Calls -> CallType], \A d \in Calls : call'[d].who \in Asked(call'[d].kind),
         free' \in [Calls -> Int],
         job' \in [Jobs -> JobType],
         \A j \in Jobs : job'[j] = job[j] \/ Finds(job'[j], j[2])
  PROVE  IInv'
<1>1. Typed'
  BY DEF IInv, Typed, cases, Jobs
<1>2. \A a \in Accused : Stored(a)'
  BY DEF IInv, Stored, Backed, Arrested, Named, cases
<1>3. ASSUME NEW j \in Jobs PROVE Finds(job[j], j[2])'
  <2>1. Finds(job'[j], j[2])
    BY DEF IInv
  <2> QED BY <2>1 DEF Finds, Backed, Arrested, Named, cases
<1> QED BY <1>1, <1>2, <1>3 DEF IInv

\* The same for one job.
LEMMA OneJob ==
  ASSUME IInv, UNCHANGED <<cases, score>>, NEW j, NEW x \in JobType,
         j \in Jobs => Finds(x, j[2]),
         job' = [job EXCEPT ![j] = x],
         call' \in [Calls -> CallType], \A d \in Calls : call'[d].who \in Asked(call'[d].kind),
         free' \in [Calls -> Int]
  PROVE  IInv'
<1>1. job \in [Jobs -> JobType]
  BY DEF IInv, Typed, Jobs
<1>2. job' \in [Jobs -> JobType]
  BY <1>1
<1>3. \A i \in Jobs : job'[i] = job[i] \/ Finds(job'[i], i[2])
  BY <1>1
<1> QED BY <1>2, <1>3, JobsOnly

\* A job at a place where nothing is known of its result yet.
LEMMA Idle ==
  ASSUME NEW x, NEW a, x.pc \in {"off", "wait", "name", "cases", "done", "failed"}
  PROVE  Finds(x, a)
  BY DEF Finds

LEMMA Begun ==
  ASSUME NEW pc \in {"off", "wait", "name", "done", "failed"}, NEW b \in BOOLEAN, NEW x,
         x = [NoJob EXCEPT !.pc = pc] \/ x = [NoJob EXCEPT !.pc = pc, !.clean = b]
  PROVE  x \in JobType /\ x.pc = pc /\ \A a : Finds(x, a)
<1>1. x \in JobType /\ x.pc = pc
  BY EmptyScore DEF NoJob, JobType
<1> QED BY <1>1, Idle

\* A result is handed on.
LEMMA Results ==
  ASSUME IInv, NEW j \in Jobs, NEW r \in Score, NEW clean \in BOOLEAN,
         Backed(r, j[2]),
         clean => score[j[2]] = None \/ Covers(r, score[j[2]]),
         Computed(j, r, clean), UNCHANGED <<cases, score, call, free>>
  PROVE  IInv'
<1> DEFINE place == IF call[j[1]].kind = "score" /\ r = Empty THEN "check" ELSE "save"
           x == [pc |-> place, result |-> r, clean |-> clean]
<1>1. place \in {"check", "save"}
  OBVIOUS
<1>2. x \in JobType /\ x.pc = place /\ x.result = r /\ x.clean = clean
  BY <1>1 DEF JobType
<1>3. job' = [job EXCEPT ![j] = x]
  BY DEF Computed
<1>4. Finds(x, j[2])
  <2> HIDE DEF place, x
  <2> QED BY <1>1, <1>2 DEF Finds
<1>5. /\ call' \in [Calls -> CallType] /\ free' \in [Calls -> Int]
      /\ \A d \in Calls : call'[d].who \in Asked(call'[d].kind)
  BY DEF IInv, Typed
<1> HIDE DEF x, place
<1> QED BY <1>2, <1>3, <1>4, <1>5, OneJob

-----------------------------------------------------------------------------
(* The steps of a computation.                                             *)

LEMMA ReadsName ==
  ASSUME IInv, NEW j \in Jobs, ReadName(j) PROVE IInv'
<1>1. /\ call' \in [Calls -> CallType] /\ free' \in [Calls -> Int]
      /\ \A d \in Calls : call'[d].who \in Asked(call'[d].kind)
  BY DEF IInv, Typed, ReadName
<1>2. job \in [Jobs -> JobType] /\ job[j] \in JobType
  BY DEF IInv, Typed, Jobs
<1>3. CASE j[2] \in entered
  <2> DEFINE x == [job[j] EXCEPT !.pc = "cases"]
  <2>1. job' = [job EXCEPT ![j] = x]
    BY <1>2, <1>3 DEF ReadName
  <2>2. x \in JobType /\ x.pc = "cases"
    BY <1>2 DEF JobType
  <2> HIDE DEF x
  <2>3. Finds(x, j[2])
    BY <2>2, Idle
  <2> QED BY <1>1, <2>1, <2>2, <2>3, OneJob DEF ReadName
<1>4. CASE j[2] \notin entered
  <2>1. score[j[2]] = None
    BY <1>4 DEF IInv, Typed, Jobs
  <2>2. Backed(Empty, j[2])
    BY EmptyScore DEF Backed
  <2>3. job[j].clean \in BOOLEAN
    BY <1>2, JobFields
  <2>4. Computed(j, Empty, job[j].clean) /\ UNCHANGED <<cases, score, call, free>>
    BY <1>4 DEF ReadName
  <2> QED BY <2>1, <2>2, <2>3, <2>4, EmptyScore, Results
<1> QED BY <1>3, <1>4

LEMMA ReadsCases ==
  ASSUME IInv, NEW j \in Jobs, ReadCases(j) PROVE IInv'
<1> DEFINE a == j[2]
           r == [seen |-> Named(a), large |-> TRUE]
<1>1. /\ call' \in [Calls -> CallType] /\ free' \in [Calls -> Int]
      /\ \A d \in Calls : call'[d].who \in Asked(call'[d].kind)
  BY DEF IInv, Typed, ReadCases
<1>2. job \in [Jobs -> JobType] /\ job[j] \in JobType /\ a \in Accused
  BY DEF IInv, Typed, Jobs
<1>3. r \in Score /\ r.seen = Named(a) /\ r.large = TRUE
  BY DEF Score, Named, IInv, Typed
<1>4. Backed(r, a)
  <2> HIDE DEF r, a
  <2> QED BY <1>3 DEF Backed
<1>5. score[a] # None => Backed(score[a], a)
  BY <1>2 DEF IInv, Stored
<1>6. CASE r.seen = {}
  <2>1. Computed(j, r, job[j].clean) /\ UNCHANGED <<cases, score, call, free>>
    BY <1>6 DEF ReadCases
  <2>2. score[a] = None \/ Covers(r, score[a])
    <3> HIDE DEF r, a
    <3> QED BY <1>3, <1>5, <1>6 DEF Backed, Arrested, Covers
  <2>3. job[j].clean \in BOOLEAN
    BY <1>2, JobFields
  <2> HIDE DEF r
  <2> QED BY <1>3, <1>4, <2>1, <2>2, <2>3, Results
<1>7. CASE r.seen # {}
  <2> DEFINE x == [job[j] EXCEPT !.pc = "arrests", !.result = r]
  <2>1. job' = [job EXCEPT ![j] = x]
    BY <1>2, <1>7 DEF ReadCases
  <2>2. x \in JobType /\ x.pc = "arrests" /\ x.result = r
    BY <1>2, <1>3 DEF JobType
  <2>3. Finds(x, a)
    <3> HIDE DEF x, r, a
    <3>1. score[a] = None \/ score[a].seen \subseteq Named(a)
      BY <1>5 DEF Backed
    <3> QED BY <1>3, <1>4, <2>2, <3>1 DEF Finds
  <2> HIDE DEF x, r
  <2> QED BY <1>1, <2>1, <2>2, <2>3, OneJob DEF ReadCases
<1> QED BY <1>6, <1>7

LEMMA ReadsArrests ==
  ASSUME IInv, NEW j \in Jobs, ReadArrests(j) PROVE IInv'
<1> DEFINE a == j[2]
           old == job[j].result
           found == {b \in Named(a) \intersect arrested : \E x \in old.seen : caseOf[x] = caseOf[b]}
           r == [seen |-> old.seen, large |-> found = {}]
<1>1. job[j] \in JobType /\ a \in Accused
  BY DEF IInv, Typed, Jobs
<1>2. old \in Score /\ job[j].clean \in BOOLEAN
  BY <1>1, JobFields
<1>3. r \in Score /\ r.seen = old.seen /\ (r.large <=> found = {})
  BY <1>2 DEF Score
<1>4. Finds(job[j], a) /\ job[j].pc = "arrests"
  BY DEF IInv, ReadArrests, Doing
<1>5. old.seen \subseteq Named(a)
  BY <1>4 DEF Finds, Backed
<1>6. Backed(r, a)
  <2>1. found # {} => Arrested(r, a)
    <3> HIDE DEF r, old
    <3> QED BY <1>3 DEF Arrested
  <2> HIDE DEF r, found, old
  <2> QED BY <1>3, <1>5, <2>1 DEF Backed
<1>7. job[j].clean => score[a] = None \/ Covers(r, score[a])
  <2> SUFFICES ASSUME job[j].clean, score[a] # None, score[a] # Empty
               PROVE  score[a].seen \subseteq r.seen /\ (r.large => score[a].large)
    BY DEF Covers
  <2>1. score[a].seen \subseteq old.seen
    BY <1>4 DEF Finds
  <2>2. Backed(score[a], a)
    BY <1>1 DEF IInv, Stored
  <2>3. ~score[a].large => found # {}
    <3> HIDE DEF old, r, a
    <3> QED BY <2>1, <2>2 DEF Backed, Arrested
  <2>4. score[a] \in Score
    BY <1>1 DEF IInv, Typed
  <2>5. score[a].large \in BOOLEAN
    BY <2>4, ScoreFields
  <2> HIDE DEF r, found, old
  <2> QED BY <1>3, <2>1, <2>3, <2>5
<1>8. Computed(j, r, job[j].clean) /\ UNCHANGED <<cases, score, call, free>>
  BY DEF ReadArrests
<1> HIDE DEF r, old, found
<1> QED BY <1>2, <1>3, <1>6, <1>7, <1>8, Results

LEMMA Fails ==
  ASSUME IInv, NEW j \in Jobs, ComputeFails(j) PROVE IInv'
<1>1. Backed(Empty, j[2])
  BY EmptyScore DEF Backed
<1>2. Computed(j, Empty, FALSE) /\ UNCHANGED <<cases, score, call, free>>
  BY DEF ComputeFails
<1> QED BY <1>1, <1>2, EmptyScore, Results

-----------------------------------------------------------------------------
(* The end of a computation, and the calls.                                *)

LEMMA Ended ==
  ASSUME Typed, NEW j \in Jobs, NEW pc \in {"done", "failed"}, NEW jobs \in [Jobs -> JobType],
         JobEnds(j, pc, jobs)
  PROVE  /\ job' = [jobs EXCEPT ![j] = [NoJob EXCEPT !.pc = pc]]
         /\ call' \in [Calls -> CallType]
         /\ \A d \in Calls : call'[d].who \in Asked(call'[d].kind)
         /\ free' \in [Calls -> Int]
<1>1. j[1] \in Calls
  BY DEF Jobs
<1>2. job' = [jobs EXCEPT ![j] = [NoJob EXCEPT !.pc = pc]]
  BY DEF JobEnds
<1>3. free' \in [Calls -> Int]
  BY <1>1 DEF JobEnds, Typed
<1>4. Goto(j[1], pc) \/ UNCHANGED call
  BY DEF JobEnds
<1>5. /\ call' \in [Calls -> CallType]
      /\ \A d \in Calls : call'[d].who \in Asked(call'[d].kind)
  <2>1. CASE Goto(j[1], pc)
    BY <2>1, Moves
  <2>2. CASE UNCHANGED call
    BY <2>2 DEF Typed
  <2> QED BY <1>4, <2>1, <2>2
<1> QED BY <1>2, <1>3, <1>5

LEMMA Overlaps ==
  ASSUME Typed, NEW j \in Jobs
  PROVE  /\ Overlapped(j) \in [Jobs -> JobType]
         /\ \A i \in Jobs : Overlapped(j)[i].pc = job[i].pc /\ Overlapped(j)[i].result = job[i].result
         /\ \A i \in Jobs : i # j /\ i[2] = j[2] => Overlapped(j)[i].clean = FALSE
         /\ \A i \in Jobs : i[2] # j[2] => Overlapped(j)[i] = job[i]
<1>1. job \in [Jobs -> JobType]
  BY DEF Typed, Jobs
<1>2. \A x \in JobType : LET y == [x EXCEPT !.clean = FALSE] IN
         y \in JobType /\ y.pc = x.pc /\ y.result = x.result /\ y.clean = FALSE
  BY DEF JobType
<1> QED BY <1>1, <1>2 DEF Overlapped

\* A score is stored, and its worker ends well or not.
LEMMA Storing ==
  ASSUME IInv, NEW j \in Jobs, NEW pc \in {"done", "failed"}, Doing(j, "save"), Stores(j, pc),
         UNCHANGED cases
  PROVE  IInv'
<1> DEFINE a == j[2]
           x == [NoJob EXCEPT !.pc = pc]
<1>1. Typed /\ a \in Accused /\ a \in entered
  BY DEF IInv, Stores, Jobs
<1>2. job[j] \in JobType /\ job[j].result \in Score
  BY <1>1, JobFields DEF Typed, Jobs
<1>3. Backed(job[j].result, a)
  BY DEF IInv, Finds, Doing
<1>4. JobEnds(j, pc, Overlapped(j)) /\ UNCHANGED cases
      /\ score' = [score EXCEPT ![a] = job[j].result]
  BY DEF Stores
<1>5. /\ job' = [Overlapped(j) EXCEPT ![j] = x]
      /\ call' \in [Calls -> CallType]
      /\ \A d \in Calls : call'[d].who \in Asked(call'[d].kind)
      /\ free' \in [Calls -> Int]
  BY <1>1, <1>4, Ended, Overlaps
<1>6. x \in JobType /\ x.pc = pc
  BY Begun
<1> HIDE DEF x
<1>7. job' \in [Jobs -> JobType]
  BY <1>1, <1>5, <1>6, Overlaps
<1>8. Typed'
  <2>1. score' \in [Accused -> Score \union {None}]
    BY <1>1, <1>2, <1>4 DEF Typed
  <2>2. \A b \in Accused : score'[b] # None => b \in entered'
    BY <1>1, <1>4 DEF Typed, cases
  <2> QED BY <1>1, <1>4, <1>5, <1>7, <2>1, <2>2 DEF Typed, cases, Jobs
<1>9. ASSUME NEW b \in Accused PROVE Stored(b)'
  <2>1. score'[b] # None => Backed(score'[b], b)
    BY <1>1, <1>3, <1>4 DEF IInv, Typed, Stored
  <2> QED BY <1>4, <2>1 DEF Stored, Backed, Arrested, Named, cases
<1>10. ASSUME NEW i \in Jobs PROVE Finds(job[i], i[2])'
  <2>1. CASE i = j
    <3>1. job'[i].pc = pc
      BY <1>1, <1>5, <1>6, <2>1, Overlaps
    <3> QED BY <3>1 DEF Finds
  <2>2. CASE i # j /\ i[2] = a
    <3>1. job'[i] = Overlapped(j)[i]
      BY <1>1, <1>5, <2>2, Overlaps
    <3>2. job'[i].pc = job[i].pc /\ job'[i].result = job[i].result /\ job'[i].clean = FALSE
      <4>1. \A k \in Jobs : k # j /\ k[2] = j[2] => Overlapped(j)[k].clean = FALSE
        BY <1>1, Overlaps
      <4>2. \A k \in Jobs : Overlapped(j)[k].pc = job[k].pc
                            /\ Overlapped(j)[k].result = job[k].result
        BY <1>1, Overlaps
      <4> QED BY <2>2, <3>1, <4>1, <4>2
    <3>3. Finds(job[i], i[2])
      BY DEF IInv
    <3> QED BY <1>4, <3>2, <3>3 DEF Finds, Backed, Arrested, Named, cases
  <2>3. CASE i[2] # a
    <3>1. job'[i] = job[i]
      BY <1>1, <1>5, <2>3, Overlaps
    <3>2. score'[i[2]] = score[i[2]]
      BY <1>4, <2>3 DEF IInv, Typed, Jobs
    <3>3. Finds(job[i], i[2])
      BY DEF IInv
    <3> QED BY <1>4, <3>1, <3>2, <3>3 DEF Finds, Backed, Arrested, Named, cases
  <2> QED BY <2>1, <2>2, <2>3
<1> QED BY <1>8, <1>9, <1>10 DEF IInv

LEMMA Saves ==
  ASSUME IInv, NEW j \in Jobs, Save(j) PROVE IInv'
  BY Storing DEF Save

LEMMA SavesNot ==
  ASSUME IInv, NEW j \in Jobs, SaveFails(j) PROVE IInv'
<1>1. Typed /\ job \in [Jobs -> JobType]
  BY DEF IInv, Typed, Jobs
<1> SUFFICES ASSUME JobEnds(j, "failed", job), UNCHANGED <<cases, score>> PROVE IInv'
  BY Storing DEF SaveFails
<1>2. JobEnds(j, "failed", job) /\ UNCHANGED <<cases, score>>
  OBVIOUS
<1>3. /\ job' = [job EXCEPT ![j] = [NoJob EXCEPT !.pc = "failed"]]
      /\ call' \in [Calls -> CallType]
      /\ \A d \in Calls : call'[d].who \in Asked(call'[d].kind)
      /\ free' \in [Calls -> Int]
  BY <1>1, <1>2, Ended
<1> DEFINE x == [NoJob EXCEPT !.pc = "failed"]
<1>4. x \in JobType /\ Finds(x, j[2])
  BY Begun
<1>5. job' = [job EXCEPT ![j] = x]
  BY <1>3
<1> HIDE DEF x
<1> QED BY <1>2, <1>3, <1>4, <1>5, OneJob

\* A computation begins.
LEMMA Starts ==
  ASSUME IInv, NEW j, Start(j), UNCHANGED <<cases, score>>,
         call' \in [Calls -> CallType], \A d \in Calls : call'[d].who \in Asked(call'[d].kind),
         free' \in [Calls -> Int]
  PROVE  IInv'
<1> DEFINE x == [NoJob EXCEPT !.pc = "name", !.clean = TRUE]
<1>1. x \in JobType /\ Finds(x, j[2])
  BY Begun
<1>2. job' = [job EXCEPT ![j] = x]
  BY DEF Start
<1> HIDE DEF x
<1> QED BY <1>1, <1>2, OneJob

LEMMA Acquires ==
  ASSUME IInv, NEW j \in Jobs, Acquire(j) PROVE IInv'
<1>1. /\ call' \in [Calls -> CallType] /\ free' \in [Calls -> Int]
      /\ \A d \in Calls : call'[d].who \in Asked(call'[d].kind)
  BY DEF IInv, Typed, Acquire, Jobs
<1> QED BY <1>1, Starts DEF Acquire

\* A call that moves on without a job being touched, or with one begun.
LEMMA Goes ==
  ASSUME IInv, NEW c \in Calls, NEW pc,
         pc \in {"cached", "compute", "gather", "accused", "similar", "appearances",
                 "links", "stations", "commands", "done", "failed", "missing"},
         Goto(c, pc), UNCHANGED <<cases, score, free>>,
         UNCHANGED job \/ \E j : Start(j)
  PROVE  IInv'
<1>1. /\ call' \in [Calls -> CallType]
      /\ \A d \in Calls : call'[d].who \in Asked(call'[d].kind)
  BY Moves DEF IInv
<1>2. free' \in [Calls -> Int]
  BY DEF IInv, Typed
<1>3. CASE UNCHANGED job
  BY <1>1, <1>2, <1>3, CallsOnly
<1>4. CASE \E j : Start(j)
  BY <1>1, <1>2, <1>4, Starts
<1> QED BY <1>3, <1>4

LEMMA Checks ==
  ASSUME IInv, NEW c \in Calls, CheckExists(c) PROVE IInv'
<1> DEFINE j == <<c, call[c].who>>
           y == [NoJob EXCEPT !.pc = "failed"]
           z == [job[j] EXCEPT !.pc = "save"]
<1>1. Typed /\ job \in [Jobs -> JobType] /\ free' \in [Calls -> Int] /\ UNCHANGED <<cases, score>>
  BY DEF IInv, Typed, Jobs, CheckExists
<1>2. CASE job' = [job EXCEPT ![j] = y] /\ \E pc \in {"missing", "failed"} : Goto(c, pc)
  <2>1. /\ call' \in [Calls -> CallType]
        /\ \A d \in Calls : call'[d].who \in Asked(call'[d].kind)
    BY <1>1, <1>2, Moves
  <2>2. y \in JobType /\ Finds(y, j[2])
    BY Begun
  <2> HIDE DEF j, y
  <2> QED BY <1>1, <1>2, <2>1, <2>2, OneJob
<1>3. CASE job' = [job EXCEPT ![j].pc = "save"] /\ UNCHANGED call
  <2>1. /\ call' \in [Calls -> CallType]
        /\ \A d \in Calls : call'[d].who \in Asked(call'[d].kind)
    BY <1>1, <1>3 DEF Typed
  <2>2. CASE j \in Jobs
    <3>1. job' = [job EXCEPT ![j] = z]
      BY <1>1, <1>3
    <3>2. job[j] \in JobType
      BY <1>1, <2>2
    <3>3. z \in JobType /\ z.pc = "save" /\ z.result = job[j].result /\ z.clean = job[j].clean
      BY <3>2 DEF JobType
    <3>4. Finds(job[j], j[2]) /\ job[j].pc = "check"
      BY <2>2 DEF IInv, CheckExists, Doing
    <3>5. Finds(z, j[2])
      <4> HIDE DEF z, j
      <4> QED BY <3>3, <3>4 DEF Finds
    <3> HIDE DEF z, j
    <3> QED BY <1>1, <2>1, <3>1, <3>3, <3>5, OneJob
  <2>3. CASE j \notin Jobs
    <3>1. job' = job
      BY <1>1, <1>3, <2>3
    <3> QED BY <1>1, <2>1, <3>1, CallsOnly
  <2> QED BY <2>2, <2>3
<1> QED BY <1>2, <1>3 DEF CheckExists

LEMMA ReadsAll ==
  ASSUME IInv, NEW c \in Calls, ReadAll(c) PROVE IInv'
<1> DEFINE x == [NoJob EXCEPT !.pc = "wait"]
<1>1. Typed /\ job \in [Jobs -> JobType] /\ free' \in [Calls -> Int] /\ UNCHANGED <<cases, score>>
  BY DEF IInv, Typed, Jobs, ReadAll
<1>2. CASE Goto(c, "failed") /\ UNCHANGED job
  BY <1>1, <1>2, Goes DEF ReadAll
<1>3. CASE Goto(c, IF entered = {} THEN "done" ELSE "gather")
           /\ job' = [j \in DOMAIN job |-> IF j[1] = c /\ j[2] \in entered THEN x ELSE job[j]]
  <2>1. /\ call' \in [Calls -> CallType]
        /\ \A d \in Calls : call'[d].who \in Asked(call'[d].kind)
    <3> DEFINE pc == IF entered = {} THEN "done" ELSE "gather"
    <3>1. pc \in {"done", "gather"}
      OBVIOUS
    <3> HIDE DEF pc
    <3> QED BY <1>1, <1>3, <3>1, Moves
  <2>2. x \in JobType /\ \A j \in Jobs : Finds(x, j[2])
    BY Begun
  <2> HIDE DEF x
  <2>3. job' \in [Jobs -> JobType]
    BY <1>1, <1>3, <2>2
  <2>4. \A j \in Jobs : job'[j] = job[j] \/ Finds(job'[j], j[2])
    BY <1>1, <1>3, <2>2
  <2> QED BY <1>1, <2>1, <2>3, <2>4, JobsOnly
<1> QED BY <1>2, <1>3 DEF ReadAll

-----------------------------------------------------------------------------
(* What other programs do.                                                 *)

LEMMA Grows ==
  ASSUME IInv, entered \subseteq entered', arrested \subseteq arrested', UNCHANGED <<caseOf, score, job>>,
         Typed'
  PROVE  IInv'
<1>1. \A a : Named(a) \subseteq Named(a)'
  BY DEF Named
<1>2. ASSUME NEW r, NEW a, Backed(r, a) PROVE Backed(r, a)'
  <2>1. Arrested(r, a) => Arrested(r, a)'
    BY <1>1 DEF Arrested
  <2> QED BY <1>1, <1>2, <2>1 DEF Backed
<1>3. \A a \in Accused : Stored(a)'
  BY <1>2 DEF IInv, Stored
<1>4. \A j \in Jobs : Finds(job[j], j[2])'
  BY <1>2 DEF IInv, Finds
<1> QED BY <1>3, <1>4 DEF IInv

LEMMA Enters ==
  ASSUME IInv, NEW a \in Accused, Enter(a) PROVE IInv'
<1>1. Typed'
  BY DEF IInv, Typed, Enter
<1> QED BY <1>1, Grows DEF Enter

LEMMA Arrests ==
  ASSUME IInv, NEW a \in Accused, Arrest(a) PROVE IInv'
<1>1. Typed'
  BY DEF IInv, Typed, Arrest
<1> QED BY <1>1, Grows DEF Arrest

-----------------------------------------------------------------------------
(* The networks and the ticker only move calls.                            *)

LEMMA Draws ==
  ASSUME IInv, NEW c \in Calls,
         \/ ReadCase(c) \/ ReadAccused(c) \/ ReadSimilar(c) \/ ReadPerson(c)
         \/ ReadAppearances(c) \/ ReadLinks(c) \/ LinksDone(c) \/ DrawFails(c)
  PROVE  IInv'
<1>1. ASSUME NEW pc \in {"accused", "similar", "appearances", "links", "done", "failed"},
             \E n : Draw(c, n, pc)
      PROVE  IInv'
  BY <1>1, Goes DEF Draw
<1>2. \E pc \in {"accused", "similar", "appearances", "links", "done", "failed"} : \E n : Draw(c, n, pc)
  BY DEF ReadCase, ReadAccused, ReadSimilar, ReadPerson, ReadAppearances, ReadLinks, LinksDone,
         DrawFails
<1> QED BY <1>1, <1>2

LEMMA Tells ==
  ASSUME IInv, NEW c \in Calls,
         \/ ReadStations(c) \/ TellStation(c) \/ ReadCommands(c) \/ TellCommand(c) \/ TellState(c)
  PROVE  IInv'
<1>1. ASSUME NEW pc \in {"stations", "commands", "done"}, \E S : ToTell(c, S, pc)
      PROVE  IInv'
  BY <1>1, Goes DEF ToTell
<1>2. \E pc \in {"stations", "commands", "done"} : \E S : ToTell(c, S, pc)
  BY DEF ReadStations, TellStation, ReadCommands, TellCommand, TellState
<1> QED BY <1>1, <1>2

-----------------------------------------------------------------------------
(* The invariant, and what follows from it.                                *)

LEMMA InitIInv == Init => IInv
<1> SUFFICES ASSUME Init PROVE IInv
  OBVIOUS
<1>1. NoJob \in JobType /\ NoJob.pc = "off"
  BY EmptyScore DEF NoJob, JobType
<1>2. Typed
  BY <1>1, InsightsAssumption DEF Init, Typed, CallType
<1>3. \A a \in Accused : Stored(a)
  BY DEF Init, Stored
<1>4. \A j \in Jobs : Finds(job[j], j[2])
  BY <1>1, Idle DEF Init, Jobs
<1> QED BY <1>2, <1>3, <1>4 DEF IInv

LEMMA ComputeIInv ==
  ASSUME IInv, NEW j \in Jobs, Compute(j) PROVE IInv'
<1>1. CASE ReadName(j)      BY <1>1, ReadsName
<1>2. CASE ReadCases(j)     BY <1>2, ReadsCases
<1>3. CASE ReadArrests(j)   BY <1>3, ReadsArrests
<1>4. CASE ComputeFails(j)  BY <1>4, Fails
<1>5. CASE Save(j)          BY <1>5, Saves
<1>6. CASE SaveFails(j)     BY <1>6, SavesNot
<1>7. CASE Acquire(j)       BY <1>7, Acquires
<1> QED BY <1>1, <1>2, <1>3, <1>4, <1>5, <1>6, <1>7 DEF Compute

LEMMA AnswerIInv ==
  ASSUME IInv, NEW c \in Calls, Answer(c) PROVE IInv'
<1>1. CASE AskScore(c)      BY <1>1, Goes DEF AskScore
<1>2. CASE ReadCached(c)    BY <1>2, Goes DEF ReadCached
<1>3. CASE CheckExists(c)   BY <1>3, Checks
<1>4. CASE ReadAll(c)       BY <1>4, ReadsAll
<1>5. CASE Gathered(c)      BY <1>5, Goes DEF Gathered
<1>6. CASE \/ ReadCase(c) \/ ReadAccused(c) \/ ReadSimilar(c) \/ ReadPerson(c)
           \/ ReadAppearances(c) \/ ReadLinks(c) \/ LinksDone(c) \/ DrawFails(c)
  BY <1>6, Draws
<1>7. CASE \/ ReadStations(c) \/ TellStation(c) \/ ReadCommands(c) \/ TellCommand(c) \/ TellState(c)
  BY <1>7, Tells
<1> QED BY <1>1, <1>2, <1>3, <1>4, <1>5, <1>6, <1>7 DEF Answer

LEMMA NextIInv == IInv /\ [Next]_vars => IInv'
<1> SUFFICES ASSUME IInv, [Next]_vars PROVE IInv'
  OBVIOUS
<1>1. ASSUME NEW a \in Accused, Enter(a) \/ Arrest(a) PROVE IInv'
  BY <1>1, Enters, Arrests
<1>2. ASSUME NEW j \in Jobs, Compute(j) PROVE IInv'
  BY <1>2, ComputeIInv
<1>3. ASSUME NEW c \in Calls, Answer(c) PROVE IInv'
  BY <1>3, AnswerIInv
<1>4. CASE Load \/ UNCHANGED vars
  <2>1. UNCHANGED <<cases, score, job, call, free>>
    BY <1>4 DEF Load, vars
  <2> QED BY <2>1, CallsOnly DEF IInv, Typed
<1> QED BY <1>1, <1>2, <1>3, <1>4 DEF Next, Jobs

\* The inductive invariant, of the whole specification.
THEOREM Inductive == Spec => []IInv
  BY InitIInv, NextIInv, PTL DEF Spec

\* Only what stores a score touches one.
Ending(j) == \E pc \in {"done", "failed"} : Doing(j, "save") /\ Stores(j, pc)

LEMMA OnlySaves ==
  ASSUME Typed, [Next]_vars, NEW a \in Accused, score'[a] # score[a]
  PROVE  \E c \in Calls : Ending(<<c, a>>)
<1>1. \E j \in Jobs : Ending(j)
  BY DEF Next, Enter, Arrest, Compute, Answer, ReadName, ReadCases, ReadArrests, ComputeFails,
         Ending, Save, SaveFails, Acquire, AskScore, ReadCached, CheckExists, ReadAll, Gathered,
         ReadCase, ReadAccused, ReadSimilar, ReadPerson, ReadAppearances, ReadLinks, LinksDone, DrawFails,
         Draw, ReadStations, TellStation, ReadCommands, TellCommand, TellState, ToTell, Load,
         vars, Jobs
<1>2. PICK j \in Jobs : Ending(j)
  BY <1>1
<1>3. j[2] = a
  BY <1>2 DEF Ending, Stores, Typed
<1>4. j = <<j[1], a>> /\ j[1] \in Calls
  BY <1>3 DEF Jobs
<1> QED BY <1>2, <1>4

LEMMA StepKeeps ==
  ASSUME IInv, [Next]_vars, NEW a \in Accused,
         score[a] \notin {None, score'[a]}, ~Covers(score'[a], score[a])
  PROVE  \E c \in Calls : Doing(<<c, a>>, "save") /\ job'[<<c, a>>].pc \in {"done", "failed"}
                       /\ ~job[<<c, a>>].clean
<1>1. PICK c \in Calls : Ending(<<c, a>>)
  BY OnlySaves DEF IInv
<1> DEFINE j == <<c, a>>
<1>2. j \in Jobs /\ j[2] = a
  BY DEF Jobs
<1>3. Typed /\ job \in [Jobs -> JobType] /\ Finds(job[j], a)
  BY <1>2 DEF IInv, Typed, Jobs
<1>4. Doing(j, "save") /\ score'[a] = job[j].result
  BY <1>1, <1>2, <1>3 DEF Ending, Stores, Typed
<1>5. ~job[j].clean
  <2> HIDE DEF j
  <2> QED BY <1>3, <1>4 DEF Finds, Doing
<1>6. job'[j].pc \in {"done", "failed"}
  <2>0. PICK pc \in {"done", "failed"} : Stores(j, pc)
    BY <1>1 DEF Ending
  <2> DEFINE x == [NoJob EXCEPT !.pc = pc]
  <2>1. x.pc = pc
    BY Begun
  <2>2. job' = [Overlapped(j) EXCEPT ![j] = x]
    BY <2>0 DEF Stores, JobEnds
  <2>3. Overlapped(j) \in [Jobs -> JobType]
    BY <1>2, <1>3, Overlaps
  <2> HIDE DEF x, j
  <2> QED BY <1>2, <2>1, <2>2, <2>3
<1> QED BY <1>4, <1>5, <1>6

\* A stored score is replaced by one that knows less only where a read failed
\* or two computations for the same accused overlapped: without the latter the
\* three reads and the write of compute_risk_for_accused and save_risk_score
\* are as good as one statement.
THEOREM ScoreKept == Spec => ScoreLostOnlyOnOverlap
<1>1. IInv /\ [Next]_vars =>
        [\A a \in Accused :
           score[a] \notin {None, score'[a]} /\ ~Covers(score'[a], score[a]) =>
             \E c \in Calls : LET j == <<c, a>> IN
               Doing(j, "save") /\ job'[j].pc \in {"done", "failed"} /\ ~job[j].clean]_vars
  BY StepKeeps
<1> QED BY <1>1, Inductive, PTL DEF Spec, ScoreLostOnlyOnOverlap

-----------------------------------------------------------------------------
(* The networks.                                                           *)

\* What a record of a network is, and one of which nothing is drawn yet.
IsNet(n) == n = [nodes |-> n.nodes, edges |-> n.edges, todo |-> n.todo, steady |-> n.steady]
Undrawn(n) == n.nodes = EmptyBag /\ n.edges = EmptyBag

\* Each node once, the one in the middle and those at the ends of edges.
Whole(n, v) ==
    /\ \A x \in BagToSet(n.nodes) : n.nodes[x] = 1
    /\ BagToSet(n.nodes) = {v} \union Ends(n)

\* The edges to the accused of a case, and those of some appearances of a person.
AccusedEdges(k) == {<<k, a, "accused_in">> : a \in In(k)}
LinkEdges(a, B) ==
    {<<a, caseOf[b], Role(a, b)>> : b \in B}
    \union {<<caseOf[p[1]], p[2], "co_accused">> :
              p \in {q \in B \X entered : q[2] \in Linked(caseOf[q[1]]) \ {a}}}

\* What is drawn at each place of the two builders.
CaseDrawn(n, k, pc) ==
    /\ pc = "idle" => Undrawn(n)
    /\ pc = "accused" => n.nodes = SetToBag({k}) /\ n.edges = EmptyBag /\ k \in Cases
    /\ pc = "similar" => Whole(n, k) /\ (n.steady => BagToSet(n.edges) = AccusedEdges(k))
    /\ pc = "done" => Undrawn(n) \/ (Whole(n, k) /\ (n.steady => CaseEdges(k, BagToSet(n.edges))))

PersonDrawn(n, a, pc) ==
    /\ pc = "idle" => Undrawn(n)
    /\ pc = "appearances" => n.nodes = SetToBag({a}) /\ n.edges = EmptyBag
    /\ pc = "links" =>
         /\ Whole(n, a)
         /\ n.steady => /\ n.todo \subseteq Named(a)
                        /\ BagToSet(n.edges) = LinkEdges(a, Named(a) \ n.todo)
    /\ pc = "done" => Undrawn(n) \/ (Whole(n, a) /\ (n.steady => PersonEdges(a, BagToSet(n.edges))))

Drawn(c) ==
    LET n == net[c] IN
    /\ IsNet(n)
    /\ call[c].kind \notin {"case", "person"} => n.nodes = EmptyBag
    /\ call[c].kind = "case" => CaseDrawn(n, call[c].who, call[c].pc)
    /\ call[c].kind = "person" => PersonDrawn(n, call[c].who, call[c].pc)

NetInv == DOMAIN net = Calls /\ \A c \in Calls : Drawn(c)

-----------------------------------------------------------------------------
(* Bags.                                                                   *)

LEMMA OneEach == ASSUME NEW S PROVE BagToSet(SetToBag(S)) = S /\ \A x \in S : SetToBag(S)[x] = 1
  BY DEF BagToSet, SetToBag

LEMMA NoneIn == BagToSet(EmptyBag) = {}
  BY DEF BagToSet, EmptyBag, SetToBag

LEMMA Together == ASSUME NEW B, NEW D PROVE BagToSet(B (+) D) = BagToSet(B) \union BagToSet(D)
  BY DEF BagToSet, (+)

\* Nodes that are appended are there once, and so are those there before.
LEMMA Appended ==
  ASSUME NEW B, NEW S, \A x \in BagToSet(B) : B[x] = 1, S \intersect BagToSet(B) = {}
  PROVE  /\ BagToSet(B (+) SetToBag(S)) = BagToSet(B) \union S
         /\ \A x \in BagToSet(B (+) SetToBag(S)) : (B (+) SetToBag(S))[x] = 1
<1>1. BagToSet(B (+) SetToBag(S)) = BagToSet(B) \union S
  BY Together, OneEach
<1>2. ASSUME NEW x \in BagToSet(B) \union S PROVE (B (+) SetToBag(S))[x] = 1
  <2>1. x \in DOMAIN B \union DOMAIN SetToBag(S)
    BY <1>2 DEF BagToSet, SetToBag
  <2>2. (B (+) SetToBag(S))[x] = (IF x \in DOMAIN B THEN B[x] ELSE 0)
                                 + (IF x \in DOMAIN SetToBag(S) THEN SetToBag(S)[x] ELSE 0)
    BY <2>1 DEF (+)
  <2>3. CASE x \in BagToSet(B)
    <3>1. x \in DOMAIN B /\ B[x] = 1 /\ x \notin DOMAIN SetToBag(S)
      BY <2>3 DEF BagToSet, SetToBag
    <3> QED BY <2>2, <3>1
  <2>4. CASE x \in S
    <3>1. x \notin DOMAIN B /\ x \in DOMAIN SetToBag(S) /\ SetToBag(S)[x] = 1
      BY <2>4 DEF BagToSet, SetToBag
    <3> QED BY <2>2, <3>1
  <2> QED BY <1>2, <2>3, <2>4
<1> QED BY <1>1, <1>2

LEMMA WithNodesOnce ==
  ASSUME NEW B, NEW S, \A x \in BagToSet(B) : B[x] = 1
  PROVE  /\ BagToSet(WithNodes(B, S)) = BagToSet(B) \union S
         /\ \A x \in BagToSet(WithNodes(B, S)) : WithNodes(B, S)[x] = 1
<1> DEFINE T == S \ BagToSet(B)
<1>1. T \intersect BagToSet(B) = {} /\ BagToSet(B) \union T = BagToSet(B) \union S
  OBVIOUS
<1>2. WithNodes(B, S) = B (+) SetToBag(T)
  BY DEF WithNodes
<1> HIDE DEF T
<1> QED BY <1>1, <1>2, Appended

\* Fields of a network.
LEMMA Redrawn ==
  ASSUME NEW n, IsNet(n), NEW N, NEW E, NEW T
  PROVE  /\ [n EXCEPT !.nodes = N, !.edges = E]
              = [nodes |-> N, edges |-> E, todo |-> n.todo, steady |-> n.steady]
         /\ [n EXCEPT !.nodes = N, !.edges = E, !.todo = T]
              = [nodes |-> N, edges |-> E, todo |-> T, steady |-> n.steady]
<1> DEFINE m == [nodes |-> N, edges |-> n.edges, todo |-> n.todo, steady |-> n.steady]
           p == [nodes |-> N, edges |-> E, todo |-> n.todo, steady |-> n.steady]
<1>1. [n EXCEPT !.nodes = N] = m
  BY DEF IsNet
<1>2. [m EXCEPT !.edges = E] = p
  OBVIOUS
<1>3. [p EXCEPT !.todo = T] = [nodes |-> N, edges |-> E, todo |-> T, steady |-> n.steady]
  OBVIOUS
<1>4. [n EXCEPT !.nodes = N, !.edges = E] = [[n EXCEPT !.nodes = N] EXCEPT !.edges = E]
  OBVIOUS
<1>5. [n EXCEPT !.nodes = N, !.edges = E, !.todo = T]
        = [[n EXCEPT !.nodes = N, !.edges = E] EXCEPT !.todo = T]
  OBVIOUS
<1>6. [n EXCEPT !.nodes = N, !.edges = E] = p
  <2> HIDE DEF m, p
  <2> QED BY <1>1, <1>2, <1>4
<1>7. [n EXCEPT !.nodes = N, !.edges = E, !.todo = T] = [p EXCEPT !.todo = T]
  <2> HIDE DEF p
  <2> QED BY <1>5, <1>6
<1> QED BY <1>3, <1>6, <1>7

LEMMA NetOf ==
  ASSUME NEW N, NEW E, NEW T, NEW b, NEW n, n = [nodes |-> N, edges |-> E, todo |-> T, steady |-> b]
  PROVE  IsNet(n) /\ n.nodes = N /\ n.edges = E /\ n.todo = T /\ n.steady = b
  BY DEF IsNet

\* The ends of edges that all begin at one node.
LEMMA InEnds ==
  ASSUME NEW n, NEW x PROVE x \in Ends(n) <=> \E e \in BagToSet(n.edges) : x = e[1] \/ x = e[2]
  BY DEF Ends

Star(k, S, F) ==
    /\ \A e \in F : e[1] = k /\ e[2] \in S
    /\ \A s \in S : \E e \in F : e[2] = s

LEMMA Stars == ASSUME NEW k, NEW S, NEW l PROVE Star(k, S, {<<k, s, l>> : s \in S})
<1> DEFINE F == {<<k, s, l>> : s \in S}
<1>1. ASSUME NEW s \in S PROVE \E e \in F : e[2] = s
  <2>1. <<k, s, l>> \in F /\ <<k, s, l>>[2] = s
    OBVIOUS
  <2> QED BY <2>1
<1>2. ASSUME NEW e \in F PROVE e[1] = k /\ e[2] \in S
  <2>1. PICK s \in S : e = <<k, s, l>>
    OBVIOUS
  <2> QED BY <2>1
<1> QED BY <1>1, <1>2 DEF Star

LEMMA StarGrows ==
  ASSUME NEW n, NEW m, NEW F, NEW k, NEW S,
         BagToSet(m.edges) = BagToSet(n.edges) \union F, Star(k, S, F)
  PROVE  {k} \union Ends(m) = {k} \union Ends(n) \union S
<1>1. ASSUME NEW x, x \in S PROVE x \in Ends(m)
  BY <1>1, InEnds DEF Star
<1>2. ASSUME NEW x, x \in Ends(m) PROVE x = k \/ x \in S \/ x \in Ends(n)
  <2>1. PICK e \in BagToSet(m.edges) : x = e[1] \/ x = e[2]
    BY <1>2, InEnds
  <2>2. CASE e \in F
    BY <2>1, <2>2 DEF Star
  <2>3. CASE e \in BagToSet(n.edges)
    BY <2>1, <2>3, InEnds
  <2> QED BY <2>2, <2>3
<1>3. ASSUME NEW x, x \in Ends(n) PROVE x \in Ends(m)
  <2>1. PICK e \in BagToSet(n.edges) : x = e[1] \/ x = e[2]
    BY <1>3, InEnds
  <2> QED BY <2>1, InEnds
<1> QED BY <1>1, <1>2, <1>3

\* The tables as they are.
LEMMA SameTables ==
  ASSUME caseOf' = caseOf, entered' = entered
  PROVE  /\ \A k : In(k)' = In(k)
         /\ \A a : Named(a)' = Named(a)
         /\ \A k : Linked(k)' = Linked(k)
         /\ \A a, b : Role(a, b)' = Role(a, b)
<1>1. \A k : In(k)' = In(k)
  BY DEF In
<1>2. \A a : Named(a)' = Named(a)
  BY DEF Named
<1>3. \A k : Linked(k)' = Linked(k)
  BY <1>1 DEF Linked
<1>4. \A a, b : Role(a, b)' = Role(a, b)
  BY DEF Role
<1> QED BY <1>1, <1>2, <1>3, <1>4

LEMMA SameEdges ==
  ASSUME caseOf' = caseOf, entered' = entered
  PROVE  /\ \A k : AccusedEdges(k)' = AccusedEdges(k)
         /\ \A k, D : CaseEdges(k, D) => CaseEdges(k, D)'
         /\ \A a, D : PersonEdges(a, D) => PersonEdges(a, D)'
         /\ \A a, B : LinkEdges(a, B)' = LinkEdges(a, B)
<1>1. \A k : AccusedEdges(k)' = AccusedEdges(k)
  BY SameTables DEF AccusedEdges
<1>2. \A k, D : CaseEdges(k, D) => CaseEdges(k, D)'
  BY SameTables DEF CaseEdges
<1>3. \A a, D : PersonEdges(a, D) => PersonEdges(a, D)'
  BY SameTables DEF PersonEdges
<1>4. \A a, B : LinkEdges(a, B)' = LinkEdges(a, B)
  BY SameTables DEF LinkEdges
<1> QED BY <1>1, <1>2, <1>3, <1>4

\* What is drawn stays so, while the tables do.
LEMMA PersonStays ==
  ASSUME caseOf' = caseOf, entered' = entered, NEW n, NEW a, NEW pc, PersonDrawn(n, a, pc)
  PROVE  PersonDrawn(n, a, pc)'
  BY SameTables, SameEdges DEF PersonDrawn, Whole, Undrawn, Ends

LEMMA CaseStays ==
  ASSUME caseOf' = caseOf, entered' = entered, NEW n, NEW k, NEW pc, CaseDrawn(n, k, pc)
  PROVE  CaseDrawn(n, k, pc)'
  BY SameTables, SameEdges DEF CaseDrawn, Whole, Undrawn, Ends


LEMMA DrawnStays ==
  ASSUME caseOf' = caseOf, entered' = entered, NEW c, Drawn(c),
         net'[c] = net[c], call'[c].kind = call[c].kind, call'[c].who = call[c].who,
         \/ call'[c].pc = call[c].pc
         \/ call[c].kind \notin {"case", "person"}
         \/ call'[c].pc = "failed"
  PROVE  Drawn(c)'
<1>1. CASE call'[c].pc = call[c].pc
  <2>1. call[c].kind = "case" => CaseDrawn(net[c], call[c].who, call[c].pc)'
    BY <1>1, CaseStays DEF Drawn
  <2>2. call[c].kind = "person" => PersonDrawn(net[c], call[c].who, call[c].pc)'
    BY <1>1, PersonStays DEF Drawn
  <2> QED BY <1>1, <2>1, <2>2 DEF Drawn, IsNet
<1>2. CASE call[c].kind \notin {"case", "person"}
  BY <1>2 DEF Drawn, IsNet
<1>3. CASE call'[c].pc = "failed"
  BY <1>3 DEF Drawn, IsNet, CaseDrawn, PersonDrawn
<1> QED BY <1>1, <1>2, <1>3

\* Whatever else a call does, no network changes.
LEMMA NetStays ==
  ASSUME NetInv, UNCHANGED <<caseOf, entered, net>>,
         \A d \in Calls :
           /\ call'[d].kind = call[d].kind /\ call'[d].who = call[d].who
           /\ \/ call'[d].pc = call[d].pc
              \/ call[d].kind \notin {"case", "person"}
              \/ call'[d].pc = "failed"
  PROVE  NetInv'
<1>1. ASSUME NEW d \in Calls PROVE Drawn(d)'
  BY DrawnStays DEF NetInv
<1> QED BY <1>1 DEF NetInv

\* A call goes on with another network.
LEMMA NetDrawn ==
  ASSUME Typed, NetInv, UNCHANGED <<caseOf, entered>>, NEW c \in Calls, NEW n, NEW pc,
         net' = [net EXCEPT ![c] = n], Goto(c, pc), IsNet(n),
         call[c].kind \notin {"case", "person"} => n.nodes = EmptyBag,
         call[c].kind = "case" => CaseDrawn(n, call[c].who, pc),
         call[c].kind = "person" => PersonDrawn(n, call[c].who, pc)
  PROVE  NetInv'
<1>1. DOMAIN net' = Calls /\ net'[c] = n /\ \A d \in Calls : d # c => net'[d] = net[d]
  BY DEF NetInv
<1>2. call \in [Calls -> CallType] /\ call' = [call EXCEPT ![c].pc = pc]
  BY DEF Typed, Goto
<1>3. /\ \A d \in Calls : call'[d].kind = call[d].kind /\ call'[d].who = call[d].who
      /\ \A d \in Calls : d # c => call'[d].pc = call[d].pc
      /\ call'[c].pc = pc
  BY <1>2 DEF CallType
<1>4. ASSUME NEW d \in Calls, d # c PROVE Drawn(d)'
  BY <1>1, <1>3, <1>4, DrawnStays DEF NetInv
<1>5. Drawn(c)'
  <2>1. call[c].kind = "case" => CaseDrawn(n, call[c].who, pc)'
    BY <1>3, CaseStays
  <2>2. call[c].kind = "person" => PersonDrawn(n, call[c].who, pc)'
    BY <1>3, PersonStays
  <2> QED BY <1>1, <1>3, <2>1, <2>2 DEF Drawn, IsNet
<1> QED BY <1>1, <1>4, <1>5 DEF NetInv

\* The one in the middle, alone.
LEMMA Alone ==
  ASSUME NEW v, NEW n, n.nodes = SetToBag({v}), n.edges = EmptyBag PROVE Whole(n, v)
<1>1. BagToSet(n.nodes) = {v} /\ \A x \in BagToSet(n.nodes) : n.nodes[x] = 1
  BY OneEach
<1>2. Ends(n) = {}
  BY NoneIn DEF Ends
<1> QED BY <1>1, <1>2 DEF Whole

-----------------------------------------------------------------------------
(* The network around a case.                                              *)

LEMMA DrawsCase ==
  ASSUME Typed, NetInv, NEW c \in Calls, ReadCase(c) PROVE NetInv'
<1> DEFINE m == [net[c] EXCEPT !.nodes = SetToBag({call[c].who})]
<1>1. Drawn(c) /\ IsNet(net[c]) /\ Undrawn(net[c]) /\ call[c].kind = "case"
  BY DEF NetInv, Drawn, CaseDrawn, ReadCase, At
<1>2. CASE call[c].who \in Cases
  <2>1. Draw(c, m, "accused")
    BY <1>2 DEF ReadCase
  <2>2. m.nodes = SetToBag({call[c].who}) /\ m.edges = EmptyBag /\ IsNet(m)
    BY <1>1 DEF IsNet, Undrawn
  <2> HIDE DEF m
  <2>3. CaseDrawn(m, call[c].who, "accused")
    BY <1>2, <2>2 DEF CaseDrawn
  <2> QED BY <1>1, <2>1, <2>2, <2>3, NetDrawn DEF Draw, cases
<1>3. CASE call[c].who \notin Cases
  <2>1. Draw(c, net[c], "done")
    BY <1>3 DEF ReadCase
  <2>2. CaseDrawn(net[c], call[c].who, "done")
    BY <1>1 DEF CaseDrawn
  <2> QED BY <1>1, <2>1, <2>2, NetDrawn DEF Draw, cases
<1> QED BY <1>2, <1>3

LEMMA DrawsAccused ==
  ASSUME Typed, NetInv, NEW c \in Calls, ReadAccused(c) PROVE NetInv'
<1> DEFINE k == call[c].who
           E == AccusedEdges(k)
           m == [net[c] EXCEPT !.nodes = net[c].nodes (+) SetToBag(In(k)), !.edges = SetToBag(E)]
<1>1. /\ IsNet(net[c]) /\ call[c].kind = "case" /\ k \in Cases
      /\ net[c].nodes = SetToBag({k}) /\ net[c].edges = EmptyBag
  BY DEF NetInv, Drawn, CaseDrawn, ReadAccused, At
<1>2. m.nodes = SetToBag({k}) (+) SetToBag(In(k)) /\ m.edges = SetToBag(E) /\ IsNet(m)
  <2> DEFINE N == net[c].nodes (+) SetToBag(In(k))
             F == SetToBag(E)
  <2>1. m = [net[c] EXCEPT !.nodes = N, !.edges = F]
    OBVIOUS
  <2> HIDE DEF m, N, F, k, E
  <2>2. m = [nodes |-> N, edges |-> F, todo |-> net[c].todo, steady |-> net[c].steady]
    BY <1>1, <2>1, Redrawn
  <2>3. IsNet(m) /\ m.nodes = N /\ m.edges = F
    BY <2>2, NetOf
  <2> QED BY <1>1, <2>3 DEF N, F
<1>3. Draw(c, m, "similar")
  BY <1>1 DEF ReadAccused, AccusedEdges, IsNet
<1>4. In(k) \subseteq Accused /\ In(k) \intersect {k} = {}
  BY <1>1, InsightsAssumption DEF Typed, In
<1>5. /\ BagToSet(m.nodes) = {k} \union In(k)
      /\ \A x \in BagToSet(m.nodes) : m.nodes[x] = 1
  <2> DEFINE B == SetToBag({k})
             S == In(k)
  <2>1. BagToSet(B) = {k} /\ \A x \in BagToSet(B) : B[x] = 1
    BY OneEach
  <2>2. m.nodes = B (+) SetToBag(S) /\ S \intersect BagToSet(B) = {}
    BY <1>2, <1>4, <2>1
  <2> HIDE DEF m, B, S, k
  <2>3. BagToSet(m.nodes) = BagToSet(B) \union S /\ \A x \in BagToSet(m.nodes) : m.nodes[x] = 1
    BY <2>1, <2>2, Appended
  <2> QED BY <2>1, <2>3 DEF S
<1>6. BagToSet(m.edges) = E
  BY <1>2, OneEach
<1> HIDE DEF m
<1>7. {k} \union Ends(m) = {k} \union In(k)
  <2>1. Star(k, In(k), E)
    BY Stars DEF AccusedEdges
  <2>2. BagToSet(m.edges) = BagToSet(net[c].edges) \union E /\ Ends(net[c]) = {}
    BY <1>1, <1>6, NoneIn DEF Ends
  <2> HIDE DEF k, E
  <2> QED BY <2>1, <2>2, StarGrows
<1>8. CaseDrawn(m, k, "similar")
  BY <1>5, <1>6, <1>7 DEF CaseDrawn, Whole
<1> QED BY <1>1, <1>2, <1>3, <1>8, NetDrawn DEF Draw, cases

LEMMA DrawsSimilar ==
  ASSUME Typed, NetInv, NEW c \in Calls, ReadSimilar(c) PROVE NetInv'
<1> DEFINE k == call[c].who
<1>1. IsNet(net[c]) /\ call[c].kind = "case" /\ Whole(net[c], k)
      /\ (net[c].steady => BagToSet(net[c].edges) = AccusedEdges(k))
  BY DEF NetInv, Drawn, CaseDrawn, ReadSimilar, At
<1>2. PICK S \in Patterns(k) :
        Draw(c, [net[c] EXCEPT !.nodes = WithNodes(@, S),
                               !.edges = @ (+) SetToBag({<<k, s, "similar_pattern">> : s \in S})],
             "done")
  BY DEF ReadSimilar
<1>3. S \subseteq SimilarTo(k)
  BY DEF Patterns
<1> DEFINE E == {<<k, s, "similar_pattern">> : s \in S}
           m == [net[c] EXCEPT !.nodes = WithNodes(net[c].nodes, S),
                               !.edges = net[c].edges (+) SetToBag(E)]
<1>4. Draw(c, m, "done")
  BY <1>1, <1>2 DEF IsNet
<1>5. /\ m.nodes = WithNodes(net[c].nodes, S) /\ m.edges = net[c].edges (+) SetToBag(E)
      /\ m.steady = net[c].steady /\ IsNet(m)
  <2> DEFINE N == WithNodes(net[c].nodes, S)
             F == net[c].edges (+) SetToBag(E)
  <2>1. m = [net[c] EXCEPT !.nodes = N, !.edges = F]
    OBVIOUS
  <2> HIDE DEF m, N, F, k, E
  <2>2. m = [nodes |-> N, edges |-> F, todo |-> net[c].todo, steady |-> net[c].steady]
    BY <1>1, <2>1, Redrawn
  <2>3. IsNet(m) /\ m.nodes = N /\ m.edges = F /\ m.steady = net[c].steady
    BY <2>2, NetOf
  <2> QED BY <1>1, <2>3 DEF N, F
<1> HIDE DEF m
<1>6. /\ BagToSet(m.nodes) = BagToSet(net[c].nodes) \union S
      /\ \A x \in BagToSet(m.nodes) : m.nodes[x] = 1
  BY <1>1, <1>5, WithNodesOnce DEF Whole
<1>7. BagToSet(m.edges) = BagToSet(net[c].edges) \union E
  BY <1>5, Together, OneEach
<1>8. {k} \union Ends(m) = {k} \union Ends(net[c]) \union S
  <2>1. Star(k, S, E)
    BY Stars
  <2> HIDE DEF k, E
  <2> QED BY <1>7, <2>1, StarGrows
<1>9. Whole(m, k)
  BY <1>1, <1>6, <1>8 DEF Whole
<1>10. m.steady => CaseEdges(k, BagToSet(m.edges))
  BY <1>1, <1>3, <1>5, <1>7 DEF CaseEdges, AccusedEdges, SimilarTo
<1>11. CaseDrawn(m, k, "done")
  BY <1>9, <1>10 DEF CaseDrawn
<1> QED BY <1>1, <1>4, <1>5, <1>11, NetDrawn DEF Draw, cases

-----------------------------------------------------------------------------
(* The network around a person.                                            *)

LEMMA DrawsPerson ==
  ASSUME Typed, NetInv, NEW c \in Calls, ReadPerson(c) PROVE NetInv'
<1> DEFINE m == [net[c] EXCEPT !.nodes = SetToBag({call[c].who})]
<1>1. IsNet(net[c]) /\ Undrawn(net[c]) /\ call[c].kind = "person"
  BY DEF NetInv, Drawn, PersonDrawn, ReadPerson, At
<1>2. CASE call[c].who \in entered
  <2>1. Draw(c, m, "appearances")
    BY <1>2 DEF ReadPerson
  <2>2. m.nodes = SetToBag({call[c].who}) /\ m.edges = EmptyBag /\ IsNet(m)
    BY <1>1 DEF IsNet, Undrawn
  <2> HIDE DEF m
  <2>3. PersonDrawn(m, call[c].who, "appearances")
    BY <2>2 DEF PersonDrawn
  <2> QED BY <1>1, <2>1, <2>2, <2>3, NetDrawn DEF Draw, cases
<1>3. CASE call[c].who \notin entered
  <2>1. Draw(c, net[c], "done")
    BY <1>3 DEF ReadPerson
  <2>2. PersonDrawn(net[c], call[c].who, "done")
    BY <1>1 DEF PersonDrawn
  <2> QED BY <1>1, <2>1, <2>2, NetDrawn DEF Draw, cases
<1> QED BY <1>2, <1>3

LEMMA DrawsAppearances ==
  ASSUME Typed, NetInv, NEW c \in Calls, ReadAppearances(c) PROVE NetInv'
<1> DEFINE a == call[c].who
           m == [net[c] EXCEPT !.todo = Named(a)]
<1>1. IsNet(net[c]) /\ call[c].kind = "person" /\ net[c].nodes = SetToBag({a}) /\ net[c].edges = EmptyBag
  BY DEF NetInv, Drawn, PersonDrawn, ReadAppearances, At
<1>2. Draw(c, m, "links")
  BY DEF ReadAppearances
<1>3. m.nodes = SetToBag({a}) /\ m.edges = EmptyBag /\ m.todo = Named(a) /\ IsNet(m)
  BY <1>1 DEF IsNet
<1> HIDE DEF m
<1>4. Whole(m, a)
  BY <1>3, Alone
<1>5. LinkEdges(a, Named(a) \ m.todo) = {} /\ BagToSet(m.edges) = {}
  BY <1>3, NoneIn DEF LinkEdges
<1>6. PersonDrawn(m, a, "links")
  BY <1>3, <1>4, <1>5 DEF PersonDrawn
<1> QED BY <1>1, <1>2, <1>3, <1>6, NetDrawn DEF Draw, cases


LEMMA InLinks ==
  ASSUME NEW a, NEW B, NEW e
  PROVE  e \in LinkEdges(a, B) <=>
           \E b \in B : \/ e = <<a, caseOf[b], Role(a, b)>>
                        \/ \E o \in entered : o \in Linked(caseOf[b]) \ {a}
                                              /\ e = <<caseOf[b], o, "co_accused">>
<1> DEFINE P == {q \in B \X entered : q[2] \in Linked(caseOf[q[1]]) \ {a}}
           F == {<<caseOf[p[1]], p[2], "co_accused">> : p \in P}
<1>1. ASSUME NEW b \in B, NEW o \in entered, o \in Linked(caseOf[b]) \ {a},
             e = <<caseOf[b], o, "co_accused">>
      PROVE  e \in F
  <2>1. <<b, o>> \in P /\ <<b, o>>[1] = b /\ <<b, o>>[2] = o
    BY <1>1
  <2> QED BY <1>1, <2>1
<1>2. ASSUME e \in F
      PROVE  \E b \in B : \E o \in entered : o \in Linked(caseOf[b]) \ {a}
                                             /\ e = <<caseOf[b], o, "co_accused">>
  <2>1. PICK p \in P : e = <<caseOf[p[1]], p[2], "co_accused">>
    BY <1>2
  <2>2. p[1] \in B /\ p[2] \in entered /\ p[2] \in Linked(caseOf[p[1]]) \ {a}
    OBVIOUS
  <2> QED BY <2>1, <2>2
<1>3. LinkEdges(a, B) = {<<a, caseOf[b], Role(a, b)>> : b \in B} \union F
  BY DEF LinkEdges
<1> HIDE DEF P, F
<1>4. e \in {<<a, caseOf[b], Role(a, b)>> : b \in B} <=> \E b \in B : e = <<a, caseOf[b], Role(a, b)>>
  OBVIOUS
<1> QED BY <1>1, <1>2, <1>3, <1>4

\* One more appearance.
CoEdges(a, k) == {<<k, o, "co_accused">> : o \in Linked(k) \ {a}}

LEMMA OneMoreLink ==
  ASSUME NEW a, NEW B, NEW b
  PROVE  LinkEdges(a, B \union {b}) =
           (LinkEdges(a, B) \union {<<a, caseOf[b], Role(a, b)>>}) \union CoEdges(a, caseOf[b])
<1> DEFINE k == caseOf[b]
           others == Linked(k) \ {a}
           F == {<<k, o, "co_accused">> : o \in others}
<1>1. others \subseteq entered
  BY DEF Linked, In
<1>2. ASSUME NEW e
      PROVE  e \in F <=> \E o \in entered : o \in others /\ e = <<k, o, "co_accused">>
  BY <1>1
<1>3. ASSUME NEW e
      PROVE  e \in LinkEdges(a, B \union {b}) <=>
               e \in LinkEdges(a, B) \/ e = <<a, k, Role(a, b)>> \/ e \in F
  <2>1. /\ e \in LinkEdges(a, B \union {b}) <=>
             \E x \in B \union {b} :
               \/ e = <<a, caseOf[x], Role(a, x)>>
               \/ \E o \in entered : o \in Linked(caseOf[x]) \ {a} /\ e = <<caseOf[x], o, "co_accused">>
        /\ e \in LinkEdges(a, B) <=>
             \E x \in B :
               \/ e = <<a, caseOf[x], Role(a, x)>>
               \/ \E o \in entered : o \in Linked(caseOf[x]) \ {a} /\ e = <<caseOf[x], o, "co_accused">>
    BY InLinks
  <2>2. e \in F <=> \E o \in entered : o \in Linked(caseOf[b]) \ {a} /\ e = <<caseOf[b], o, "co_accused">>
    BY <1>2
  <2> HIDE DEF F
  <2> QED BY <2>1, <2>2
<1> HIDE DEF F, k, others
<1>4. LinkEdges(a, B \union {b}) = LinkEdges(a, B) \union {<<a, k, Role(a, b)>>} \union F
  BY <1>3
<1> QED BY <1>4 DEF F, k, others, CoEdges

\* More than one: another one besides each.
LEMMA Another ==
  ASSUME NEW S, IsFiniteSet(S), NEW o \in S
  PROVE  Cardinality(S) > 1 <=> \E x \in S : x # o
<1> DEFINE R == S \ {o}
<1>1. IsFiniteSet(R) /\ Cardinality(R) = Cardinality(S) - 1 /\ Cardinality(S) \in Nat
  BY FS_RemoveElement, FS_CardinalityType
<1>2. Cardinality(R) = 0 <=> R = {}
  BY <1>1, FS_EmptySet
<1>3. R # {} <=> \E x \in S : x # o
  OBVIOUS
<1> HIDE DEF R
<1>4. Cardinality(R) \in Nat
  BY <1>1, FS_CardinalityType
<1> QED BY <1>1, <1>2, <1>3, <1>4

LEMMA LinkedOnes ==
  ASSUME Typed, NEW k, NEW o
  PROVE  o \in Linked(k) <=>
           o \in entered /\ caseOf[o] = k /\ \E x \in entered \ {o} : caseOf[x] = caseOf[o]
<1>1. IsFiniteSet(In(k))
  BY FS_Subset, InsightsAssumption DEF Typed, In
<1>2. CASE o \in In(k)
  <2>1. Cardinality(In(k)) > 1 <=> \E x \in In(k) : x # o
    BY <1>1, <1>2, Another
  <2>2. o \in Linked(k) <=> Cardinality(In(k)) > 1
    BY <1>2 DEF Linked
  <2> HIDE DEF Linked
  <2> QED BY <1>2, <2>1, <2>2 DEF In
<1>3. CASE o \notin In(k)
  BY <1>3 DEF In, Linked
<1> QED BY <1>2, <1>3

\* The edges of all appearances are those of the property.
LEMMA AllLinks ==
  ASSUME Typed, NEW a PROVE PersonEdges(a, LinkEdges(a, Named(a)))
<1> DEFINE Q == {q \in Named(a) \X (entered \ {a}) :
                   caseOf[q[1]] = caseOf[q[2]] /\ \E x \in entered \ {q[2]} : caseOf[x] = caseOf[q[2]]}
           R == {q \in Named(a) \X entered : q[2] \in Linked(caseOf[q[1]]) \ {a}}
<1>1. Q = R
  <2>1. ASSUME NEW q PROVE q \in Q <=> q \in R
    <3>1. q[2] \in Linked(caseOf[q[1]]) <=>
            q[2] \in entered /\ caseOf[q[2]] = caseOf[q[1]]
            /\ \E x \in entered \ {q[2]} : caseOf[x] = caseOf[q[2]]
      BY LinkedOnes
    <3> QED BY <3>1
  <2> HIDE DEF Q, R
  <2> QED BY <2>1
<1>2. \A b : Role(a, b) = IF caseOf[b] = caseOf[a] THEN "accused_in" ELSE "repeat_offender"
  BY DEF Role
<1>3. {<<a, caseOf[b], Role(a, b)>> : b \in Named(a)}
        = {<<a, caseOf[b], IF caseOf[b] = caseOf[a] THEN "accused_in" ELSE "repeat_offender">> :
             b \in Named(a)}
  BY <1>2
<1>4. {<<caseOf[p[1]], p[2], "co_accused">> : p \in Q} = {<<caseOf[p[1]], p[2], "co_accused">> : p \in R}
  BY <1>1
<1> QED BY <1>3, <1>4 DEF PersonEdges, LinkEdges


\* The edges of one appearance.
LEMMA AllTogether ==
  ASSUME NEW D, NEW X, NEW G
  PROVE  BagToSet((D (+) X) (+) G) = (BagToSet(D) \union BagToSet(X)) \union BagToSet(G)
<1> DEFINE A == D (+) X
<1>1. BagToSet(A) = BagToSet(D) \union BagToSet(X)
  BY Together
<1> HIDE DEF A
<1>2. BagToSet(A (+) G) = BagToSet(A) \union BagToSet(G)
  BY Together
<1> QED BY <1>1, <1>2 DEF A

LEMMA LinksWhole ==
  ASSUME NEW n, NEW m, NEW a, NEW k, NEW r, NEW S, NEW F, Whole(n, a), Star(k, S, F),
         BagToSet(m.nodes) = (BagToSet(n.nodes) \union {k}) \union S,
         \A x \in BagToSet(m.nodes) : m.nodes[x] = 1,
         BagToSet(m.edges) = (BagToSet(n.edges) \union {<<a, k, r>>}) \union F
  PROVE  Whole(m, a)
<1> DEFINE H == {<<a, k, r>>}
           p == [n EXCEPT !.edges = SetToBag(BagToSet(n.edges) \union H)]
           q == [edges |-> SetToBag(BagToSet(n.edges) \union H)]
<1>1. Star(a, {k}, H)
  <2>1. <<a, k, r>>[1] = a /\ <<a, k, r>>[2] = k
    OBVIOUS
  <2> QED BY <2>1 DEF Star
<1>2. BagToSet(q.edges) = BagToSet(n.edges) \union H
  BY OneEach
<1> HIDE DEF H, q
<1>3. {a} \union Ends(q) = {a} \union Ends(n) \union {k}
  BY <1>1, <1>2, StarGrows
<1>4. {k} \union Ends(m) = {k} \union Ends(q) \union S
  <2>1. BagToSet(m.edges) = BagToSet(q.edges) \union F
    BY <1>2 DEF H
  <2> QED BY <2>1, StarGrows
<1>5. k \in Ends(m)
  <2>1. <<a, k, r>> \in BagToSet(m.edges) /\ <<a, k, r>>[2] = k
    OBVIOUS
  <2> QED BY <2>1, InEnds
<1>6. BagToSet(m.nodes) = {a} \union Ends(m)
  BY <1>3, <1>4, <1>5 DEF Whole
<1> QED BY <1>6 DEF Whole

LEMMA DrawsLinks ==
  ASSUME Typed, NetInv, NEW c \in Calls, ReadLinks(c) PROVE NetInv'
<1> DEFINE a == call[c].who
           n == net[c]
<1>1. IsNet(n) /\ call[c].kind = "person" /\ PersonDrawn(n, a, "links")
  BY DEF NetInv, Drawn, ReadLinks, At
<1>2. PICK b \in n.todo :
        LET k == caseOf[b]
            others == Linked(k) \ {a}
            drawn == [e \in {<<k, o, "co_accused">> : o \in others} |-> Cardinality(In(k)) - 1]
        IN Draw(c, [net[c] EXCEPT !.nodes = WithNodes(WithNodes(@, {k}), others),
                                  !.edges = @ (+) SetToBag({<<a, k, Role(a, b)>>}) (+) drawn,
                                  !.todo = @ \ {b}],
                "links")
  BY DEF ReadLinks
<1> DEFINE k == caseOf[b]
           others == Linked(k) \ {a}
           F == {<<k, o, "co_accused">> : o \in others}
           drawn == [e \in F |-> Cardinality(In(k)) - 1]
           N == WithNodes(WithNodes(n.nodes, {k}), others)
           E == (n.edges (+) SetToBag({<<a, k, Role(a, b)>>})) (+) drawn
           T == n.todo \ {b}
           m == [n EXCEPT !.nodes = N, !.edges = E, !.todo = T]
<1>3. Draw(c, m, "links")
  BY <1>2
<1>4. Star(k, others, F) /\ DOMAIN drawn = F
  BY Stars
<1>5. LinkEdges(a, (Named(a) \ n.todo) \union {b})
        = (LinkEdges(a, Named(a) \ n.todo) \union {<<a, k, Role(a, b)>>}) \union F
  <2> DEFINE B == Named(a) \ n.todo
  <2>1. F = CoEdges(a, k)
    BY DEF CoEdges
  <2> HIDE DEF B, F, n, a
  <2> QED BY <2>1, OneMoreLink DEF B
<1>5a. m = [n EXCEPT !.nodes = N, !.edges = E, !.todo = T]
  OBVIOUS
<1> HIDE DEF k, others, F, drawn, m, n, a
<1>6. m = [nodes |-> N, edges |-> E, todo |-> T, steady |-> n.steady]
  <2> HIDE DEF N, E, T
  <2> QED BY <1>1, <1>5a, Redrawn
<1>7. IsNet(m) /\ m.nodes = N /\ m.edges = E /\ m.todo = T /\ m.steady = n.steady
  <2> HIDE DEF N, E, T
  <2> QED BY <1>6, NetOf
<1>8. Whole(n, a)
  BY <1>1 DEF PersonDrawn
<1>9. /\ BagToSet(N) = (BagToSet(n.nodes) \union {k}) \union others
      /\ \A x \in BagToSet(N) : N[x] = 1
  <2> DEFINE M == WithNodes(n.nodes, {k})
  <2>1. BagToSet(M) = BagToSet(n.nodes) \union {k} /\ \A x \in BagToSet(M) : M[x] = 1
    BY <1>8, WithNodesOnce DEF Whole
  <2> HIDE DEF M
  <2>2. /\ BagToSet(WithNodes(M, others)) = BagToSet(M) \union others
        /\ \A x \in BagToSet(WithNodes(M, others)) : WithNodes(M, others)[x] = 1
    BY <2>1, WithNodesOnce
  <2> QED BY <2>1, <2>2 DEF M
<1>10. BagToSet(E) = (BagToSet(n.edges) \union {<<a, k, Role(a, b)>>}) \union F
  <2> DEFINE X == SetToBag({<<a, k, Role(a, b)>>})
  <2>1. BagToSet(X) = {<<a, k, Role(a, b)>>} /\ BagToSet(drawn) = F
    BY <1>4, OneEach DEF BagToSet
  <2>2. E = (n.edges (+) X) (+) drawn
    OBVIOUS
  <2> HIDE DEF X, E
  <2> QED BY <2>1, <2>2, AllTogether
<1> HIDE DEF N, E
<1>11. Whole(m, a)
  BY <1>4, <1>7, <1>8, <1>9, <1>10, LinksWhole
<1>12. ASSUME m.steady
       PROVE  m.todo \subseteq Named(a) /\ BagToSet(m.edges) = LinkEdges(a, Named(a) \ m.todo)
  <2>1. n.todo \subseteq Named(a) /\ BagToSet(n.edges) = LinkEdges(a, Named(a) \ n.todo)
    BY <1>1, <1>7, <1>12 DEF PersonDrawn
  <2>2. Named(a) \ m.todo = (Named(a) \ n.todo) \union {b}
    BY <1>7, <2>1
  <2> QED BY <1>5, <1>7, <1>10, <2>1, <2>2
<1>13. PersonDrawn(m, a, "links")
  BY <1>11, <1>12 DEF PersonDrawn
<1>14. net' = [net EXCEPT ![c] = m] /\ Goto(c, "links") /\ UNCHANGED <<caseOf, entered>>
  BY <1>3 DEF Draw, cases
<1> QED BY <1>1, <1>7, <1>13, <1>14, NetDrawn DEF a

LEMMA DrawsLast ==
  ASSUME Typed, NetInv, NEW c \in Calls, LinksDone(c) PROVE NetInv'
<1> DEFINE a == call[c].who
           n == net[c]
<1>1. IsNet(n) /\ call[c].kind = "person" /\ PersonDrawn(n, a, "links") /\ n.todo = {}
  BY DEF NetInv, Drawn, LinksDone, At
<1>2. Whole(n, a) /\ (n.steady => PersonEdges(a, BagToSet(n.edges)))
  <2>1. Named(a) \ n.todo = Named(a)
    BY <1>1
  <2> HIDE DEF n, a
  <2> QED BY <1>1, <2>1, AllLinks DEF PersonDrawn
<1>3. PersonDrawn(n, a, "done")
  BY <1>2 DEF PersonDrawn
<1>4. net' = [net EXCEPT ![c] = n] /\ Goto(c, "done") /\ UNCHANGED <<caseOf, entered>>
  BY DEF LinksDone, Draw, cases
<1> QED BY <1>1, <1>3, <1>4, NetDrawn

LEMMA DrawsNot ==
  ASSUME Typed, NetInv, NEW c \in Calls, DrawFails(c) PROVE NetInv'
<1>1. IsNet(NoNet) /\ NoNet.nodes = EmptyBag
  BY DEF NoNet, IsNet
<1>2. CaseDrawn(NoNet, call[c].who, "failed") /\ PersonDrawn(NoNet, call[c].who, "failed")
  BY DEF CaseDrawn, PersonDrawn
<1>3. net' = [net EXCEPT ![c] = NoNet] /\ Goto(c, "failed") /\ UNCHANGED <<caseOf, entered>>
  BY DEF DrawFails, Draw, cases
<1> QED BY <1>1, <1>2, <1>3, NetDrawn

-----------------------------------------------------------------------------
(* Everything else.                                                        *)

LEMMA TellsNothing ==
  ASSUME Typed, NetInv, NEW c \in Calls, NEW S, NEW pc, call[c].kind = "ticker", ToTell(c, S, pc)
  PROVE  NetInv'
<1> DEFINE m == [net[c] EXCEPT !.todo = S]
<1>1. IsNet(net[c]) /\ net[c].nodes = EmptyBag
  BY DEF NetInv, Drawn
<1>2. IsNet(m) /\ m.nodes = EmptyBag
  BY <1>1 DEF IsNet
<1>3. net' = [net EXCEPT ![c] = m] /\ Goto(c, pc) /\ UNCHANGED <<caseOf, entered>>
  BY DEF ToTell, cases
<1> HIDE DEF m
<1> QED BY <1>2, <1>3, NetDrawn

LEMMA Unsteady ==
  ASSUME NEW n, NEW m, m.nodes = n.nodes, m.edges = n.edges, NEW v, NEW pc,
         pc # "idle" => ~m.steady
  PROVE  /\ CaseDrawn(n, v, pc) => CaseDrawn(m, v, pc)'
         /\ PersonDrawn(n, v, pc) => PersonDrawn(m, v, pc)'
<1>1. Ends(m) = Ends(n)
  BY DEF Ends
<1>2. Whole(n, v) => Whole(m, v)
  BY <1>1 DEF Whole
<1>3. Whole(m, v)' <=> Whole(m, v)
  BY DEF Whole, Ends
<1>4. CaseDrawn(n, v, pc) => CaseDrawn(m, v, pc)'
  BY <1>2, <1>3 DEF CaseDrawn, Undrawn
<1>5. PersonDrawn(n, v, pc) => PersonDrawn(m, v, pc)'
  BY <1>2, <1>3 DEF PersonDrawn, Undrawn
<1> QED BY <1>4, <1>5

\* A row that is entered unsettles the networks begun, not the others.
LEMMA Unsettles ==
  ASSUME Typed, NetInv, NEW a \in Accused, Enter(a) PROVE NetInv'
<1>1. call' = call
  BY DEF Enter
<1>2. ASSUME NEW c \in Calls PROVE Drawn(c)'
  <2> DEFINE n == net[c]
             m == [n EXCEPT !.steady = @ /\ call[c].pc = "idle"]
  <2>1. net'[c] = m
    BY DEF Enter
  <2>2. Drawn(c) /\ IsNet(n)
    BY DEF NetInv, Drawn
  <2>3. /\ IsNet(m) /\ m.nodes = n.nodes /\ m.edges = n.edges
        /\ m.steady = (n.steady /\ call[c].pc = "idle")
    BY <2>2 DEF IsNet
  <2> HIDE DEF n, m
  <2>4. call[c].pc # "idle" => ~m.steady
    BY <2>3
  <2>5. /\ CaseDrawn(n, call[c].who, call[c].pc) => CaseDrawn(net[c], call[c].who, call[c].pc)'
        /\ PersonDrawn(n, call[c].who, call[c].pc) => PersonDrawn(net[c], call[c].who, call[c].pc)'
    BY <1>1, <2>1, <2>3, <2>4, Unsteady
  <2> QED BY <1>1, <2>1, <2>2, <2>3, <2>5 DEF Drawn, IsNet, n
<1>3. DOMAIN net' = Calls
  BY DEF Enter
<1> QED BY <1>2, <1>3 DEF NetInv


\* A computation leaves the networks alone: where it moves a call, the call is
\* for a score, or it fails.
LEMMA ComputesApart ==
  ASSUME Typed, NetInv, NEW j \in Jobs, Compute(j) PROVE NetInv'
<1>1. UNCHANGED <<caseOf, entered, net>>
  BY DEF Compute, ReadName, ReadCases, ReadArrests, ComputeFails, Save, SaveFails, Stores, Acquire, cases
<1>2. \/ UNCHANGED call
      \/ \E pc \in {"done", "failed"} :
           Goto(j[1], pc) /\ (call[j[1]].kind = "score" \/ pc = "failed")
  BY DEF Compute, ReadName, ReadCases, ReadArrests, ComputeFails, Save, SaveFails, Stores, Acquire, JobEnds
<1>3. call \in [Calls -> CallType]
  BY DEF Typed
<1>4. CASE UNCHANGED call
  BY <1>1, <1>4, NetStays
<1>5. ASSUME NEW pc \in {"done", "failed"}, Goto(j[1], pc),
             call[j[1]].kind = "score" \/ pc = "failed"
      PROVE  NetInv'
  <2>1. \A d \in Calls : call'[d].kind = call[d].kind /\ call'[d].who = call[d].who
                         /\ (d # j[1] => call'[d].pc = call[d].pc)
    BY <1>3, <1>5 DEF Goto, CallType
  <2>2. j[1] \in Calls => call'[j[1]].pc = pc
    BY <1>3, <1>5 DEF Goto, CallType
  <2> QED BY <1>1, <1>5, <2>1, <2>2, NetStays
<1> QED BY <1>2, <1>4, <1>5

LEMMA ScoresApart ==
  ASSUME Typed, NetInv, NEW c \in Calls,
         AskScore(c) \/ ReadCached(c) \/ CheckExists(c) \/ ReadAll(c) \/ Gathered(c)
  PROVE  NetInv'
<1>1. UNCHANGED <<caseOf, entered, net>> /\ call[c].kind \notin {"case", "person"}
  BY DEF AskScore, ReadCached, CheckExists, ReadAll, Gathered, At, cases
<1>2. UNCHANGED call \/ \E pc : Goto(c, pc)
  BY DEF AskScore, ReadCached, CheckExists, ReadAll, Gathered
<1>3. CASE UNCHANGED call
  BY <1>1, <1>3, NetStays
<1>4. ASSUME NEW pc, Goto(c, pc) PROVE NetInv'
  <2>1. \A d \in Calls : call'[d].kind = call[d].kind /\ call'[d].who = call[d].who
                         /\ (d # c => call'[d].pc = call[d].pc)
    BY <1>4 DEF Goto, CallType, Typed
  <2> QED BY <1>1, <2>1, NetStays
<1> QED BY <1>2, <1>3, <1>4

LEMMA InitNet == Init => NetInv
<1> SUFFICES ASSUME Init PROVE NetInv
  OBVIOUS
<1>1. IsNet(NoNet) /\ Undrawn(NoNet)
  BY DEF IsNet, NoNet, Undrawn
<1>2. DOMAIN net = Calls /\ \A c \in Calls : net[c] = NoNet /\ call[c].pc = "idle"
  BY DEF Init
<1> QED BY <1>1, <1>2 DEF NetInv, Drawn, CaseDrawn, PersonDrawn, Undrawn

LEMMA NextNet == Typed /\ NetInv /\ [Next]_vars => NetInv'
<1> SUFFICES ASSUME Typed, NetInv, [Next]_vars PROVE NetInv'
  OBVIOUS
<1>1. ASSUME NEW a \in Accused, Enter(a) PROVE NetInv'
  BY <1>1, Unsettles
<1>2. ASSUME NEW a \in Accused, Arrest(a) PROVE NetInv'
  BY <1>2, NetStays DEF Arrest
<1>3. ASSUME NEW j \in Jobs, Compute(j) PROVE NetInv'
  BY <1>3, ComputesApart
<1>4. ASSUME NEW c \in Calls, Answer(c) PROVE NetInv'
  <2>1. CASE AskScore(c) \/ ReadCached(c) \/ CheckExists(c) \/ ReadAll(c) \/ Gathered(c)
    BY <2>1, ScoresApart
  <2>2. CASE ReadCase(c)         BY <2>2, DrawsCase
  <2>3. CASE ReadAccused(c)      BY <2>3, DrawsAccused
  <2>4. CASE ReadSimilar(c)      BY <2>4, DrawsSimilar
  <2>5. CASE ReadPerson(c)       BY <2>5, DrawsPerson
  <2>6. CASE ReadAppearances(c)  BY <2>6, DrawsAppearances
  <2>7. CASE ReadLinks(c)        BY <2>7, DrawsLinks
  <2>8. CASE LinksDone(c)        BY <2>8, DrawsLast
  <2>9. CASE DrawFails(c)        BY <2>9, DrawsNot
  <2>10. CASE \/ ReadStations(c) \/ TellStation(c) \/ ReadCommands(c) \/ TellCommand(c)
              \/ TellState(c)
    <3>1. call[c].kind = "ticker" /\ \E S, pc : ToTell(c, S, pc)
      BY <2>10 DEF ReadStations, TellStation, ReadCommands, TellCommand, TellState, At
    <3> QED BY <3>1, TellsNothing
  <2> QED
    BY <1>4, <2>1, <2>2, <2>3, <2>4, <2>5, <2>6, <2>7, <2>8, <2>9, <2>10 DEF Answer
<1>5. CASE Load \/ UNCHANGED vars
  BY <1>5, NetStays DEF Load, vars, cases
<1> QED BY <1>1, <1>2, <1>3, <1>4, <1>5 DEF Next, Jobs

\* What each call has drawn so far, at every place of the two builders.
THEOREM NetworksDrawn == Spec => []NetInv
<1>1. IInv => Typed
  BY DEF IInv
<1> QED BY <1>1, InitNet, NextNet, Inductive, PTL DEF Spec

\* What the graph endpoints return is a network: each node once, none but what
\* edges reach and no edge without its nodes, whatever the joins return several
\* times; and if nothing was entered meanwhile, its edges are the tables'.
THEOREM GraphsSound == Spec => []GraphSound
<1>1. Typed /\ NetInv => GraphSound
  <2> SUFFICES ASSUME Typed, NetInv, NEW c \in Calls, call[c].pc = "done", net[c].nodes # EmptyBag
               PROVE  LET n == net[c] IN
                      /\ \A v \in BagToSet(n.nodes) : n.nodes[v] = 1
                      /\ BagToSet(n.nodes) = {call[c].who} \union Ends(n)
                      /\ n.steady => IF call[c].kind = "case"
                                       THEN CaseEdges(call[c].who, BagToSet(n.edges))
                                       ELSE PersonEdges(call[c].who, BagToSet(n.edges))
    BY DEF GraphSound
  <2>1. Drawn(c) /\ call[c].kind \in {"case", "person"}
    BY DEF NetInv, Drawn
  <2>2. CASE call[c].kind = "case"
    BY <2>1, <2>2 DEF Drawn, CaseDrawn, Undrawn, Whole
  <2>3. CASE call[c].kind = "person"
    BY <2>1, <2>3 DEF Drawn, PersonDrawn, Undrawn, Whole
  <2> QED BY <2>1, <2>2, <2>3
<1>2. IInv => Typed
  BY DEF IInv
<1> QED BY <1>1, <1>2, Inductive, NetworksDrawn, PTL

-----------------------------------------------------------------------------
(* The semaphores.                                                         *)

\* The workers of a recomputation that are inside its semaphore, and the places
\* that are left; no other computation waits for one.
Inside == {"name", "cases", "arrests", "check", "save"}
Holders(c) == {a \in Accused : job[<<c, a>>].pc \in Inside}
Placed(c) ==
    /\ call[c].kind # "all" =>
         free[c] = Slots /\ \A a \in Accused : job[<<c, a>>].pc # "wait"
    /\ call[c].kind = "all" =>
         /\ free[c] \in Nat /\ free[c] + Cardinality(Holders(c)) = Slots
         /\ call[c].pc = "idle" => \A a \in Accused : job[<<c, a>>].pc = "off"

Places == \A c \in Calls : Placed(c)

\* From p to q nothing is acquired, released or begun.
SamePlace(p, q) == (p \in Inside <=> q \in Inside) /\ (q = "wait" => p = "wait") /\ (p = "off" => q = "off")

\* What a step keeps of the calls: their kind, and that they have begun.
Onward(c) == call'[c].kind = call[c].kind /\ (call'[c].pc = "idle" => call[c].pc = "idle")

LEMMA GoesOn ==
  ASSUME Typed, NEW c, NEW pc, pc # "idle", Goto(c, pc) PROVE \A d \in Calls : Onward(d)
  BY DEF Typed, CallType, Goto, Onward

\* A call none of whose workers acquires or leaves its semaphore.
LEMMA PlacedStays ==
  ASSUME NEW c \in Calls, Placed(c), Onward(c), free'[c] = free[c],
         \A a \in Accused :
           \/ SamePlace(job[<<c, a>>].pc, job'[<<c, a>>].pc)
           \/ call[c].kind # "all" /\ job'[<<c, a>>].pc # "wait"
  PROVE  Placed(c)'
<1>1. CASE call[c].kind # "all"
  BY <1>1 DEF Placed, Onward, SamePlace
<1>2. CASE call[c].kind = "all"
  <2>1. Holders(c)' = Holders(c)
    BY <1>2 DEF Holders, SamePlace
  <2>2. call'[c].pc = "idle" => \A a \in Accused : job'[<<c, a>>].pc = "off"
    BY <1>2 DEF Placed, Onward, SamePlace
  <2> QED BY <1>2, <2>1, <2>2 DEF Placed, Onward
<1> QED BY <1>1, <1>2

\* One that has a worker leave.
LEMMA PlacedLeaves ==
  ASSUME NEW c \in Calls, Placed(c), Onward(c), free[c] \in Int, NEW a \in Accused,
         call[c].kind = "all", job[<<c, a>>].pc \in Inside, free'[c] = free[c] + 1,
         job'[<<c, a>>].pc \in {"done", "failed"},
         \A b \in Accused \ {a} : job'[<<c, b>>].pc = job[<<c, b>>].pc
  PROVE  Placed(c)'
<1>1. Holders(c)' = Holders(c) \ {a} /\ a \in Holders(c)
  BY DEF Holders, Inside
<1>2. IsFiniteSet(Holders(c))
  BY InsightsAssumption, FS_Subset DEF Holders
<1>3. Cardinality(Holders(c)') = Cardinality(Holders(c)) - 1 /\ Cardinality(Holders(c)) \in Nat
  BY <1>1, <1>2, FS_RemoveElement, FS_CardinalityType
<1>4. call[c].pc # "idle"
  BY DEF Placed, Inside
<1>5. free'[c] \in Nat /\ free'[c] + Cardinality(Holders(c)') = Slots
  BY <1>3 DEF Placed
<1> QED BY <1>4, <1>5 DEF Placed, Onward

\* And one that lets a worker in.
LEMMA PlacedEnters ==
  ASSUME NEW c \in Calls, Placed(c), Onward(c), free[c] \in Int, NEW a \in Accused,
         job[<<c, a>>].pc = "wait", free[c] > 0, free'[c] = free[c] - 1, job'[<<c, a>>].pc = "name",
         \A b \in Accused \ {a} : job'[<<c, b>>].pc = job[<<c, b>>].pc
  PROVE  Placed(c)'
<1>0. call[c].kind = "all"
  BY DEF Placed
<1>1. Holders(c)' = Holders(c) \union {a} /\ a \notin Holders(c)
  BY DEF Holders, Inside
<1>2. IsFiniteSet(Holders(c))
  BY InsightsAssumption, FS_Subset DEF Holders
<1>3. Cardinality(Holders(c)') = Cardinality(Holders(c)) + 1 /\ Cardinality(Holders(c)) \in Nat
  BY <1>1, <1>2, FS_AddElement, FS_CardinalityType
<1>4. call[c].pc # "idle"
  BY <1>0 DEF Placed
<1>5. free'[c] \in Nat /\ free'[c] + Cardinality(Holders(c)') = Slots
  BY <1>0, <1>3 DEF Placed
<1> QED BY <1>0, <1>4, <1>5 DEF Placed, Onward

\* A worker moves on inside, and the others stay where they are.
LEMMA MovesInside ==
  ASSUME Typed, Places, NEW j \in Jobs, NEW x, job' = [job EXCEPT ![j] = x],
         job[j].pc \in Inside, x.pc \in Inside, UNCHANGED <<call, free>>
  PROVE  Places'
<1>1. ASSUME NEW c \in Calls, NEW a \in Accused
      PROVE  SamePlace(job[<<c, a>>].pc, job'[<<c, a>>].pc)
  <2>1. job'[<<c, a>>] = IF <<c, a>> = j THEN x ELSE job[<<c, a>>]
    BY DEF Typed, Jobs
  <2> QED BY <2>1 DEF SamePlace, Inside
<1>2. ASSUME NEW c \in Calls PROVE Placed(c)'
  BY <1>1, PlacedStays DEF Places, Onward
<1> QED BY <1>2 DEF Places

LEMMA ReadsInside ==
  ASSUME Typed, Places, NEW j \in Jobs,
         ReadName(j) \/ ReadCases(j) \/ ReadArrests(j) \/ ComputeFails(j)
  PROVE  Places'
<1>1. job[j].pc \in Inside /\ UNCHANGED <<call, free>>
  BY DEF ReadName, ReadCases, ReadArrests, ComputeFails, Doing, Inside
<1>2. job[j] \in JobType /\ job \in [Jobs -> JobType]
  BY DEF Typed, Jobs
<1>3. ASSUME NEW r, NEW b, Computed(j, r, b) PROVE Places'
  <2> DEFINE x == [pc |-> IF call[j[1]].kind = "score" /\ r = Empty THEN "check" ELSE "save",
                   result |-> r, clean |-> b]
  <2>1. x.pc \in Inside /\ job' = [job EXCEPT ![j] = x]
    BY <1>3 DEF Computed, Inside
  <2> HIDE DEF x
  <2> QED BY <1>1, <2>1, MovesInside
<1>4. ASSUME NEW pc \in {"cases", "arrests"}, NEW r,
             \/ job' = [job EXCEPT ![j].pc = pc]
             \/ job' = [job EXCEPT ![j].pc = pc, ![j].result = r]
      PROVE  Places'
  <2>1. \E x : job' = [job EXCEPT ![j] = x] /\ x.pc = pc
    <3>1. CASE job' = [job EXCEPT ![j].pc = pc]
      <4>1. job' = [job EXCEPT ![j] = [job[j] EXCEPT !.pc = pc]]
        BY <1>2, <3>1
      <4>2. [job[j] EXCEPT !.pc = pc].pc = pc
        BY <1>2 DEF JobType
      <4> QED BY <4>1, <4>2
    <3>2. CASE job' = [job EXCEPT ![j].pc = pc, ![j].result = r]
      <4>1. job' = [job EXCEPT ![j] = [job[j] EXCEPT !.pc = pc, !.result = r]]
        BY <1>2, <3>2
      <4>2. [job[j] EXCEPT !.pc = pc, !.result = r].pc = pc
        BY <1>2 DEF JobType
      <4> QED BY <4>1, <4>2
    <3> QED BY <1>4, <3>1, <3>2
  <2> QED BY <1>1, <2>1, MovesInside DEF Inside
<1> QED BY <1>3, <1>4 DEF ReadName, ReadCases, ReadArrests, ComputeFails

\* A worker leaves.
LEMMA EndsOutside ==
  ASSUME Typed, Places, NEW j \in Jobs, Doing(j, "save"), NEW pc \in {"done", "failed"},
         NEW jobs \in [Jobs -> JobType], \A i \in Jobs : jobs[i].pc = job[i].pc,
         JobEnds(j, pc, jobs)
  PROVE  Places'
<1>1. PICK c \in Calls, a \in Accused : j = <<c, a>>
  BY DEF Jobs
<1>2. \A d \in Calls : Onward(d)
  <2>1. Goto(c, pc) \/ UNCHANGED call
    BY <1>1 DEF JobEnds
  <2> QED BY <2>1, GoesOn DEF Onward
<1>3. ASSUME NEW d \in Calls, NEW b \in Accused
      PROVE  job'[<<d, b>>].pc = IF <<d, b>> = j THEN pc ELSE job[<<d, b>>].pc
  <2> DEFINE x == [NoJob EXCEPT !.pc = pc]
  <2>1. x.pc = pc
    BY Begun
  <2>2. job' = [jobs EXCEPT ![j] = x] /\ <<d, b>> \in Jobs
    BY DEF JobEnds, Jobs
  <2> HIDE DEF x
  <2> QED BY <2>1, <2>2
<1>4. free' = [free EXCEPT ![c] = IF call[c].kind = "all" THEN @ + 1 ELSE @] /\ free \in [Calls -> Int]
  BY <1>1 DEF JobEnds, Typed
<1>5. ASSUME NEW d \in Calls PROVE Placed(d)'
  <2>1. CASE d = c /\ call[c].kind = "all"
    <3>1. job[<<c, a>>].pc \in Inside
      BY <1>1 DEF Doing, Inside
    <3>2. free'[c] = free[c] + 1 /\ free[c] \in Int
      BY <1>4, <2>1
    <3>3. \A b \in Accused \ {a} : job'[<<c, b>>].pc = job[<<c, b>>].pc
      BY <1>1, <1>3
    <3>4. job'[<<c, a>>].pc \in {"done", "failed"}
      BY <1>1, <1>3
    <3> QED BY <1>2, <2>1, <3>1, <3>2, <3>3, <3>4, PlacedLeaves DEF Places
  <2>2. CASE d = c /\ call[c].kind # "all"
    <3>1. \A b \in Accused : SamePlace(job[<<c, b>>].pc, job'[<<c, b>>].pc) \/ job'[<<c, b>>].pc # "wait"
      BY <1>3 DEF SamePlace
    <3> QED BY <1>2, <1>4, <2>2, <3>1, PlacedStays DEF Places
  <2>3. CASE d # c
    <3>1. \A b \in Accused : SamePlace(job[<<d, b>>].pc, job'[<<d, b>>].pc)
      BY <1>1, <1>3, <2>3 DEF SamePlace
    <3> QED BY <1>2, <1>4, <2>3, <3>1, PlacedStays DEF Places
  <2> QED BY <2>1, <2>2, <2>3
<1> QED BY <1>5 DEF Places

LEMMA SavesOutside ==
  ASSUME Typed, Places, NEW j \in Jobs, Save(j) \/ SaveFails(j) PROVE Places'
<1>1. Doing(j, "save") /\ \E pc \in {"done", "failed"} :
        JobEnds(j, pc, job) \/ JobEnds(j, pc, Overlapped(j))
  BY DEF Save, SaveFails, Stores
<1>2. job \in [Jobs -> JobType]
  BY DEF Typed, Jobs
<1> QED BY <1>1, <1>2, EndsOutside, Overlaps

\* A worker gets in.
LEMMA AcquiresPlace ==
  ASSUME Typed, Places, NEW j \in Jobs, Acquire(j) PROVE Places'
<1>1. PICK c \in Calls, a \in Accused : j = <<c, a>>
  BY DEF Jobs
<1>2. \A d \in Calls : Onward(d)
  BY DEF Acquire, Onward
<1>3. ASSUME NEW d \in Calls, NEW b \in Accused
      PROVE  job'[<<d, b>>].pc = IF <<d, b>> = j THEN "name" ELSE job[<<d, b>>].pc
  <2> DEFINE x == [NoJob EXCEPT !.pc = "name", !.clean = TRUE]
  <2>1. x.pc = "name"
    BY Begun
  <2>2. job' = [job EXCEPT ![j] = x] /\ <<d, b>> \in Jobs /\ job \in [Jobs -> JobType]
    BY DEF Acquire, Start, Jobs, Typed
  <2> HIDE DEF x
  <2> QED BY <2>1, <2>2
<1>4. free' = [free EXCEPT ![c] = free[c] - 1] /\ free \in [Calls -> Int] /\ job[<<c, a>>].pc = "wait"
  BY <1>1 DEF Acquire, Doing, Typed
<1>5. ASSUME NEW d \in Calls PROVE Placed(d)'
  <2>1. CASE d = c
    <3>1. \A b \in Accused \ {a} : job'[<<c, b>>].pc = job[<<c, b>>].pc
      BY <1>1, <1>3
    <3>2. job'[<<c, a>>].pc = "name"
      BY <1>1, <1>3
    <3>3. free'[c] = free[c] - 1 /\ free[c] \in Int /\ free[c] > 0
      BY <1>1, <1>4 DEF Acquire
    <3> QED BY <1>2, <1>4, <2>1, <3>1, <3>2, <3>3, PlacedEnters DEF Places
  <2>2. CASE d # c
    <3>1. \A b \in Accused : SamePlace(job[<<d, b>>].pc, job'[<<d, b>>].pc)
      BY <1>1, <1>3, <2>2 DEF SamePlace
    <3> QED BY <1>2, <1>4, <2>2, <3>1, PlacedStays DEF Places
  <2> QED BY <2>1, <2>2
<1> QED BY <1>5 DEF Places

\* The workers of a recomputation begin in front of the semaphore.
LEMMA AllOutside ==
  ASSUME Typed, Places, NEW c \in Calls, ReadAll(c) PROVE Places'
<1>1. UNCHANGED free /\ call[c].kind = "all" /\ call[c].pc = "idle"
  BY DEF ReadAll, At
<1>2. \A d \in Calls : Onward(d)
  <2>1. \E pc : pc # "idle" /\ Goto(c, pc)
    BY DEF ReadAll
  <2> QED BY <2>1, GoesOn
<1>3. \A a \in Accused : job[<<c, a>>].pc = "off"
  BY <1>1 DEF Places, Placed
<1>4. ASSUME NEW d \in Calls, NEW b \in Accused
      PROVE  \/ job'[<<d, b>>] = job[<<d, b>>]
             \/ d = c /\ job'[<<d, b>>].pc = "wait"
  <2> DEFINE x == [NoJob EXCEPT !.pc = "wait"]
  <2>1. x.pc = "wait"
    BY Begun
  <2>2. <<d, b>> \in DOMAIN job
    BY DEF Typed
  <2> HIDE DEF x
  <2>3. \/ UNCHANGED job
        \/ job' = [j \in DOMAIN job |-> IF j[1] = c /\ j[2] \in entered THEN x ELSE job[j]]
    BY DEF ReadAll, x
  <2> QED BY <2>1, <2>2, <2>3
<1>5. call'[c].pc # "idle" /\ call'[c].kind = "all"
  BY <1>1 DEF ReadAll, Goto, Typed, CallType
<1>6. ASSUME NEW d \in Calls PROVE Placed(d)'
  <2>1. CASE d = c
    <3>1. Holders(c)' = Holders(c)
      BY <1>3, <1>4 DEF Holders, Inside
    <3> QED BY <1>1, <1>5, <2>1, <3>1 DEF Places, Placed
  <2>2. CASE d # c
    <3>1. \A b \in Accused : SamePlace(job[<<d, b>>].pc, job'[<<d, b>>].pc)
      BY <1>4, <2>2 DEF SamePlace
    <3> QED BY <1>1, <1>2, <2>2, <3>1, PlacedStays DEF Places
  <2> QED BY <2>1, <2>2
<1> QED BY <1>6 DEF Places

\* The other steps of a call have no worker enter or leave.
LEMMA AnswersOutside ==
  ASSUME Typed, Places, NEW c \in Calls, Answer(c) PROVE Places'
<1>1. CASE ReadAll(c)
  BY <1>1, AllOutside
<1>2. ASSUME UNCHANGED free, \A d \in Calls : Onward(d), UNCHANGED job PROVE Places'
  <2>1. \A d \in Calls : \A a \in Accused : SamePlace(job[<<d, a>>].pc, job'[<<d, a>>].pc)
    BY <1>2 DEF SamePlace
  <2>2. ASSUME NEW d \in Calls PROVE Placed(d)'
    BY <1>2, <2>1, PlacedStays DEF Places
  <2> QED BY <2>2 DEF Places
<1>3. ASSUME UNCHANGED free, \A d \in Calls : Onward(d), call[c].kind = "score", NEW a, NEW x,
             job' = [job EXCEPT ![<<c, a>>] = x], x.pc # "wait"
      PROVE  Places'
  <2>1. ASSUME NEW d \in Calls, NEW b \in Accused
        PROVE  \/ SamePlace(job[<<d, b>>].pc, job'[<<d, b>>].pc)
               \/ call[d].kind # "all" /\ job'[<<d, b>>].pc # "wait"
    <3>1. job'[<<d, b>>] = IF <<d, b>> = <<c, a>> THEN x ELSE job[<<d, b>>]
      BY <1>3 DEF Typed
    <3> QED BY <1>3, <3>1 DEF SamePlace
  <2>2. ASSUME NEW d \in Calls PROVE Placed(d)'
    BY <1>3, <2>1, <2>2, PlacedStays DEF Places
  <2> QED BY <2>2 DEF Places
<1>4. CASE AskScore(c) \/ ReadCached(c)
  <2>1. UNCHANGED free /\ call[c].kind = "score" /\ \E pc : pc # "idle" /\ Goto(c, pc)
    BY <1>4 DEF AskScore, ReadCached, At
  <2>2. \A d \in Calls : Onward(d)
    BY <2>1, GoesOn
  <2>3. UNCHANGED job \/ Start(<<c, call[c].who>>)
    BY <1>4 DEF AskScore, ReadCached
  <2>4. CASE Start(<<c, call[c].who>>)
    <3> DEFINE x == [NoJob EXCEPT !.pc = "name", !.clean = TRUE]
    <3>1. x.pc # "wait" /\ job' = [job EXCEPT ![<<c, call[c].who>>] = x]
      BY <2>4, Begun DEF Start
    <3> HIDE DEF x
    <3> QED BY <1>3, <2>1, <2>2, <3>1
  <2> QED BY <1>2, <2>1, <2>2, <2>3, <2>4
<1>5. CASE CheckExists(c)
  <2> DEFINE j == <<c, call[c].who>>
  <2>1. UNCHANGED free /\ call[c].kind = "score"
    BY <1>5 DEF CheckExists, At
  <2>2. \A d \in Calls : Onward(d)
    <3>1. UNCHANGED call \/ \E pc : pc # "idle" /\ Goto(c, pc)
      BY <1>5 DEF CheckExists
    <3> QED BY <3>1, GoesOn DEF Onward
  <2>3. CASE job' = [job EXCEPT ![j].pc = "save"]
    <3>1. CASE j \in Jobs
      <4>1. job[j] \in JobType /\ job \in [Jobs -> JobType]
        BY <3>1 DEF Typed, Jobs
      <4>2. job' = [job EXCEPT ![j] = [job[j] EXCEPT !.pc = "save"]]
        BY <2>3, <4>1
      <4>3. [job[j] EXCEPT !.pc = "save"].pc = "save"
        BY <4>1 DEF JobType
      <4> QED BY <1>3, <2>1, <2>2, <4>2, <4>3
    <3>2. CASE j \notin Jobs
      <4>1. job' = job
        BY <2>3, <3>2 DEF Typed, Jobs
      <4> QED BY <1>2, <2>1, <2>2, <4>1
    <3> QED BY <3>1, <3>2
  <2>4. CASE job' = [job EXCEPT ![j] = [NoJob EXCEPT !.pc = "failed"]]
    <3> DEFINE x == [NoJob EXCEPT !.pc = "failed"]
    <3>1. x.pc # "wait" /\ job' = [job EXCEPT ![<<c, call[c].who>>] = x]
      BY <2>4, Begun
    <3> HIDE DEF x
    <3> QED BY <1>3, <2>1, <2>2, <3>1
  <2> QED BY <1>5, <2>3, <2>4 DEF CheckExists
<1>6. CASE \/ Gathered(c) \/ ReadCase(c) \/ ReadAccused(c) \/ ReadSimilar(c) \/ ReadPerson(c)
           \/ ReadAppearances(c) \/ ReadLinks(c) \/ LinksDone(c) \/ DrawFails(c)
           \/ ReadStations(c) \/ TellStation(c) \/ ReadCommands(c) \/ TellCommand(c) \/ TellState(c)
  <2>1. UNCHANGED <<job, free>> /\ \E pc : pc # "idle" /\ Goto(c, pc)
    BY <1>6 DEF Gathered, ReadCase, ReadAccused, ReadSimilar, ReadPerson, ReadAppearances, ReadLinks,
                LinksDone, DrawFails, Draw, ReadStations, TellStation, ReadCommands, TellCommand,
                TellState, ToTell
  <2> QED BY <1>2, <2>1, GoesOn
<1> QED BY <1>1, <1>4, <1>5, <1>6 DEF Answer

LEMMA InitPlaces == Init => Places
<1> SUFFICES ASSUME Init, NEW c \in Calls PROVE Placed(c)
  BY DEF Places
<1>1. \A a \in Accused : job[<<c, a>>].pc = "off"
  BY DEF Init, NoJob
<1>2. free[c] = Slots
  BY DEF Init
<1>3. Holders(c) = {}
  BY <1>1 DEF Holders, Inside
<1> QED BY <1>1, <1>2, <1>3, FS_EmptySet, InsightsAssumption DEF Placed

LEMMA NextPlaces == Typed /\ Places /\ [Next]_vars => Places'
<1> SUFFICES ASSUME Typed, Places, [Next]_vars PROVE Places'
  OBVIOUS
<1>1. ASSUME UNCHANGED <<call, job, free>> PROVE Places'
  BY <1>1 DEF Places, Placed, Holders
<1>2. ASSUME NEW a \in Accused, Enter(a) \/ Arrest(a) PROVE Places'
  BY <1>1, <1>2 DEF Enter, Arrest
<1>3. ASSUME NEW j \in Jobs, Compute(j) PROVE Places'
  BY <1>3, ReadsInside, SavesOutside, AcquiresPlace DEF Compute
<1>4. ASSUME NEW c \in Calls, Answer(c) PROVE Places'
  BY <1>4, AnswersOutside
<1>5. CASE Load \/ UNCHANGED vars
  BY <1>1, <1>5 DEF Load, vars
<1> QED BY <1>2, <1>3, <1>4, <1>5 DEF Next, Jobs

\* Of every semaphore, the places left and the workers inside are together as
\* many as it was given (risk_scoring.py:198).
THEOREM PlacesCounted == Spec => []Places
<1>1. IInv => Typed
  BY DEF IInv
<1> QED BY <1>1, InitPlaces, NextPlaces, Inductive, PTL DEF Spec

\* Every variable keeps its type, whoever has a score is entered, as the foreign
\* key of offender_risk_scores wants it, and between none and all of the places
\* of a semaphore are left: a recomputation never runs more workers than that.
THEOREM TypeCorrect == Spec => []TypeOK
<1>1. Typed /\ Places => TypeOK
  <2> SUFFICES ASSUME Typed, Places PROVE TypeOK
    OBVIOUS
  <2>1. ASSUME NEW c \in Calls PROVE free[c] \in 0..Slots
    <3>1. IsFiniteSet(Holders(c))
      BY InsightsAssumption, FS_Subset DEF Holders
    <3>2. Cardinality(Holders(c)) \in Nat
      BY <3>1, FS_CardinalityType
    <3> QED BY <3>2, InsightsAssumption DEF Places, Placed
  <2> QED BY <2>1 DEF Typed, TypeOK
<1>2. IInv => Typed
  BY DEF IInv
<1> QED BY <1>1, <1>2, Inductive, PlacesCounted, PTL
=============================================================================
