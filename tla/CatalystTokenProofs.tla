------------------------ MODULE CatalystTokenProofs ------------------------
(***************************************************************************)
(* What holds of CatalystToken for every number of callers and every        *)
(* lifetime, margin and timeout that TokenAssumption allows.                *)
(***************************************************************************)
EXTENDS CatalystToken, SequenceTheorems, TLAPS

\* A cached token is due early enough for a call started just before.
TokenKept ==
    token # NoToken => token.renew + CallTime <= token.expiry

\* The refresh under way began when the cached token was due, and has not
\* outlived its timeout.
RefreshDue ==
    \A c \in Callers : At(c, "refreshing") =>
        /\ ~Fresh
        /\ now <= call[c].until
        /\ RefreshTime <= call[c].until

\* A call pauses only before a request it still has.
AttemptLeft ==
    \A c \in Callers : At(c, "pausing") => call[c].attempt < Further(call[c].kind)

IInv == TypeOK /\ OneRefresh /\ TokenKept /\ RefreshDue /\ AttemptLeft /\ TokenOutlivesCall

Calls == [kind : Kinds, pc : Stages, attempt : Nat, expiry : Nat, until : Nat, deadline : Nat, sure : BOOLEAN]

\* A call within its number of requests.
Sound(r) == r \in Calls /\ r.attempt <= Further(r.kind)

-----------------------------------------------------------------------------
LEMMA FurtherType == ASSUME TokenAssumption, NEW kind PROVE Further(kind) \in Nat
  BY DEF TokenAssumption, Further

\* The fields of what TypeOK types.
LEMMA Types ==
    ASSUME TypeOK
    PROVE  /\ now \in Nat /\ queue \in Seq(Callers)
           /\ call \in [Callers -> Calls]
           /\ token # NoToken => token.expiry \in Nat /\ token.renew \in Nat
           /\ \A c \in Callers :
                /\ call[c] \in Calls /\ Sound(call[c])
                /\ call[c].kind \in Kinds /\ call[c].pc \in Stages /\ call[c].attempt \in Nat
                /\ call[c].expiry \in Nat /\ call[c].until \in Nat /\ call[c].deadline \in Nat
                /\ call[c].sure \in BOOLEAN
  <1>1. call \in [Callers -> Calls]
    BY DEF TypeOK, Calls
  <1>2. \A r \in Calls : /\ r.kind \in Kinds /\ r.pc \in Stages /\ r.attempt \in Nat
                         /\ r.expiry \in Nat /\ r.until \in Nat /\ r.deadline \in Nat
                         /\ r.sure \in BOOLEAN
    BY DEF Calls
  <1>3. \A c \in Callers : call[c] \in Calls
    BY <1>1
  <1>4. \A c \in Callers : Sound(call[c])
    BY <1>3 DEF TypeOK, Sound
  <1> QED
    BY <1>1, <1>2, <1>3, <1>4 DEF TypeOK, Tokens

\* What Put changes.
LEMMA PutEffect ==
    ASSUME call \in [Callers -> Calls], NEW c \in Callers, NEW r \in Calls, Put(c, r)
    PROVE  /\ call' \in [Callers -> Calls]
           /\ call'[c] = r
           /\ \A d \in Callers : d # c => call'[d] = call[d]
  BY DEF Put

\* The state keeps its type when one call moves on.
LEMMA TypeKept ==
    ASSUME TypeOK, NEW c \in Callers, NEW r, Sound(r), Put(c, r),
           now' \in Nat, config' = config, token' \in Tokens, queue' \in Seq(Callers)
    PROVE  TypeOK'
  <1>1. r \in Calls /\ r.attempt <= Further(r.kind)
    BY DEF Sound
  <1>2. call' \in [Callers -> Calls] /\ call'[c] = r /\ \A d \in Callers : d # c => call'[d] = call[d]
    BY <1>1, Types, PutEffect
  <1>3. \A d \in Callers : call'[d].attempt <= Further(call'[d].kind)
    BY <1>1, <1>2 DEF TypeOK
  <1> QED
    BY <1>2, <1>3 DEF TypeOK, Calls

\* A call that moves without touching token, lock or clock keeps the
\* invariant, unless it enters the refresh or a request with a token it is sure of.
LEMMA QuietMove ==
    ASSUME IInv, NEW c \in Callers, NEW r, Sound(r), Put(c, r),
           UNCHANGED <<now, config, token, queue>>,
           r.pc # "refreshing",
           r.pc = "pausing" => r.attempt < Further(r.kind),
           r.pc = "calling" /\ r.sure => r.until <= r.expiry
    PROVE  IInv'
  <1>1. TypeOK /\ now \in Nat /\ queue \in Seq(Callers) /\ call \in [Callers -> Calls] /\ token \in Tokens
    BY Types DEF IInv, TypeOK
  <1>2. /\ call' \in [Callers -> Calls] /\ call'[c] = r
        /\ \A d \in Callers : d # c => call'[d] = call[d]
    BY <1>1, PutEffect DEF Sound
  <1>3. TypeOK'
    BY <1>1, TypeKept
  <1>4. OneRefresh' /\ RefreshDue' /\ AttemptLeft' /\ TokenOutlivesCall' /\ TokenKept'
    BY <1>2 DEF IInv, OneRefresh, RefreshDue, AttemptLeft, TokenOutlivesCall, TokenKept, At, HoldsLock, Fresh
  <1> QED
    BY <1>3, <1>4 DEF IInv

\* The records a call's state changes to.
Left(c, pc, n) == [call[c] EXCEPT !.pc = pc, !.attempt = n, !.expiry = 0, !.until = 0, !.sure = FALSE]

LEMMA LeaveRecord ==
    ASSUME TypeOK, NEW c \in Callers, NEW pc \in Stages, NEW n \in Nat, n <= Further(call[c].kind)
    PROVE  /\ Sound(Left(c, pc, n))
           /\ Left(c, pc, n).pc = pc /\ Left(c, pc, n).attempt = n
           /\ Left(c, pc, n).kind = call[c].kind
  BY Types DEF Left, Calls, Sound

LEMMA StartRecord ==
    ASSUME TypeOK, TokenAssumption, NEW c \in Callers, NEW expiry \in Nat, NEW sure \in BOOLEAN
    PROVE  LET r == [call[c] EXCEPT !.pc = "calling", !.expiry = expiry,
                                    !.until = now + CallTime, !.sure = sure]
           IN  /\ Sound(r)
               /\ r.pc = "calling" /\ r.expiry = expiry
               /\ r.until = now + CallTime /\ r.sure = sure
  <1>1. now + CallTime \in Nat
    BY Types DEF TokenAssumption
  <1>2. call[c] \in Calls /\ call[c].attempt <= Further(call[c].kind)
    BY Types DEF Sound
  <1> QED
    BY <1>1, <1>2 DEF Calls, Stages, Sound

LEMMA PcRecord ==
    ASSUME TypeOK, NEW c \in Callers, NEW pc \in Stages
    PROVE  /\ Sound([call[c] EXCEPT !.pc = pc])
           /\ [call[c] EXCEPT !.pc = pc].pc = pc
  BY Types DEF Calls, Sound

\* However a request ends, its call leaves to a sound record that is neither
\* in the refresh nor in a request.
LEMMA EndedRecord ==
    ASSUME TypeOK, TokenAssumption, NEW c \in Callers, NEW o, Ended(c, o)
    PROVE  \E r : /\ Sound(r) /\ Put(c, r)
                  /\ r.pc # "refreshing" /\ r.pc # "calling"
                  /\ r.pc = "pausing" => r.attempt < Further(r.kind)
  <1>0. /\ call[c].attempt \in Nat /\ call[c].attempt + 1 \in Nat
        /\ call[c].attempt <= Further(call[c].kind) /\ Further(call[c].kind) \in Nat
    BY Types, FurtherType DEF Sound
  <1>1. CASE GoesOn(c, o) /\ Leave(c, "pausing", call[c].attempt)
    <2>1. call[c].attempt < Further(call[c].kind)
      BY <1>1 DEF GoesOn
    <2>2. Put(c, Left(c, "pausing", call[c].attempt))
      BY <1>1 DEF Leave, Left
    <2> QED
      BY <1>0, <2>1, <2>2, LeaveRecord DEF Stages
  <1>2. CASE GoesOn(c, o) /\ Leave(c, "ask", call[c].attempt + 1)
    <2>1. call[c].attempt + 1 <= Further(call[c].kind)
      BY <1>0, <1>2 DEF GoesOn
    <2>2. Put(c, Left(c, "ask", call[c].attempt + 1))
      BY <1>2 DEF Leave, Left
    <2> QED
      BY <1>0, <2>1, <2>2, LeaveRecord DEF Stages
  <1>3. CASE Leave(c, IF Returns(c, o) THEN "done" ELSE "failed", call[c].attempt)
    <2>1. PICK pc \in {"done", "failed"} : Put(c, Left(c, pc, call[c].attempt))
      BY <1>3 DEF Leave, Left
    <2> QED
      BY <1>0, <2>1, LeaveRecord DEF Stages
  <1> QED
    BY <1>1, <1>2, <1>3 DEF Ended

\* The lock passes on: the holder leaves the refresh, and no one else was in it.
LEMMA ReleaseMove ==
    ASSUME IInv, NEW c \in Callers, HoldsLock(c), NEW r, Sound(r), Put(c, r), Release,
           now' = now, config' = config, token' \in Tokens, TokenKept',
           r.pc # "refreshing",
           r.pc = "pausing" => r.attempt < Further(r.kind),
           r.pc = "calling" /\ r.sure => r.until <= r.expiry
    PROVE  IInv'
  <1>1. TypeOK /\ now \in Nat /\ queue \in Seq(Callers) /\ call \in [Callers -> Calls]
    BY Types DEF IInv
  <1>2. /\ call' \in [Callers -> Calls] /\ call'[c] = r
        /\ \A d \in Callers : d # c => call'[d] = call[d]
    BY <1>1, PutEffect DEF Sound
  <1>3. queue' \in Seq(Callers)
    BY <1>1 DEF HoldsLock, Release
  <1>4. TypeOK'
    BY <1>1, <1>3, TypeKept
  <1>5. \A d \in Callers : ~At(d, "refreshing")'
    BY <1>2 DEF IInv, OneRefresh, HoldsLock, At
  <1>6. TokenOutlivesCall' /\ AttemptLeft'
    BY <1>2 DEF IInv, TokenOutlivesCall, AttemptLeft, At
  <1> QED
    BY <1>4, <1>5, <1>6 DEF IInv, OneRefresh, RefreshDue

\* Taking one entry out of the queue leaves the others in their order.
LEMMA TakenOut ==
    ASSUME NEW i \in DOMAIN queue, queue \in Seq(Callers),
           queue' = SubSeq(queue, 1, i - 1) \o SubSeq(queue, i + 1, Len(queue))
    PROVE  /\ queue' \in Seq(Callers)
           /\ i # 1 => queue' # <<>> /\ Head(queue') = Head(queue)
  <1>1. i \in 1..Len(queue) /\ Len(queue) \in Nat
    OBVIOUS
  <1> DEFINE u == SubSeq(queue, 1, i - 1)
             v == SubSeq(queue, i + 1, Len(queue))
  <1>2. u \in Seq(Callers) /\ Len(u) = i - 1 /\ (i # 1 => u[1] = queue[1])
    BY <1>1
  <1>3. v \in Seq(Callers)
    BY <1>1
  <1>4. queue' = u \o v
    OBVIOUS
  <1> HIDE DEF u, v
  <1>5. queue' \in Seq(Callers)
    BY <1>2, <1>3, <1>4
  <1>6. ASSUME i # 1 PROVE queue' # <<>> /\ Head(queue') = Head(queue)
    <2>1. Len(u) >= 1 /\ Len(queue) >= 1 /\ queue # <<>>
      BY <1>1, <1>2, <1>6
    <2>2. Len(u \o v) >= 1 /\ (u \o v)[1] = u[1]
      BY <1>2, <1>3, <2>1
    <2> QED
      BY <1>1, <1>2, <1>4, <1>5, <1>6, <2>1, <2>2
  <1> QED
    BY <1>5, <1>6

\* A call that starts with a fresh token ends while the token lives.
LEMMA FreshLasts ==
    ASSUME TypeOK, TokenAssumption, TokenKept, Fresh
    PROVE  token.expiry \in Nat /\ now + CallTime <= token.expiry
  BY Types DEF TokenAssumption, TokenKept, Fresh

-----------------------------------------------------------------------------
LEMMA Initially == Init => IInv
  <1> SUFFICES ASSUME Init PROVE IInv
    OBVIOUS
  <1> USE TokenAssumption
  <1>0. PICK kind \in [Callers -> Kinds] : call = [c \in Callers |-> Idle(kind[c])]
    BY DEF Init
  <1>1. \A k \in Kinds : Idle(k) \in Calls /\ Idle(k).pc = "idle" /\ Idle(k).attempt = 0
    BY DEF Idle, Calls, Stages
  <1>2. \A c \in Callers : call[c] = Idle(kind[c]) /\ kind[c] \in Kinds
    BY <1>0
  <1>3. \A c \in Callers : call[c].pc = "idle" /\ call[c].attempt <= Further(call[c].kind)
    <2> SUFFICES ASSUME NEW c \in Callers
                 PROVE  call[c].pc = "idle" /\ call[c].attempt <= Further(call[c].kind)
      OBVIOUS
    <2>1. call[c].pc = "idle" /\ call[c].attempt = 0
      BY <1>1, <1>2
    <2>2. Further(call[c].kind) \in Nat
      BY FurtherType
    <2> QED
      BY <2>1, <2>2
  <1>4. call \in [Callers -> Calls]
    BY <1>0, <1>1
  <1>5. TypeOK
    BY <1>3, <1>4 DEF Init, TypeOK, Tokens, Calls
  <1> QED
    BY <1>3, <1>5 DEF Init, IInv, OneRefresh, TokenKept, RefreshDue, AttemptLeft, TokenOutlivesCall, At

LEMMA Step == IInv /\ [Next]_vars => IInv'
  <1> SUFFICES ASSUME IInv, [Next]_vars PROVE IInv'
    OBVIOUS
  <1> USE TokenAssumption
  <1>0. TypeOK /\ OneRefresh /\ TokenKept /\ RefreshDue /\ AttemptLeft /\ TokenOutlivesCall
    BY DEF IInv
  <1>t. now \in Nat /\ queue \in Seq(Callers) /\ call \in [Callers -> Calls] /\ token \in Tokens
    BY <1>0, Types DEF TypeOK
  <1>n. RefreshTime \in Nat /\ CallTime \in Nat /\ Lifetime \in Nat /\ Skew \in Nat
    BY DEF TokenAssumption
  <1>1. CASE Tick
    <2>1. TypeOK'
      BY <1>0, <1>1, <1>t DEF Tick, TypeOK, Tokens
    <2>2. OneRefresh' /\ TokenKept' /\ AttemptLeft' /\ TokenOutlivesCall'
      BY <1>0, <1>1 DEF Tick, AttemptLeft, OneRefresh, TokenKept, TokenOutlivesCall, At, HoldsLock
    <2>3. RefreshDue'
      <3> SUFFICES ASSUME NEW c \in Callers, At(c, "refreshing")'
                   PROVE  ~Fresh' /\ now' <= call'[c].until /\ RefreshTime <= call'[c].until
        BY DEF RefreshDue
      <3>1. At(c, "refreshing") /\ call' = call /\ token' = token /\ now' = now + 1
        BY <1>1 DEF Tick, At
      <3>2. ~Fresh /\ RefreshTime <= call[c].until /\ now < call[c].until /\ call[c].until \in Nat
        BY <3>1, <1>0, <1>1, Types DEF RefreshDue, Tick
      <3>3. ~Fresh'
        BY <3>1, <3>2, <1>t, <1>0, Types DEF Fresh
      <3> QED
        BY <3>1, <3>2, <3>3, <1>t
    <2> QED
      BY <2>1, <2>2, <2>3 DEF IInv
  <1>2. CASE \E c \in Callers : Receive(c) \/ Proceed(c)
    <2>0. PICK c \in Callers : Receive(c) \/ Proceed(c)
      BY <1>2
    <2>9. CASE Receive(c)
      <3>1. PICK n \in 0..1 :
              /\ n = 1 => call[c].kind = "speak"
              /\ Put(c, [call[c] EXCEPT !.pc = "ask", !.attempt = n,
                                        !.deadline = IF Timed(call[c].kind) THEN now + RpcTime ELSE 0])
        BY <2>9 DEF Receive, Kind
      <3>2. PICK t \in Nat : Put(c, [call[c] EXCEPT !.pc = "ask", !.attempt = n, !.deadline = t])
        <4>1. now + RpcTime \in Nat /\ 0 \in Nat
          BY <1>t DEF TokenAssumption
        <4> QED
          BY <3>1, <4>1
      <3> DEFINE r == [call[c] EXCEPT !.pc = "ask", !.attempt = n, !.deadline = t]
      <3>3. n \in Nat /\ n <= Further(call[c].kind)
        <4>1. Further(call[c].kind) \in Nat /\ (call[c].kind = "speak" => Further(call[c].kind) = 1)
          BY FurtherType DEF Further
        <4> QED
          BY <3>1, <4>1
      <3>4. Sound(r) /\ r.pc = "ask"
        BY <3>3, <1>0, Types DEF Calls, Stages, Sound
      <3> HIDE DEF r
      <3>5. Put(c, r)
        BY <3>2 DEF r
      <3> QED
        BY <2>9, <3>4, <3>5, QuietMove DEF Receive
    <2>1. CASE UseCached(c)
      <3>1. token.expiry \in Nat /\ now + CallTime <= token.expiry
        BY <2>1, <1>0, FreshLasts DEF UseCached
      <3> QED
        BY <2>1, <3>1, <1>0, StartRecord, QuietMove, ZenonT(60) DEF UseCached, Start
    <2>2. CASE Enqueue(c)
      <3> DEFINE r == [call[c] EXCEPT !.pc = "waiting"]
      <3>1. Sound(r) /\ r \in Calls /\ r.pc = "waiting"
        BY <1>0, PcRecord DEF Stages, Sound
      <3>2. /\ call' \in [Callers -> Calls] /\ call'[c] = r
            /\ \A d \in Callers : d # c => call'[d] = call[d]
        BY <2>2, <3>1, <1>t, PutEffect DEF Enqueue
      <3>3. queue' \in Seq(Callers) /\ (queue # <<>> => queue' # <<>> /\ Head(queue') = Head(queue))
        BY <2>2, <1>t, AppendProperties DEF Enqueue
      <3>4. now' = now /\ token' = token /\ config' = config
        BY <2>2 DEF Enqueue
      <3>5. TypeOK'
        BY <2>2, <3>1, <3>3, <3>4, <1>0, <1>t, TypeKept DEF Enqueue
      <3>6. \A d \in Callers, pc \in {"refreshing", "calling", "pausing"} :
              At(d, pc)' => At(d, pc) /\ call'[d] = call[d]
        BY <3>1, <3>2 DEF At
      <3>7. OneRefresh'
        BY <3>3, <3>6, <1>0 DEF OneRefresh, HoldsLock
      <3>8. RefreshDue' /\ AttemptLeft' /\ TokenOutlivesCall' /\ TokenKept'
        BY <3>4, <3>6, <1>0 DEF RefreshDue, AttemptLeft, TokenOutlivesCall, TokenKept, Fresh
      <3> QED
        BY <3>5, <3>7, <3>8 DEF IInv
    <2>3. CASE Recheck(c)
      <3>1. CASE Fresh /\ Start(c, token.expiry, TRUE) /\ Release
        <4>1. token.expiry \in Nat /\ now + CallTime <= token.expiry
          BY <3>1, <1>0, FreshLasts
        <4>2. token' \in Tokens /\ TokenKept' /\ now' = now /\ config' = config
          BY <2>3, <1>0, <1>t DEF Recheck, TokenKept
        <4> QED
          BY <2>3, <3>1, <4>1, <4>2, <1>0, StartRecord, ReleaseMove DEF Recheck, Start
      <3>2. CASE /\ ~Fresh
                 /\ Put(c, [call[c] EXCEPT !.pc = "refreshing", !.until = now + RefreshTime])
                 /\ UNCHANGED queue
        <4> DEFINE r == [call[c] EXCEPT !.pc = "refreshing", !.until = now + RefreshTime]
        <4>1. Sound(r) /\ r \in Calls /\ r.pc = "refreshing" /\ r.until = now + RefreshTime
          <5>1. now + RefreshTime \in Nat
            BY <1>t, <1>n
          <5> QED
            BY <5>1, <1>0, Types DEF Calls, Stages, Sound
        <4>2. /\ call' \in [Callers -> Calls] /\ call'[c] = r
              /\ \A d \in Callers : d # c => call'[d] = call[d]
          BY <3>2, <4>1, <1>t, PutEffect
        <4>3. now' = now /\ token' = token /\ config' = config /\ queue' = queue
          BY <2>3, <3>2 DEF Recheck
        <4>4. TypeOK'
          BY <3>2, <4>1, <4>3, <1>0, <1>t, TypeKept
        <4>5. OneRefresh'
          BY <2>3, <4>2, <4>3, <1>0 DEF Recheck, OneRefresh, HoldsLock, At
        <4>6. RefreshDue'
          <5> SUFFICES ASSUME NEW d \in Callers, At(d, "refreshing")'
                       PROVE  ~Fresh' /\ now' <= call'[d].until /\ RefreshTime <= call'[d].until
            BY DEF RefreshDue
          <5>1. ~Fresh'
            BY <3>2, <4>3 DEF Fresh
          <5>2. CASE d = c
            BY <5>1, <5>2, <4>1, <4>2, <4>3, <1>t, <1>n
          <5>3. CASE d # c
            BY <5>1, <5>3, <4>2, <4>3, <1>0 DEF RefreshDue, At
          <5> QED
            BY <5>2, <5>3
        <4>7. TokenOutlivesCall' /\ AttemptLeft' /\ TokenKept'
          BY <4>1, <4>2, <4>3, <1>0 DEF AttemptLeft, TokenOutlivesCall, TokenKept, At
        <4> QED
          BY <4>4, <4>5, <4>6, <4>7 DEF IInv
      <3> QED
        BY <2>3, <3>1, <3>2 DEF Recheck
    <2>4. CASE Refreshed(c)
      <3>1. PICK minted \in (call[c].until - RefreshTime)..now :
              /\ token' = [expiry |-> minted + Lifetime,
                           renew |-> now + (IF Lifetime > Skew THEN Lifetime - Skew ELSE 0)]
              /\ Start(c, minted + Lifetime, TRUE)
        BY <2>4 DEF Refreshed
      <3>2. HoldsLock(c) /\ now <= call[c].until /\ RefreshTime <= call[c].until
        BY <2>4, <1>0 DEF Refreshed, OneRefresh, RefreshDue
      <3>3. minted \in Nat /\ now <= minted + RefreshTime
        BY <3>2, <1>0, <1>t, <1>n, Types
      <3>4. minted + Lifetime \in Nat /\ now + CallTime <= minted + Lifetime
        BY <3>3, <1>t, <1>n DEF TokenAssumption
      <3>5. now + (IF Lifetime > Skew THEN Lifetime - Skew ELSE 0) \in Nat
        BY <1>t, <1>n
      <3>6. now + (IF Lifetime > Skew THEN Lifetime - Skew ELSE 0) + CallTime <= minted + Lifetime
        BY <3>3, <1>t, <1>n DEF TokenAssumption
      <3>7. token' \in Tokens
        BY <3>1, <3>4, <3>5 DEF Tokens
      <3>8. TokenKept'
        BY <3>1, <3>6 DEF TokenKept
      <3> QED
        BY <2>4, <3>1, <3>2, <3>4, <3>7, <3>8, <1>0, StartRecord, ReleaseMove, ZenonT(30)
        DEF Refreshed, Start
    <2>5. CASE RefreshFails(c)
      <3>1. HoldsLock(c)
        BY <2>5, <1>0 DEF RefreshFails, OneRefresh
      <3>2. token' \in Tokens /\ TokenKept' /\ now' = now /\ config' = config /\ Release
        BY <2>5, <1>0, <1>t DEF RefreshFails, TokenKept
      <3>3. CASE token # NoToken /\ Start(c, token.expiry, FALSE)
        BY <3>1, <3>2, <3>3, <1>0, Types, StartRecord, ReleaseMove DEF Start
      <3>4. CASE Start(c, 0, FALSE)
        BY <3>1, <3>2, <3>4, <1>0, StartRecord, ReleaseMove DEF Start
      <3>5. CASE Ended(c, "lost") \/ Ended(c, "raised")
        <4>1. PICK r : /\ Sound(r) /\ Put(c, r)
                       /\ r.pc # "refreshing" /\ r.pc # "calling"
                       /\ r.pc = "pausing" => r.attempt < Further(r.kind)
          BY <3>5, <1>0, EndedRecord
        <4> QED
          BY <3>1, <3>2, <4>1, ReleaseMove
      <3> QED
        BY <2>5, <3>3, <3>4, <3>5 DEF RefreshFails
    <2>6. CASE Replied(c)
      <3>1. PICK r : /\ Sound(r) /\ Put(c, r)
                     /\ r.pc # "refreshing" /\ r.pc # "calling"
                     /\ r.pc = "pausing" => r.attempt < Further(r.kind)
        BY <2>6, <1>0, EndedRecord DEF Replied
      <3> QED
        BY <2>6, <3>1, QuietMove DEF Replied
    <2>7. CASE NextAttempt(c)
      <3>1. call[c].attempt + 1 \in Nat /\ call[c].attempt + 1 <= Further(call[c].kind)
        BY <2>7, <1>0, Types, FurtherType DEF NextAttempt, AttemptLeft
      <3> DEFINE r == Left(c, "ask", call[c].attempt + 1)
      <3>2. Sound(r) /\ r.pc = "ask"
        BY <3>1, <1>0, LeaveRecord DEF Stages
      <3>3. Put(c, r)
        BY <2>7 DEF NextAttempt, Leave, Left
      <3> HIDE DEF r
      <3> QED
        BY <2>7, <3>2, <3>3, QuietMove DEF NextAttempt
    <2>8. CASE NoCredentials(c)
      <3>1. CASE Start(c, 0, FALSE)
        BY <2>8, <3>1, <1>0, StartRecord, QuietMove DEF NoCredentials, Start
      <3>2. CASE Ended(c, "raised")
        <4>1. PICK r : /\ Sound(r) /\ Put(c, r)
                       /\ r.pc # "refreshing" /\ r.pc # "calling"
                       /\ r.pc = "pausing" => r.attempt < Further(r.kind)
          BY <3>2, <1>0, EndedRecord
        <4> QED
          BY <2>8, <4>1, QuietMove DEF NoCredentials
      <3> QED
        BY <2>8, <3>1, <3>2 DEF NoCredentials
    <2>a. CASE Cancelled(c)
      <3>1. PICK pc \in {"done", "failed"} : Put(c, Left(c, pc, call[c].attempt))
        BY <2>a DEF Cancelled, Leave, Left
      <3>2. call[c].attempt \in Nat /\ call[c].attempt <= Further(call[c].kind)
        BY <1>0, Types DEF Sound
      <3> DEFINE r == Left(c, pc, call[c].attempt)
      <3>3. Sound(r) /\ r \in Calls /\ r.pc = pc
        BY <3>2, <1>0, LeaveRecord DEF Stages, Sound
      <3>4. Put(c, r)
        BY <3>1
      <3> HIDE DEF r
      <3>5. /\ call' \in [Callers -> Calls] /\ call'[c] = r
            /\ \A d \in Callers : d # c => call'[d] = call[d]
        BY <3>3, <3>4, <1>t, PutEffect
      <3>6. now' = now /\ token' = token /\ config' = config
        BY <2>a DEF Cancelled
      <3>7. /\ queue' \in Seq(Callers)
            /\ queue # <<>> /\ Head(queue) # c => queue' # <<>> /\ Head(queue') = Head(queue)
        <4>1. CASE UNCHANGED queue
          BY <4>1, <1>t
        <4>2. ASSUME NEW i \in DOMAIN queue, queue[i] = c,
                     queue' = SubSeq(queue, 1, i - 1) \o SubSeq(queue, i + 1, Len(queue))
              PROVE  <3>7!:
          <5>1. queue' \in Seq(Callers) /\ (i # 1 => queue' # <<>> /\ Head(queue') = Head(queue))
            BY <4>2, <1>t, TakenOut
          <5>2. queue # <<>> /\ Head(queue) # c => i # 1
            BY <4>2, <1>t
          <5> QED
            BY <5>1, <5>2
        <4> QED
          BY <2>a, <4>1, <4>2 DEF Cancelled
      <3>8. TypeOK'
        BY <3>3, <3>4, <3>6, <3>7, <1>0, <1>t, TypeKept
      <3>9. \A d \in Callers, s \in {"refreshing", "calling", "pausing"} :
              At(d, s)' => At(d, s) /\ d # c /\ call'[d] = call[d]
        BY <3>3, <3>5 DEF At
      <3>10. OneRefresh'
        BY <3>7, <3>9, <1>0 DEF OneRefresh, HoldsLock
      <3>11. RefreshDue' /\ AttemptLeft' /\ TokenOutlivesCall' /\ TokenKept'
        BY <3>6, <3>9, <1>0 DEF RefreshDue, AttemptLeft, TokenOutlivesCall, TokenKept, Fresh
      <3> QED
        BY <3>8, <3>10, <3>11 DEF IInv
    <2> QED
      BY <2>0, <2>1, <2>2, <2>3, <2>4, <2>5, <2>6, <2>7, <2>8, <2>9, <2>a DEF Proceed
  <1>3. CASE UNCHANGED vars
    BY <1>0, <1>3, <1>t DEF vars, IInv, TypeOK, Tokens, OneRefresh, TokenKept, RefreshDue,
       AttemptLeft, TokenOutlivesCall, At, HoldsLock, Fresh
  <1> QED
    BY <1>1, <1>2, <1>3 DEF Next

\* The inductive invariant holds throughout.
THEOREM Inductive == Spec => []IInv
  BY Initially, Step, PTL DEF Spec

\* Every part of the state keeps its type; no caller makes more attempts than
\* it has.
THEOREM TypeCorrect == Spec => []TypeOK
  <1>1. IInv => TypeOK
    BY DEF IInv
  <1> QED
    BY <1>1, Inductive, PTL

\* However many callers find the token due, one of them refreshes it at a time.
THEOREM SingleRefresh == Spec => []OneRefresh
  <1>1. IInv => OneRefresh
    BY DEF IInv
  <1> QED
    BY <1>1, Inductive, PTL

\* The margin covers a refresh and a call: no call outlives a token it was
\* sure of.
THEOREM MarginSuffices == Spec => []TokenOutlivesCall
  <1>1. IInv => TokenOutlivesCall
    BY DEF IInv
  <1> QED
    BY <1>1, Inductive, PTL

\* A token is replaced only when it is due: waiting for the lock never leads to
\* a second refresh.
THEOREM NoIdleRefresh == Spec => OneMintPerPeriod
  <1> DEFINE A == token' # token /\ token # NoToken => token.renew <= now
  <1>1. IInv /\ [Next]_vars => [A]_vars
    <2> SUFFICES ASSUME IInv, Next, token' # token, token # NoToken
                 PROVE  token.renew <= now
      OBVIOUS
    <2>1. PICK c \in Callers : Refreshed(c)
      BY DEF Next, Tick, Receive, Proceed, UseCached, NoCredentials, Enqueue, Recheck, RefreshFails,
         Replied, NextAttempt, Cancelled
    <2>2. ~Fresh
      BY <2>1 DEF IInv, Refreshed, RefreshDue
    <2> QED
      BY <2>2, Types DEF IInv, Fresh
  <1> QED
    BY <1>1, Inductive, PTL DEF Spec, OneMintPerPeriod

-----------------------------------------------------------------------------
(* The service that get_access_token is.                                  *)

\* Nothing is refreshed, and nothing cached, without credentials.
CredsUsed ==
    /\ token # NoToken => config.creds
    /\ \A c \in Callers : At(c, "waiting") \/ At(c, "refreshing") => config.creds

LEMMA CallMoved ==
    ASSUME IInv, CredsUsed, NEW c \in Callers, NEW r, Sound(r), Put(c, r),
           config' = config, token' = token \/ config.creds,
           r.pc = "waiting" \/ r.pc = "refreshing" => config.creds
    PROVE  CredsUsed'
  <1>1. /\ call' \in [Callers -> Calls] /\ call'[c] = r
        /\ \A d \in Callers : d # c => call'[d] = call[d]
    BY Types, PutEffect DEF IInv, Sound
  <1> QED
    BY <1>1 DEF CredsUsed, At

\* The record a request starts with.
Started(c, expiry, sure) ==
    [call[c] EXCEPT !.pc = "calling", !.expiry = expiry, !.until = now + CallTime, !.sure = sure]

LEMMA StartedRecord ==
    ASSUME TypeOK, NEW c \in Callers, NEW expiry \in Nat, NEW sure \in BOOLEAN, Start(c, expiry, sure)
    PROVE  /\ Sound(Started(c, expiry, sure)) /\ Put(c, Started(c, expiry, sure))
           /\ Started(c, expiry, sure).pc = "calling"
           /\ Started(c, expiry, sure).expiry = expiry /\ Started(c, expiry, sure).sure = sure
  <1>1. now + CallTime \in Nat
    BY Types, TokenAssumption DEF TokenAssumption
  <1>2. call[c] \in Calls /\ call[c].attempt <= Further(call[c].kind)
    BY Types DEF Sound
  <1>3. Put(c, Started(c, expiry, sure))
    BY DEF Start, Started
  <1> QED
    BY <1>1, <1>2, <1>3 DEF Calls, Stages, Sound, Started

\* What each action makes of the call whose step it is: it starts a request,
\* with what it has been given, or moves on without one.
Begins(c) ==
    \E expiry \in Nat, sure \in BOOLEAN :
      /\ call[c].pc \in {"ask", "waiting", "refreshing"}
      /\ Start(c, expiry, sure)

MovesOn(c) ==
    \E r : /\ Sound(r) /\ Put(c, r) /\ r.pc # "calling"
           /\ r.pc = "waiting" \/ r.pc = "refreshing" =>
                config.creds

LEMMA EndedMoves ==
    ASSUME IInv, NEW c \in Callers, NEW o, Ended(c, o)
    PROVE  MovesOn(c)
  <1>1. ASSUME NEW pc \in {"pausing", "ask", "done", "failed"}, NEW n \in Nat,
               n <= Further(call[c].kind), Leave(c, pc, n)
        PROVE  MovesOn(c)
    <2>1. Sound(Left(c, pc, n)) /\ Left(c, pc, n).pc = pc
      BY <1>1, LeaveRecord DEF Stages, IInv
    <2>2. Put(c, Left(c, pc, n))
      BY <1>1 DEF Leave, Left
    <2> QED
      BY <2>1, <2>2 DEF MovesOn
  <1>2. /\ call[c].attempt \in Nat /\ call[c].attempt + 1 \in Nat
        /\ call[c].attempt <= Further(call[c].kind) /\ Further(call[c].kind) \in Nat
    BY Types, FurtherType, TokenAssumption DEF Sound, IInv
  <1>3. GoesOn(c, o) => call[c].attempt + 1 <= Further(call[c].kind)
    BY <1>2 DEF GoesOn
  <1> QED
    BY <1>1, <1>2, <1>3 DEF Ended

LEMMA ReceiveMoves ==
    ASSUME IInv, NEW c \in Callers, Receive(c)
    PROVE  MovesOn(c)
  <1>1. PICK n \in 0..1 :
          /\ n = 1 => call[c].kind = "speak"
          /\ Put(c, [call[c] EXCEPT !.pc = "ask", !.attempt = n,
                                    !.deadline = IF Timed(call[c].kind) THEN now + RpcTime ELSE 0])
    BY DEF Receive, Kind
  <1>2. PICK t \in Nat : Put(c, [call[c] EXCEPT !.pc = "ask", !.attempt = n, !.deadline = t])
    <2>1. now + RpcTime \in Nat /\ 0 \in Nat
      BY Types, TokenAssumption DEF IInv, TokenAssumption
    <2> QED
      BY <1>1, <2>1
  <1> DEFINE r == [call[c] EXCEPT !.pc = "ask", !.attempt = n, !.deadline = t]
  <1>3. n \in Nat /\ n <= Further(call[c].kind)
    <2>1. Further(call[c].kind) \in Nat /\ (call[c].kind = "speak" => Further(call[c].kind) = 1)
      BY FurtherType, TokenAssumption DEF Further
    <2> QED
      BY <1>1, <2>1
  <1>4. Sound(r) /\ r.pc = "ask"
    BY <1>3, Types DEF Calls, Stages, Sound, IInv
  <1> HIDE DEF r
  <1>5. Put(c, r)
    BY <1>2 DEF r
  <1> QED
    BY <1>4, <1>5 DEF MovesOn

\* The steps that start no request, nor touch the token.
Onward(c) ==
    \/ Receive(c) \/ Enqueue(c) \/ Replied(c) \/ NextAttempt(c) \/ Cancelled(c)
    \/ NoCredentials(c) /\ Ended(c, "raised")
    \/ Recheck(c) /\ ~Fresh
    \/ RefreshFails(c) /\ (Ended(c, "lost") \/ Ended(c, "raised"))

LEMMA OnwardMoves ==
    ASSUME IInv, CredsUsed, NEW c \in Callers, Onward(c)
    PROVE  MovesOn(c) /\ UNCHANGED <<now, config, token>>
  <1>0. TypeOK
    BY DEF IInv
  <1>1. UNCHANGED <<now, config, token>>
    BY DEF Onward, Receive, Enqueue, Replied, NextAttempt, Cancelled, NoCredentials, Recheck, RefreshFails
  <1> SUFFICES MovesOn(c)
    BY <1>1
  <1>2. CASE Receive(c)
    BY <1>2, ReceiveMoves
  <1>3. CASE Enqueue(c)
    <2>1. Sound([call[c] EXCEPT !.pc = "waiting"]) /\ [call[c] EXCEPT !.pc = "waiting"].pc = "waiting"
      BY <1>0, PcRecord DEF Stages
    <2> QED
      BY <1>3, <2>1 DEF Enqueue, MovesOn
  <1>4. CASE Replied(c)
    BY <1>4, EndedMoves DEF Replied
  <1>5. CASE NextAttempt(c)
    <2>1. call[c].attempt + 1 \in Nat /\ call[c].attempt + 1 <= Further(call[c].kind)
      BY <1>5, Types, FurtherType, TokenAssumption DEF NextAttempt, AttemptLeft, IInv
    <2>2. Sound(Left(c, "ask", call[c].attempt + 1)) /\ Left(c, "ask", call[c].attempt + 1).pc = "ask"
      BY <1>0, <2>1, LeaveRecord DEF Stages
    <2>3. Put(c, Left(c, "ask", call[c].attempt + 1))
      BY <1>5 DEF NextAttempt, Leave, Left
    <2> QED
      BY <2>2, <2>3 DEF MovesOn
  <1>6. CASE Cancelled(c)
    <2>1. PICK pc \in {"done", "failed"} : Put(c, Left(c, pc, call[c].attempt))
      BY <1>6 DEF Cancelled, Leave, Left
    <2>2. call[c].attempt \in Nat /\ call[c].attempt <= Further(call[c].kind)
      BY <1>0, Types DEF Sound
    <2>3. Sound(Left(c, pc, call[c].attempt)) /\ Left(c, pc, call[c].attempt).pc = pc
      BY <1>0, <2>2, LeaveRecord DEF Stages
    <2> QED
      BY <2>1, <2>3 DEF MovesOn
  <1>7. CASE NoCredentials(c) /\ Ended(c, "raised")
    BY <1>7, EndedMoves
  <1>8. CASE Recheck(c) /\ ~Fresh
    <2> DEFINE r == [call[c] EXCEPT !.pc = "refreshing", !.until = now + RefreshTime]
    <2>1. now + RefreshTime \in Nat
      BY <1>0, Types, TokenAssumption DEF TokenAssumption
    <2>2. Sound(r) /\ r.pc = "refreshing"
      BY <2>1, <1>0, Types DEF Calls, Stages, Sound
    <2>3. Put(c, r)
      BY <1>8 DEF Recheck
    <2>4. config.creds
      BY <1>8 DEF Recheck, CredsUsed
    <2> HIDE DEF r
    <2> QED
      BY <2>2, <2>3, <2>4 DEF MovesOn
  <1>9. CASE RefreshFails(c) /\ (Ended(c, "lost") \/ Ended(c, "raised"))
    BY <1>9, EndedMoves
  <1> QED
    BY <1>1, <1>2, <1>3, <1>4, <1>5, <1>6, <1>7, <1>8, <1>9 DEF Onward

\* Every step of a call is one of these, or gives it a token.
LEMMA StepKinds ==
    ASSUME NEW c \in Callers, Receive(c) \/ Proceed(c)
    PROVE  \/ Onward(c)
           \/ UseCached(c)
           \/ NoCredentials(c) /\ Start(c, 0, FALSE) /\ config.static
           \/ Recheck(c) /\ Fresh /\ Start(c, token.expiry, TRUE)
           \/ Refreshed(c)
           \/ RefreshFails(c) /\ token # NoToken /\ Start(c, token.expiry, FALSE)
           \/ RefreshFails(c) /\ token = NoToken /\ config.static /\ Start(c, 0, FALSE)
  BY DEF Onward, Proceed, NoCredentials, Recheck, RefreshFails

\* What a new token is worth.
LEMMA Minted ==
    ASSUME IInv, NEW c \in Callers, Refreshed(c)
    PROVE  \E minted \in 0..now :
             /\ now - RefreshTime <= minted /\ minted + Lifetime \in Nat
             /\ token' = [expiry |-> minted + Lifetime,
                          renew |-> now + (IF Lifetime > Skew THEN Lifetime - Skew ELSE 0)]
             /\ Start(c, minted + Lifetime, TRUE)
  <1>1. PICK minted \in (call[c].until - RefreshTime)..now :
          /\ token' = [expiry |-> minted + Lifetime,
                       renew |-> now + (IF Lifetime > Skew THEN Lifetime - Skew ELSE 0)]
          /\ Start(c, minted + Lifetime, TRUE)
    BY DEF Refreshed
  <1>2. now <= call[c].until /\ RefreshTime <= call[c].until
    BY DEF IInv, Refreshed, RefreshDue
  <1>3. now \in Nat /\ call[c].until \in Nat /\ RefreshTime \in Nat /\ Lifetime \in Nat
    BY Types, TokenAssumption DEF IInv, TokenAssumption
  <1>4. minted \in 0..now /\ now - RefreshTime <= minted /\ minted + Lifetime \in Nat
    BY <1>2, <1>3
  <1> QED
    BY <1>1, <1>4

LEMMA Begun ==
    ASSUME IInv, NEW c \in Callers,
           \/ UseCached(c)
           \/ NoCredentials(c) /\ Start(c, 0, FALSE)
           \/ Recheck(c) /\ Fresh /\ Start(c, token.expiry, TRUE)
           \/ Refreshed(c)
           \/ RefreshFails(c) /\ token # NoToken /\ Start(c, token.expiry, FALSE)
           \/ RefreshFails(c) /\ Start(c, 0, FALSE)
    PROVE  Begins(c)
  <1>1. token # NoToken => token.expiry \in Nat
    BY Types DEF IInv
  <1>2. call[c].pc \in {"ask", "waiting", "refreshing"}
    BY DEF UseCached, NoCredentials, Recheck, Refreshed, RefreshFails, At
  <1>3. \E expiry \in Nat, sure \in BOOLEAN : Start(c, expiry, sure)
    <2>1. CASE UseCached(c)
      BY <1>1, <2>1 DEF UseCached, Fresh
    <2>2. CASE Start(c, 0, FALSE)
      BY <2>2
    <2>3. CASE Fresh /\ Start(c, token.expiry, TRUE)
      BY <1>1, <2>3 DEF Fresh
    <2>4. CASE Refreshed(c)
      BY <2>4, Minted
    <2>5. CASE token # NoToken /\ Start(c, token.expiry, FALSE)
      BY <1>1, <2>5
    <2> QED
      BY <2>1, <2>2, <2>3, <2>4, <2>5
  <1> QED
    BY <1>2, <1>3 DEF Begins

LEMMA CredsStay == IInv /\ CredsUsed /\ [Next]_vars => CredsUsed'
  <1> SUFFICES ASSUME IInv, CredsUsed, [Next]_vars PROVE CredsUsed'
    OBVIOUS
  <1>1. CASE Tick \/ UNCHANGED vars
    BY <1>1 DEF Tick, vars, CredsUsed, At
  <1>2. ASSUME NEW c \in Callers, Receive(c) \/ Proceed(c) PROVE CredsUsed'
    <2>1. CASE Onward(c)
      BY <2>1, OnwardMoves, CallMoved DEF MovesOn
    <2>2. CASE ~Onward(c)
      <3>1. Begins(c)
        BY <1>2, <2>2, StepKinds, Begun
      <3>2. PICK expiry \in Nat, sure \in BOOLEAN : Start(c, expiry, sure)
        BY <3>1 DEF Begins
      <3>3. Sound(Started(c, expiry, sure)) /\ Put(c, Started(c, expiry, sure))
            /\ Started(c, expiry, sure).pc = "calling"
        BY <3>2, StartedRecord DEF IInv
      <3>4. config' = config
        BY <1>2, <2>2, StepKinds DEF UseCached, NoCredentials, Recheck, Refreshed, RefreshFails
      <3>5. token' = token \/ config.creds
        BY <1>2, <2>2, StepKinds DEF UseCached, NoCredentials, Recheck, Refreshed, RefreshFails, CredsUsed
      <3> QED
        BY <3>3, <3>4, <3>5, CallMoved
    <2> QED
      BY <2>1, <2>2
  <1> QED
    BY <1>1, <1>2 DEF Next

-----------------------------------------------------------------------------
(* Step by step.                                                           *)

LEMMA Viewed ==
    ASSUME call \in [Callers -> Calls], NEW c \in Callers, NEW r \in Calls, Put(c, r)
    PROVE  /\ standings[c] = Standing(call[c]) /\ holdings[c] = Holding(call[c])
           /\ standings' = [standings EXCEPT ![c] = Standing(r)]
           /\ holdings' = [holdings EXCEPT ![c] = Holding(r)]
  <1>1. call' = [call EXCEPT ![c] = r]
    BY DEF Put
  <1> QED
    BY <1>1 DEF standings, holdings

\* A call that starts a request has been given its token.
LEMMA StartObtains ==
    ASSUME IInv, NEW c \in Callers, NEW expiry \in Nat, NEW sure \in BOOLEAN,
           call[c].pc \in {"ask", "waiting", "refreshing"}, Start(c, expiry, sure)
    PROVE  Service!Obtain(c, expiry, sure)
  <1> DEFINE r == Started(c, expiry, sure)
  <1>1. Sound(r) /\ Put(c, r) /\ r.pc = "calling" /\ r.expiry = expiry /\ r.sure = sure
    BY StartedRecord DEF IInv
  <1> HIDE DEF r
  <1>2. Standing(r) = "using" /\ Holding(r) = [expiry |-> expiry, sure |-> sure]
    BY <1>1 DEF Standing, Holding
  <1>3. Standing(call[c]) = "asking"
    BY DEF Standing
  <1> QED
    BY <1>1, <1>2, <1>3, Viewed, Types DEF Service!Obtain, IInv, Sound

\* One that does not asks, gives up, is done, or stays where it was.
LEMMA MoveRefines ==
    ASSUME IInv, NEW c \in Callers, MovesOn(c), UNCHANGED <<now, config, token>>
    PROVE  \/ Service!Ask(c) \/ Service!GiveUp(c) \/ Service!Finish(c)
           \/ UNCHANGED Service!serviceVars
  <1>1. PICK r : Sound(r) /\ Put(c, r) /\ r.pc # "calling"
    BY DEF MovesOn
  <1>2. /\ standings[c] = Standing(call[c]) /\ holdings[c] = Holding(call[c])
        /\ standings' = [standings EXCEPT ![c] = Standing(r)]
        /\ holdings' = [holdings EXCEPT ![c] = Holding(r)]
    BY <1>1, Viewed, Types DEF IInv, Sound
  <1>3. Holding(r) = Service!Nothing /\ Standing(r) \in {"asking", "away"}
    BY <1>1 DEF Holding, Standing, Service!Nothing
  <1>4. standings = [standings EXCEPT ![c] = standings[c]] /\ holdings = [holdings EXCEPT ![c] = holdings[c]]
    BY DEF standings, holdings
  <1>5. CASE call[c].pc = "calling"
    <2>1. standings[c] = "using"
      BY <1>2, <1>5 DEF Standing
    <2> QED
      BY <1>2, <1>3, <2>1 DEF Service!Finish
  <1>6. CASE call[c].pc # "calling"
    <2>1. holdings' = holdings
      BY <1>2, <1>3, <1>4, <1>6 DEF Holding, Service!Nothing
    <2>2. standings[c] \in {"asking", "away"}
      BY <1>2, <1>6 DEF Standing
    <2>3. CASE Standing(r) = standings[c]
      <3>1. standings' = standings
        BY <1>2, <1>4, <2>3
      <3> QED
        BY <2>1, <3>1 DEF Service!serviceVars
    <2>4. CASE Standing(r) = "asking" /\ standings[c] = "away"
      BY <1>2, <2>1, <2>4 DEF Service!Ask
    <2>5. CASE Standing(r) = "away" /\ standings[c] = "asking"
      BY <1>2, <2>1, <2>5 DEF Service!GiveUp
    <2> QED
      BY <1>3, <2>2, <2>3, <2>4, <2>5
  <1> QED
    BY <1>5, <1>6

LEMMA TokenRefines ==
    ASSUME IInv, CredsUsed, NEW c \in Callers, ~Onward(c), Proceed(c) \/ Receive(c)
    PROVE  Service!Get(c) \/ Service!Mint(c) \/ Service!Reuse(c) \/ Service!FallBack(c)
  <1>0. Fresh <=> Service!IsFresh
    BY DEF Fresh, Service!IsFresh
  <1>1. token # NoToken => token.expiry \in Nat
    BY Types DEF IInv
  <1>2. CASE UseCached(c) \/ (Recheck(c) /\ Fresh /\ Start(c, token.expiry, TRUE))
    <2>1. /\ call[c].pc \in {"ask", "waiting", "refreshing"}
          /\ Fresh /\ Start(c, token.expiry, TRUE) /\ UNCHANGED <<now, config, token>>
      BY <1>2 DEF UseCached, Recheck, At
    <2>2. Service!Obtain(c, token.expiry, TRUE)
      BY <1>1, <2>1, StartObtains DEF Fresh
    <2> QED
      BY <1>0, <2>1, <2>2 DEF Service!Get
  <1>3. CASE NoCredentials(c) /\ Start(c, 0, FALSE) /\ config.static
    <2>1. /\ call[c].pc \in {"ask", "waiting", "refreshing"} /\ token = NoToken
          /\ UNCHANGED <<now, config, token>>
      BY <1>3 DEF NoCredentials, At, CredsUsed
    <2>2. Service!Obtain(c, 0, FALSE)
      BY <1>3, <2>1, StartObtains
    <2> QED
      BY <1>3, <2>1, <2>2 DEF Service!FallBack
  <1>4. CASE Refreshed(c)
    <2>1. /\ call[c].pc \in {"ask", "waiting", "refreshing"} /\ ~Fresh /\ config.creds
          /\ UNCHANGED <<now, config>>
      BY <1>4 DEF Refreshed, At, CredsUsed, IInv, RefreshDue
    <2>2. PICK minted \in 0..now :
            /\ now - RefreshTime <= minted /\ minted + Lifetime \in Nat
            /\ token' = [expiry |-> minted + Lifetime,
                         renew |-> now + (IF Lifetime > Skew THEN Lifetime - Skew ELSE 0)]
            /\ Start(c, minted + Lifetime, TRUE)
      BY <1>4, Minted
    <2>3. Service!Obtain(c, minted + Lifetime, TRUE)
      BY <2>1, <2>2, StartObtains
    <2> QED
      BY <1>0, <2>1, <2>2, <2>3 DEF Service!Mint
  <1>5. CASE RefreshFails(c) /\ token # NoToken /\ Start(c, token.expiry, FALSE)
    <2>1. /\ call[c].pc \in {"ask", "waiting", "refreshing"} /\ ~Fresh /\ config.creds
          /\ UNCHANGED <<now, config, token>>
      BY <1>5 DEF RefreshFails, At, CredsUsed, IInv, RefreshDue
    <2>2. Service!Obtain(c, token.expiry, FALSE)
      BY <1>1, <1>5, <2>1, StartObtains
    <2> QED
      BY <1>0, <1>5, <2>1, <2>2 DEF Service!Reuse
  <1>6. CASE RefreshFails(c) /\ token = NoToken /\ config.static /\ Start(c, 0, FALSE)
    <2>1. /\ call[c].pc \in {"ask", "waiting", "refreshing"}
          /\ UNCHANGED <<now, config, token>>
      BY <1>6 DEF RefreshFails, At
    <2>2. Service!Obtain(c, 0, FALSE)
      BY <1>6, <2>1, StartObtains
    <2> QED
      BY <1>6, <2>1, <2>2 DEF Service!FallBack
  <1> QED
    BY <1>2, <1>3, <1>4, <1>5, <1>6, StepKinds

LEMMA ServiceSteps ==
    IInv /\ CredsUsed /\ [Next]_vars => [Service!ServiceNext]_(Service!serviceVars)
  <1> SUFFICES ASSUME IInv, CredsUsed, [Next]_vars
               PROVE  Service!ServiceNext \/ UNCHANGED Service!serviceVars
    OBVIOUS
  <1>1. CASE Tick
    <2>1. Service!Pass
      BY <1>1 DEF Tick, Service!Pass, standings, holdings
    <2> QED
      BY <2>1 DEF Service!ServiceNext
  <1>2. ASSUME NEW c \in Callers, Receive(c) \/ Proceed(c)
        PROVE  Service!ServiceNext \/ UNCHANGED Service!serviceVars
    <2>1. CASE Onward(c)
      BY <2>1, OnwardMoves, MoveRefines DEF Service!ServiceNext
    <2>2. CASE ~Onward(c)
      BY <1>2, <2>2, TokenRefines DEF Service!ServiceNext
    <2> QED
      BY <2>1, <2>2
  <1>3. CASE UNCHANGED vars
    BY <1>3 DEF vars, Service!serviceVars, standings, holdings
  <1> QED
    BY <1>1, <1>2, <1>3 DEF Next

LEMMA ServiceStarts == Init => CredsUsed /\ Service!ServiceInit
  <1> SUFFICES ASSUME Init PROVE CredsUsed /\ Service!ServiceInit
    OBVIOUS
  <1>1. PICK kind \in [Callers -> Kinds] : call = [c \in Callers |-> Idle(kind[c])]
    BY DEF Init
  <1>2. \A c \in Callers : call[c].pc = "idle"
    BY <1>1 DEF Idle
  <1>3. standings = [c \in Callers |-> "away"] /\ holdings = [c \in Callers |-> Service!Nothing]
    BY <1>2 DEF standings, holdings, Standing, Holding, Service!Nothing
  <1> QED
    BY <1>2, <1>3 DEF Init, CredsUsed, At, Service!ServiceInit

\* Whatever callers wait for the lock, fail to refresh or are cancelled, each is
\* answered as if get_access_token were one step, in the order of precedence
\* it documents.
THEOREM RefinesTokenService == Spec => ImplementsTokenService
  <1>1. Init => IInv /\ CredsUsed /\ Service!ServiceInit
    BY Initially, ServiceStarts
  <1>2. IInv /\ CredsUsed /\ [Next]_vars => IInv' /\ CredsUsed'
    BY Step, CredsStay
  <1>3. IInv /\ CredsUsed /\ [Next]_vars => [Service!ServiceNext]_(Service!serviceVars)
    BY ServiceSteps
  <1> QED
    BY <1>1, <1>2, <1>3, PTL DEF Spec, ImplementsTokenService, Service!ServiceSpec
=============================================================================
