--------------------------- MODULE BackendProofs ---------------------------
(***************************************************************************)
(* Backend for any processes, calls and pool size.  The invariant is in    *)
(* four parts: types; what the lifespan keeps open in which phase, and     *)
(* whose calls are still about then; replies that hold no connection; and  *)
(* who holds the connections.                                              *)
(***************************************************************************)
EXTENDS Backend, FiniteSetTheorems, TLAPS

\* TypeOK but for the bound on free, which follows from the account.
Types ==
  /\ phase \in [Workers -> Phases]
  /\ pool \in [Workers -> {"none", "open", "closing"}]
  /\ free \in [Workers -> Nat]
  /\ front \in [Workers -> BOOLEAN]
  /\ warm \in [Workers -> {"tables", "check", "nothing"}]
  /\ call \in [Calls -> CallType]
  /\ handler \in [Calls -> HandlerType]

\* What is open in which phase, and which calls there still are.
Alive(work) ==
  IF work = "boot" THEN {"pinging"}
  ELSE IF work = "request" THEN {"serving", "draining"}
  ELSE IF work \in Loops THEN {"serving", "draining", "cancelling"}
  ELSE IF work = "final" THEN {"flushing"}
  ELSE Phases

Lifecycle ==
  /\ \A w \in Workers :
       /\ phase[w] = "down" <=> pool[w] = "none"
       /\ phase[w] = "closing" <=> pool[w] = "closing"
       /\ front[w] => phase[w] \in {"serving", "draining", "cancelling", "flushing"}
  /\ \A c \in Calls :
       /\ phase[call[c].home] \in Alive(call[c].work)
       /\ call[c].step = "refused" => call[c].work = "task"
       /\ call[c].step # "none" => call[c].work # "none"

\* A handler that has its reply gave its connection back.
Replied == \A c \in Calls : handler[c].state = "ok" => ~handler[c].holds

IInv == Types /\ Lifecycle /\ Replied /\ PoolAccounted

LEMMA Constants ==
  /\ NoCall \in CallType
  /\ NoHandler \in HandlerType
  /\ NoCall.work = "none" /\ NoCall.step = "none"
  /\ NoHandler.state = "none" /\ ~NoHandler.holds
  /\ PoolSize \in Nat /\ IsFiniteSet(Calls)
<1>1. (CHOOSE w \in Workers : TRUE) \in Workers
  BY BackendAssumption
<1> QED BY <1>1, BackendAssumption DEF NoCall, NoHandler, Steps, Works, CallType, HandlerType

\* A call that begins, whatever for.
LEMMA BeginTypes ==
  ASSUME Types, NEW c \in Calls, NEW w \in Workers, NEW work \in Works,
         Begin(c, w, work)
  PROVE  /\ call' \in [Calls -> CallType]
         /\ handler' \in [Calls -> HandlerType]
         /\ call[c] = NoCall /\ handler[c] = NoHandler
         /\ call'[c].work = work /\ call'[c].home = w
         /\ call'[c].step \in {"remote", "waiting", "refused"}
         /\ call'[c].step = "refused" => pool[w] # "open"
         /\ ~handler'[c].holds
         /\ \A d \in Calls \ {c} : call'[d] = call[d] /\ handler'[d] = handler[d]
<1>1. CASE \E h \in Workers :
             /\ handler' = [handler EXCEPT ![c] = [at |-> h, state |-> "working", holds |-> FALSE]]
             /\ call' = [call EXCEPT ![c] = [work |-> work, home |-> w, step |-> "remote"]]
  BY <1>1 DEF Begin, Types, Steps, CallType, HandlerType
<1>2. CASE /\ call' = [call EXCEPT ![c] =
                         [work |-> work, home |-> w, step |-> Direct(w)]]
           /\ UNCHANGED handler
  BY <1>2, Constants DEF Begin, Types, Steps, Direct, CallType, HandlerType
<1> QED BY <1>1, <1>2 DEF Begin

\* A call that begins takes nothing from a pool yet.
LEMMA BeginHandler ==
  ASSUME Types, NEW w \in Workers, NEW c \in Calls,
         Ping(w, c) \/ Load(w, c) \/ Check(w, c) \/ Build(w, c) \/ Request(w, c) \/ Detach(w, c) \/ Flush(w, c)
  PROVE  /\ UNCHANGED resources
         /\ ~handler[c].holds /\ ~handler'[c].holds
         /\ call[c].step # "running" /\ call'[c].step # "running"
         /\ \A d \in Calls \ {c} : call'[d] = call[d] /\ handler'[d] = handler[d]
<1>0. {"boot", "load", "check", "ticker", "request", "task", "final"} \subseteq Works
  BY DEF Works, Loops
<1>1. \E work \in Works : Begin(c, w, work)
  <2>1. CASE Ping(w, c)
    BY <1>0, <2>1 DEF Ping
  <2>2. CASE Load(w, c)
    BY <1>0, <2>2 DEF Load
  <2>3. CASE Build(w, c)
    BY <1>0, <2>3 DEF Build
  <2>7. CASE Check(w, c)
    BY <1>0, <2>7 DEF Check
  <2>4. CASE Request(w, c)
    BY <1>0, <2>4 DEF Request
  <2>5. CASE Detach(w, c)
    BY <1>0, <2>5 DEF Detach
  <2>6. CASE Flush(w, c)
    BY <1>0, <2>6 DEF Flush
  <2> QED BY <2>1, <2>2, <2>3, <2>4, <2>5, <2>6, <2>7
<1>2. PICK work \in Works : Begin(c, w, work)
  BY <1>1
<1>3. UNCHANGED resources
  BY DEF Ping, Load, Check, Build, Request, Detach, Flush, resources
<1> QED BY <1>2, <1>3, BeginTypes, Constants

LEMMA DroppedTypes ==
  ASSUME Types, NEW c \in Calls
  PROVE  /\ Dropped(c) \in HandlerType
         /\ Dropped(c).holds = handler[c].holds
         /\ handler[c].holds => Dropped(c).at = handler[c].at
BY Constants DEF Types, Dropped, HandlerType

\* One field of a record changes.
LEMMA FieldTypes ==
  ASSUME Types, NEW c \in Calls, NEW step \in Steps
  PROVE  /\ [call EXCEPT ![c].step = step] \in [Calls -> CallType]
         /\ [handler EXCEPT ![c].holds = TRUE] \in [Calls -> HandlerType]
         /\ [handler EXCEPT ![c].state = "ok", ![c].holds = FALSE] \in [Calls -> HandlerType]
<1>1. call[c] \in CallType /\ handler[c] \in HandlerType
  BY DEF Types
<1>2. [call[c] EXCEPT !.step = step] \in CallType
  BY <1>1 DEF CallType
<1>3. [handler[c] EXCEPT !.holds = TRUE] \in HandlerType
  BY <1>1 DEF HandlerType
<1>4. [handler[c] EXCEPT !.state = "ok", !.holds = FALSE] \in HandlerType
  BY <1>1 DEF HandlerType
<1> QED BY <1>2, <1>3, <1>4 DEF Types

\* The ways a step may go.
LEMMA StepCases ==
  ASSUME Next
  PROVE  \/ \E c \in Calls : CallStep(c)
         \/ \E w \in Workers :
              Start(w) \/ Stop(w) \/ Serve(w) \/ Cancel(w) \/ StopFronts(w) \/ ClosePool(w)
         \/ \E w \in Workers : Gone(w)
         \/ \E w \in Workers, c \in Calls :
              Ping(w, c) \/ Load(w, c) \/ Check(w, c) \/ Build(w, c) \/ Request(w, c) \/ Detach(w, c) \/ Flush(w, c)
BY DEF Next, Advance, Exit, Crash

-----------------------------------------------------------------------------
(* Types *)

LEMMA TypesCallStep ==
  ASSUME Types, NEW c \in Calls, CallStep(c)
  PROVE  Types'
<1>0. /\ call[c] \in CallType /\ call[c].home \in Workers
      /\ handler[c] \in HandlerType /\ handler[c].at \in Workers
      /\ \A w \in Workers : free[w] \in Nat /\ free[w] + 1 \in Nat /\ (free[w] > 0 => free[w] - 1 \in Nat)
  BY DEF Types, CallType, HandlerType
<1> USE DEF Types, resources
<1>1. CASE HandlerAcquire(c)
  BY <1>0, <1>1, FieldTypes DEF HandlerAcquire, Steps
<1>2. CASE HandlerExecutes(c)
  BY <1>0, <1>2, FieldTypes DEF HandlerExecutes, HandlerReleases, Steps
<1>3. CASE HandlerFails(c)
  BY <1>0, <1>3, Constants DEF HandlerFails, HandlerReleases
<1>4. CASE HandlerUnwinds(c)
  BY <1>0, <1>4, Constants DEF HandlerUnwinds, HandlerReleases
<1>5. CASE Answer(c)
  BY <1>0, <1>5, Constants DEF Answer, Returns
<1>6. CASE FallBack(c)
  <2>1. Direct(call[c].home) \in Steps
    BY DEF Direct, Steps
  <2> QED BY <1>0, <1>6, <2>1, FieldTypes, DroppedTypes DEF FallBack
<1>7. CASE Acquire(c)
  BY <1>0, <1>7, FieldTypes DEF Acquire, Steps
<1>8. CASE Execute(c)
  BY <1>0, <1>8, Constants DEF Execute, Returns, Releases
<1>9. CASE Fail(c)
  BY <1>0, <1>9, Constants DEF Fail, Returns, Releases
<1>10. CASE Abandon(c)
  BY <1>0, <1>10, Constants, DroppedTypes DEF Abandon, Releases
<1> QED BY <1>1, <1>2, <1>3, <1>4, <1>5, <1>6, <1>7, <1>8, <1>9, <1>10 DEF CallStep

LEMMA TypesLifeStep ==
  ASSUME Types, NEW w \in Workers,
         Start(w) \/ Stop(w) \/ Serve(w) \/ Cancel(w) \/ StopFronts(w) \/ ClosePool(w)
  PROVE  Types'
<1> USE DEF Types, resources, Phases, Stopping, Enter
<1>1. CASE Start(w)
  BY <1>1 DEF Start
<1>2. CASE Stop(w)
  BY <1>2 DEF Stop
<1>3. CASE Serve(w)
  BY <1>3 DEF Serve
<1>4. CASE Cancel(w)
  BY <1>4 DEF Cancel
<1>5. CASE StopFronts(w)
  BY <1>5, DroppedTypes DEF StopFronts
<1>6. CASE ClosePool(w)
  BY <1>6 DEF ClosePool
<1> QED BY <1>1, <1>2, <1>3, <1>4, <1>5, <1>6

LEMMA TypesGone ==
  ASSUME Types, NEW w \in Workers, Gone(w)
  PROVE  Types'
BY Constants, DroppedTypes DEF Types, Gone, Phases

LEMMA TypesBegin ==
  ASSUME Types, NEW w \in Workers, NEW c \in Calls,
         Ping(w, c) \/ Load(w, c) \/ Check(w, c) \/ Build(w, c) \/ Request(w, c) \/ Detach(w, c) \/ Flush(w, c)
  PROVE  Types'
<1> USE DEF Types, resources, Phases, Stopping, Enter
<1>0. {"boot", "load", "check", "ticker", "request", "task", "final"} \subseteq Works
  BY DEF Works, Loops
<1>1. CASE Ping(w, c)
  BY <1>0, <1>1, BeginTypes DEF Ping
<1>2. CASE Load(w, c)
  BY <1>0, <1>2, BeginTypes DEF Load
<1>3. CASE Build(w, c)
  BY <1>0, <1>3, BeginTypes DEF Build
<1>7. CASE Check(w, c)
  BY <1>0, <1>7, BeginTypes DEF Check
<1>4. CASE Request(w, c)
  BY <1>0, <1>4, BeginTypes DEF Request
<1>5. CASE Detach(w, c)
  BY <1>0, <1>5, BeginTypes DEF Detach
<1>6. CASE Flush(w, c)
  BY <1>0, <1>6, BeginTypes DEF Flush
<1> QED BY <1>1, <1>2, <1>3, <1>4, <1>5, <1>6, <1>7

LEMMA TypesStep ==
  ASSUME Types, [Next]_vars
  PROVE  Types'
<1>1. CASE Next
  BY <1>1, StepCases, TypesCallStep, TypesLifeStep, TypesGone, TypesBegin
<1>2. CASE UNCHANGED vars
  BY <1>2 DEF vars, resources, Types
<1> QED BY <1>1, <1>2
-----------------------------------------------------------------------------
(* Lifespan and calls *)

\* A step of a call is that call's alone, and it stays what it is or ends.
LEMMA CallEffect ==
  ASSUME Types, NEW c \in Calls, CallStep(c)
  PROVE  /\ UNCHANGED <<phase, pool, front>>
         /\ \A d \in Calls \ {c} : call'[d] = call[d] /\ handler'[d] = handler[d]
         /\ \/ call'[c] = NoCall
            \/ call'[c] = call[c]
            \/ /\ call[c].step # "none" /\ call'[c].step # "none"
               /\ call'[c].work = call[c].work
               /\ call'[c].home = call[c].home
               /\ call'[c].step = "refused" => pool[call[c].home] # "open"
<1>0. call[c] \in CallType
  BY DEF Types
<1> USE DEF Types
<1>1. CASE HandlerAcquire(c)
  BY <1>1 DEF HandlerAcquire
<1>2. CASE HandlerExecutes(c)
  BY <1>2 DEF HandlerExecutes
<1>3. CASE HandlerFails(c)
  BY <1>3 DEF HandlerFails
<1>4. CASE HandlerUnwinds(c)
  BY <1>4 DEF HandlerUnwinds
<1>5. CASE Answer(c)
  BY <1>5 DEF Answer, Returns, resources
<1>6. CASE FallBack(c)
  BY <1>0, <1>6 DEF FallBack, resources, Direct, CallType
<1>7. CASE Acquire(c)
  BY <1>0, <1>7 DEF Acquire, CallType
<1>8. CASE Execute(c)
  BY <1>8 DEF Execute, Returns
<1>9. CASE Fail(c)
  BY <1>9 DEF Fail, Returns
<1>10. CASE Abandon(c)
  BY <1>10 DEF Abandon
<1> QED BY <1>1, <1>2, <1>3, <1>4, <1>5, <1>6, <1>7, <1>8, <1>9, <1>10 DEF CallStep

LEMMA LifecycleCallStep ==
  ASSUME Types, Lifecycle, NEW c \in Calls, CallStep(c)
  PROVE  Lifecycle'
<1>1. Types'
  BY TypesCallStep
<1>2. \A w \in Workers :
        /\ (phase[w] = "down" <=> pool[w] = "none")'
        /\ (phase[w] = "closing" <=> pool[w] = "closing")'
        /\ (front[w] => phase[w] \in {"serving", "draining", "cancelling", "flushing"})'
  BY CallEffect DEF Lifecycle
<1>3. ASSUME NEW d \in Calls
      PROVE  /\ phase'[call'[d].home] \in Alive(call'[d].work)
             /\ call'[d].step = "refused" => call'[d].work = "task"
             /\ call'[d].step # "none" => call'[d].work # "none"
  <2>1. CASE d # c \/ call'[c] = call[c]
    BY <2>1, CallEffect DEF Lifecycle
  <2>2. CASE d = c /\ call'[c] = NoCall
    <3>1. phase'[NoCall.home] \in Phases
      BY <1>1, Constants DEF Types, CallType
    <3>2. Alive(NoCall.work) = Phases
      BY Constants DEF Alive, Loops
    <3> QED BY <2>2, <3>1, <3>2, Constants
  <2>3. CASE /\ d = c /\ call'[c] # NoCall /\ call'[c] # call[c]
    <3>1. /\ call[c].step # "none" /\ phase' = phase
          /\ call'[c].work = call[c].work /\ call'[c].home = call[c].home
          /\ call'[c].step = "refused" => pool[call[c].home] # "open"
      BY <2>3, CallEffect
    <3>2. call[c].work # "none" /\ phase[call[c].home] \in Alive(call[c].work)
      BY <3>1 DEF Lifecycle
    <3>3. call[c].home \in Workers /\ call[c].work \in Works \union {"none"}
      BY DEF Types, CallType
    <3>4. ASSUME call'[c].step = "refused" PROVE call[c].work = "task"
      <4>1. phase[call[c].home] \in {"down", "closing"}
        BY <3>1, <3>3, <3>4 DEF Lifecycle, Types
      <4> QED BY <3>2, <3>3, <4>1 DEF Alive, Works, Loops
    <3> QED BY <2>3, <3>1, <3>2, <3>4
  <2> QED BY <2>1, <2>2, <2>3
<1> QED BY <1>2, <1>3 DEF Lifecycle

\* The phase w enters, or stays in, is one for this call and all others.
Admits(w, c, work) ==
  /\ UNCHANGED <<pool, front>>
  /\ \A v \in Workers \ {w} : phase'[v] = phase[v]
  /\ phase'[w] \in Alive(work)
  /\ phase'[w] = phase[w] \/ {phase[w], phase'[w]} \intersect {"down", "closing"} = {}
  /\ phase'[w] \in {"down", "closing"} => work = "task"
  /\ front[w] => phase'[w] \in {"serving", "draining", "cancelling", "flushing"}
  /\ \A d \in Calls : d # c /\ call[d].home = w => phase'[w] \in Alive(call[d].work)

LEMMA LifecycleBegin ==
  ASSUME Types, Lifecycle, NEW w \in Workers, NEW c \in Calls,
         NEW work \in Works, Begin(c, w, work),
         Admits(w, c, work)
  PROVE  Lifecycle'
<1>1. \A v \in Workers :
        /\ (phase[v] = "down" <=> pool[v] = "none")'
        /\ (phase[v] = "closing" <=> pool[v] = "closing")'
        /\ (front[v] => phase[v] \in {"serving", "draining", "cancelling", "flushing"})'
  BY DEF Types, Lifecycle, Admits
<1>2. ASSUME NEW d \in Calls
      PROVE  /\ phase'[call'[d].home] \in Alive(call'[d].work)
             /\ call'[d].step = "refused" => call'[d].work = "task"
             /\ call'[d].step # "none" => call'[d].work # "none"
  <2>1. CASE d = c
    <3>1. work # "none"
      BY DEF Works, Loops
    <3>2. call'[c].step = "refused" => phase[w] \in {"down", "closing"}
      BY BeginTypes DEF Types, Lifecycle
    <3>3. phase[w] \in {"down", "closing"} => work = "task"
      BY DEF Admits
    <3>4. phase'[w] \in Alive(work)
      BY DEF Admits
    <3>5. call'[c].work = work /\ call'[c].home = w
      BY BeginTypes
    <3> QED BY <2>1, <3>1, <3>2, <3>3, <3>4, <3>5
  <2>2. CASE d # c
    <3>1. call'[d] = call[d] /\ call[d].home \in Workers
      BY <2>2, BeginTypes DEF Types, CallType
    <3> QED BY <2>2, <3>1 DEF Lifecycle, Admits
  <2> QED BY <2>1, <2>2
<1> QED BY <1>1, <1>2 DEF Lifecycle

LEMMA LifecycleBegins ==
  ASSUME Types, Lifecycle, NEW w \in Workers, NEW c \in Calls,
         Ping(w, c) \/ Load(w, c) \/ Check(w, c) \/ Build(w, c) \/ Request(w, c) \/ Detach(w, c) \/ Flush(w, c)
  PROVE  Lifecycle'
<1>0. {"boot", "load", "check", "ticker", "request", "task", "final"} \subseteq Works
  BY DEF Works, Loops
<1>1. \A d \in Calls : /\ call[d].work \in Works \union {"none"}
                       /\ call[d].home = w => phase[w] \in Alive(call[d].work)
  BY DEF Types, CallType, Lifecycle
<1>2. phase[w] \in Phases /\ phase = [phase EXCEPT ![w] = phase[w]]
  BY DEF Types
<1> USE <1>0 DEF resources, Enter
<1>3. CASE Ping(w, c)
  <2>1. "pinging" \in Alive("boot")
    BY DEF Alive
  <2>2. ASSUME NEW d \in Calls, d # c, call[d].home = w
        PROVE  "pinging" \in Alive(call[d].work)
    BY <1>1, <1>3, <2>2 DEF Ping, Alive, Works, Loops, Phases, Stopping
  <2>3. ~front[w]
    BY <1>3 DEF Ping, Lifecycle
  <2>4. Admits(w, c, "boot")
    BY <1>3, <2>1, <2>2, <2>3 DEF Ping, Admits, Types
  <2> QED BY <1>3, <2>4, LifecycleBegin DEF Ping
<1>4. CASE Load(w, c)
  <2>1. Admits(w, c, "load")
    BY <1>1, <1>4 DEF Load, Admits, Alive, Loops
  <2> QED BY <1>4, <2>1, LifecycleBegin DEF Load
<1>5. CASE Build(w, c)
  <2>1. Admits(w, c, "ticker")
    BY <1>1, <1>5 DEF Build, Admits, Alive, Loops
  <2> QED BY <1>5, <2>1, LifecycleBegin DEF Build
<1>9. CASE Check(w, c)
  <2>1. Admits(w, c, "check")
    BY <1>1, <1>9 DEF Check, Admits, Alive, Loops
  <2> QED BY <1>9, <2>1, LifecycleBegin DEF Check
<1>6. CASE Request(w, c)
  <2>1. Admits(w, c, "request")
    BY <1>1, <1>6 DEF Request, Admits, Alive, Loops
  <2> QED BY <1>6, <2>1, LifecycleBegin DEF Request
<1>7. CASE Detach(w, c)
  <2>1. phase[w] \in Alive("task")
    BY <1>2 DEF Alive, Loops
  <2>2. front[w] => phase[w] \in {"serving", "draining", "cancelling", "flushing"}
    BY DEF Lifecycle
  <2>3. Admits(w, c, "task")
    BY <1>1, <1>7, <2>1, <2>2 DEF Detach, Admits
  <2> QED BY <1>7, <2>3, LifecycleBegin DEF Detach
<1>8. CASE Flush(w, c)
  <2>1. "flushing" \in Alive("final")
    BY DEF Alive, Loops
  <2>2. ASSUME NEW d \in Calls, d # c, call[d].home = w
        PROVE  "flushing" \in Alive(call[d].work)
    <3>1. call[d].work \notin Loops /\ "cancelling" \in Alive(call[d].work)
      BY <1>1, <1>8, <2>2 DEF Flush, At
    <3> QED BY <1>1, <3>1 DEF Alive, Works, Phases, Stopping
  <2>3. Admits(w, c, "final")
    BY <1>8, <2>1, <2>2 DEF Flush, Admits, Types
  <2> QED BY <1>8, <2>3, LifecycleBegin DEF Flush
<1> QED BY <1>3, <1>4, <1>5, <1>6, <1>7, <1>8, <1>9

\* A step of the lifespan leaves the calls where they may be in its new phase.
LEMMA LifecycleLifeStep ==
  ASSUME Types, Lifecycle, NEW w \in Workers,
         Start(w) \/ Stop(w) \/ Serve(w) \/ Cancel(w) \/ StopFronts(w) \/ ClosePool(w)
  PROVE  Lifecycle'
<1>1. \A d \in Calls : /\ call[d].work \in Works \union {"none"} /\ call[d].home \in Workers
                       /\ phase[call[d].home] \in Alive(call[d].work)
  BY DEF Types, CallType, Lifecycle
<1>2. call' = call /\ \A v \in Workers \ {w} : UNCHANGED <<phase[v], pool[v], front[v]>>
  BY DEF Start, Stop, Serve, Cancel, StopFronts, ClosePool, Enter, Types, resources
<1>3. SUFFICES
        /\ (phase[w] = "down" <=> pool[w] = "none")'
        /\ (phase[w] = "closing" <=> pool[w] = "closing")'
        /\ (front[w] => phase[w] \in {"serving", "draining", "cancelling", "flushing"})'
        /\ \A d \in Calls : call[d].home = w => phase'[w] \in Alive(call[d].work)
  BY <1>1, <1>2 DEF Lifecycle
<1> USE DEF Types, Enter, resources
<1>4. CASE Start(w)
  <2>1. ASSUME NEW d \in Calls, call[d].home = w PROVE "starting" \in Alive(call[d].work)
    <3>1. "down" \in Alive(call[d].work)
      BY <1>1, <1>4, <2>1 DEF Start
    <3> QED BY <1>1, <3>1 DEF Alive, Works, Loops, Phases
  <2> QED BY <1>4, <2>1 DEF Start, Lifecycle
<1>5. CASE Stop(w)
  <2>1. ASSUME NEW d \in Calls, call[d].home = w PROVE "draining" \in Alive(call[d].work)
    <3>1. "serving" \in Alive(call[d].work)
      BY <1>1, <1>5, <2>1 DEF Stop
    <3> QED BY <1>1, <3>1 DEF Alive, Works, Loops, Phases, Stopping
  <2> QED BY <1>5, <2>1 DEF Stop, Lifecycle
<1>6. CASE Serve(w)
  <2>1. ASSUME NEW d \in Calls, call[d].home = w PROVE "serving" \in Alive(call[d].work)
    <3>1. "pinging" \in Alive(call[d].work) /\ call[d].work # "boot"
      BY <1>1, <1>6, <2>1 DEF Serve, At
    <3> QED BY <1>1, <3>1 DEF Alive, Works, Loops, Phases
  <2> QED BY <1>6, <2>1 DEF Serve, Lifecycle
<1>7. CASE Cancel(w)
  <2>1. ASSUME NEW d \in Calls, call[d].home = w PROVE "cancelling" \in Alive(call[d].work)
    <3>1. "draining" \in Alive(call[d].work) /\ call[d].work # "request"
      BY <1>1, <1>7, <2>1 DEF Cancel, At
    <3> QED BY <1>1, <3>1 DEF Alive, Works, Loops, Phases, Stopping
  <2> QED BY <1>7, <2>1 DEF Cancel, Lifecycle
<1>8. CASE StopFronts(w)
  <2>1. ASSUME NEW d \in Calls, call[d].home = w PROVE "stopping" \in Alive(call[d].work)
    <3>1. "flushing" \in Alive(call[d].work) /\ call[d].work # "final"
      BY <1>1, <1>8, <2>1 DEF StopFronts, At
    <3> QED BY <1>1, <3>1 DEF Alive, Works, Loops, Phases, Stopping
  <2> QED BY <1>8, <2>1 DEF StopFronts, Lifecycle
<1>9. CASE ClosePool(w)
  <2>1. ASSUME NEW d \in Calls, call[d].home = w PROVE "closing" \in Alive(call[d].work)
    <3>1. "stopping" \in Alive(call[d].work)
      BY <1>1, <1>9, <2>1 DEF ClosePool
    <3> QED BY <1>1, <3>1 DEF Alive, Works, Loops, Phases, Stopping
  <2> QED BY <1>9, <2>1 DEF ClosePool, Lifecycle
<1> QED BY <1>4, <1>5, <1>6, <1>7, <1>8, <1>9

LEMMA LifecycleGone ==
  ASSUME Types, Lifecycle, NEW w \in Workers, Gone(w)
  PROVE  Lifecycle'
<1>1. \A v \in Workers :
        /\ phase'[v] = IF v = w THEN "down" ELSE phase[v]
        /\ pool'[v] = IF v = w THEN "none" ELSE pool[v]
        /\ front'[v] = IF v = w THEN FALSE ELSE front[v]
  BY DEF Gone, Types
<1>2. ASSUME NEW d \in Calls
      PROVE  /\ phase'[call'[d].home] \in Alive(call'[d].work)
             /\ call'[d].step = "refused" => call'[d].work = "task"
             /\ call'[d].step # "none" => call'[d].work # "none"
  <2>1. CASE call[d].home = w
    <3>1. call'[d] = NoCall /\ Types'
      BY <2>1, TypesGone DEF Gone
    <3>2. phase'[NoCall.home] \in Phases /\ Alive(NoCall.work) = Phases
      BY <3>1, Constants DEF Types, CallType, Alive, Loops
    <3> QED BY <3>1, <3>2, Constants
  <2>2. CASE call[d].home # w
    <3>1. call'[d] = call[d] /\ call[d].home \in Workers
      BY <2>2 DEF Gone, Types, CallType
    <3> QED BY <1>1, <2>2, <3>1 DEF Lifecycle
  <2> QED BY <2>1, <2>2
<1> QED BY <1>1, <1>2 DEF Lifecycle

LEMMA LifecycleStep ==
  ASSUME Types, Lifecycle, [Next]_vars
  PROVE  Lifecycle'
<1>1. CASE Next
  BY <1>1, StepCases, LifecycleCallStep, LifecycleLifeStep, LifecycleGone, LifecycleBegins
<1>2. CASE UNCHANGED vars
  BY <1>2 DEF vars, resources, Lifecycle
<1> QED BY <1>1, <1>2
-----------------------------------------------------------------------------
(* The account of the connections *)

LEMMA DroppedReplied ==
  ASSUME NEW c \in Calls, Types, Dropped(c).state = "ok"
  PROVE  ~Dropped(c).holds
BY Constants DEF Dropped, Types, HandlerType

LEMMA RepliedStep ==
  ASSUME Types, Replied, [Next]_vars
  PROVE  Replied'
<1>1. SUFFICES ASSUME NEW d \in Calls, handler'[d].state = "ok"
               PROVE  ~handler'[d].holds
  BY DEF Replied
<1>2. handler'[d] = handler[d] => ~handler'[d].holds
  BY <1>1 DEF Replied
<1>3. handler'[d] = Dropped(d) => ~handler'[d].holds
  BY <1>1, DroppedReplied
<1>4. handler'[d] = NoHandler => ~handler'[d].holds
  BY Constants
<1>5. ASSUME NEW c \in Calls, CallStep(c) PROVE ~handler'[d].holds
  <2>1. handler[c] \in HandlerType
    BY DEF Types
  <2>2. CASE HandlerAcquire(c)
    BY <1>1, <1>2, <2>1, <2>2 DEF HandlerAcquire, Types, HandlerType
  <2>3. CASE HandlerExecutes(c)
    BY <1>2, <2>1, <2>3 DEF HandlerExecutes, Types, HandlerType
  <2>4. CASE HandlerFails(c) \/ HandlerUnwinds(c) \/ Answer(c)
    BY <1>2, <1>4, <2>4 DEF HandlerFails, HandlerUnwinds, Answer, Types
  <2>5. CASE FallBack(c) \/ Abandon(c)
    BY <1>2, <1>3, <2>5 DEF FallBack, Abandon, Types
  <2>6. CASE Acquire(c) \/ Execute(c) \/ Fail(c)
    BY <1>2, <2>6 DEF Acquire, Execute, Fail
  <2> QED BY <1>5, <2>2, <2>3, <2>4, <2>5, <2>6 DEF CallStep
<1>6. ASSUME NEW w \in Workers,
             Start(w) \/ Stop(w) \/ Serve(w) \/ Cancel(w) \/ StopFronts(w) \/ ClosePool(w)
      PROVE  ~handler'[d].holds
  BY <1>2, <1>3, <1>6 DEF Start, Stop, Serve, Cancel, StopFronts, ClosePool
<1>7. ASSUME NEW w \in Workers, Gone(w) PROVE ~handler'[d].holds
  BY <1>2, <1>3, <1>4, <1>7 DEF Gone
<1>8. ASSUME NEW w \in Workers, NEW c \in Calls,
             Ping(w, c) \/ Load(w, c) \/ Check(w, c) \/ Build(w, c) \/ Request(w, c) \/ Detach(w, c) \/ Flush(w, c)
      PROVE  ~handler'[d].holds
  BY <1>2, <1>8, BeginHandler
<1>9. CASE UNCHANGED vars
  BY <1>2, <1>9 DEF vars
<1> QED BY <1>5, <1>6, <1>7, <1>8, <1>9, StepCases

LEMMA Sizes ==
  ASSUME NEW w \in Workers
  PROVE  /\ IsFiniteSet(Lent(w)) /\ IsFiniteSet(Used(w))
         /\ Cardinality(Lent(w)) \in Nat /\ Cardinality(Used(w)) \in Nat
<1>1. Lent(w) \subseteq Calls /\ Used(w) \subseteq Calls
  BY DEF Lent, Used
<1>2. IsFiniteSet(Lent(w)) /\ IsFiniteSet(Used(w))
  BY <1>1, Constants, FS_Subset
<1> QED BY <1>2, FS_CardinalityType

\* What may happen to one pool in a step: nothing, or one connection is taken
\* or given back by one call.
Same(w) == Lent(w)' = Lent(w) /\ Used(w)' = Used(w) /\ free'[w] = free[w]

Taken(w, c) ==
  /\ free'[w] = free[w] - 1 /\ free[w] > 0 /\ pool[w] # "none"
  /\ \/ c \notin Lent(w) /\ Lent(w)' = Lent(w) \union {c} /\ Used(w)' = Used(w)
     \/ c \notin Used(w) /\ Used(w)' = Used(w) \union {c} /\ Lent(w)' = Lent(w)

Given(w, c) ==
  /\ free'[w] = free[w] + 1
  /\ \/ c \in Lent(w) /\ Lent(w)' = Lent(w) \ {c} /\ Used(w)' = Used(w)
     \/ c \in Used(w) /\ Used(w)' = Used(w) \ {c} /\ Lent(w)' = Lent(w)

LEMMA Balanced ==
  ASSUME Types, PoolAccounted, NEW c \in Calls,
         pool' = pool,
         \A w \in Workers : Same(w) \/ Taken(w, c) \/ Given(w, c)
  PROVE  PoolAccounted'
<1>1. SUFFICES ASSUME NEW w \in Workers
               PROVE  /\ free'[w] + Cardinality(Lent(w)') + Cardinality(Used(w)') = PoolSize
                      /\ pool'[w] = "none" => free'[w] = PoolSize
  BY DEF PoolAccounted
<1>2. /\ free[w] \in Nat /\ PoolSize \in Nat
      /\ free[w] + Cardinality(Lent(w)) + Cardinality(Used(w)) = PoolSize
      /\ pool[w] = "none" => free[w] = PoolSize
  BY Constants DEF Types, PoolAccounted
<1>3. CASE Same(w)
  BY <1>2, <1>3 DEF Same
<1>4. CASE Taken(w, c)
  <2>1. CASE c \notin Lent(w) /\ Lent(w)' = Lent(w) \union {c} /\ Used(w)' = Used(w)
    <3>1. Cardinality(Lent(w) \union {c}) = Cardinality(Lent(w)) + 1
      BY <2>1, Sizes, FS_AddElement
    <3> QED BY <1>2, <1>4, <2>1, <3>1, Sizes DEF Taken
  <2>2. CASE c \notin Used(w) /\ Used(w)' = Used(w) \union {c} /\ Lent(w)' = Lent(w)
    <3>1. Cardinality(Used(w) \union {c}) = Cardinality(Used(w)) + 1
      BY <2>2, Sizes, FS_AddElement
    <3> QED BY <1>2, <1>4, <2>2, <3>1, Sizes DEF Taken
  <2> QED BY <1>4, <2>1, <2>2 DEF Taken
<1>5. CASE Given(w, c)
  <2>1. CASE c \in Lent(w) /\ Lent(w)' = Lent(w) \ {c} /\ Used(w)' = Used(w)
    <3>1. Cardinality(Lent(w) \ {c}) = Cardinality(Lent(w)) - 1 /\ Cardinality(Lent(w) \ {c}) \in Nat
      BY <2>1, Sizes, FS_RemoveElement, FS_CardinalityType
    <3> QED BY <1>2, <1>5, <2>1, <3>1, Sizes DEF Given
  <2>2. CASE c \in Used(w) /\ Used(w)' = Used(w) \ {c} /\ Lent(w)' = Lent(w)
    <3>1. Cardinality(Used(w) \ {c}) = Cardinality(Used(w)) - 1 /\ Cardinality(Used(w) \ {c}) \in Nat
      BY <2>2, Sizes, FS_RemoveElement, FS_CardinalityType
    <3> QED BY <1>2, <1>5, <2>2, <3>1, Sizes DEF Given
  <2> QED BY <1>5, <2>1, <2>2 DEF Given
<1> QED BY <1>1, <1>3, <1>4, <1>5

\* What a step of the gRPC server's side does to a pool.
LEMMA HandlerBalance ==
  ASSUME Types, NEW c \in Calls, NEW w \in Workers,
         HandlerAcquire(c) \/ HandlerExecutes(c) \/ HandlerFails(c) \/ HandlerUnwinds(c)
  PROVE  Same(w) \/ Taken(w, c) \/ Given(w, c)
<1>1. /\ Used(w)' = Used(w) /\ free[w] \in Nat
      /\ handler[c] \in HandlerType /\ handler[c].at \in Workers
  BY DEF Types, HandlerType, Used, HandlerAcquire, HandlerExecutes, HandlerFails, HandlerUnwinds
<1>2. \A d \in Calls \ {c} : handler'[d] = handler[d]
  BY CallEffect DEF CallStep
<1>3. CASE handler[c].at # w
  <2>1. free'[w] = free[w]
    BY <1>3, <1>1 DEF Types, HandlerAcquire, HandlerExecutes, HandlerFails, HandlerUnwinds, HandlerReleases
  <2>2. ~handler'[c].holds \/ handler'[c].at = handler[c].at
    BY <1>1, Constants DEF Types, HandlerType, HandlerAcquire, HandlerExecutes, HandlerFails, HandlerUnwinds
  <2>3. Lent(w)' = Lent(w)
    BY <1>2, <1>3, <2>2 DEF Lent
  <2> QED BY <1>1, <2>1, <2>3 DEF Same
<1>4. CASE handler[c].at = w /\ HandlerAcquire(c)
  <2>1. ~handler[c].holds /\ handler'[c].holds /\ handler'[c].at = w
    BY <1>1, <1>4 DEF HandlerAcquire, Types, HandlerType
  <2>2. c \notin Lent(w) /\ Lent(w)' = Lent(w) \union {c}
    BY <1>2, <2>1 DEF Lent
  <2>3. free'[w] = free[w] - 1 /\ free[w] > 0 /\ pool[w] # "none"
    BY <1>4 DEF HandlerAcquire, Types
  <2> QED BY <1>1, <2>2, <2>3 DEF Taken
<1>5. CASE /\ handler[c].at = w
           /\ HandlerExecutes(c) \/ HandlerFails(c) \/ HandlerUnwinds(c)
  <2>1. ~handler'[c].holds
    BY <1>1, <1>5, Constants DEF Types, HandlerType, HandlerExecutes, HandlerFails, HandlerUnwinds
  <2>2. Lent(w)' = Lent(w) \ {c}
    BY <1>2, <2>1 DEF Lent
  <2>3. free'[w] = IF handler[c].holds THEN free[w] + 1 ELSE free[w]
    BY <1>5 DEF Types, HandlerExecutes, HandlerFails, HandlerUnwinds, HandlerReleases
  <2>4. CASE handler[c].holds
    <3>1. c \in Lent(w)
      BY <1>5, <2>4 DEF Lent
    <3> QED BY <1>1, <2>2, <2>3, <2>4, <3>1 DEF Given
  <2>5. CASE ~handler[c].holds
    <3>1. Lent(w)' = Lent(w)
      BY <2>2, <2>5 DEF Lent
    <3> QED BY <1>1, <2>3, <2>5, <3>1 DEF Same
  <2> QED BY <2>4, <2>5
<1> QED BY <1>3, <1>4, <1>5

\* And what the caller's side does.
LEMMA CallerBalance ==
  ASSUME Types, Replied, NEW c \in Calls, NEW w \in Workers,
         Answer(c) \/ FallBack(c) \/ Acquire(c) \/ Execute(c) \/ Fail(c) \/ Abandon(c)
  PROVE  Same(w) \/ Taken(w, c) \/ Given(w, c)
<1>1. /\ free[w] \in Nat
      /\ call[c] \in CallType /\ call[c].home \in Workers
      /\ handler[c] \in HandlerType /\ handler[c].at \in Workers
  BY DEF Types, HandlerType, CallType
<1>2. \A d \in Calls \ {c} : handler'[d] = handler[d] /\ call'[d] = call[d]
  BY CallEffect DEF CallStep
<1>3. Lent(w)' = Lent(w)
  <2>1. CASE Answer(c)
    <3>1. ~handler'[c].holds
      BY <2>1, Constants DEF Answer, Types
    <3>2. ~handler[c].holds
      BY <2>1 DEF Answer, Replied
    <3> QED BY <1>2, <3>1, <3>2 DEF Lent
  <2>2. CASE FallBack(c) \/ Abandon(c)
    <3>1. handler'[c] = Dropped(c)
      BY <2>2 DEF FallBack, Abandon, Types
    <3> QED BY <1>2, <3>1, DroppedTypes DEF Lent
  <2>3. CASE Acquire(c) \/ Execute(c) \/ Fail(c)
    BY <2>3 DEF Acquire, Execute, Fail, Lent
  <2> QED BY <2>1, <2>2, <2>3
<1>4. CASE Answer(c) \/ FallBack(c)
  <2>1. /\ free' = free /\ call[c].step # "running" /\ call'[c].step # "running"
    BY <1>1, <1>4, Constants DEF Answer, Returns, FallBack, Direct, resources, Types, CallType
  <2>2. Used(w)' = Used(w)
    BY <1>2, <2>1 DEF Used
  <2> QED BY <1>3, <2>1, <2>2 DEF Same
<1>5. CASE Acquire(c)
  <2>1. call[c].step = "waiting" /\ call'[c].step = "running" /\ call'[c].home = call[c].home
    BY <1>1, <1>5 DEF Acquire, Types, CallType
  <2>2. free' = [free EXCEPT ![call[c].home] = @ - 1]
    BY <1>5 DEF Acquire
  <2>3. CASE call[c].home = w
    <3>1. c \notin Used(w) /\ Used(w)' = Used(w) \union {c}
      BY <1>2, <2>1, <2>3 DEF Used
    <3>2. free'[w] = free[w] - 1 /\ free[w] > 0 /\ pool[w] # "none"
      BY <1>5, <2>2, <2>3 DEF Acquire, Types
    <3> QED BY <1>3, <3>1, <3>2 DEF Taken
  <2>4. CASE call[c].home # w
    <3>1. Used(w)' = Used(w)
      BY <1>2, <2>1, <2>4 DEF Used
    <3> QED BY <1>3, <2>2, <2>4, <3>1 DEF Same, Types
  <2> QED BY <2>3, <2>4
<1>6. CASE Execute(c) \/ Fail(c) \/ Abandon(c)
  <2>1. call'[c].step # "running"
    BY <1>6, Constants DEF Execute, Returns, Fail, Abandon, Types
  <2>2. free' = [free EXCEPT ![call[c].home] = IF call[c].step = "running" THEN @ + 1 ELSE @]
    BY <1>6 DEF Execute, Fail, Abandon, Releases
  <2>3. Used(w)' = Used(w) \ {c}
    BY <1>2, <2>1 DEF Used
  <2>4. CASE call[c].home = w /\ call[c].step = "running"
    <3>1. c \in Used(w) /\ free'[w] = free[w] + 1
      BY <2>2, <2>4 DEF Used, Types
    <3> QED BY <1>3, <2>3, <3>1 DEF Given
  <2>5. CASE call[c].home # w \/ call[c].step # "running"
    <3>1. Used(w)' = Used(w) /\ free'[w] = free[w]
      BY <1>1, <2>2, <2>3, <2>5 DEF Used, Types
    <3> QED BY <1>3, <3>1 DEF Same
  <2> QED BY <2>4, <2>5
<1> QED BY <1>4, <1>5, <1>6

LEMMA AccountedCallStep ==
  ASSUME Types, Replied, PoolAccounted, NEW c \in Calls, CallStep(c)
  PROVE  PoolAccounted'
<1>1. pool' = pool
  BY CallEffect
<1>2. ASSUME NEW w \in Workers PROVE Same(w) \/ Taken(w, c) \/ Given(w, c)
  BY HandlerBalance, CallerBalance DEF CallStep
<1> QED BY <1>1, <1>2, Balanced

LEMMA AccountedLifeStep ==
  ASSUME Types, PoolAccounted, NEW w \in Workers,
         Start(w) \/ Stop(w) \/ Serve(w) \/ Cancel(w) \/ StopFronts(w) \/ ClosePool(w)
  PROVE  PoolAccounted'
<1>1. ASSUME NEW v \in Workers
      PROVE  Lent(v)' = Lent(v) /\ Used(v)' = Used(v) /\ free'[v] = free[v]
  <2>1. /\ call' = call /\ free' = free
        /\ \A d \in Calls : handler'[d] = handler[d] \/ handler'[d] = Dropped(d)
    BY DEF Start, Stop, Serve, Cancel, StopFronts, ClosePool, resources
  <2>2. \A d \in Calls : /\ handler'[d].holds <=> handler[d].holds
                         /\ handler[d].holds => handler'[d].at = handler[d].at
    BY <2>1, DroppedTypes
  <2> QED BY <2>1, <2>2 DEF Lent, Used
<1>2. \A v \in Workers : pool'[v] = "none" => pool[v] = "none"
  BY DEF Start, Stop, Serve, Cancel, StopFronts, ClosePool, resources, Types
<1> QED BY <1>1, <1>2 DEF PoolAccounted

LEMMA AccountedGone ==
  ASSUME Types, PoolAccounted, NEW w \in Workers, Gone(w)
  PROVE  PoolAccounted'
<1>1. \A d \in Calls :
        /\ call[d].home = w => call'[d] = NoCall
        /\ call[d].home # w => call'[d] = call[d]
        /\ handler[d].at = w => handler'[d] = NoHandler
        /\ handler[d].at # w => handler'[d] = handler[d] \/ handler'[d] = Dropped(d)
  BY DEF Gone
<1>2. ASSUME NEW v \in Workers, v # w
      PROVE  Lent(v)' = Lent(v) /\ Used(v)' = Used(v) /\ free'[v] = free[v] /\ pool'[v] = pool[v]
  <2>1. \A d \in Calls : /\ handler'[d].holds /\ handler'[d].at = v <=> handler[d].holds /\ handler[d].at = v
    <3>1. SUFFICES ASSUME NEW d \in Calls
                   PROVE  handler'[d].holds /\ handler'[d].at = v <=> handler[d].holds /\ handler[d].at = v
      OBVIOUS
    <3>2. CASE handler[d].at = w
      BY <1>1, <1>2, <3>2, Constants
    <3>3. CASE handler[d].at # w
      BY <1>1, <3>3, DroppedTypes
    <3> QED BY <3>2, <3>3
  <2>2. \A d \in Calls : call'[d].home = v /\ call'[d].step = "running" <=> call[d].home = v /\ call[d].step = "running"
    BY <1>1, <1>2, Constants
  <2>3. free'[v] = free[v] /\ pool'[v] = pool[v]
    BY <1>2 DEF Gone, Types
  <2> QED BY <2>1, <2>2, <2>3 DEF Lent, Used
<1>3. Lent(w)' = {} /\ Used(w)' = {} /\ free'[w] = PoolSize
  <2>1. \A d \in Calls : ~(handler'[d].holds /\ handler'[d].at = w)
    BY <1>1, Constants, DroppedTypes
  <2>2. \A d \in Calls : ~(call'[d].home = w /\ call'[d].step = "running")
    BY <1>1, Constants
  <2>3. free'[w] = PoolSize
    BY DEF Gone, Types
  <2> QED BY <2>1, <2>2, <2>3 DEF Lent, Used
<1>4. Cardinality({}) = 0 /\ PoolSize \in Nat
  BY FS_EmptySet, Constants
<1>5. ASSUME NEW v \in Workers
      PROVE  /\ free'[v] + Cardinality(Lent(v)') + Cardinality(Used(v)') = PoolSize
             /\ pool'[v] = "none" => free'[v] = PoolSize
  <2>1. CASE v = w
    BY <1>3, <1>4, <2>1
  <2>2. CASE v # w
    BY <1>2, <2>2 DEF PoolAccounted
  <2> QED BY <2>1, <2>2
<1> QED BY <1>5 DEF PoolAccounted

LEMMA AccountedBegins ==
  ASSUME Types, PoolAccounted, NEW w \in Workers, NEW c \in Calls,
         Ping(w, c) \/ Load(w, c) \/ Check(w, c) \/ Build(w, c) \/ Request(w, c) \/ Detach(w, c) \/ Flush(w, c)
  PROVE  PoolAccounted'
<1>1. ASSUME NEW v \in Workers PROVE Lent(v)' = Lent(v) /\ Used(v)' = Used(v)
  BY BeginHandler DEF Lent, Used
<1>2. free' = free /\ pool' = pool
  BY BeginHandler DEF resources
<1> QED BY <1>1, <1>2 DEF PoolAccounted

LEMMA AccountedStep ==
  ASSUME Types, Replied, PoolAccounted, [Next]_vars
  PROVE  PoolAccounted'
<1>1. CASE Next
  BY <1>1, StepCases, AccountedCallStep, AccountedLifeStep, AccountedGone, AccountedBegins
<1>2. CASE UNCHANGED vars
  BY <1>2 DEF vars, resources, PoolAccounted, Lent, Used
<1> QED BY <1>1, <1>2

-----------------------------------------------------------------------------
(* Theorems *)

LEMMA Initially ==
  ASSUME Init
  PROVE  IInv
<1>1. Types
  BY Constants DEF Init, Types, Phases
<1>2. Lifecycle
  <2>1. Alive(NoCall.work) = Phases /\ \A w \in Workers : phase[w] \in Phases
    BY Constants DEF Alive, Loops, Init, Phases
  <2> QED BY <2>1, Constants DEF Init, Lifecycle, CallType
<1>3. Replied
  BY Constants DEF Init, Replied
<1>4. PoolAccounted
  <2>1. ASSUME NEW w \in Workers PROVE Lent(w) = {} /\ Used(w) = {}
    BY Constants DEF Init, Lent, Used
  <2>2. Cardinality({}) = 0 /\ PoolSize + 0 + 0 = PoolSize
    BY Constants, FS_EmptySet
  <2>3. \A w \in Workers : free[w] = PoolSize
    BY DEF Init
  <2> QED BY <2>1, <2>2, <2>3 DEF PoolAccounted
<1> QED BY <1>1, <1>2, <1>3, <1>4 DEF IInv

\* The invariant of the processes' lives and of their calls (main.py 36-214, connection.py 49-81, connection_real.py 99-164).
THEOREM Inductive == Spec => []IInv
<1>1. IInv /\ [Next]_vars => IInv'
  BY TypesStep, LifecycleStep, RepliedStep, AccountedStep DEF IInv
<1> QED BY Initially, <1>1, PTL DEF Spec

\* Every variable keeps its type; a pool never counts more free connections
\* than it has.
THEOREM TypeCorrect == Spec => []TypeOK
<1>1. ASSUME IInv PROVE TypeOK
  <2>1. ASSUME NEW w \in Workers PROVE free[w] \in 0 .. PoolSize
    <3>1. free[w] \in Nat /\ free[w] + Cardinality(Lent(w)) + Cardinality(Used(w)) = PoolSize
      BY <1>1 DEF IInv, Types, PoolAccounted
    <3> QED BY <3>1, Sizes, Constants
  <2> QED BY <1>1, <2>1 DEF IInv, Types, TypeOK
<1> QED BY <1>1, Inductive, PTL

\* No connection is lost or given back twice, whatever fails, is cancelled or
\* dies (the async with blocks of connection_real.py).
THEOREM AccountHolds == Spec => []PoolAccounted
<1>1. IInv => PoolAccounted
  BY DEF IInv
<1> QED BY <1>1, Inductive, PTL

\* Only tasks nobody waits for meet a pool that is closed (the order of the
\* shutdown in main.py).
THEOREM StopOrderHolds == Spec => []OnlyTasksRefused
<1>1. ASSUME IInv PROVE OnlyTasksRefused
  BY <1>1 DEF IInv, Types, Lifecycle, OnlyTasksRefused
<1> QED BY <1>1, Inductive, PTL

=============================================================================
