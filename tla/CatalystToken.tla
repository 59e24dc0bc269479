--------------------------- MODULE CatalystToken ---------------------------
(***************************************************************************)
(* The OAuth access token every Catalyst call carries                       *)
(* (backend/config/catalyst_token.py) and the calls that share it in one    *)
(* process.  Each asks for the token again before every HTTP request:       *)
(*   "model"       llm/client_real.py call_llm, behind the gRPC deadline    *)
(*                 of llm/client.py                                         *)
(*   "ping"        ping_model, behind its own                               *)
(*   "document"    db/nosql_client.py, get_value of db/cache_client.py      *)
(*   "put"         put_value: an insert, then an update                     *)
(*   "search"      llm/rag_client.py query_rag: as asked, then cleaned      *)
(*   "speak"       voice/zia_voice.py: translation, then speech             *)
(*   "transcribe"  transcription, then translation                          *)
(*   "warm"        ping_voice: translation, speech, transcription           *)
(*                                                                         *)
(* Time is discrete.  A step is what a coroutine does between two awaits;   *)
(* the clock moves only in Tick, which lets no HTTP request outlive its     *)
(* timeout (httpx bounds each phase of a request by it; the model takes the *)
(* phases together) and no gRPC call its deadline.                          *)
(***************************************************************************)
EXTENDS Integers, Sequences

CONSTANTS
    Callers,        \* concurrent calls
    Modellers,      \* those of them that call the language model
    Lifetime,       \* life of a token, 3600 s
    Skew,           \* _EXPIRY_SKEW_SECONDS, 300 s
    RefreshTime,    \* timeout of the token endpoint, 15 s
    CallTime,       \* longest timeout of an HTTP request, 180 s
    RpcTime,        \* deadline of a gRPC call, 180 s
    MaxRetries,     \* max_retries of call_llm
    NoToken,        \* Python's None
    MaxTime         \* bound: the clock stops

ASSUME TokenAssumption ==
    /\ Modellers \subseteq Callers
    /\ Lifetime \in Nat /\ Skew \in Nat
    /\ RefreshTime \in Nat /\ CallTime \in Nat /\ RpcTime \in Nat
    /\ RefreshTime + CallTime <= Skew
    /\ RefreshTime + CallTime <= Lifetime
    /\ MaxRetries \in Nat /\ MaxTime \in Nat
    /\ NoToken \notin [expiry : Nat, renew : Nat]

VARIABLES
    now,        \* time.time()
    config,     \* config.creds, config.static: are the credentials, CATALYST_API_TOKEN set?
    token,      \* _cached_token and _expires_at
    queue,      \* _lock: its holder first, then the waiters in their order
    call        \* call[c]: what caller c calls, and where it is

vars == <<now, config, token, queue, call>>

Others == {"ping", "document", "put", "search", "speak", "transcribe", "warm"}
Kinds == {"model"} \cup Others

\* How many requests may follow the first one of a call.
Further(kind) ==
    IF kind = "model" THEN MaxRetries
    ELSE IF kind = "warm" THEN 2
    ELSE IF kind \in {"ping", "document"} THEN 0 ELSE 1

\* A call made through the gRPC service, which cancels it at its deadline.
Timed(kind) == kind \in {"model", "ping"}

\* The state of a call: "attempt" counts its requests, "expiry" is when the
\* server stops accepting the token it holds, "until" when its current request
\* times out, "sure" that the token was not a fallback.
Idle(kind) == [kind |-> kind, pc |-> "idle", attempt |-> 0, expiry |-> 0, until |-> 0,
               deadline |-> 0, sure |-> FALSE]

\* Only one token needs to be configured: without any, no call is made.
Init ==
    /\ now = 0
    /\ config \in [creds : BOOLEAN, static : BOOLEAN]
    /\ token = NoToken
    /\ queue = <<>>
    /\ \E kind \in [Callers -> Kinds] :
         /\ \A c \in Callers : kind[c] = "model" <=> c \in Modellers
         /\ call = [c \in Callers |-> Idle(kind[c])]

-----------------------------------------------------------------------------
(* A call and its requests.                                                *)

At(c, pc) == call[c].pc = pc
Kind(c, kind) == call[c].kind = kind
Put(c, r) == call' = [call EXCEPT ![c] = r]
Active(c) == ~At(c, "idle") /\ ~At(c, "done") /\ ~At(c, "failed")

\* The token and the request are behind the caller.
Leave(c, pc, n) ==
    Put(c, [call[c] EXCEPT !.pc = pc, !.attempt = n, !.expiry = 0, !.until = 0, !.sure = FALSE])

\* A call begins; English is spoken without a translation.
Receive(c) ==
    /\ At(c, "idle")
    /\ \E n \in 0..1 :
         /\ n = 1 => Kind(c, "speak")
         /\ Put(c, [call[c] EXCEPT !.pc = "ask", !.attempt = n,
                                  !.deadline = IF Timed(call[c].kind) THEN now + RpcTime ELSE 0])
    /\ UNCHANGED <<now, config, token, queue>>

\* How a request ends: with what was asked for; with none of it (for a reader
\* of documents also a 404); with 429, 408 or a server error; with another
\* status (401 of an expired token among them); with no answer.  Getting a
\* token may end it too, by what httpx raises ("lost") or by a RuntimeError.
Outcomes == {"good", "empty", "transient", "refused", "lost", "raised"}

\* Another request after one that ended so: the model is tried again; an insert
\* that was not accepted becomes an update; a search that found nothing is
\* cleaned and repeated; a transcript, and every answer to be spoken, is
\* translated whatever comes of it; the warm-up goes through its three services.
RetriesModel(c, o) == Kind(c, "model") /\ o \in {"transient", "lost"}
UpdatesInstead(c, o) == Kind(c, "put") /\ o \in {"transient", "refused"}
SearchesAgain(c, o) == Kind(c, "search") /\ o = "empty"
Translates(c, o) == Kind(c, "transcribe") /\ o = "good"
Speaks(c) == Kind(c, "speak")
WarmsNext(c) == Kind(c, "warm")

GoesOn(c, o) ==
    /\ call[c].attempt < Further(call[c].kind)
    /\ \/ RetriesModel(c, o) \/ UpdatesInstead(c, o) \/ SearchesAgain(c, o)
       \/ Translates(c, o) \/ Speaks(c) \/ WarmsNext(c)

\* A search that needs no cleaning, a translation that leaves nothing to say, a
\* transcript in English.
MayStop(c) == call[c].kind \in {"search", "speak", "transcribe"}

\* Does a call whose last request ended so return, or raise?
PingReturns(c) == Kind(c, "ping") \/ Kind(c, "warm")
ModelReturns(c, o) == Kind(c, "model") /\ o = "good"
DocumentReturns(c, o) == Kind(c, "document") /\ o \in {"good", "empty"}
PutReturns(c, o) == Kind(c, "put") /\ o \in {"good", "empty"}
SearchReturns(c, o) == Kind(c, "search") /\ o \in {"good", "empty"}
SpeechReturns(c, o) == Kind(c, "speak") /\ call[c].attempt = 1 /\ o = "good"
TranscriptReturns(c, o) == Kind(c, "transcribe") /\ o = "good"
TranslationReturns(c) == Kind(c, "transcribe") /\ call[c].attempt = 1

Returns(c, o) ==
    \/ PingReturns(c) \/ ModelReturns(c, o) \/ DocumentReturns(c, o) \/ PutReturns(c, o)
    \/ SearchReturns(c, o) \/ SpeechReturns(c, o)
    \/ TranscriptReturns(c, o) \/ TranslationReturns(c)

\* Only call_llm pauses before it tries again.
Ended(c, o) ==
    \/ GoesOn(c, o) /\ Kind(c, "model") /\ Leave(c, "pausing", call[c].attempt)
    \/ GoesOn(c, o) /\ ~Kind(c, "model") /\ Leave(c, "ask", call[c].attempt + 1)
    \/ /\ ~GoesOn(c, o) \/ MayStop(c)
       /\ Leave(c, IF Returns(c, o) THEN "done" ELSE "failed", call[c].attempt)

Replied(c) ==
    /\ At(c, "calling")
    /\ \E o \in Outcomes \ {"raised"} :
         /\ o \in {"good", "empty"} => now < call[c].expiry \/ ~call[c].sure
         /\ Ended(c, o)
    /\ UNCHANGED <<now, config, token, queue>>

\* The pause is over; every attempt asks for the token again.
NextAttempt(c) ==
    /\ At(c, "pausing")
    /\ Leave(c, "ask", call[c].attempt + 1)
    /\ UNCHANGED <<now, config, token, queue>>

-----------------------------------------------------------------------------
(* get_access_token.                                                       *)

\* Slip: the cached token is used as long as it lives, with no safety margin.
FreshUntilExpiry == token # NoToken /\ now < token.expiry

Fresh == token # NoToken /\ now < token.renew

\* The request starts with a token that the server accepts until expiry.
Start(c, expiry, sure) ==
    Put(c, [call[c] EXCEPT !.pc = "calling", !.expiry = expiry, !.until = now + CallTime, !.sure = sure])

\* The hot path: a fresh token is returned without the lock.
UseCached(c) ==
    /\ At(c, "ask")
    /\ Fresh
    /\ Start(c, token.expiry, TRUE)
    /\ UNCHANGED <<now, config, token, queue>>

\* Nothing to refresh with: the static token, of which nothing is known, or
\* a RuntimeError.
NoCredentials(c) ==
    /\ At(c, "ask")
    /\ ~Fresh /\ ~config.creds
    /\ \/ config.static /\ Start(c, 0, FALSE)
       \/ ~config.static /\ Ended(c, "raised")
    /\ UNCHANGED <<now, config, token, queue>>

Enqueue(c) ==
    /\ At(c, "ask")
    /\ ~Fresh /\ config.creds
    /\ queue' = Append(queue, c)
    /\ Put(c, [call[c] EXCEPT !.pc = "waiting"])
    /\ UNCHANGED <<now, config, token>>

HoldsLock(c) == queue # <<>> /\ Head(queue) = c
Release == queue' = Tail(queue)

\* Slip: the lock guards the check only, not the request.
RecheckReleases(c) ==
    /\ At(c, "waiting")
    /\ HoldsLock(c)
    /\ \/ Fresh /\ Start(c, token.expiry, TRUE)
       \/ ~Fresh /\ Put(c, [call[c] EXCEPT !.pc = "refreshing", !.until = now + RefreshTime])
    /\ Release
    /\ UNCHANGED <<now, config, token>>

\* Slip: no second look at the cache under the lock.
RecheckSkipped(c) ==
    /\ At(c, "waiting")
    /\ HoldsLock(c)
    /\ Put(c, [call[c] EXCEPT !.pc = "refreshing", !.until = now + RefreshTime])
    /\ UNCHANGED <<now, config, token, queue>>

\* The lock is acquired; another caller may have refreshed meanwhile.
Recheck(c) ==
    /\ At(c, "waiting")
    /\ HoldsLock(c)
    /\ \/ Fresh /\ Start(c, token.expiry, TRUE) /\ Release
       \/ ~Fresh /\ Put(c, [call[c] EXCEPT !.pc = "refreshing", !.until = now + RefreshTime])
                 /\ UNCHANGED queue
    /\ UNCHANGED <<now, config, token>>

\* The token was minted at some moment of the request; its age is counted
\* from the reply.
Refreshed(c) ==
    /\ At(c, "refreshing")
    /\ \E minted \in (call[c].until - RefreshTime)..now :
         /\ token' = [expiry |-> minted + Lifetime,
                      renew |-> now + (IF Lifetime > Skew THEN Lifetime - Skew ELSE 0)]
         /\ Start(c, minted + Lifetime, TRUE)
    /\ Release
    /\ UNCHANGED <<now, config>>

\* The refresh failed: the cached token, however old, or the static one, or
\* nothing: what httpx raised, or a RuntimeError for a reply without a token.
RefreshFails(c) ==
    /\ At(c, "refreshing")
    /\ \/ token # NoToken /\ Start(c, token.expiry, FALSE)
       \/ token = NoToken /\ config.static /\ Start(c, 0, FALSE)
       \/ token = NoToken /\ ~config.static /\ (Ended(c, "lost") \/ Ended(c, "raised"))
    /\ Release
    /\ UNCHANGED <<now, config, token>>

-----------------------------------------------------------------------------
(* The deadline, and the clock.                                            *)

Overdue(c) == Timed(call[c].kind) /\ Active(c) /\ now >= call[c].deadline

\* Slip: a call cancelled in the refresh keeps the lock.
CancelledLocked(c) ==
    /\ Overdue(c)
    /\ Leave(c, IF Kind(c, "ping") THEN "done" ELSE "failed", call[c].attempt)
    /\ UNCHANGED <<now, config, token, queue>>

\* The gRPC call ends at its deadline: its handler is cancelled wherever it is
\* and leaves the lock or its place among the waiters.
Cancelled(c) ==
    /\ Overdue(c)
    /\ Leave(c, IF Kind(c, "ping") THEN "done" ELSE "failed", call[c].attempt)
    /\ \/ /\ \A i \in DOMAIN queue : queue[i] # c
          /\ UNCHANGED queue
       \/ \E i \in DOMAIN queue :
            /\ queue[i] = c
            /\ queue' = SubSeq(queue, 1, i - 1) \o SubSeq(queue, i + 1, Len(queue))
    /\ UNCHANGED <<now, config, token>>

Tick ==
    /\ now < MaxTime
    /\ \A c \in Callers :
         /\ At(c, "calling") \/ At(c, "refreshing") => now < call[c].until
         /\ ~Overdue(c)
    /\ now' = now + 1
    /\ UNCHANGED <<config, token, queue, call>>

Proceed(c) ==
    \/ UseCached(c) \/ NoCredentials(c) \/ Enqueue(c) \/ Recheck(c)
    \/ Refreshed(c) \/ RefreshFails(c)
    \/ Replied(c) \/ NextAttempt(c) \/ Cancelled(c)

Next == Tick \/ \E c \in Callers : Receive(c) \/ Proceed(c)

Spec == Init /\ [][Next]_vars

\* The event loop runs every coroutine on, and an HTTP request ends at the
\* latest with its timeout; nothing makes a call begin.
FairSpec == Spec /\ \A c \in Callers : WF_vars(Proceed(c))
-----------------------------------------------------------------------------
(* Properties.                                                             *)

Tokens == [expiry : Nat, renew : Nat] \cup {NoToken}

Stages == {"idle", "ask", "waiting", "refreshing", "calling", "pausing", "done", "failed"}

\* Types of the state: no call makes more requests than its kind allows.
TypeOK ==
    /\ now \in Nat
    /\ config \in [creds : BOOLEAN, static : BOOLEAN]
    /\ token \in Tokens
    /\ queue \in Seq(Callers)
    /\ call \in [Callers -> [kind : Kinds, pc : Stages, attempt : Nat, expiry : Nat, until : Nat,
                             deadline : Nat, sure : BOOLEAN]]
    /\ \A c \in Callers : call[c].attempt <= Further(call[c].kind)

\* At most one refresh is on its way, and only the holder of the lock is in it,
\* also when the holder of the lock before was cancelled.
OneRefresh ==
    \A c \in Callers : At(c, "refreshing") => HoldsLock(c)

\* "avoids handing out a token that dies mid-request": a request that got its
\* token from the cache or from a refresh ends before the token does, although
\* the token's age is counted from the reply and the request may take its whole
\* timeout.
TokenOutlivesCall ==
    \A c \in Callers : At(c, "calling") /\ call[c].sure => call[c].until <= call[c].expiry

\* "triggers exactly one network refresh, not N": a token is replaced only
\* once it is due, so that callers that waited for one refresh use its token.  It
\* follows from ImplementsTokenService, whose Mint asks for it.
OneMintPerPeriod ==
    [][token' # token /\ token # NoToken => token.renew <= now]_vars

\* What a call holds, and where it is, seen from the token alone.
Standing(r) ==
    IF r.pc = "calling" THEN "using"
    ELSE IF r.pc \in {"ask", "waiting", "refreshing"} THEN "asking" ELSE "away"

Holding(r) ==
    IF r.pc = "calling" THEN [expiry |-> r.expiry, sure |-> r.sure]
    ELSE [expiry |-> 0, sure |-> FALSE]

standings == [c \in Callers |-> Standing(call[c])]
holdings == [c \in Callers |-> Holding(call[c])]

\* With its lock, its second look and its fallbacks get_access_token answers each
\* caller as if it were alone and served at once, in the order of precedence its
\* docstring gives (:149-158): a fresh token is never replaced, and a refresh that
\* fails or is cancelled leaves the cached one as it was.
Service == INSTANCE TokenService WITH
    stage <- standings,
    held <- holdings

ImplementsTokenService == Service!ServiceSpec

\* Whatever fails, a call ends, for the lock is released on every path; and
\* those that "never raise" (the pings, and a translation once there is a
\* transcript) return.
EveryCallEnds ==
    \A c \in Callers :
        At(c, "ask") ~> \/ At(c, "done")
                        \/ /\ At(c, "failed")
                           /\ call[c].kind \notin {"ping", "warm"}
                           /\ call[c].kind = "transcribe" => call[c].attempt = 0
=============================================================================
