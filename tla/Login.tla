-------------------------------- MODULE Login --------------------------------
(***************************************************************************)
(* Signing in with one badge number: the attempts a server process lets    *)
(* through to the password check (auth/login_rate_limiter.py, the login    *)
(* route and auth/simple_auth.py), and the browser tab that holds the      *)
(* token (api/auth.js, hooks/useAuth.js, App.jsx).  Badge numbers share    *)
(* nothing, so there is one; besides the tab, other clients try it too.    *)
(***************************************************************************)
EXTENDS Naturals, FiniteSets

CONSTANTS Workers,      \* server processes, each with counts of its own
          Tab,          \* the officer's browser tab
          Others,       \* other clients that try the badge number
          MaxAttempts,  \* MAX_ATTEMPTS
          Window,       \* WINDOW_SECONDS, in ticks
          MaxResets,    \* bound on a worker's successes and restarts in a window
          MaxCalls      \* bound on API calls, and on logouts, in flight

ASSUME LoginAssumption ==
  /\ Workers # {} /\ Tab \notin Others
  /\ {MaxAttempts, Window} \subseteq Nat \ {0}
  /\ {MaxResets, MaxCalls} \subseteq Nat

Clients == Others \union {Tab}
NoEntry == [count |-> 0, age |-> Window]
Ages == 0 .. Window - 1

VARIABLES
  entry,     \* _attempts[badge] of each worker: its count and its window's age
  attempt,   \* the login request of each client
  token,     \* _token of api/auth.js and its copy in localStorage
  shown,     \* isAuthenticated: the chat is on the screen
  calls,     \* API calls under way that were sent with a token
  logouts,   \* logout POSTs awaited
  admitted,  \* for the properties: attempts let through, by worker and age
  resets     \* and resets of the count, by success or by restart

counting == <<entry, admitted, resets>>
tab == <<token, shown, calls, logouts>>
loginVars == <<counting, attempt, tab>>

Idle == [pc |-> "idle", worker |-> CHOOSE w \in Workers : TRUE, right |-> FALSE]
Stages == {"idle", "sent", "lookup", "verify", "accepted", "rejected", "refused"}

LoginInit ==
  /\ entry = [w \in Workers |-> NoEntry]
  /\ attempt = [c \in Clients |-> Idle]
  /\ token = FALSE /\ shown = FALSE
  /\ calls = 0 /\ logouts = 0
  /\ admitted = [w \in Workers |-> [t \in Ages |-> 0]]
  /\ resets = [w \in Workers |-> [t \in Ages |-> 0]]

\* Events of the last Window ticks, and how many they are.
Events(count) == UNION {{t} \X (1..count[t]) : t \in Ages}
Recent(count) == Cardinality(Events(count))

Older(count) == [t \in Ages |-> IF t = 0 THEN 0 ELSE count[t - 1]]

\* Time passes: what is older than the window plays no part any more.
Tick ==
  /\ entry' = [w \in Workers |-> [entry[w] EXCEPT !.age = IF @ < Window THEN @ + 1 ELSE @]]
  /\ admitted' = [w \in Workers |-> Older(admitted[w])]
  /\ resets' = [w \in Workers |-> Older(resets[w])]
  /\ UNCHANGED <<attempt, tab>>

-----------------------------------------------------------------------------
(* The server: login_route *)

\* A client sends an attempt to some worker; the tab only from the login page,
\* while none of its own is under way (isLoading).
Submit(c) ==
  /\ attempt[c].pc = "idle"
  /\ c = Tab => ~shown
  /\ \E w \in Workers, right \in {c = Tab, FALSE} :
       attempt' = [attempt EXCEPT ![c] = [pc |-> "sent", worker |-> w, right |-> right]]
  /\ UNCHANGED <<counting, tab>>

Stage(c, pc) == attempt' = [attempt EXCEPT ![c].pc = pc]

\* Slip: a window that is over begins again with its count.
CurrentKeepsCount(w) == [entry[w] EXCEPT !.age = IF @ < Window THEN @ ELSE 0]

\* The window is over, or there was none: a new one starts with this attempt.
Current(w) == IF entry[w].age < Window THEN entry[w] ELSE [count |-> 0, age |-> 0]

\* Slip: the new entry is not put into the table.
CheckUnstored(c) ==
  LET w == attempt[c].worker IN
  /\ attempt[c].pc = "sent"
  /\ IF Current(w).count >= MaxAttempts
     THEN Stage(c, "refused") /\ UNCHANGED <<entry, admitted>>
     ELSE /\ entry' = IF entry[w].age < Window THEN [entry EXCEPT ![w] = [Current(w) EXCEPT !.count = @ + 1]]
                      ELSE entry
          /\ Stage(c, "lookup")
          /\ admitted' = [admitted EXCEPT ![w][0] = @ + 1]
  /\ UNCHANGED <<resets, tab>>

\* check_login_attempt has no await: the entry is looked up, renewed, compared
\* and counted at once.
Check(c) ==
  LET w == attempt[c].worker IN
  /\ attempt[c].pc = "sent"
  /\ IF Current(w).count >= MaxAttempts
     THEN /\ entry' = [entry EXCEPT ![w] = Current(w)]
          /\ Stage(c, "refused")
          /\ UNCHANGED admitted
     ELSE /\ entry' = [entry EXCEPT ![w] = [Current(w) EXCEPT !.count = @ + 1]]
          /\ Stage(c, "lookup")
          /\ admitted' = [admitted EXCEPT ![w][0] = @ + 1]
  /\ UNCHANGED <<resets, tab>>

\* The Employee row is found, is not, or the query failed (503).
Lookup(c) ==
  /\ attempt[c].pc = "lookup"
  /\ Stage(c, "verify") \/ Stage(c, "rejected")
  /\ UNCHANGED <<counting, tab>>

\* bcrypt in a thread: wrong ...
Reject(c) ==
  /\ attempt[c].pc = "verify"
  /\ ~attempt[c].right
  /\ Stage(c, "rejected")
  /\ UNCHANGED <<counting, tab>>

\* ... or right: the entry is removed, with the attempts in flight it counted.
Accept(c) ==
  LET w == attempt[c].worker IN
  /\ attempt[c].pc = "verify"
  /\ attempt[c].right
  /\ Recent(resets[w]) < MaxResets
  /\ entry' = [entry EXCEPT ![w] = NoEntry]
  /\ resets' = [resets EXCEPT ![w][0] = @ + 1]
  /\ Stage(c, "accepted")
  /\ UNCHANGED <<admitted, tab>>

\* A worker starts anew, without its counts; its requests are lost.
Restart(w) ==
  /\ Recent(resets[w]) < MaxResets
  /\ entry' = [entry EXCEPT ![w] = NoEntry]
  /\ resets' = [resets EXCEPT ![w][0] = @ + 1]
  /\ attempt' = [c \in Clients |->
       IF attempt[c].pc \in {"sent", "lookup", "verify"} /\ attempt[c].worker = w
       THEN [attempt[c] EXCEPT !.pc = "rejected"] ELSE attempt[c]]
  /\ UNCHANGED <<admitted, tab>>

-----------------------------------------------------------------------------
(* The tab *)

BackToIdle(c) == attempt' = [attempt EXCEPT ![c] = Idle]

\* Another client has its answer.
OtherIsAnswered(c) ==
  /\ c # Tab
  /\ attempt[c].pc \in {"accepted", "rejected", "refused"}
  /\ BackToIdle(c)
  /\ UNCHANGED <<counting, tab>>

\* setToken, and then the state of useAuth.
SignIn ==
  /\ attempt[Tab].pc = "accepted"
  /\ BackToIdle(Tab)
  /\ token' = TRUE /\ shown' = TRUE
  /\ UNCHANGED <<counting, calls, logouts>>

\* The tab no longer waits for its attempt; the server goes on with it, as with
\* one of the others.
Abandon ==
  \/ attempt[Tab].pc \in {"accepted", "rejected", "refused"} /\ BackToIdle(Tab)
  \/ \E o \in Others :
       /\ attempt[o].pc = "idle"
       /\ attempt[Tab].pc \in {"sent", "lookup", "verify"}
       /\ attempt' = [attempt EXCEPT ![o] = attempt[Tab], ![Tab] = Idle]

\* Refused, rejected, or the connection failed: the page says so.
SignInFails ==
  /\ attempt[Tab].pc # "idle"
  /\ Abandon
  /\ UNCHANGED <<counting, tab>>

\* The chat sends a call with the token ...
Call ==
  /\ shown /\ token
  /\ calls < MaxCalls
  /\ calls' = calls + 1
  /\ UNCHANGED <<counting, attempt, token, shown, logouts>>

\* ... that is answered.
CallEnds ==
  /\ calls > 0
  /\ calls' = calls - 1
  /\ UNCHANGED <<counting, attempt, token, shown, logouts>>

\* logout: the token goes at once; the chat goes when the POST has been answered
\* or has failed, or at once if there was no token.
Logout ==
  /\ token' = FALSE
  /\ IF token
     THEN logouts < MaxCalls /\ logouts' = logouts + 1 /\ shown' = shown
     ELSE logouts' = logouts /\ shown' = FALSE
  /\ UNCHANGED <<counting, attempt>>

SignOut == shown /\ Logout /\ UNCHANGED calls

\* A call is answered 401, perhaps after the chat it was sent from has gone.
CallUnauthorised == calls > 0 /\ Logout /\ calls' = calls - 1

\* Slip: a failure of the POST is not caught, and the state is not set.
LogoutEndsOnSuccess ==
  /\ logouts > 0
  /\ logouts' = logouts - 1
  /\ shown' \in {shown, FALSE}
  /\ UNCHANGED <<counting, attempt, token, calls>>

LogoutEnds ==
  /\ logouts > 0
  /\ logouts' = logouts - 1
  /\ shown' = FALSE
  /\ UNCHANGED <<counting, attempt, token, calls>>

\* Slip: whether one is signed in is remembered apart from the token.
ReloadRemembers ==
  /\ calls' = 0 /\ logouts' = 0
  /\ (attempt[Tab].pc = "idle" /\ UNCHANGED attempt) \/ Abandon
  /\ UNCHANGED <<counting, token, shown>>

\* The page is loaded anew: the token is read from localStorage, and
\* isAuthenticated from the token; what was awaited is not.
Reload ==
  /\ shown' = token
  /\ calls' = 0 /\ logouts' = 0
  /\ (attempt[Tab].pc = "idle" /\ UNCHANGED attempt) \/ Abandon
  /\ UNCHANGED <<counting, token>>

-----------------------------------------------------------------------------

LoginNext ==
  \/ Tick
  \/ \E c \in Clients :
       Submit(c) \/ Check(c) \/ Lookup(c) \/ Reject(c) \/ Accept(c) \/ OtherIsAnswered(c)
  \/ \E w \in Workers : Restart(w)
  \/ SignIn \/ SignInFails \/ Call \/ CallEnds \/ SignOut \/ CallUnauthorised
  \/ LogoutEnds \/ Reload

\* A fetch ends, with an answer or a failure.
LoginSpec == LoginInit /\ [][LoginNext]_loginVars /\ WF_loginVars(LogoutEnds)

-----------------------------------------------------------------------------
(* Properties *)

\* Every variable is of its type, and no count passes MAX_ATTEMPTS.
LoginTypeOK ==
  /\ entry \in [Workers -> [count : 0..MaxAttempts, age : 0..Window]]
  /\ attempt \in [Clients -> [pc : Stages, worker : Workers, right : BOOLEAN]]
  /\ token \in BOOLEAN /\ shown \in BOOLEAN
  /\ calls \in 0..MaxCalls /\ logouts \in 0..MaxCalls

\* In any stretch as long as the window, wherever it begins, a worker lets
\* through no more than two windows' attempts, and one window's for each reset in
\* it: the windows are fixed, begin with an attempt, and are cut short only by a
\* success or a restart (login_rate_limiter.py:68-79).
AttemptsBounded ==
  \A w \in Workers :
    Recent(admitted[w]) <= MaxAttempts * (2 + Recent(resets[w]))

\* Nobody is refused unless MAX_ATTEMPTS others were let through by that worker
\* within the window: refusals do not count, and a success or the end of the
\* window clears what went before (:70-76, :93).
RefusalEarned ==
  [][\A c \in Clients :
       attempt[c].pc # "refused" /\ attempt'[c].pc = "refused" =>
         Recent(admitted[attempt[c].worker]) >= MaxAttempts]_loginVars

\* The chat is on the screen without a token only while a logout awaits its POST,
\* through repeated logouts, late 401s, new sign-ins and reloads (useAuth.js:36-41,
\* auth.js:140-152).
ChatHasToken == shown /\ ~token => logouts > 0

\* Once the token is gone the chat goes, whether the POST succeeds or not.
LogoutCloses == (shown /\ ~token) ~> ~shown

=============================================================================
