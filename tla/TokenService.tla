---------------------------- MODULE TokenService ----------------------------
(***************************************************************************)
(* What get_access_token of config/catalyst_token.py promises its callers: *)
(* as if each were served alone and at once, the cached token while it is  *)
(* fresh, else one minted for the purpose, else what there is to fall back *)
(* on.  No lock, no refresh under way: a caller asks, has a token or leaves.*)
(***************************************************************************)
EXTENDS Integers

CONSTANTS
    Callers,      \* calls that need the token
    Lifetime,     \* life of a token
    Skew,         \* how long before its end a token is due
    RefreshTime,  \* how long ago a token may have been minted that is new
    NoToken       \* there is none

VARIABLES
    now,     \* the time
    config,  \* config.creds, config.static: what there is to get tokens with
    token,   \* the cached token: when it ends and when it is due
    stage,   \* of each caller: "away", "asking" or "using"
    held     \* what it uses: when that ends, and if it was fresh or new

serviceVars == <<now, config, token, stage, held>>

Nothing == [expiry |-> 0, sure |-> FALSE]

ServiceInit ==
    /\ now = 0
    /\ config \in [creds : BOOLEAN, static : BOOLEAN]
    /\ token = NoToken
    /\ stage = [c \in Callers |-> "away"]
    /\ held = [c \in Callers |-> Nothing]

IsFresh == token # NoToken /\ now < token.renew

Ask(c) ==
    /\ stage[c] = "away"
    /\ stage' = [stage EXCEPT ![c] = "asking"]
    /\ UNCHANGED <<now, config, token, held>>

Obtain(c, expiry, sure) ==
    /\ stage[c] = "asking"
    /\ stage' = [stage EXCEPT ![c] = "using"]
    /\ held' = [held EXCEPT ![c] = [expiry |-> expiry, sure |-> sure]]

\* 1. The cached token, if it is fresh.
Get(c) ==
    /\ IsFresh
    /\ Obtain(c, token.expiry, TRUE)
    /\ UNCHANGED <<now, config, token>>

\* 2. Otherwise, with credentials, a new one, which is the cached one from now on.
Mint(c) ==
    /\ ~IsFresh
    /\ config.creds
    /\ \E minted \in 0..now :
         /\ now - RefreshTime <= minted
         /\ token' = [expiry |-> minted + Lifetime,
                      renew |-> now + (IF Lifetime > Skew THEN Lifetime - Skew ELSE 0)]
         /\ Obtain(c, minted + Lifetime, TRUE)
    /\ UNCHANGED <<now, config>>

\* 3. If there is none to be had, the cached one although it is due ...
Reuse(c) ==
    /\ ~IsFresh
    /\ config.creds /\ token # NoToken
    /\ Obtain(c, token.expiry, FALSE)
    /\ UNCHANGED <<now, config, token>>

\* 4. ... or the static one.
FallBack(c) ==
    /\ token = NoToken
    /\ config.static
    /\ Obtain(c, 0, FALSE)
    /\ UNCHANGED <<now, config, token>>

\* It gets none (an exception), or no longer wants one (a cancelled call) ...
GiveUp(c) ==
    /\ stage[c] = "asking"
    /\ stage' = [stage EXCEPT ![c] = "away"]
    /\ UNCHANGED <<now, config, token, held>>

\* ... or is done with it, and may ask again.
Finish(c) ==
    /\ stage[c] = "using"
    /\ stage' \in {[stage EXCEPT ![c] = "away"], [stage EXCEPT ![c] = "asking"]}
    /\ held' = [held EXCEPT ![c] = Nothing]
    /\ UNCHANGED <<now, config, token>>

Pass ==
    /\ now' = now + 1
    /\ UNCHANGED <<config, token, stage, held>>

ServiceNext ==
    \/ Pass
    \/ \E c \in Callers :
         \/ Ask(c) \/ Get(c) \/ Mint(c) \/ Reuse(c) \/ FallBack(c)
         \/ GiveUp(c) \/ Finish(c)

ServiceSpec == ServiceInit /\ [][ServiceNext]_serviceVars

=============================================================================
