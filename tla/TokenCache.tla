----------------------------- MODULE TokenCache -----------------------------
(***************************************************************************)
(* The access tokens that api.http keeps for the process.  Callers are the *)
(* cases of a run and the chains of the governance threads; no lock is     *)
(* taken.  The token endpoint and its clock are external.                  *)
(***************************************************************************)
EXTENDS Integers, FiniteSets

CONSTANTS
    Callers,    \* cases that need a token, each in some thread
    Requests,   \* records [url, clientEnv, scope, audience, skew]
    Lifetimes,  \* what the endpoint may say of a token's life; may be negative
    DefaultLife, \* the 3600 seconds of a token whose life is not said
    MaxTime     \* bound on the clock

TokenCacheAssumption ==
    /\ IsFiniteSet(Callers)
    /\ \A r \in Requests : r.skew \in Nat
    /\ Lifetimes \subseteq Int /\ DefaultLife \in Nat
    /\ MaxTime \in Nat

VARIABLES
    time,   \* the clock of the runner and of the endpoint
    cache,  \* _OAUTH_TOKEN_CACHE: key -> [token, expires]
    pc,     \* caller -> idle, asked, fetch, answered, served, failed
    request, now, token, cached \* of a caller: its case, time.time(), the token, whether from the cache

vars == <<time, cache, pc, request, now, token, cached>>

NoToken == [request |-> <<>>, from |-> 0, said |-> {}]

(* Slip: the audience is left out. *)
WithoutAudience(r) == <<r.url, r.clientEnv, r.scope, "">>
CacheKey(r) == <<r.url, r.clientEnv, r.scope, r.audience>>

Usable(r, at) == CacheKey(r) \in DOMAIN cache /\ at < cache[CacheKey(r)].expires - r.skew

Tick == time < MaxTime /\ time' = time + 1 /\ UNCHANGED <<cache, pc, request, now, token, cached>>

Ask(c, r) ==
    /\ pc[c] = "idle"
    /\ request' = [request EXCEPT ![c] = r] /\ now' = [now EXCEPT ![c] = time]
    /\ IF Usable(r, time)
       THEN /\ token' = [token EXCEPT ![c] = cache[CacheKey(r)].token]
            /\ cached' = [cached EXCEPT ![c] = TRUE]
            /\ pc' = [pc EXCEPT ![c] = "served"]
       ELSE pc' = [pc EXCEPT ![c] = "fetch"] /\ UNCHANGED <<token, cached>>
    /\ UNCHANGED <<time, cache>>

(* The endpoint issues a token for the request, and may say how long it    *)
(* lives: said holds that life, or nothing when the field is missing or is *)
(* not a number.  Which credentials it was issued to is left out: the key  *)
(* names the variable, not its value.                                      *)
Issue(c) ==
    /\ pc[c] = "fetch"
    /\ \E said \in {{}} \cup {{life} : life \in Lifetimes} :
          token' = [token EXCEPT ![c] =
            [request |-> <<request[c].url, request[c].clientEnv, request[c].scope, request[c].audience>>,
             from |-> time, said |-> said]]
    /\ pc' = [pc EXCEPT ![c] = "answered"]
    /\ UNCHANGED <<time, cache, request, now, cached>>

(* expires_seconds: what is taken for the life of a token. *)
Life(t) == IF t.said = {} THEN DefaultLife ELSE CHOOSE life \in t.said : TRUE

(* A variable that is not set, a refused or malformed answer, one without  *)
(* the token field.                                                        *)
FetchFails(c) ==
    /\ pc[c] = "fetch"
    /\ pc' = [pc EXCEPT ![c] = "failed"]
    /\ UNCHANGED <<time, cache, request, now, token, cached>>

(* Slip: the life is counted from when the answer arrived. *)
FromTheAnswer(c, life) == time + life
Expires(c, life) == now[c] + (IF life > 0 THEN life ELSE 0)

Keep(c) ==
    /\ pc[c] = "answered"
    /\ LET own == CacheKey(request[c])
       IN  cache' = [k \in DOMAIN cache \cup {own} |->
                        IF k = own THEN [token |-> token[c], expires |-> Expires(c, Life(token[c]))]
                        ELSE cache[k]]
    /\ cached' = [cached EXCEPT ![c] = FALSE]
    /\ pc' = [pc EXCEPT ![c] = "served"]
    /\ UNCHANGED <<time, request, now, token>>

(* The request was sent; the caller goes on to its next case. *)
Use(c) ==
    /\ pc[c] \in {"served", "failed"}
    /\ pc' = [pc EXCEPT ![c] = "idle"]
    /\ token' = [token EXCEPT ![c] = NoToken]
    /\ now' = [now EXCEPT ![c] = 0] /\ cached' = [cached EXCEPT ![c] = FALSE]
    /\ UNCHANGED <<time, cache, request>>

Init ==
    /\ time = 0 /\ cache = <<>>
    /\ pc = [c \in Callers |-> "idle"]
    /\ request = [c \in Callers |-> CHOOSE r \in Requests : TRUE]
    /\ now = [c \in Callers |-> 0]
    /\ token = [c \in Callers |-> NoToken]
    /\ cached = [c \in Callers |-> FALSE]

Next ==
    \/ Tick
    \/ \E c \in Callers :
         \/ \E r \in Requests : Ask(c, r)
         \/ Issue(c) \/ FetchFails(c) \/ Keep(c) \/ Use(c)

Spec == Init /\ [][Next]_vars

-----------------------------------------------------------------------------
(* Entries are of the requests that were made, nobody has a token before   *)
(* one was issued (_OAUTH_TOKEN_CACHE).                                    *)
TypeOK ==
    /\ DOMAIN cache \subseteq {CacheKey(r) : r \in Requests}
    /\ pc \in [Callers -> {"idle", "fetch", "answered", "served", "failed"}]
    /\ \A c \in Callers : pc[c] \in {"idle", "fetch", "failed"} => token[c] = NoToken

(* A token taken from the cache was, when it was asked for, good for       *)
(* longer than the skew the case asks for, counted from when the endpoint  *)
(* issued it, however long the answer took that brought it (the clock is   *)
(* read before the request).  The life is the one the endpoint said; of a  *)
(* token it said nothing of, only that it is not older than the default,   *)
(* and the endpoint may have ended it before.                              *)
CachedTokenIsLive ==
    \A c \in Callers : pc[c] = "served" /\ cached[c] =>
        \/ \E life \in token[c].said : now[c] + request[c].skew < token[c].from + life
        \/ token[c].said = {} /\ now[c] + request[c].skew < token[c].from + DefaultLife

(* A token that is served was issued for the scope and the audience asked  *)
(* for and for the client variable named, never for another case's.        *)
TokenIsForTheRequest ==
    \A c \in Callers : pc[c] = "served" =>
        token[c].request = <<request[c].url, request[c].clientEnv, request[c].scope, request[c].audience>>
=============================================================================
