-------------------------- MODULE IdempotencyStore --------------------------
(***************************************************************************)
(* What the Idempotency-Key step may rely on from any IdempotencyStore     *)
(* (idempotency.go, the interface and its comments): at most one claim on  *)
(* a key, which ends when it is released with its own token or when its    *)
(* TTL runs out, and at most one saved response under a key, which ends    *)
(* when its TTL runs out or a later Save replaces it.                      *)
(*                                                                         *)
(* Time is left out: a TTL that runs out is the step Expire, which may     *)
(* happen at any moment.  The sets lapsed and forgotten remember which     *)
(* claims and responses ended that way, so that an implementation cannot   *)
(* pass off a claim it dropped as one that ran out.                        *)
(***************************************************************************)
CONSTANTS
    Key,       \* store keys: a caller's scope and its Idempotency-Key, hashed
    Token,     \* what Claim returns; random in the code, so never reused
    Response,  \* saved responses, each with the fingerprint of its request
    None       \* no claim, no response

VARIABLES
    claims,    \* the token that holds each key, or None
    responses, \* the response saved under each key, or None
    lapsed,    \* tokens whose claim ended because its TTL ran out
    forgotten  \* responses dropped because their TTL ran out

storeVars == <<claims, responses, lapsed, forgotten>>

StoreTypeOK ==
    /\ claims \in [Key -> Token \cup {None}]
    /\ responses \in [Key -> Response \cup {None}]
    /\ lapsed \subseteq Token
    /\ forgotten \subseteq Response

StoreInit ==
    /\ claims = [k \in Key |-> None]
    /\ responses = [k \in Key |-> None]
    /\ lapsed = {}
    /\ forgotten = {}

-----------------------------------------------------------------------------
(* Claim returns claimed TRUE: nobody held the key.                        *)
Claim(k, t) ==
    /\ claims[k] = None
    /\ claims' = [claims EXCEPT ![k] = t]
    /\ UNCHANGED <<responses, lapsed, forgotten>>

(* Release drops a claim only when the token is its own.                   *)
Release(k, t) ==
    /\ claims' = [claims EXCEPT ![k] = IF @ = t THEN None ELSE @]
    /\ UNCHANGED <<responses, lapsed, forgotten>>

(* Save keeps a response, in the place of any the key had.                 *)
Save(k, v) ==
    /\ responses' = [responses EXCEPT ![k] = v]
    /\ UNCHANGED <<claims, lapsed, forgotten>>

(* Time passes: the claims T and the responses F reach the end of their TTL. *)
Expire(T, F) ==
    /\ claims' = [k \in Key |-> IF claims[k] \in T THEN None ELSE claims[k]]
    /\ responses' = [k \in Key |-> IF responses[k] \in F THEN None ELSE responses[k]]
    /\ lapsed' = lapsed \cup T
    /\ forgotten' = forgotten \cup F

(* A TTL counted from the call rather than from its effect may be over by  *)
(* the time the call takes effect: the caller is told it holds the key, or *)
(* that its response is kept, and the entry has already run out.           *)
LateClaim(k, t) ==
    /\ claims[k] = None
    /\ lapsed' = lapsed \cup {t}
    /\ UNCHANGED <<claims, responses, forgotten>>

LateSave(k, v) ==
    /\ responses' = [responses EXCEPT ![k] = None]
    /\ forgotten' = forgotten \cup {v}
    /\ UNCHANGED <<claims, lapsed>>

-----------------------------------------------------------------------------
Held == {claims[k] : k \in Key} \ {None}
Kept == {responses[k] : k \in Key} \ {None}

StoreNext ==
    \/ \E k \in Key, t \in Token \ (Held \cup lapsed) : Claim(k, t) \/ LateClaim(k, t)
    \/ \E k \in Key, t \in Token : Release(k, t)
    \/ \E k \in Key, v \in Response \ (Kept \cup forgotten) : Save(k, v) \/ LateSave(k, v)
    \/ \E T \in SUBSET Held, F \in SUBSET Kept : Expire(T, F)

StoreSpec == StoreInit /\ [][StoreNext]_storeVars
=============================================================================
