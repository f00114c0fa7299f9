----------------------- MODULE MemoryIdempotencyStore -----------------------
(***************************************************************************)
(* memoryIdempotencyStore (idempotency_memory.go): two maps behind one     *)
(* mutex.  A call runs in two steps: it is made (Claim and Save read the   *)
(* clock here, before they wait for the mutex), and it takes effect under  *)
(* the mutex.  Between the two, other calls run and time passes.           *)
(*                                                                         *)
(* A call stands for the token its Claim returns and for the response its  *)
(* Save keeps: tokens are 16 random bytes, and two responses differ in     *)
(* nothing this module tells apart.                                        *)
(***************************************************************************)
EXTENDS Naturals

CONSTANTS
    Call,        \* the calls made to the store
    Key,
    InFlightTTL, \* the ttl every Claim passes
    TTL,         \* the ttl every Save passes
    MaxClock,    \* bound on time, for TLC
    None

ASSUME TTLAssumption ==
    /\ InFlightTTL \in Nat \ {0}
    /\ TTL \in Nat \ {0}
    /\ MaxClock \in Nat

ASSUME NoneAssumption == None \notin Call

VARIABLES
    clock,     \* what time.Now returns; it never goes back
    claims,    \* m.claims: the token and the end of each key's claim
    saved,     \* m.responses: the response and the end of each key's entry
    pc,        \* where each call is: "idle", "waiting" (for m.mu) or "done"
    call,      \* each call's method, arguments and clock reading
    res,       \* what each call returned
    lapsed,    \* history: tokens whose claim ran out
    forgotten  \* history: responses whose entry ran out

maps == <<claims, saved>>
vars == <<clock, claims, saved, pc, call, res, lapsed, forgotten>>

Entry == [id : Call, expires : Nat]
NoEntry == [id |-> None, expires |-> 0]
NoCall == [op |-> "none", key |-> None, token |-> None, now |-> 0]

Init ==
    /\ clock = 0
    /\ claims = [k \in Key |-> NoEntry]
    /\ saved = [k \in Key |-> NoEntry]
    /\ pc = [c \in Call |-> "idle"]
    /\ call = [c \in Call |-> NoCall]
    /\ res = [c \in Call |-> None]
    /\ lapsed = {}
    /\ forgotten = {}

(* now.Before(expires): an entry ends at its expiry, not after it.         *)
Running(e, now) == e.id # None /\ now < e.expires

(* What each key of a map holds now, if anything.                          *)
InForce(m) == [k \in Key |-> IF Running(m[k], clock) THEN m[k].id ELSE None]

-----------------------------------------------------------------------------
(* The call is made.  now is read before m.mu.Lock by Claim and Save; the  *)
(* other two read no clock here.                                           *)
Make(c, op, k, t) ==
    /\ pc[c] = "idle"
    /\ pc' = [pc EXCEPT ![c] = "waiting"]
    /\ call' = [call EXCEPT ![c] = [op |-> op, key |-> k, token |-> t,
                                    now |-> IF op \in {"Claim", "Save"} THEN clock ELSE 0]]
    /\ UNCHANGED <<clock, claims, saved, res, lapsed, forgotten>>

Issued == {c \in Call : call[c].op = "Claim" /\ res[c] = c}

Invoke(c) ==
    \E k \in Key :
        \/ \E op \in {"Lookup", "Claim", "Save"} : Make(c, op, k, None)
        \/ \E t \in Issued : Make(c, "Release", k, t)

(* A call that waits for the mutex gets it, and returns.                   *)
Waiting(c, op) == pc[c] = "waiting" /\ call[c].op = op

Return(c, result) ==
    /\ pc' = [pc EXCEPT ![c] = "done"]
    /\ res' = [res EXCEPT ![c] = result]
    /\ UNCHANGED <<clock, call>>

-----------------------------------------------------------------------------
LookupIgnoringExpiry(c) == \* mutant: an entry not yet swept is returned
    /\ Waiting(c, "Lookup")
    /\ Return(c, saved[call[c].key].id)
    /\ UNCHANGED <<maps, lapsed, forgotten>>

(* Lookup reads the clock under the mutex, and returns an entry in force.  *)
Lookup(c) ==
    /\ Waiting(c, "Lookup")
    /\ Return(c, InForce(saved)[call[c].key])
    /\ UNCHANGED <<maps, lapsed, forgotten>>

DropExpiredEarly(m, now) == \* mutant: an entry is dropped in its last instant
    [k \in Key |-> IF Running(m[k], now + 1) THEN m[k] ELSE NoEntry]

(* dropExpired, over one of the maps.                                      *)
DropExpired(m, now) ==
    [k \in Key |-> IF Running(m[k], now) THEN m[k] ELSE NoEntry]

ClaimUnchecked(c) == \* mutant: the key's holder is not looked at
    LET now == call[c].now
        end == now + InFlightTTL IN
    /\ Waiting(c, "Claim")
    /\ saved' = DropExpired(saved, now)
    /\ Return(c, c)
    /\ claims' = [DropExpired(claims, now) EXCEPT ![call[c].key] = [id |-> c, expires |-> end]]
    /\ lapsed' = IF clock < end THEN lapsed ELSE lapsed \cup {c}
    /\ UNCHANGED forgotten

(* Claim sweeps by the clock reading it was made with, and takes the key   *)
(* from that reading on.  It returns its token (the call), or None.        *)
Claim(c) ==
    LET k    == call[c].key
        now  == call[c].now
        end  == now + InFlightTTL
        kept == DropExpired(claims, now) IN
    /\ Waiting(c, "Claim")
    /\ saved' = DropExpired(saved, now)
    /\ \/ /\ kept[k].id # None
          /\ Return(c, None)
          /\ claims' = kept
          /\ UNCHANGED lapsed
       \/ /\ kept[k].id = None
          /\ Return(c, c)
          /\ claims' = [kept EXCEPT ![k] = [id |-> c, expires |-> end]]
          /\ lapsed' = IF clock < end THEN lapsed ELSE lapsed \cup {c}
    /\ UNCHANGED forgotten

(* Save sweeps and writes by the clock reading it was made with.           *)
Save(c) ==
    LET now == call[c].now
        end == now + TTL IN
    /\ Waiting(c, "Save")
    /\ Return(c, None)
    /\ claims' = DropExpired(claims, now)
    /\ saved' = [DropExpired(saved, now) EXCEPT ![call[c].key] = [id |-> c, expires |-> end]]
    /\ forgotten' = IF clock < end THEN forgotten ELSE forgotten \cup {c}
    /\ UNCHANGED lapsed

ReleaseEmptying(c) == \* mutant: the token goes, its entry stays
    /\ Waiting(c, "Release")
    /\ Return(c, None)
    /\ claims' = [claims EXCEPT ![call[c].key].id = IF @ = call[c].token THEN None ELSE @]
    /\ UNCHANGED <<saved, lapsed, forgotten>>

ReleaseAny(c) == \* mutant: the token is not compared
    /\ Waiting(c, "Release")
    /\ Return(c, None)
    /\ claims' = [claims EXCEPT ![call[c].key] = NoEntry]
    /\ UNCHANGED <<saved, lapsed, forgotten>>

(* Release drops the key's claim only when the token is its own.           *)
Release(c) ==
    /\ Waiting(c, "Release")
    /\ Return(c, None)
    /\ claims' = [claims EXCEPT ![call[c].key] = IF @.id = call[c].token THEN NoEntry ELSE @]
    /\ UNCHANGED <<saved, lapsed, forgotten>>

-----------------------------------------------------------------------------
RunOut(m) == {m[k].id : k \in {j \in Key : Running(m[j], clock) /\ ~Running(m[j], clock + 1)}}

(* Time passes; the entries that end now stay in the maps until a sweep.   *)
Tick ==
    /\ clock < MaxClock
    /\ clock' = clock + 1
    /\ lapsed' = lapsed \cup RunOut(claims)
    /\ forgotten' = forgotten \cup RunOut(saved)
    /\ UNCHANGED <<claims, saved, pc, call, res>>

Next ==
    \/ Tick
    \/ \E c \in Call : Invoke(c) \/ Lookup(c) \/ Claim(c) \/ Save(c) \/ Release(c)

Spec == Init /\ [][Next]_vars

-----------------------------------------------------------------------------
CallType ==
    [op : {"none", "Lookup", "Claim", "Save", "Release"},
     key : Key \cup {None}, token : Call \cup {None}, now : Nat]

(* The variables keep their types, and a call that was made has a key.     *)
TypeOK ==
    /\ clock \in Nat
    /\ claims \in [Key -> Entry \cup {NoEntry}]
    /\ saved \in [Key -> Entry \cup {NoEntry}]
    /\ pc \in [Call -> {"idle", "waiting", "done"}]
    /\ call \in [Call -> CallType]
    /\ res \in [Call -> Call \cup {None}]
    /\ lapsed \subseteq Call
    /\ forgotten \subseteq Call

(* A claim is held until it is released with its token or its TTL ends     *)
(* (NewMemoryIdempotencyStore's comment): no other call's sweep, claim or  *)
(* release ends it, however late that call gets the mutex.                 *)
Released(c) == \E d \in Call :
    pc[d] = "done" /\ call[d].op = "Release" /\ call[d].key = call[c].key /\ call[d].token = c

HeldUntilReleasedOrExpired ==
    \A c \in Issued :
        clock < call[c].now + InFlightTTL /\ ~Released(c) =>
            claims[call[c].key] = [id |-> c, expires |-> call[c].now + InFlightTTL]

(* A saved response is kept for its TTL, whoever else sweeps the maps,     *)
(* unless another Save replaces it.                                        *)
SavedAlone(c) ==
    /\ pc[c] = "done"
    /\ call[c].op = "Save"
    /\ \A d \in Call \ {c} :
          ~(pc[d] = "done" /\ call[d].op = "Save" /\ call[d].key = call[c].key)

KeptUntilReplacedOrExpired ==
    \A c \in Call :
        SavedAlone(c) /\ clock < call[c].now + TTL =>
            saved[call[c].key] = [id |-> c, expires |-> call[c].now + TTL]

(* A Lookup never returns a response saved under another key or past the   *)
(* end of its TTL, swept or not; and it does not miss one that is kept.    *)
LookupIsCurrent ==
    [][\A c \in Call :
          pc[c] = "waiting" /\ pc'[c] = "done" /\ call[c].op = "Lookup" =>
              LET Fits(d) == call[d].key = call[c].key /\ clock < call[d].now + TTL IN
              /\ \A d \in Call : res'[c] = d => pc[d] = "done" /\ call[d].op = "Save" /\ Fits(d)
              /\ res'[c] = None => \A d \in Call : SavedAlone(d) => ~Fits(d)]_vars

(* The store implements the contract: seen through the claims and the      *)
(* responses in force, each of its steps is a step of IdempotencyStore.    *)
Contract == INSTANCE IdempotencyStore WITH
    Token <- Call, Response <- Call,
    claims <- InForce(claims), responses <- InForce(saved)

ImplementsContract == Contract!StoreSpec
=============================================================================
