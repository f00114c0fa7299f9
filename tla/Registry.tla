------------------------------ MODULE Registry ------------------------------
(***************************************************************************)
(* The life cycle of a Registry (action.go, openapi.go): goroutines that   *)
(* register actions, freeze the registry, ask for its handler and read its *)
(* documents.  A call is made, waits for r.mu where the code locks it, and *)
(* returns or panics; a panic is recovered by its caller, who may call     *)
(* again.  Freeze holds the mutex through several steps, because           *)
(* OpenAPIJSON does not wait for it.                                       *)
(*                                                                         *)
(* A document is the sequence of the actions it describes.                 *)
(***************************************************************************)
EXTENDS Naturals, Sequences, FiniteSets

CONSTANTS
    Proc,        \* goroutines
    Declaration, \* the actions a caller may register
    StripPrefix, \* WithStripPrefix's argument
    Params,      \* the path segments that are parameters, such as {id}
    MaxActions,  \* bound on the actions registered
    None,        \* no document, no goroutine
    Torn         \* what a racing read of a slice may see of it

(* A path is the sequence of its segments, and / is the empty one.  clash  *)
(* is the type an action uses under a schema name others may use for       *)
(* another type, or 0; sound: nothing is wrong with the declaration alone. *)
DeclarationType ==
    [id : Nat \ {0}, method : {"get", "GET", "POST"}, path : Seq(STRING),
     clash : Nat, sound : BOOLEAN]

ASSUME DeclarationAssumption == Declaration \subseteq DeclarationType
ASSUME PathAssumption ==
    /\ StripPrefix \in Seq(STRING)
    /\ Params \subseteq STRING \ {"openapi.json", "openapi.yaml", "_actions"}
ASSUME BoundAssumption == MaxActions \in Nat
ASSUME NoneAssumption == None \notin Proc /\ None # Torn

VARIABLES
    actions,  \* r.actions
    frozen,   \* r.frozen
    json,     \* r.openapiJSON
    index,    \* r.indexHTML and r.indexMarkdown
    yaml,     \* r.openapiYAML
    once,     \* r.openapiYAMLOnce: "new", "running" or "done"
    mu,       \* the goroutine that holds r.mu from one step to the next
    pc,       \* where each goroutine is
    call,     \* the call each goroutine makes
    handlers, \* history: the routing tables of the handlers handed out
    read,     \* history: what OpenAPIJSON returned
    refused   \* history: a Freeze panicked

documents == <<json, index, yaml, once>>
history == <<handlers, read, refused>>
vars == <<actions, frozen, documents, mu, pc, call, history>>

NoDeclaration == [id |-> 0, method |-> "GET", path |-> <<>>, clash |-> 0, sound |-> FALSE]
NoCall == [op |-> "none", arg |-> NoDeclaration]

Init ==
    /\ actions = <<>>
    /\ frozen = FALSE
    /\ json = None
    /\ index = None
    /\ yaml = None
    /\ once = "new"
    /\ mu = None
    /\ pc = [p \in Proc |-> "idle"]
    /\ call = [p \in Proc |-> NoCall]
    /\ handlers = {}
    /\ read = {}
    /\ refused = FALSE

-----------------------------------------------------------------------------
(* strings.ToUpper, over the methods there are.                            *)
Upper(method) == IF method = "get" THEN "GET" ELSE method

(* TrimPrefix; a prefix that ends inside a segment is left out.            *)
mountPath(path) ==
    LET n == Len(StripPrefix) IN
    IF Len(path) >= n /\ SubSeq(path, 1, n) = StripPrefix
    THEN SubSeq(path, n + 1, Len(path))
    ELSE path

(* chi: two patterns that differ in the names of their parameters are the  *)
(* same node of its tree, and the last handler added for a method stays.   *)
Pattern(path) == [i \in 1..Len(path) |-> IF path[i] \in Params THEN "{}" ELSE path[i]]

SelfDoc(name) == [NoDeclaration EXCEPT !.path = <<name>>]
SelfDocs == <<SelfDoc("openapi.json"), SelfDoc("openapi.yaml"), SelfDoc("_actions")>>

Route(method, path, to) == [method |-> method, pattern |-> Pattern(path), to |-> to]

RouteOf(a) == Route(a.method, mountPath(a.path), a)

(* Handler adds the actions in order, then its own three routes.           *)
Routes(as) ==
    [i \in 1..Len(as) |-> RouteOf(as[i])]
    \o [i \in 1..3 |-> Route(SelfDocs[i].method, SelfDocs[i].path, SelfDocs[i])]

Serves(table, route) ==
    \E i \in 1..Len(table) :
        /\ table[i] = route
        /\ \A j \in i + 1..Len(table) :
              ~(table[j].method = route.method /\ table[j].pattern = route.pattern)

-----------------------------------------------------------------------------
ConflictDeclared(as) == \* mutant: the declared paths are compared, not the mounted ones
    \E i, j \in 1..Len(as) :
        /\ i # j
        /\ \/ as[i].id = as[j].id
           \/ as[i].method = as[j].method /\ as[i].path = as[j].path

(* validateActions: a duplicate ID, or two actions mounted alike.          *)
Conflict(as) ==
    \E i, j \in 1..Len(as) :
        /\ i # j
        /\ \/ as[i].id = as[j].id
           \/ as[i].method = as[j].method /\ mountPath(as[i].path) = mountPath(as[j].path)

Valid(as) == (\A i \in 1..Len(as) : as[i].sound) /\ ~Conflict(as)

(* The schema builder panics on two types that share a component name.     *)
NamesClash(as) ==
    \E i, j \in 1..Len(as) :
        as[i].clash # 0 /\ as[j].clash # 0 /\ as[i].clash # as[j].clash

(* slices.SortFunc by ID, which leaves one order: no two IDs are the same. *)
Sorted(as) == \A i, j \in 1..Len(as) : i < j => as[i].id < as[j].id

Reordered(as) ==
    {[i \in 1..Len(as) |-> as[f[i]]] :
        f \in {g \in [1..Len(as) -> 1..Len(as)] : \A j \in 1..Len(as) : \E i \in 1..Len(as) : g[i] = j}}

-----------------------------------------------------------------------------
(* A goroutine makes a call.                                               *)
Pending == {p \in Proc : pc[p] = "waiting" /\ call[p].op = "Register"}

Call(p) ==
    /\ pc[p] = "idle"
    /\ pc' = [pc EXCEPT ![p] = "waiting"]
    /\ \/ /\ Len(actions) + Cardinality(Pending) < MaxActions
          /\ \E a \in Declaration : call' = [call EXCEPT ![p] = [op |-> "Register", arg |-> a]]
       \/ \E op \in {"Freeze", "Handler", "OpenAPIYAML"} :
             call' = [call EXCEPT ![p] = [op |-> op, arg |-> NoDeclaration]]
    /\ UNCHANGED <<actions, frozen, documents, mu, history>>

(* It gets the mutex.                                                      *)
Locks(p, op) == pc[p] = "waiting" /\ call[p].op = op /\ mu = None

(* It returns, or panics; the deferred Unlock runs either way.             *)
Return(p) ==
    /\ pc' = [pc EXCEPT ![p] = "idle"]
    /\ call' = [call EXCEPT ![p] = NoCall]
    /\ mu' = None

Compiled(a) == [a EXCEPT !.method = Upper(@)]

RegisterUnguarded(p) == \* mutant: the frozen flag is not looked at
    /\ Locks(p, "Register")
    /\ Return(p)
    /\ actions' = Append(actions, Compiled(call[p].arg))
    /\ UNCHANGED <<frozen, documents, history>>

(* Register panics after Freeze, and checks nothing else.                  *)
Register(p) ==
    /\ Locks(p, "Register")
    /\ Return(p)
    /\ actions' = IF frozen THEN actions ELSE Append(actions, Compiled(call[p].arg))
    /\ UNCHANGED <<frozen, documents, history>>

-----------------------------------------------------------------------------
FreezeMarkedFirst(p) == \* mutant: frozen is set before the checks
    /\ Locks(p, "Freeze")
    /\ ~frozen
    /\ ~Valid(actions)
    /\ Return(p)
    /\ frozen' = TRUE
    /\ refused' = TRUE
    /\ UNCHANGED <<actions, documents, handlers, read>>

FreezeNotDeferred(p) == \* mutant: a panic leaves the mutex locked
    /\ Locks(p, "Freeze")
    /\ ~frozen
    /\ ~Valid(actions)
    /\ pc' = [pc EXCEPT ![p] = "idle"]
    /\ call' = [call EXCEPT ![p] = NoCall]
    /\ mu' = p
    /\ refused' = TRUE
    /\ UNCHANGED <<actions, frozen, documents, handlers, read>>

(* Freeze panics on the first problem of any action: all stay registered.  *)
FreezeRefuses(p) ==
    /\ Locks(p, "Freeze")
    /\ ~frozen
    /\ ~Valid(actions)
    /\ Return(p)
    /\ refused' = TRUE
    /\ UNCHANGED <<actions, frozen, documents, handlers, read>>

FreezeAgain(p) ==
    /\ Locks(p, "Freeze")
    /\ frozen
    /\ Return(p)
    /\ UNCHANGED <<actions, frozen, documents, history>>

(* The actions are valid: they are sorted, and the document is built.      *)
FreezeSorts(p) ==
    /\ Locks(p, "Freeze")
    /\ ~frozen
    /\ Valid(actions)
    /\ actions' \in {as \in Reordered(actions) : Sorted(as)}
    /\ mu' = p
    /\ pc' = [pc EXCEPT ![p] = "building"]
    /\ UNCHANGED <<frozen, documents, call, history>>

BuildNotDeferred(p) == \* mutant: a panic in the schema builder leaves the mutex locked
    /\ pc[p] = "building"
    /\ NamesClash(actions)
    /\ pc' = [pc EXCEPT ![p] = "idle"]
    /\ refused' = TRUE
    /\ UNCHANGED <<actions, frozen, documents, mu, call, handlers, read>>

(* The schema builder panics: the actions stay, sorted.                    *)
BuildRefuses(p) ==
    /\ pc[p] = "building"
    /\ NamesClash(actions)
    /\ Return(p)
    /\ refused' = TRUE
    /\ UNCHANGED <<actions, frozen, documents, handlers, read>>

BuildUnlocked(p) == \* mutant: the mutex is let go while the document is built
    /\ pc[p] = "building"
    /\ ~NamesClash(actions)
    /\ json' = Torn
    /\ mu' = None
    /\ pc' = [pc EXCEPT ![p] = "sealing"]
    /\ UNCHANGED <<actions, frozen, index, yaml, once, call, history>>

(* buildOpenAPI starts to write r.openapiJSON, a slice header.             *)
BuildOpenAPI(p) ==
    /\ pc[p] = "building"
    /\ ~NamesClash(actions)
    /\ json' = Torn
    /\ pc' = [pc EXCEPT ![p] = "sealing"]
    /\ UNCHANGED <<actions, frozen, index, yaml, once, mu, call, history>>

(* The JSON is written; buildIndex; frozen; Unlock.                        *)
Seal(p) ==
    /\ pc[p] = "sealing"
    /\ json' = actions
    /\ index' = actions
    /\ frozen' = TRUE
    /\ Return(p)
    /\ UNCHANGED <<actions, yaml, once, history>>

-----------------------------------------------------------------------------
(* Handler panics before Freeze.                                           *)
Handler(p) ==
    /\ Locks(p, "Handler")
    /\ Return(p)
    /\ handlers' = IF frozen THEN handlers \cup {Routes(actions)} ELSE handlers
    /\ UNCHANGED <<actions, frozen, documents, read, refused>>

(* OpenAPIJSON takes no lock: a read that races with Freeze's write sees   *)
(* the old slice, the new one or a mix of both.                            *)
OpenAPIJSON(p) ==
    /\ pc[p] = "idle"
    /\ \E seen \in IF json = Torn THEN {None, Torn, actions} ELSE {json} : read' = read \cup {seen}
    /\ UNCHANGED <<actions, frozen, documents, mu, pc, call, handlers, refused>>

OpenAPIYAMLUnchecked(p) == \* mutant: the once is entered whatever frozen says
    /\ Locks(p, "OpenAPIYAML")
    /\ pc' = [pc EXCEPT ![p] = "once"]
    /\ UNCHANGED <<actions, frozen, documents, mu, call, history>>

(* OpenAPIYAML, also what GET /openapi.yaml calls: frozen is read under    *)
(* the mutex, and nil returned before Freeze; then comes the once, outside *)
(* it.                                                                     *)
OpenAPIYAML(p) ==
    /\ Locks(p, "OpenAPIYAML")
    /\ \/ ~frozen /\ Return(p)
       \/ frozen /\ pc' = [pc EXCEPT ![p] = "once"] /\ UNCHANGED <<mu, call>>
    /\ UNCHANGED <<actions, frozen, documents, history>>

EnterOnce(p) ==
    /\ pc[p] = "once"
    /\ once = "new"
    /\ once' = "running"
    /\ pc' = [pc EXCEPT ![p] = "rendering"]
    /\ UNCHANGED <<actions, frozen, json, index, yaml, mu, call, history>>

(* buildOpenAPIYAML.                                                       *)
Render(p) ==
    /\ pc[p] = "rendering"
    /\ yaml' = json
    /\ once' = "done"
    /\ pc' = [pc EXCEPT ![p] = "once"]
    /\ UNCHANGED <<actions, frozen, json, index, mu, call, history>>

(* Do returns to everyone who waited for it.                               *)
LeaveOnce(p) ==
    /\ pc[p] = "once"
    /\ once = "done"
    /\ pc' = [pc EXCEPT ![p] = "idle"]
    /\ call' = [call EXCEPT ![p] = NoCall]
    /\ UNCHANGED <<actions, frozen, documents, mu, history>>

-----------------------------------------------------------------------------
Progress(p) ==
    \/ Register(p)
    \/ FreezeRefuses(p) \/ FreezeAgain(p) \/ FreezeSorts(p)
    \/ BuildRefuses(p) \/ BuildOpenAPI(p) \/ Seal(p)
    \/ Handler(p)
    \/ OpenAPIYAML(p) \/ EnterOnce(p) \/ Render(p) \/ LeaveOnce(p)

Next == \E p \in Proc : Call(p) \/ OpenAPIJSON(p) \/ Progress(p)

Spec == Init /\ [][Next]_vars

(* Goroutines run, and a sync.Mutex starves no one who waits for it.       *)
FairSpec == Spec /\ \A p \in Proc : SF_vars(Progress(p))

-----------------------------------------------------------------------------
Holding == {"building", "sealing"}
CallType ==
    [op : {"Register"}, arg : Declaration]
    \cup [op : {"none", "Freeze", "Handler", "OpenAPIYAML"}, arg : {NoDeclaration}]
ActionType == {Compiled(a) : a \in Declaration}

IsDocument(d) == d # None /\ d # Torn => d \in Seq(ActionType)

(* The variables keep their types, and the mutex is held by the goroutine  *)
(* that is inside Freeze, and by no one else.                              *)
TypeOK ==
    /\ actions \in Seq(ActionType)
    /\ frozen \in BOOLEAN
    /\ \A d \in {json, index, yaml} \cup read : IsDocument(d)
    /\ once \in {"new", "running", "done"}
    /\ mu \in Proc \cup {None}
    /\ pc \in [Proc -> {"idle", "waiting", "once", "rendering"} \cup Holding]
    /\ call \in [Proc -> CallType]
    /\ refused \in BOOLEAN
    /\ \A p \in Proc : pc[p] \in Holding <=> mu = p

(* The contract is sealed as one: once the registry is frozen its actions  *)
(* are what both documents describe, in the order of their IDs, and all    *)
(* were checked together, whoever registers at the same time.              *)
SealedTogether ==
    frozen =>
        /\ json = actions
        /\ index = actions
        /\ Sorted(actions)
        /\ Valid(actions)

(* Freeze never succeeds after it has refused: a problem action cannot be  *)
(* taken back, and a panic half way does not leave the registry frozen.    *)
RefusedForever == refused => ~frozen

(* Two routes that validateActions tells apart and the router does not.    *)
Twins(a, b) ==
    /\ a.method = b.method
    /\ mountPath(a.path) # mountPath(b.path)
    /\ Pattern(mountPath(a.path)) = Pattern(mountPath(b.path))

OnOwnEndpoint(a) ==
    a.method = "GET" /\ \E i \in 1..3 : Pattern(mountPath(a.path)) = Pattern(SelfDocs[i].path)

(* A handler routes to documented actions only, always serves its own      *)
(* three endpoints, and loses a documented action in two cases: to a twin  *)
(* later in the document, or to one of these endpoints.  No two documented *)
(* actions are mounted on one path (validateActions).                      *)
ServesAllButTwins ==
    \A table \in handlers :
        /\ \A i \in 1..Len(table) :
              table[i].to \in {json[j] : j \in 1..Len(json)} \cup {SelfDocs[j] : j \in 1..3}
        /\ \A i \in 1..Len(json) :
              \/ Serves(table, RouteOf(json[i]))
              \/ \E j \in i + 1..Len(json) : Twins(json[i], json[j])
              \/ OnOwnEndpoint(json[i])
        /\ \A i \in 1..3 : Serves(table, Route("GET", SelfDocs[i].path, SelfDocs[i]))

(* The once is used up only by a frozen registry, and the YAML its callers *)
(* get is the JSON: a call before Freeze cannot leave it nil for good.     *)
YAMLSettled ==
    /\ once # "new" => frozen
    /\ once = "done" => yaml = json

(* OpenAPIJSON never returns two documents: a whole one read while Freeze  *)
(* still writes is the one served from then on.                            *)
OneDocument ==
    \A d \in read : d # None /\ d # Torn => d = IF frozen THEN json ELSE actions

(* No call blocks for ever, neither on the mutex nor on the once, even     *)
(* after a Freeze that panicked.                                           *)
CallsReturn == \A p \in Proc : pc[p] # "idle" ~> pc[p] = "idle"

-----------------------------------------------------------------------------
(* Every handler serves each operation of the document by the action       *)
(* documented there, and its own three endpoints (README, "keeps the       *)
(* published contract from drifting from runtime behavior").               *)
ServesWhatItDocuments ==
    \A table \in handlers :
        /\ \A i \in 1..Len(json) : Serves(table, RouteOf(json[i]))
        /\ \A i \in 1..3 : Serves(table, Route("GET", SelfDocs[i].path, SelfDocs[i]))
=============================================================================
