------------------------------ MODULE Reading -------------------------------
(***************************************************************************)
(* What a request is read as, against what a client or a declaration may   *)
(* count on: the key of an Idempotency-Key header (KeyHeader), the fields  *)
(* of a request type (RequestFields), and what those fields hold once the  *)
(* request is bound.  Each step reads one input.                           *)
(***************************************************************************)
EXTENDS KeyHeader, RequestFields

CONSTANTS
    MaxHeader,   \* bound on the characters of an Idempotency-Key header
    Scopes,      \* what a caller's keys are scoped by
    Layouts,     \* the fields of each struct type
    BindLayouts, \* the layouts a request is bound to
    Values       \* the values of a parameter

ASSUME BoundAssumption == MaxHeader \in Nat
ASSUME ScopesAssumption == Scopes \subseteq Seq(Char)
ASSUME ValuesAssumption == Values \subseteq Seq(STRING)

VARIABLES
    asked,     \* key, fields or request
    input,
    answered,
    answer
vars == <<asked, input, answered, answer>>

(* The requests to a layout: only a query parameter binds to a slice.      *)
RequestsTo(L) ==
    {q \in [body : Bodies, strict : BOOLEAN,
            slices : SUBSET {i \in DOMAIN L[Root] : L[Root][i].in = "query"},
            vals : [DOMAIN L[Root] -> Values]] :
        \A i \in DOMAIN L[Root] : L[Root][i].in = "" => q.vals[i] = <<>>}

Init ==
    /\ \/ asked = "key" /\ \E n \in 0..MaxHeader : input \in [1..n -> Char]
       \/ asked = "fields" /\ input \in {L \in Layouts : IsLayout(L)}
       \/ asked = "request" /\ \E L \in {M \in BindLayouts : IsLayout(M)} :
                                     input \in [layout : {L}, request : RequestsTo(L)]
    /\ answered = FALSE
    /\ answer = <<>>

Answers(what, result) ==
    /\ asked = what /\ ~answered
    /\ answered' = TRUE
    /\ answer' = result
    /\ UNCHANGED <<asked, input>>

ReadKey == Answers("key", parseIdempotencyKey(input))
ReadFields == Answers("fields", [json |-> jsonFields(input), checked |-> CheckedFields(input)])
BindRequest == Answers("request", Bound(input.layout, input.request))

Next == ReadKey \/ ReadFields \/ BindRequest

Spec == Init /\ [][Next]_vars

-----------------------------------------------------------------------------
(* A scope may hold any character, so the key alone tells where it ends.   *)
CallersApart ==
    \A s, t \in Scopes : \A k, l \in Keys :
        idempotencyStoreKey(s, k) = idempotencyStoreKey(t, l) => s = t /\ k = l

(* A header is read as the one key it sends, quoted or bare, of up to the  *)
(* greatest length counted after unescaping; any other is refused, and no  *)
(* two callers' keys meet in the store.                                    *)
KeyRead ==
    asked = "key" /\ answered =>
        /\ answer = Malformed \/ answer \in Keys
        /\ \A k \in Keys : Sends(input, k) <=> answer = k
        /\ CallersApart

-----------------------------------------------------------------------------
(* Every way through the embedded structs of a layout to a struct, without *)
(* going through one twice.                                                *)
Way(type, index, above, viaPointer) ==
    [type |-> type, index |-> index, above |-> above, viaPointer |-> viaPointer]

Ways(L) ==
    LET Through(w) == {i \in DOMAIN L[w.type] :
                         /\ L[w.type][i].embeds \notin {""} \cup {w.type} \cup w.above
                         /\ L[w.type][i].tag = NoTag}
        Onward(w, i) == LET f == L[w.type][i] IN
                        Way(f.embeds, Append(w.index, i), w.above \cup {w.type}, w.viaPointer \/ f.ptr)
        Deep[n \in 1..Cardinality(Struct)] ==
            IF n = 1 THEN {Way(Root, <<>>, {}, FALSE)}
            ELSE UNION {{Onward(w, i) : i \in Through(w)} : w \in Deep[n - 1]}
    IN  UNION {Deep[n] : n \in DOMAIN Deep}

(* The fields at the end of one.                                           *)
Contenders(L) ==
    LET Fields(w) == {i \in DOMAIN L[w.type] :
                        /\ L[w.type][i].exported \/ L[w.type][i].embeds # ""
                        /\ L[w.type][i].tag # Skip
                        /\ L[w.type][i].embeds = "" \/ L[w.type][i].tag # NoTag}
        Field(w, i) == LET f == L[w.type][i] IN
                       Found(IF f.tag = NoTag THEN f.name ELSE f.tag, f.tag # NoTag, Append(w.index, i), w.viaPointer)
    IN  UNION {{Field(w, i) : i \in Fields(w)} : w \in Ways(L)}

(* A name is the field's that is alone in being the shallowest of the name *)
(* or, at that depth, in having it from a tag.                             *)
Named(L) ==
    LET Shallowest(C) == {f \in C : \A g \in C : Len(f.index) <= Len(g.index)}
        Best(C) == IF \E f \in C : f.tagged THEN {f \in C : f.tagged} ELSE C
        For(name) == Best(Shallowest({f \in Contenders(L) : f.name = name}))
    IN  {f \in Contenders(L) : For(f.name) = {f}}

Parameters(L) == {i \in DOMAIN L[Root] : L[Root][i].exported /\ L[Root][i].in # ""}

(* A request type has exactly the fields encoding/json gives it, and every *)
(* field a client can set, from the body or as a parameter, is checked     *)
(* once, under the name the client knows it by.                            *)
FieldsRead ==
    asked = "fields" /\ answered =>
        LET params == Parameters(input)
            names == [ix \in {f.index : f \in Named(input)} \cup {<<i>> : i \in params} |->
                        IF ix \in {<<i>> : i \in params} THEN input[Root][ix[1]].name
                        ELSE (CHOOSE f \in Named(input) : f.index = ix).name]
        IN  /\ answer.json = Named(input)
            /\ answer.checked = {Checked(names[ix], ix) : ix \in DOMAIN names}

-----------------------------------------------------------------------------
(* The values of parameter i that are read.                                *)
ReadOf(q, i) == IF i \in q.slices THEN DOMAIN q.vals[i] ELSE DOMAIN q.vals[i] \cap {1}

(* The answer a to a request q to layout L, when L is bound as q sends it. *)
AsSent(L, q, a) ==
    LET bad == UNION {{<<i, j>> : j \in {k \in ReadOf(q, i) : q.vals[i][k] = "bad"}} : i \in Parameters(L)}
        Sent(i) == FlattenSeq([j \in ReadOf(q, i) |-> IF q.vals[i][j] = "" THEN <<>> ELSE <<q.vals[i][j]>>])
        InBody(i) == q.body # "none" /\ \E f \in Named(L) : f.index = <<i>>
    IN  CASE q.body = "tooLarge" \/ (q.strict /\ q.body = "overrun") -> a.status = "413"
          [] q.body = "malformed" \/ (q.strict /\ q.body \in {"unknown", "more"}) -> a.status = "400"
          [] OTHER ->
                IF bad # {}
                THEN /\ a.status = "422"
                     /\ a.at \in bad
                     /\ \A p \in bad : a.at[1] < p[1] \/ (a.at[1] = p[1] /\ a.at[2] <= p[2])
                ELSE /\ a.status = Ok
                     /\ \A i \in DOMAIN L[Root] :
                          a.fields[i] = IF i \in Parameters(L) /\ Sent(i) # <<>> THEN Sent(i)
                                        ELSE IF InBody(i) THEN <<"body">> ELSE <<>>

(* A request that binds has each field as the client sent it: from its     *)
(* parameter if that has a value, or else from the body, or else zero.     *)
(* One that does not is answered for the first thing wrong with it, the    *)
(* body before any parameter and a value by its position in the request.   *)
BoundAsSent ==
    asked = "request" /\ answered => AsSent(input.layout, input.request, answer)
=============================================================================
