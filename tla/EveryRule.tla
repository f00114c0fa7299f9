----------------------------- MODULE EveryRule ------------------------------
(***************************************************************************)
(* What validateRequest promises (validate.go): every rule of a request is *)
(* checked, at every depth, whatever the plan was pruned to.  The failures *)
(* are read off the request and its types alone, with no plan.             *)
(***************************************************************************)
EXTENDS Validation

(* A value somewhere in the request: what it has to keep itself, and what  *)
(* its elements have to (dive).                                            *)
Place(type, of, path, rules, dive) ==
    [type |-> type, of |-> of, path |-> path, rules |-> rules, dive |-> dive]
Whole == Place(Root, value, <<>>, {}, {})

(* Its i-th field, element or map value.                                   *)
Part(x, i) ==
    LET s == IF kind[x.type] = "struct" THEN fields[x.type][i] ELSE elem[x.type]
        own == IF kind[x.type] = "struct" THEN s.own ELSE IF kind[x.type] = "seq" THEN x.dive ELSE {}
    IN  Place(s.type, x.of.kids[i], Append(x.path, i), own \cup TypeRules(s.type),
              IF kind[x.type] = "struct" THEN s.dive ELSE {})

Places ==
    LET Deep[n \in 0..MaxNest] ==
            IF n = 0 THEN {Whole}
            ELSE UNION {{Part(x, i) : i \in 1..Len(x.of.kids)} : x \in Deep[n - 1]}
    IN  UNION {Deep[n] : n \in 0..MaxNest}

(* The failures of the request's parts, each followed by those within it.  *)
Broken ==
    LET places == Places
        Within[n \in 0..MaxNest] ==
            [x \in places |->
                IF n = 0 THEN <<>>
                ELSE FlattenSeq([i \in 1..Len(x.of.kids) |->
                        LET y == Part(x, i) IN Fail(y.path, y.of, y.rules) \o Within[n - 1][y]])]
    IN  Within[MaxNest][Whole]

(* A request is answered with exactly the rules it breaks, each named by   *)
(* the path of its value, in the order of the declaration, and then with   *)
(* what its hook says: pruning loses none, and a sibling's path is never   *)
(* used for another's.                                                     *)
FailuresReported ==
    phase = "done" => \/ errs = Broken
                      \/ errs = Append(Broken, [path |-> <<>>, rule |-> "hook"])
=============================================================================
