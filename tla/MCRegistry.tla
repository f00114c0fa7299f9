----------------------------- MODULE MCRegistry -----------------------------
(* Registry with sequences for the constants a cfg cannot write.           *)
EXTENDS Registry

MCStripPrefix == <<"v1">>

Declare(id, method, path, clash, sound) ==
    [id |-> id, method |-> method, path |-> path, clash |-> clash, sound |-> sound]

(* Actions that disagree in every way Freeze looks for, and in the two it  *)
(* does not: a twin, and an action on an endpoint of the registry's own.   *)
MCDeclaration == {
    Declare(1, "get",  <<"v1", "x">>, 1, TRUE),
    Declare(2, "GET",  <<"x">>,       0, TRUE),
    Declare(1, "POST", <<"x">>,       0, TRUE),
    Declare(3, "POST", <<"v1", "x">>, 2, TRUE),
    Declare(4, "GET",  <<"y">>,       0, FALSE),
    Declare(5, "GET",  <<"x", "{p}">>, 1, TRUE),
    Declare(6, "GET",  <<"v1", "x", "{q}">>, 0, TRUE),
    Declare(7, "GET",  <<"_actions">>, 0, TRUE)}

(* Two actions mounted alike that disagree in no way Freeze looks for.     *)
MCOneNode == {
    Declare(1, "GET", <<"x", "{p}">>, 0, TRUE),
    Declare(2, "GET", <<"v1", "x", "{q}">>, 0, TRUE)}
=============================================================================
