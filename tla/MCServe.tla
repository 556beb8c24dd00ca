------------------------------- MODULE MCServe -------------------------------
(* An instance of Serve, and with it of XXRouter, for TLC. *)
EXTENDS Serve

Segs == {"a", "b", "*"}
\* A route of two segments, and a wildcard beside the first of them.
SomeRoutes == {<<"a", "b">>, <<"*">>}
\* One that ends inside the route, or at the wildcard; one that leads through it.
SomeQueries == {<<"a">>, <<"a", "b">>}
\* "/a/b" streams to POST and upgrades GET; "/s" streams to GET.
SseAt == {<<"s">>}
PostAt == {<<"a", "b">>}
\* The wildcard is given an empty function for HEAD.
Empties == {<<<<"*">>, "HEAD">>}
Asked(m, p, up, last) == [method |-> m, path |-> p, upgrade |-> up, close |-> last]
SomeRequests ==
    {Asked("GET", <<"s">>, FALSE, FALSE), Asked("GET", <<"a", "b">>, TRUE, FALSE),
     Asked("GET", <<"a">>, TRUE, TRUE),
     Asked("HEAD", <<"a", "b">>, FALSE, FALSE), Asked("HEAD", <<"a">>, FALSE, FALSE),
     Asked("POST", <<"a", "b">>, FALSE, FALSE), Asked("BREW", <<"a">>, FALSE, FALSE)}
=============================================================================
