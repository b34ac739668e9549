----------------------------- MODULE MCStartup ------------------------------
(***************************************************************************)
(* Two ports; the first serves two configurations. The first configuration *)
(* has a listener with a plugin and two methods, and another listener with *)
(* a plugin; the others have one listener, method and plugin each. With    *)
(* fewer ids than plugins some share theirs, in one configuration or not.  *)
(***************************************************************************)
EXTENDS Startup, TLC

CONSTANTS q1, q2, c1, c2, c3, get, post, put, other, third, p1, p2, p3, p4

MCPortOf == c1 :> q1 @@ c2 :> q1 @@ c3 :> q2
MCConfigOf == get :> c1 @@ post :> c1 @@ put :> c1 @@ other :> c2 @@ third :> c3
MCPluginsOf ==
    get :> {p1} @@ post :> {p1} @@ put :> {p2} @@ other :> {p3} @@ third :> {p4}
=============================================================================
