---------------------------- MODULE MCPluginHost ----------------------------
(* One lazy session, which the user may also add or remove, and two calls in it. *)
EXTENDS PluginHost, TLC

CONSTANTS s1, c1, c2

OneSession  == {s1}
TwoCalls    == {c1, c2}
SameSession == c1 :> s1 @@ c2 :> s1
=============================================================================
