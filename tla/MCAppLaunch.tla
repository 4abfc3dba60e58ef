--------------------------- MODULE MCAppLaunch ----------------------------
(* AppLaunch with two requests of the delegate at once, besides the one of *)
(* the loading page: enough for an answer to arrive between two others.    *)
EXTENDS AppLaunch
=============================================================================
