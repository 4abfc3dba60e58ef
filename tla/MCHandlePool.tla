---------------------------- MODULE MCHandlePool ----------------------------
(* Room for one free handle, and for two that live: with two threads a      *)
(* handle comes back to a full list, and both may make a handle when the    *)
(* count allows for one.                                                    *)
EXTENDS HandlePool

CONSTANTS a, b, h1, h2, h3
=============================================================================
