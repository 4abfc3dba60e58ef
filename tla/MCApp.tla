-------------------------------- MODULE MCApp --------------------------------
(* The application on the screen and on the line, in one process: the       *)
(* launch, the form of what is sent and received, the tab bar, a navigation *)
(* stack and the update alert.  They share no state, so that a behaviour in *)
(* which all move is one of each, interleaved: part is the one that moves   *)
(* in this behaviour, and the others rest.                                  *)
(*                                                                          *)
(* Launch: two requests of the delegate at once, besides the one of the     *)
(* loading page: enough for an answer to arrive between two others.         *)
(* Codec: texts on both sides of a block of eight, with and without         *)
(* characters that are escaped; bytes whose characters include 0, + and /,  *)
(* in every length up to four; texts of all kinds of characters in every    *)
(* length up to five.                                                       *)
(* Tab bar: the four buttons of the source, three layouts.  Stack: above    *)
(* the root a page, a page of the same class that vetoes, and a web page.   *)
(* Update: versions that differ in each part, in opposite directions in     *)
(* two, in the spelling only, in the number of parts; one is a number.      *)
EXTENDS AppLaunch, Base64, TabBar, Navigation, VersionCheck

VARIABLE part

AroundABlock == [kept : 0..9, percent : 0..1, wide : 0..3]
UpToFour == UNION {[1..n -> {0, 165, 251, 255}] : n \in 0..4}
UpToFive == UNION {[1..n -> {0, 41, Slash, Pad, Dollar, At}] : n \in 0..5}

Written == {"1.0", "1.5", "1.9.1", "1.10.0", "1.10.00", "2.0.0"}
Parts == [v \in Written |->
            CASE v = "1.0" -> <<1, 0>>
              [] v = "1.5" -> <<1, 5>>
              [] v = "1.9.1" -> <<1, 9, 1>>
              [] v \in {"1.10.0", "1.10.00"} -> <<1, 10, 0>>
              [] v = "2.0.0" -> <<2, 0, 0>>]

CONSTANTS home, list, form, site
Pages4 == {home, list, form, site}
OnlyForm == {form}
OnlySite == {site}
Names == {"Home", "List", "Web", "Other"}
Classes == [c \in Pages4 |-> CASE c = home -> "Home" [] c = site -> "Web" [] OTHER -> "List"]

AppInit ==
  /\ part \in {"launch", "codec", "bar", "stack", "update"}
  /\ Init /\ CodecInit /\ TabBarInit /\ StackInit /\ VersionInit
  /\ part # "codec" => stage = "plain" /\ plain = Nothing
  /\ part # "update" => appVersion = "1.0"

\* A text that is decoded is what the call returns.
Returned == stage = "decoded" /\ UNCHANGED codecVars

LaunchMoves == Next /\ UNCHANGED <<codecVars, tabBarVars, stackVars, versionVars>>
CodecMoves == (CodecNext \/ Returned) /\ UNCHANGED <<vars, tabBarVars, stackVars, versionVars>>
BarMoves == TabBarNext /\ UNCHANGED <<vars, codecVars, stackVars, versionVars>>
StackMoves == StackNext /\ UNCHANGED <<vars, codecVars, tabBarVars, versionVars>>
UpdateMoves == VersionNext /\ UNCHANGED <<vars, codecVars, tabBarVars, stackVars>>

AppNext ==
  /\ UNCHANGED part
  /\ \/ part = "launch" /\ LaunchMoves
     \/ part = "codec" /\ CodecMoves
     \/ part = "bar" /\ BarMoves
     \/ part = "stack" /\ StackMoves
     \/ part = "update" /\ UpdateMoves

AppSpec ==
  /\ AppInit
  /\ [][AppNext]_<<part, vars, codecVars, tabBarVars, stackVars, versionVars>>
  /\ Fairness
=============================================================================
