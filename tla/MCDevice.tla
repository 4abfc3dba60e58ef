------------------------------ MODULE MCDevice ------------------------------
(* What the device keeps for the application, tells it and asks its user:   *)
(* the archive in the caches, the identity in the keychain, the pushes on   *)
(* their way, the prompts for permissions, and the one for the location.    *)
(* They share no state: part is the one that moves in this behaviour, and   *)
(* the others rest.                                                         *)
(*                                                                          *)
(* Archive: two values, to tell a lost save from an old one, and two writes *)
(* to a data file, so that it can be empty, short or whole.  Identity:      *)
(* every keychain, and three installations: an identifier can be kept over  *)
(* one reinstallation and lost at the next.  Pushes: two JPush messages,    *)
(* one of them unreadable, and a GeTui message, to overwrite each other.    *)
(* Prompts: two requests for contacts (which may both wait for one prompt   *)
(* and may report errors), one for pushes (which asks always) and one for   *)
(* bluetooth; or two for cellular data, whose status changes meanwhile.     *)
(* Location: three requests, two of them for "always": one may replace      *)
(* another while a third has captured its status.                           *)
EXTENDS ArchiveFile, DeviceIdentity, PushReception, PermissionPrompts, LocationPermission

VARIABLE part

CONSTANTS v1, v2, j1, j2, g1
TwoValues == {v1, v2}
AnyKeychain == SUBSET Refusal
JPushTwo == {j1, j2}
GeTuiOne == {g1}
ReadableTwo == {j1, g1}

CONSTANTS first, second, note, tooth, net, again
Lasts == {first, second, note, tooth}
Changes == {net, again}
Requests == Lasts \cup Changes
Kinds == [r \in Requests |-> CASE r = note -> "push"
                               [] r = tooth -> "bluetooth"
                               [] r \in Changes -> "network"
                               [] OTHER -> "contacts"]
Sets == {Lasts, Changes}
Asking == {first, second, net}
ForAlways == {first, second}

DeviceInit ==
  /\ part \in {"archive", "identity", "push", "prompts", "location"}
  /\ Init /\ IdentityInit /\ PushInit /\ PromptInit /\ LocationInit
  /\ part # "identity" => refuses = {}
  /\ part # "prompts" => status = [k \in Kind |-> "undetermined"]
  /\ part # "location" => ~servicesOn /\ authorized = "undetermined"

ArchiveMoves == Next /\ UNCHANGED <<identityVars, pushVars, promptVars, locationVars>>
IdentityMoves == IdentityNext /\ UNCHANGED <<vars, pushVars, promptVars, locationVars>>
PushMoves == PushNext /\ UNCHANGED <<vars, identityVars, promptVars, locationVars>>
PromptMoves == PromptNext /\ UNCHANGED <<vars, identityVars, pushVars, locationVars>>
LocationMoves == LocationNext /\ UNCHANGED <<vars, identityVars, pushVars, promptVars>>

\* Every request was made and answered, and the user touches nothing any more.
LocationRests ==
  /\ called = LocationRequest /\ blocks = <<>> /\ ~delegateDue
  /\ switches = MaxSwitches /\ (servicesOn => offered = {})
  /\ UNCHANGED <<vars, identityVars, pushVars, promptVars, locationVars>>

DeviceNext ==
  /\ UNCHANGED part
  /\ \/ part = "archive" /\ ArchiveMoves
     \/ part = "identity" /\ IdentityMoves
     \/ part = "push" /\ PushMoves
     \/ part = "prompts" /\ PromptMoves
     \/ part = "location" /\ (LocationMoves \/ LocationRests)

DeviceSpec ==
  /\ DeviceInit
  /\ [][DeviceNext]_<<part, vars, identityVars, pushVars, promptVars, locationVars>>
  /\ PromptFairness /\ LocationFairness
=============================================================================
