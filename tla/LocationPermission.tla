------------------------- MODULE LocationPermission -------------------------
(***************************************************************************)
(* getAlwaysLocationPermissions:completion: of CJXPermissionsManage.       *)
(*                                                                         *)
(* A request reads the status and dispatches a block; the block decides    *)
(* with the status that was read.  If that was undetermined the block      *)
(* keeps the completion in the property getLocation, over the one that was *)
(* there, and asks the system, which only asks the user if there is still  *)
(* something to ask.  Every change of the status is told to the delegate,  *)
(* which calls the kept completion and keeps it.                           *)
(***************************************************************************)
EXTENDS Naturals, Sequences

CONSTANTS
  LocationRequest,  \* calls of getAlwaysLocationPermissions:completion:
  Always,           \* those with always = YES; the others ask for "when in use"
  Nobody,           \* no completion
  MaxSwitches       \* bound: changes in Settings

ASSUME LocationAssumption ==
  /\ Always \subseteq LocationRequest
  /\ Nobody \notin LocationRequest
  /\ MaxSwitches \in Nat

VARIABLES
  servicesOn,   \* the location services of the device
  authorized,   \* what the user has chosen for this application
  switches,     \* how often services or choice were changed in Settings
  offered,      \* the choices of the prompt on screen; none without prompt
  delegateSet,  \* the location manager has been made
  delegateDue,  \* didChangeAuthorizationStatus: a call is still to come
  blocks,       \* blocks dispatched to the main queue
  getLocation,  \* the completion that is kept
  called,       \* requests that were made
  replies,      \* history: the calls of each completion
  since         \* history: for each request the statuses in force since it was made

system == <<servicesOn, authorized, switches, offered>>
locationVars == <<servicesOn, authorized, switches, offered, delegateSet, delegateDue,
                  blocks, getLocation, called, replies, since>>

Choice == {"whenInUse", "always", "denied"}
LocationStatus == {"undetermined"} \cup Choice

\* authorizationStatus: without location services every application is denied.
\* Restricted is the same as denied to this code.
AuthorizationStatus == IF servicesOn THEN authorized ELSE "denied"

LocationTypeOK ==
  /\ servicesOn \in BOOLEAN
  /\ authorized \in LocationStatus
  /\ switches \in 0..MaxSwitches
  /\ offered \subseteq Choice
  /\ delegateSet \in BOOLEAN
  /\ delegateDue \in BOOLEAN
  /\ blocks \in Seq([request : LocationRequest, status : LocationStatus])
  /\ getLocation \in LocationRequest \cup {Nobody}
  /\ called \subseteq LocationRequest
  /\ replies \in [LocationRequest -> Seq(BOOLEAN)]
  /\ since \in [LocationRequest -> SUBSET LocationStatus]

LocationInit ==
  /\ servicesOn \in BOOLEAN
  /\ authorized \in LocationStatus
  /\ switches = 0
  /\ offered = {}
  /\ delegateSet = FALSE
  /\ delegateDue = FALSE
  /\ blocks = <<>>
  /\ getLocation = Nobody
  /\ called = {}
  /\ replies = [r \in LocationRequest |-> <<>>]
  /\ since = [r \in LocationRequest |-> {}]

CallCompletion(r, yes) == replies' = [replies EXCEPT ![r] = Append(@, yes)]

-----------------------------------------------------------------------------
(***************************************************************************)
(* The calls.                                                              *)
(***************************************************************************)

\* The services are off: the method returns, and the completion is forgotten.
GetWithoutServices(r) ==
  /\ ~servicesOn
  /\ UNCHANGED <<delegateSet, delegateDue, blocks, since>>

\* The status is captured by the block.  A manager that is new will
\* tell its delegate the status.
GetWithServices(r) ==
  /\ servicesOn
  /\ delegateSet' = TRUE
  /\ delegateDue' = (delegateDue \/ ~delegateSet)
  /\ blocks' = Append(blocks, [request |-> r, status |-> AuthorizationStatus])
  /\ since' = [since EXCEPT ![r] = {AuthorizationStatus}]

GetAlwaysLocationPermissions(r) ==
  /\ r \notin called
  /\ called' = called \cup {r}
  /\ GetWithoutServices(r) \/ GetWithServices(r)
  /\ UNCHANGED <<system, getLocation, replies>>

-----------------------------------------------------------------------------
(***************************************************************************)
(* The block.                                                              *)
(***************************************************************************)

\* Faulty variant: the prompt can be left without a choice.
RequestAuthorizationOffersAll(r) ==
  \/ AuthorizationStatus = "undetermined" /\ offered = {} /\ offered' = LocationStatus
  \/ AuthorizationStatus # "undetermined" /\ UNCHANGED offered

\* requestAlwaysAuthorization or requestWhenInUseAuthorization.  The system asks
\* the user who has not chosen; whether it offers an upgrade to "always" to one
\* who has chosen "when in use" is up to it.  Otherwise nothing happens.
RequestAuthorization(r) ==
  \/ /\ AuthorizationStatus = "undetermined" /\ offered = {}
     /\ offered' = IF r \in Always THEN Choice ELSE Choice \ {"always"}
  \/ /\ AuthorizationStatus = "whenInUse" /\ offered = {} /\ r \in Always
     /\ offered' = {"whenInUse", "always"}
  \/ /\ AuthorizationStatus = "undetermined" => offered # {}
     /\ UNCHANGED offered

\* Faulty variant: the test for "more than undetermined" is missing.
BlockRefusesUndetermined(r, s) ==
  /\ s \in {"denied", "undetermined"}
  /\ CallCompletion(r, FALSE)
  /\ UNCHANGED <<offered, getLocation>>

BlockRefuses(r, s) ==
  /\ s = "denied"
  /\ CallCompletion(r, FALSE)
  /\ UNCHANGED <<offered, getLocation>>

BlockAsks(r, s) ==
  /\ s = "undetermined"
  /\ getLocation' = r
  /\ RequestAuthorization(r)
  /\ UNCHANGED replies

BlockAnswers(r, s) ==
  /\ s \in {"whenInUse", "always"}
  /\ CallCompletion(r, r \in Always => s = "always")
  /\ UNCHANGED <<offered, getLocation>>

RunBlock ==
  /\ blocks # <<>>
  /\ blocks' = Tail(blocks)
  /\ LET r == Head(blocks).request
         s == Head(blocks).status
     IN  BlockRefuses(r, s) \/ BlockAsks(r, s) \/ BlockAnswers(r, s)
  /\ UNCHANGED <<servicesOn, authorized, switches, delegateSet, delegateDue, called, since>>

-----------------------------------------------------------------------------
(***************************************************************************)
(* The delegate.                                                           *)
(***************************************************************************)

\* Faulty variant: "when in use" is not handled.
DidChangeWithoutWhenInUse ==
  /\ delegateDue
  /\ delegateDue' = FALSE
  /\ \/ /\ AuthorizationStatus \in {"always", "denied"} /\ getLocation # Nobody
        /\ CallCompletion(getLocation, AuthorizationStatus # "denied")
     \/ /\ AuthorizationStatus \notin {"always", "denied"} \/ getLocation = Nobody
        /\ UNCHANGED replies
  /\ UNCHANGED <<system, delegateSet, blocks, getLocation, called, since>>

\* locationManager:didChangeAuthorizationStatus: with the status of the moment:
\* while the user is in Settings the application is suspended, and several changes
\* are told as one.
DidChangeAuthorizationStatus ==
  /\ delegateDue
  /\ delegateDue' = FALSE
  /\ \/ /\ AuthorizationStatus \in Choice /\ getLocation # Nobody
        /\ CallCompletion(getLocation, AuthorizationStatus # "denied")
     \/ /\ AuthorizationStatus = "undetermined" \/ getLocation = Nobody
        /\ UNCHANGED replies
  /\ UNCHANGED <<system, delegateSet, blocks, getLocation, called, since>>

-----------------------------------------------------------------------------
(***************************************************************************)
(* The user.                                                               *)
(***************************************************************************)

\* The status changes to s: the manager's delegate will be told, and every
\* request that was made will have lived under it.
Now(s) ==
  /\ delegateDue' = (delegateDue \/ (delegateSet /\ s # AuthorizationStatus))
  /\ since' = [r \in LocationRequest |->
                 IF r \in called /\ since[r] # {} THEN since[r] \cup {s} ELSE since[r]]
  /\ UNCHANGED <<delegateSet, blocks, getLocation, called, replies>>

\* The user answers the prompt.
Choose ==
  /\ servicesOn
  /\ \E s \in offered : authorized' = s /\ Now(s)
  /\ offered' = {}
  /\ UNCHANGED <<servicesOn, switches>>

\* In Settings a choice, once made, can be changed; that takes a prompt away.
ChangeChoice ==
  /\ switches < MaxSwitches
  /\ switches' = switches + 1
  /\ servicesOn /\ authorized # "undetermined"
  /\ \E s \in Choice \ {authorized} : authorized' = s /\ Now(s)
  /\ offered' = {}
  /\ UNCHANGED servicesOn

SwitchServices ==
  /\ switches < MaxSwitches
  /\ switches' = switches + 1
  /\ servicesOn' = ~servicesOn
  /\ Now(IF servicesOn THEN "denied" ELSE authorized)
  /\ UNCHANGED <<authorized, offered>>

LocationNext ==
  \/ \E r \in LocationRequest : GetAlwaysLocationPermissions(r)
  \/ RunBlock \/ DidChangeAuthorizationStatus
  \/ Choose \/ ChangeChoice \/ SwitchServices

\* Blocks run and the delegate is told.  Nothing obliges the user.
LocationFairness == WF_locationVars(RunBlock) /\ WF_locationVars(DidChangeAuthorizationStatus)

LocationSpec == LocationInit /\ [][LocationNext]_locationVars /\ LocationFairness

-----------------------------------------------------------------------------
(***************************************************************************)
(* Properties.                                                             *)
(***************************************************************************)

\* A YES is only answered to a request during whose life the application was
\* authorized, and a NO only to one during whose life it was denied or had less
\* than was asked for, although the block decides with a status read earlier and
\* the delegate answers a completion that was kept earlier (lines 178-223).
AnswersAreGrounded ==
  \A r \in LocationRequest : \A i \in DOMAIN replies[r] :
    IF replies[r][i] THEN since[r] \cap {"whenInUse", "always"} # {}
    ELSE "denied" \in since[r] \/ (r \in Always /\ "whenInUse" \in since[r])

\* The completion that is kept when the user's decision is told is answered, or
\* replaced by a later one.
KeptIsTold ==
  \A r \in LocationRequest :
    (getLocation = r /\ delegateDue /\ AuthorizationStatus # "undetermined")
      ~> (replies[r] # <<>> \/ getLocation # r \/ AuthorizationStatus = "undetermined")
=============================================================================
