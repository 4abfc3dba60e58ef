SPECIFICATION DeviceSpec
CONSTANTS
  v1 = v1
  v2 = v2
  Values <- TwoValues
  Chunks = 2
  MaxInstalls = 3
  LaunchBeforeUnlock = TRUE
  Keychains <- AnyKeychain
  j1 = j1
  j2 = j2
  g1 = g1
  NoMessage = NoMessage
  JPushMessages <- JPushTwo
  GeTuiMessages <- GeTuiOne
  Readable <- ReadableTwo
  first = first
  second = second
  note = note
  tooth = tooth
  net = net
  again = again
  Page = Page
  Nobody = Nobody
  Request <- Requests
  KindOf <- Kinds
  Together <- Sets
  MaxChanges = 2
  LocationRequest <- Asking
  Always <- ForAlways
  MaxSwitches = 2
INVARIANTS
  RaiseNeedsDamage
  OneIdPerInstall
  IdentitySurvivesReinstall
  GivenOnce
  AnswerIsDecision
  AnsweredOnce
  NetworkFollows
  AnswersAreGrounded
PROPERTIES
  ImplementsRegister
  DecisionIsTold
  KeptIsTold
