SPECIFICATION AppSpec
CONSTANTS
  MaxDelegateRequests = 2
  Plain <- AroundABlock
  Fill = {165, 255}
  Data <- UpToFour
  Text <- UpToFive
  Version <- Written
  Numbers = {"1.5"}
  Released = {"1.0", "1.9.1", "1.10.0"}
  PartsOf <- Parts
  LastTab = 3
  MaxLayout = 3
  home = home
  list = list
  form = form
  site = site
  Controller <- Pages4
  Root = home
  Answers <- OnlyForm
  Vetoes <- OnlyForm
  Web <- OnlySite
  Class <- Names
  ClassOf <- Classes
  MaxPending = 2
  MaxPages = 1
INVARIANTS
  RootFollowsVerdicts
  NoticeFollowsDenial
  LoadingAwaitsAnswer
  WritesStayInside
  CipherFits
  FollowsBase64
  RoundTrip
  SelectionAgrees
  DotFollowsCalls
  BarFollowsStack
  NeverStuck
  DeclinedStaysDeclined
PROPERTIES
  SettledStays
  LaunchResolves
  ImplementsGate
  OwnBackStopsAtOwner
  AlertsFollowVersions
