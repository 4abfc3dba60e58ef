SPECIFICATION PushSpec
CONSTANTS
  j1 = j1
  j2 = j2
  g1 = g1
  NoMessage = NoMessage
  JPushMessages <- JPushTwo
  GeTuiMessages <- GeTuiOne
  Readable <- ReadableTwo
INVARIANT PresentationAnswered
