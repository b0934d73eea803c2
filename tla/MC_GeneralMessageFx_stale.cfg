\* All reply codes and an unknown body, two requests in flight, three effects queued by submits.
CONSTANTS
  ServerReplies <- AllReplies
  MaxRequests = 2
  MaxFx = 3
  None = None
SPECIFICATION Spec
PROPERTY AutoHideClearsOwnMessage
