\* Spec 4.2: a reset captcha image is revealed only after its own delay.
CONSTANTS
  Email = Email
  Name = Name
  Fields = {Email, Name}
  FieldType <- ContactTypes
  Required = {Email}
  FieldValues <- ContactValues
  HasAction = TRUE
  ServerReplies = {"success", "captcha", "incomplete", "error"}
  MaxRequests = 2
  MaxReveals = 2
  None = None
SPECIFICATION Spec
PROPERTY CaptchaRevealedAfterOwnDelay
