\* Submission pipeline of the contact form, two requests in flight at most.
CONSTANTS
  Email = Email
  Name = Name
  Fields = {Email, Name}
  FieldType <- ContactTypes
  Required = {Email}
  FieldValues <- ContactValues
  HasAction = TRUE
  ServerReplies = {"success", "captcha", "incomplete", "error"}
  MaxRequests = 2
  MaxReveals = 2
  None = None
SPECIFICATION Spec
INVARIANT TypeOK
