---------------------------- MODULE FormPipeline ----------------------------
(***************************************************************************)
(* Form validation and submission of functions.js (validate_and_submit_   *)
(* forms, validate_fields, reset_captcha) for one form.form.validate-form  *)
(* that is on the page (visible).                                          *)
(*                                                                         *)
(* The handlers bound per form are: change of a .validate-field, click on  *)
(* #form-captcha-refresh and submit.  A submit that passes validation      *)
(* sends a POST with $.ajax; nothing stops a second submit while the first *)
(* is in flight, so several requests can be pending and their success or  *)
(* error callbacks run in any order.                                       *)
(*                                                                         *)
(* Data abstraction.  A field value is the class of strings the three     *)
(* regular expressions of validate_fields tell apart, after trim():        *)
(*   "blank"  ""  or "   "            "name"   "John Doe", "not-an-email" *)
(*   "email"  "john@example.com"     "phone"  "+1 (555) 123-4567"         *)
(*   "digits" "555 1234"             "junk"   "<b>hi</b>"                *)
(* Messages are tokens for the fixed texts.  The captcha image reference  *)
(* (captcha_img.php?t=<time>) is abstracted to a number that changes on   *)
(* every reset, modulo one more than the bound on pending reveal timers,   *)
(* so the images those timers wait for are distinct; the 500 ms timers    *)
(* fire in the order they were set; fades are taken as instantaneous.     *)
(* reset_captcha() without a form, run by the popup's removal timer         *)
(* (initialise-functions.js), resets this form too: it is an action here. *)
(***************************************************************************)
EXTENDS Integers, Sequences, SequencesExt

CONSTANTS
  Fields,        \* the .validate-field inputs of the form
  FieldType,     \* data-validation-type: "string", "email", "phone" or "none"
  Required,      \* fields with class "required"
  FieldValues,   \* FieldValues[f]: the values the user may give field f
  HasAction,     \* the form carries an action attribute (URL of mail.php)
  ServerReplies, \* response bodies the endpoint may send
  MaxRequests,   \* bound on requests in flight at once
  MaxReveals,    \* bound on pending 500 ms captcha reveal timers
  None

Values == {"blank", "name", "email", "phone", "digits", "junk"}
Blank  == "blank"

\* The verdicts of the regular expressions of validate_fields.
MatchesString == {"name", "digits"}     \* /^[a-z0-9 .\-]+$/i
MatchesEmail  == {"email"}              \* the email pattern
MatchesPhone  == {"phone", "digits"}    \* /^\(?\+?[\d\(\-\s\)]+$/

\* The body a request receives: the server's replies when the form has an
\* action; $.ajax with url undefined requests the current page, whose HTML
\* body is none of the codes.  "transport" is the error callback.
Outcomes == IF HasAction THEN ServerReplies \cup {"transport"}
                         ELSE {"other", "transport"}

ASSUME FieldType \in [Fields -> {"string", "email", "phone", "none"}]
ASSUME Required \subseteq Fields /\ FieldValues \in [Fields -> SUBSET Values]
ASSUME \A f \in Fields : Blank \in FieldValues[f]
ASSUME ServerReplies \subseteq {"success", "captcha", "incomplete", "error", "other"}
ASSUME HasAction \in BOOLEAN /\ MaxRequests \in Nat \ {0} /\ MaxReveals \in Nat \ {0}

VARIABLES
  val,           \* val[f]: the value of field f
  alert,         \* alert[f]: the inline .alert after field f, or None
  captchaTyped,  \* #form-captcha holds text typed by the user
  captchaImg,    \* the captcha image reference (changes on every reset)
  captchaShown,  \* #form-captcha-img is displayed
  reveals,       \* pending reveal timers: the image each was set after
  captchaAlerts, \* .alert elements appended to the captcha .form-group
  loader,        \* .form-loader shown
  general,       \* content of .form-general-error-container, or None
  hideTimer,     \* the delay(10000).fadeOut of that container is queued
  reqs           \* POST requests in flight: [payload, captcha]

captchaVars == <<captchaTyped, captchaImg, captchaShown, reveals>>

vars == <<val, alert, captchaVars, captchaAlerts, loader, general, hideTimer,
          reqs>>

Messages == {"required", "invalidChars", "invalidEmail"}

\* <div class="alert success|error">message</div>, or the plain
\* <div class="alert"> of the error callback.
GeneralRec == [cls : {"success", "error", "plain"},
               text : {"submitted", "incomplete", "failed", "wrongCaptcha", ""}]

ReqRec == [payload : [Fields -> Values], captcha : BOOLEAN]

-----------------------------------------------------------------------------
(* Helpers translated from functions.js                                    *)

\* validate_fields(form, field): the message for field f holding value v.
ValidateField(f, v) ==
  IF v = Blank
  THEN IF f \in Required THEN "required" ELSE "success"
  ELSE CASE FieldType[f] = "string" /\ v \notin MatchesString -> "invalidChars"
         [] FieldType[f] = "email"  /\ v \notin MatchesEmail  -> "invalidEmail"
         [] FieldType[f] = "phone"  /\ v \notin MatchesPhone  -> "invalidChars"
         [] OTHER -> "success"

\* Fields whose validation fails at submit time.
Failing(values) == { f \in Fields : ValidateField(f, values[f]) # "success" }

\* The switch(data) of the success callback.
ReplyText(d) ==
  CASE d = "success"    -> "submitted"
    [] d = "captcha"    -> "wrongCaptcha"
    [] d = "incomplete" -> "incomplete"
    [] d = "error"      -> "failed"
    [] OTHER            -> ""

\* The reference of the image that replaces image k.
NewImage(k) == (k + 1) % (MaxReveals + 1)

\* reset_captcha(form) for a visible form that has a captcha image: the
\* image is replaced by a new, hidden, time-stamped one, the typed text is
\* cleared and a 500 ms timer is set to show #form-captcha-img.
ResetCaptcha ==
  /\ Len(reveals) < MaxReveals
  /\ captchaImg' = NewImage(captchaImg)
  /\ captchaTyped' = FALSE
  /\ captchaShown' = FALSE
  /\ reveals' = Append(reveals, NewImage(captchaImg))

-----------------------------------------------------------------------------
(* Actions                                                                 *)

Init ==
  /\ val = [f \in Fields |-> Blank]
  /\ alert = [f \in Fields |-> None]
  /\ captchaTyped = FALSE
  /\ captchaImg = 0
  /\ captchaShown = TRUE
  /\ reveals = <<>>
  /\ captchaAlerts = 0
  /\ loader = FALSE
  /\ general = None
  /\ hideTimer = FALSE
  /\ reqs = <<>>

\* The user edits field f and leaves it: the change handler removes the
\* field's alert and, for a non-blank value, shows the validation error.
FieldChange(f, v) ==
  /\ v # val[f]
  /\ val' = [val EXCEPT ![f] = v]
  /\ alert' = [alert EXCEPT ![f] =
                 IF v # Blank /\ ValidateField(f, v) # "success"
                 THEN ValidateField(f, v) ELSE None]
  /\ UNCHANGED <<captchaVars, captchaAlerts, loader, general, hideTimer, reqs>>

\* The value changes without a change event (browser autofill).
Autofill(f, v) ==
  /\ v # val[f]
  /\ val' = [val EXCEPT ![f] = v]
  /\ UNCHANGED <<alert, captchaVars, captchaAlerts, loader, general,
                 hideTimer, reqs>>

\* The user types the captcha text.
TypeCaptcha ==
  /\ ~captchaTyped
  /\ captchaTyped' = TRUE
  /\ UNCHANGED <<val, alert, captchaImg, captchaShown, reveals, captchaAlerts,
                 loader, general, hideTimer, reqs>>

\* Click on #form-captcha-refresh.
RefreshCaptcha ==
  /\ ResetCaptcha
  /\ UNCHANGED <<val, alert, captchaAlerts, loader, general, hideTimer, reqs>>

\* Seeded fault: submit leaves the captcha alerts of earlier replies.
SubmitKeepsCaptchaAlerts ==
  LET errs == Failing(val) IN
  /\ Len(reqs) < MaxRequests
  /\ alert' = [f \in Fields |-> IF f \in errs THEN ValidateField(f, val[f])
                                              ELSE None]
  /\ general' = None
  /\ loader' = (errs = {})
  /\ reqs' = IF errs = {}
             THEN Append(reqs, [payload |-> val, captcha |-> captchaTyped])
             ELSE reqs
  /\ UNCHANGED <<val, captchaVars, hideTimer, captchaAlerts>>

\* Submit handler: show the loader, clear every alert and the general
\* container, re-validate every field; on errors show them and hide the
\* loader, otherwise POST the serialized form.  The test of the action
\* attribute (`form_action === undefined && form_action == ""`) is never
\* true, so it stops nothing.
Submit ==
  LET errs == Failing(val) IN
  /\ Len(reqs) < MaxRequests
  /\ alert' = [f \in Fields |-> IF f \in errs THEN ValidateField(f, val[f])
                                              ELSE None]
  /\ captchaAlerts' = 0
  /\ general' = None
  /\ loader' = (errs = {})
  /\ reqs' = IF errs = {}
             THEN Append(reqs, [payload |-> val, captcha |-> captchaTyped])
             ELSE reqs
  /\ UNCHANGED <<val, captchaVars, hideTimer>>

\* The success callback for the i-th pending request with body d: hide the
\* loader, show the message (at the captcha field for "captcha", else in
\* the general container, whose fadeIn callback queues the 10 s fade-out),
\* reset the captcha, and on "success" empty every .form-control.
Reply(i, d) ==
  /\ reqs' = RemoveAt(reqs, i)
  /\ loader' = FALSE
  /\ IF d = "captcha"
     THEN /\ captchaAlerts' = captchaAlerts + 1
          /\ UNCHANGED <<general, hideTimer>>
     ELSE /\ general' = [cls  |-> IF d = "success" THEN "success" ELSE "error",
                         text |-> ReplyText(d)]
          /\ hideTimer' = TRUE
          /\ UNCHANGED captchaAlerts
  /\ ResetCaptcha
  /\ val' = IF d = "success" THEN [f \in Fields |-> Blank] ELSE val
  /\ UNCHANGED alert

\* The error callback for the i-th pending request: hide the loader and
\* show a plain error alert in the general container.
TransportError(i) ==
  /\ reqs' = RemoveAt(reqs, i)
  /\ loader' = FALSE
  /\ general' = [cls |-> "plain", text |-> "failed"]
  /\ UNCHANGED <<val, alert, captchaVars, captchaAlerts, hideTimer>>

Respond(i) ==
  \/ \E d \in Outcomes \ {"transport"} : Reply(i, d)
  \/ "transport" \in Outcomes /\ TransportError(i)

\* The queued delay(10000).fadeOut empties the general container.
AutoHide ==
  /\ hideTimer
  /\ hideTimer' = FALSE
  /\ general' = None
  /\ UNCHANGED <<val, alert, captchaVars, captchaAlerts, loader, reqs>>

\* A reveal timer fires: this_form.find("#form-captcha-img").show() shows
\* the image the form holds now.
RevealTimer ==
  /\ reveals # <<>>
  /\ reveals' = Tail(reveals)
  /\ captchaShown' = TRUE
  /\ UNCHANGED <<val, alert, captchaTyped, captchaImg, captchaAlerts, loader,
                 general, hideTimer, reqs>>

\* The removal timer of a closed popup form calls reset_captcha() with no
\* form, which resets every visible form, this one included.
PopupRemovalReset ==
  /\ ResetCaptcha
  /\ UNCHANGED <<val, alert, captchaAlerts, loader, general, hideTimer, reqs>>

Next ==
  \/ \E f \in Fields, v \in Values : v \in FieldValues[f] /\ FieldChange(f, v)
  \/ \E f \in Fields, v \in Values : v \in FieldValues[f] /\ Autofill(f, v)
  \/ TypeCaptcha
  \/ RefreshCaptcha
  \/ Submit
  \/ \E i \in 1..Len(reqs) : Respond(i)
  \/ AutoHide
  \/ RevealTimer
  \/ PopupRemovalReset

Spec == Init /\ [][Next]_vars

-----------------------------------------------------------------------------
(* Properties                                                              *)

TypeOK ==
  /\ val \in [Fields -> Values]
  /\ alert \in [Fields -> Messages \cup {None}]
  /\ captchaTyped \in BOOLEAN /\ captchaShown \in BOOLEAN
  /\ captchaImg \in 0..MaxReveals
  /\ reveals \in Seq(0..MaxReveals) /\ Len(reveals) <= MaxReveals
  /\ captchaAlerts \in 0..MaxRequests
  /\ loader \in BOOLEAN /\ hideTimer \in BOOLEAN
  /\ general \in GeneralRec \cup {None}
  /\ reqs \in Seq(ReqRec) /\ Len(reqs) <= MaxRequests

\* Spec 4.2: the new image is revealed only after its own short delay: a
\* reveal timer that fires was set after the image the form now holds.
CaptchaRevealedAfterOwnDelay ==
  [][Len(reveals') < Len(reveals) => Head(reveals) = captchaImg]_vars

\* Spec 4.2: a form without a configured endpoint refuses to submit.
NoRequestWithoutEndpoint == ~HasAction => reqs = <<>>

=============================================================================
