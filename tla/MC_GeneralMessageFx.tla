------------------------ MODULE MC_GeneralMessageFx ------------------------
(***************************************************************************)
(* The contact form's general message container for TLC: the four reply    *)
(* codes and an unknown body, two requests in flight, at most three        *)
(* effects queued by submits.                                              *)
(***************************************************************************)
EXTENDS GeneralMessageFx

\* The temporal properties are checked on the bounded queue.
AllReplies == {"success", "captcha", "incomplete", "error", "other"}
=============================================================================
