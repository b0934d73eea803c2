-------------------------- MODULE GeneralMessageFx --------------------------
(***************************************************************************)
(* The general message container of a form (.form-general-error-container)*)
(* in validate_and_submit_forms, with the jQuery effects queue of that     *)
(* element.                                                                *)
(*                                                                         *)
(* jQuery runs the effects of one element in order: fadeIn, fadeOut and    *)
(* delay are appended to the element's "fx" queue, and the first one runs *)
(* at once when the queue was empty.  An effect's completion callback runs *)
(* when it ends, so effects queued by a callback go to the end of the      *)
(* queue as it is then.  .html() is not queued: it changes the content at *)
(* once.  The submit handler queues a fadeOut that empties the container;  *)
(* a reply writes its message with .html() and queues a fadeIn whose       *)
(* callback queues delay(10000) and a fadeOut that clears the container;   *)
(* a transport error writes its message and queues a plain fadeIn.         *)
(*                                                                         *)
(* An effect whose target state already holds when it starts (a fadeOut  *)
(* of a hidden container, a fadeIn of a shown one) has nothing to animate: *)
(* jQuery ends it, callback included, inside the call that started it, so *)
(* no other event runs before it ends.                                     *)
(*                                                                         *)
(* Data abstraction: a message is the reply code that wrote it; effects   *)
(* are records tagged with that code; an animated effect takes one step.  *)
(* The fields, the loader and the captcha are in FormPipeline.             *)
(***************************************************************************)
EXTENDS Naturals, Sequences

CONSTANTS
  ServerReplies,  \* response bodies the endpoint may send
  MaxRequests,    \* bound on requests in flight
  MaxFx,          \* bound on the length of the container's effects queue
  None            \* empty container / no effect

ASSUME ServerReplies \subseteq {"success", "captcha", "incomplete", "error", "other"}
ASSUME MaxRequests \in Nat \ {0} /\ MaxFx \in Nat \ {0}

\* Messages written into the container: a reply code, or the transport
\* error of the $.ajax error callback.
Msgs == (ServerReplies \ {"captcha"}) \cup {"transport"}

Effect ==
       [op : {"outEmpty", "delay"}]
  \cup [op : {"in", "outClear"}, msg : Msgs, hide : BOOLEAN]

VARIABLES
  content,   \* what .html() last left in the container: None or a message
  visible,   \* the container is displayed (end of the last fadeIn / fadeOut)
  fx,        \* the container's effects queue; the head is running
  pending,   \* $.ajax requests in flight
  done       \* the effect that ended in the last step, or None

vars == <<content, visible, fx, pending, done>>

\* Effect e has nothing to animate on a container whose display is v.
Immediate(e, v) ==
  \/ e.op \in {"outEmpty", "outClear"} /\ ~v
  \/ e.op = "in" /\ v

\* The running effect ends synchronously: no other event can run first.
Settling == fx # <<>> /\ Immediate(Head(fx), visible)

-----------------------------------------------------------------------------
(* Actions                                                                 *)

Init ==
  /\ content = None
  /\ visible = FALSE
  /\ fx = <<>>
  /\ pending = 0
  /\ done = None

\* Submit handler: the container is cleared by a queued fadeOut whose
\* callback empties it, before validation; a valid form is posted.
Submit(valid) ==
  /\ ~Settling
  /\ Len(fx) < MaxFx
  /\ valid => pending < MaxRequests
  /\ fx' = Append(fx, [op |-> "outEmpty"])
  /\ pending' = IF valid THEN pending + 1 ELSE pending
  /\ done' = None
  /\ UNCHANGED <<content, visible>>

\* Seeded fault: the captcha branch is missing, so a captcha mismatch is
\* written into the general container too.
ReplyCaptchaWrites(d) ==
  /\ ~Settling
  /\ pending > 0
  /\ pending' = pending - 1
  /\ done' = None
  /\ content' = d
  /\ fx' = Append(fx, [op |-> "in", msg |-> d, hide |-> TRUE])
  /\ UNCHANGED visible

\* $.ajax success callback with body d: a captcha mismatch is shown at the
\* captcha field; every other code is written into the container, which
\* then fades in, and the fadeIn callback queues the 10 s fade-out.
Reply(d) ==
  /\ ~Settling
  /\ pending > 0
  /\ pending' = pending - 1
  /\ done' = None
  /\ IF d = "captcha"
     THEN UNCHANGED <<content, visible, fx>>
     ELSE /\ content' = d
          /\ fx' = Append(fx, [op |-> "in", msg |-> d, hide |-> TRUE])
          /\ UNCHANGED visible

\* $.ajax error callback: the error is written and faded in, with no
\* fade-out afterwards.
TransportError ==
  /\ ~Settling
  /\ pending > 0
  /\ pending' = pending - 1
  /\ done' = None
  /\ content' = "transport"
  /\ fx' = Append(fx, [op |-> "in", msg |-> "transport", hide |-> FALSE])
  /\ UNCHANGED visible

\* Effects queued by the completion callback of effect e.
Queued(e) ==
  IF e.op = "in" /\ e.hide
  THEN << [op |-> "delay"], [op |-> "outClear", msg |-> e.msg, hide |-> FALSE] >>
  ELSE <<>>

\* The running effect ends, its callback runs and the next effect starts.
Tick ==
  /\ fx # <<>>
  /\ LET e == Head(fx) IN
     /\ done' = e
     /\ fx' = Tail(fx) \o Queued(e)
     /\ visible' = IF e.op = "delay" THEN visible ELSE e.op = "in"
     /\ content' = IF e.op \in {"outEmpty", "outClear"} THEN None ELSE content
  /\ UNCHANGED pending

Next ==
  \/ \E v \in BOOLEAN : Submit(v)
  \/ \E d \in ServerReplies : Reply(d)
  \/ TransportError
  \/ Tick

Spec == Init /\ [][Next]_vars

-----------------------------------------------------------------------------
(* Properties                                                              *)

TypeOK ==
  /\ content \in Msgs \cup {None}
  /\ visible \in BOOLEAN
  /\ fx \in Seq(Effect) /\ Len(fx) <= MaxFx + 2 * MaxRequests + 1
  /\ pending \in 0..MaxRequests
  /\ done \in Effect \cup {None}

\* Spec 7: every outcome produces a visible message.  When the fadeIn
\* queued by a reply or a transport error ends, the container is shown and
\* still holds a message, whatever effects were queued before it.
ReplyMessageShown ==
  (done # None /\ done.op = "in") => visible /\ content # None

\* The 10 s fade-out queued after a message clears that message: when it
\* ends it has not erased the message of a later reply.
AutoHideClearsOwnMessage ==
  [][ (fx # <<>> /\ Head(fx).op = "outClear" /\ done' = Head(fx))
        => content \in {None, Head(fx).msg} ]_vars

=============================================================================
