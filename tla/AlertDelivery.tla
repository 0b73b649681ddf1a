---------------------------- MODULE AlertDelivery ----------------------------
(***************************************************************************)
(* What alert delivery promises, whoever delivers: an alert is mailed at   *)
(* most once, is called delivered only after the mail provider took the    *)
(* mail, and stays delivered; an undelivered alert may be given up and be  *)
(* taken up again.  EdgeAlertDispatch implements this.                     *)
(***************************************************************************)
EXTENDS Naturals

CONSTANT Alerts

VARIABLES
  phase,   \* "absent", "open", "delivered" or "given_up"
  mails    \* mails sent, per alert

avars == <<phase, mails>>

AInit == phase = [a \in Alerts |-> "absent"] /\ mails = [a \in Alerts |-> 0]

Move(a, from, to) == phase[a] = from /\ phase' = [phase EXCEPT ![a] = to]

ARaise(a) == Move(a, "absent", "open") /\ UNCHANGED mails
AMail(a) == mails[a] = 0 /\ mails' = [mails EXCEPT ![a] = 1] /\ UNCHANGED phase
ADeliver(a) == mails[a] = 1 /\ Move(a, "open", "delivered") /\ UNCHANGED mails
AGiveUp(a) == Move(a, "open", "given_up") /\ UNCHANGED mails
AReopen(a) == Move(a, "given_up", "open") /\ UNCHANGED mails

ANext == \E a \in Alerts : ARaise(a) \/ AMail(a) \/ ADeliver(a) \/ AGiveUp(a) \/ AReopen(a)

ASpec == AInit /\ [][ANext]_avars
=============================================================================
