------------------------------- MODULE Delivery -------------------------------
(***************************************************************************)
(* What the transactional outbox promises to the code that enqueues an     *)
(* e-mail (app/services/outbox_service.py): a queued e-mail is handed to   *)
(* the mail service until it is settled as `sent` or given up as `failed`, *)
(* it is settled as `sent` only after the mail service took it, it is      *)
(* given up only after MaxAttempts hand-overs, and a settled e-mail stays  *)
(* settled.  Outbox.tla implements this specification when the workers are *)
(* punctual.                                                               *)
(***************************************************************************)
EXTENDS Naturals

CONSTANTS Emails, MaxAttempts

VARIABLES state,   \* "absent", "queued", "sent" or "failed"
          tries,   \* how often the e-mail was handed to the mail service
          taken    \* whether the mail service ever took it

dvars == <<state, tries, taken>>

DInit == /\ state = [e \in Emails |-> "absent"]
         /\ tries = [e \in Emails |-> 0]
         /\ taken = [e \in Emails |-> FALSE]

Queue(e) == /\ state[e] = "absent"
            /\ state' = [state EXCEPT ![e] = "queued"]
            /\ UNCHANGED <<tries, taken>>

HandOver(e) == /\ state[e] = "queued"
               /\ tries' = [tries EXCEPT ![e] = @ + 1]
               /\ \E b \in BOOLEAN :
                    taken' = [taken EXCEPT ![e] = taken[e] \/ b]
               /\ UNCHANGED state

SettleSent(e) == /\ state[e] = "queued"
                 /\ taken[e]
                 /\ state' = [state EXCEPT ![e] = "sent"]
                 /\ UNCHANGED <<tries, taken>>

GiveUp(e) == /\ state[e] = "queued"
             /\ tries[e] >= MaxAttempts
             /\ state' = [state EXCEPT ![e] = "failed"]
             /\ UNCHANGED <<tries, taken>>

DNext == \E e \in Emails :
            Queue(e) \/ HandOver(e) \/ SettleSent(e) \/ GiveUp(e)

DSpec == DInit /\ [][DNext]_dvars
===============================================================================
