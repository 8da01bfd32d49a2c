---------------------------- MODULE JobLifecycle ----------------------------
(***************************************************************************)
(* What the control plane promises about ONE submission, whatever the      *)
(* judges do: it waits, at most one judge at a time holds it, it is handed *)
(* out at most MaxAttempts times between two (re)queuings by a person, and *)
(* once it is settled its outcome and the judge credited with it stay as   *)
(* they are until somebody asks for a rejudge.                             *)
(*                                                                         *)
(* The module is an abstract specification: JudgeLease implements one copy *)
(* of it per judge job.                                                    *)
(***************************************************************************)
EXTENDS Integers

CONSTANTS Judges, Nobody, MaxAttempts, Outcomes

VARIABLES phase,    \* "absent", "waiting", "held" or "settled"
          holder,   \* the judge that holds it, or that last did once settled
          tries,    \* how many times it was handed out since it was queued
          outcome   \* the verdict shown to the user, "none" until settled

vars == <<phase, holder, tries, outcome>>

Init == /\ phase = "absent"
        /\ holder = Nobody
        /\ tries = 0
        /\ outcome = "none"

Submit == /\ phase = "absent"
          /\ phase' = "waiting"
          /\ UNCHANGED <<holder, tries, outcome>>

Take(w) == /\ phase = "waiting"
           /\ tries < MaxAttempts
           /\ phase' = "held"
           /\ holder' = w
           /\ tries' = tries + 1
           /\ UNCHANGED outcome

\* The holder is lost and there are attempts left: somebody else may try.
Return == /\ phase = "held"
          /\ tries < MaxAttempts
          /\ phase' = "waiting"
          /\ holder' = Nobody
          /\ UNCHANGED <<tries, outcome>>

\* The holder is lost and was the last to be allowed.
GiveUp == /\ phase = "held"
          /\ tries = MaxAttempts
          /\ phase' = "settled"
          /\ outcome' = "IE"
          /\ UNCHANGED <<holder, tries>>

Settle(o) == /\ phase = "held"
             /\ phase' = "settled"
             /\ outcome' = o
             /\ UNCHANGED <<holder, tries>>

Reopen == /\ phase # "absent"
          /\ phase' = "waiting"
          /\ holder' = Nobody
          /\ tries' = 0
          /\ outcome' = "none"

Next == \/ Submit
        \/ \E w \in Judges : Take(w)
        \/ Return
        \/ GiveUp
        \/ \E o \in Outcomes : Settle(o)
        \/ Reopen

Spec == Init /\ [][Next]_vars

=============================================================================
