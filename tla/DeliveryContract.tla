-------------------------- MODULE DeliveryContract --------------------------
(***************************************************************************)
(* What the outbound queue promises its callers, without transactions,     *)
(* timers, retries or batches: a message moves                             *)
(*      none -> queued -> awaiting -> done | dead -> gone                  *)
(* it may be handed to the network any number of times while it is queued, *)
(* it awaits an acknowledgment only after it was handed over, it is done   *)
(* only after the agent has it (or, for a push nobody acknowledges, after  *)
(* it was handed over), and done and dead are final.                       *)
(***************************************************************************)
CONSTANT
  Message    \* the messages

VARIABLES
  push,      \* those that are not acknowledged, fixed from the start
  phase,     \* where each message is in its life cycle
  handed,    \* messages handed to the network at least once
  got        \* messages the agent has received at least once

cvars == <<push, phase, handed, got>>

Phase == {"none", "queued", "awaiting", "done", "dead", "gone"}

Init ==
  /\ push \subseteq Message
  /\ phase = [m \in Message |-> "none"]
  /\ handed = {}
  /\ got = {}

Submit ==
  /\ \E m \in Message : phase[m] = "none" /\ phase' = [phase EXCEPT ![m] = "queued"]
  /\ UNCHANGED <<push, handed, got>>

HandOver ==
  /\ \E m \in Message : phase[m] = "queued" /\ handed' = handed \cup {m}
  /\ UNCHANGED <<push, phase, got>>

Receive ==
  /\ \E m \in handed : got' = got \cup {m}
  /\ UNCHANGED <<push, phase, handed>>

Confirm ==
  /\ \E m \in got \ push : phase[m] = "awaiting" /\ phase' = [phase EXCEPT ![m] = "done"]
  /\ UNCHANGED <<push, handed, got>>

\* A pass of the queue may move every message a step; one that lasts longer than
\* finished messages are kept may finish and forget a push in one go.
Moves(m) ==
  CASE phase[m] = "queued"   -> {"queued", "dead"}
                                  \cup (IF m \notin handed THEN {}
                                        ELSE IF m \in push THEN {"done", "gone"} ELSE {"awaiting"})
    [] phase[m] = "awaiting" -> {"awaiting", "queued", "dead"}
    [] phase[m] \in {"done", "dead"} -> {phase[m], "gone"}
    [] OTHER                 -> {phase[m]}

Pass ==
  /\ phase' = [m \in Message |-> phase'[m]]
  /\ \A m \in Message : phase'[m] \in Moves(m)
  /\ UNCHANGED <<push, handed, got>>

Next == Submit \/ HandOver \/ Receive \/ Confirm \/ Pass

Spec == Init /\ [][Next]_cvars
=============================================================================
