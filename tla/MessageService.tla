--------------------------- MODULE MessageService ---------------------------
(***************************************************************************)
(* What the message channel of an agent promises while nothing fails: a    *)
(* message sent is started once, after the messages sent before it, and is *)
(* then answered.  The user may withdraw a message until it is answered.   *)
(***************************************************************************)
EXTENDS Naturals

CONSTANT N   \* number of messages sent in a behaviour

VARIABLES
  sent,    \* messages sent so far
  state    \* where each message is

vars == <<sent, state>>

State == {"unsent", "waiting", "started", "answered", "removed"}

TypeOK == sent \in 0..N /\ state \in [1..N -> State]

Init == sent = 0 /\ state = [m \in 1..N |-> "unsent"]

Send ==
  /\ sent < N
  /\ sent' = sent + 1
  /\ state' = [state EXCEPT ![sent + 1] = "waiting"]

\* the order of message_queue.created_at
Start(m) ==
  /\ state[m] = "waiting"
  /\ \A k \in 1..N : k < m => state[k] # "waiting"
  /\ state' = [state EXCEPT ![m] = "started"]
  /\ UNCHANGED sent

\* one output.json may finish several messages
Answer(S) ==
  /\ S # {} /\ \A m \in S : state[m] = "started"
  /\ state' = [m \in 1..N |-> IF m \in S THEN "answered" ELSE state[m]]
  /\ UNCHANGED sent

Remove(m) ==
  /\ state[m] \in {"waiting", "started"}
  /\ state' = [state EXCEPT ![m] = "removed"]
  /\ UNCHANGED sent

Next ==
  \/ Send
  \/ \E m \in 1..N : Start(m) \/ Remove(m)
  \/ \E S \in SUBSET (1..N) : Answer(S)

Spec == Init /\ [][Next]_vars

FairSpec ==
  /\ Spec
  /\ WF_vars(\E m \in 1..N : Start(m))
  /\ \A m \in 1..N : WF_vars(\E S \in SUBSET (1..N) : m \in S /\ Answer(S))

=============================================================================
