------------------------------ MODULE SlotPool ------------------------------
(***************************************************************************)
(* What a bounded server promises about its connections (tcp.rs 492-495,   *)
(* health.rs 14-16): at most Slots are served at a time, a client is       *)
(* turned away only while all slots are held, and a slot is given back.    *)
(***************************************************************************)
EXTENDS Naturals, FiniteSets

CONSTANTS Clients, Slots

VARIABLES
  held,        \* clients holding a slot
  turnedAway   \* clients refused as one too many

Take(c) ==
  /\ c \notin held \cup turnedAway /\ Cardinality(held) < Slots
  /\ held' = held \cup {c}
  /\ UNCHANGED turnedAway

GiveBack(c) ==
  /\ c \in held
  /\ held' = held \ {c}
  /\ UNCHANGED turnedAway

TurnAway(c) ==
  /\ c \notin held \cup turnedAway /\ Cardinality(held) = Slots
  /\ turnedAway' = turnedAway \cup {c}
  /\ UNCHANGED held

Init == held = {} /\ turnedAway = {}

Next == \E c \in Clients : Take(c) \/ GiveBack(c) \/ TurnAway(c)

Spec == Init /\ [][Next]_<<held, turnedAway>>
=============================================================================
