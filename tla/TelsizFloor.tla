---------------------------- MODULE TelsizFloor ----------------------------
(***************************************************************************)
(* What the push-to-talk radio ("telsiz") promises its users: a half-duplex *)
(* floor.  On a channel one socket speaks at a time, the floor never passes *)
(* from one socket to another without having been free in between, and      *)
(* nobody keeps it longer than MaxTalk without giving it up.  How presses,  *)
(* mutes, timers and departures decide who gets it is TelsizGateway's       *)
(* business.                                                                *)
(***************************************************************************)
EXTENDS Integers

CONSTANTS Channels, Sockets, Nobody, MaxTalk

VARIABLES
  holder,   \* the socket that has the floor of each channel, or Nobody
  held      \* how long the present holder has had it, in ticks

floorVars == <<holder, held>>

Init ==
  /\ holder = [c \in Channels |-> Nobody]
  /\ held = [c \in Channels |-> 0]

Take(c, s) ==
  /\ holder[c] = Nobody
  /\ holder' = [holder EXCEPT ![c] = s]
  /\ held' = [held EXCEPT ![c] = 0]

\* Several channels at once: a restart of the process frees all of them.
Yield(cs) ==
  /\ holder' = [c \in Channels |-> IF c \in cs THEN Nobody ELSE holder[c]]
  /\ held' = [c \in Channels |-> IF c \in cs THEN 0 ELSE held[c]]

Tick ==
  /\ \A c \in Channels : holder[c] # Nobody => held[c] < MaxTalk
  /\ held' = [c \in Channels |-> IF holder[c] = Nobody THEN 0 ELSE held[c] + 1]
  /\ UNCHANGED holder

Next ==
  \/ \E c \in Channels, s \in Sockets : Take(c, s)
  \/ \E cs \in SUBSET Channels : Yield(cs)
  \/ Tick

Spec == Init /\ [][Next]_floorVars
=============================================================================
