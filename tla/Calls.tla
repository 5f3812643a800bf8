------------------------------- MODULE Calls -------------------------------
(***************************************************************************)
(* The activations of the API's request handlers. The API is one Node.js    *)
(* process (ecosystem.config.js): a handler runs alone between two awaits,   *)
(* so each phase of a call is one step, and calls interleave between them.   *)
(***************************************************************************)
EXTENDS Naturals, FiniteSets

CONSTANTS
  CallIds,     \* bound: calls in flight
  Idle         \* a call identifier not in use

VARIABLE calls

NoCalls == [c \in CallIds |-> Idle]
Running == {c \in CallIds : calls[c] # Idle}
At(c, phase) == c \in Running /\ calls[c].at = phase

\* Whatever begins now, the calls on their way have met another one.
Met == [c \in CallIds |-> IF c \in Running THEN [calls[c] EXCEPT !.together = TRUE] ELSE Idle]

\* A call begins. Each call remembers whether it ever ran together with another:
\* its record has together |-> InCompany.
InCompany == Running # {}
Enter(c, call) == c \notin Running /\ calls' = [Met EXCEPT ![c] = call]

GoOn(c, phase) == calls' = [calls EXCEPT ![c].at = phase]
Return(c) == calls' = [calls EXCEPT ![c] = Idle]
\* An await throws: the database, the mail server or the push service fails.
Throw(c) == c \in Running /\ Return(c)
\* The process restarts: no handler goes on.
CallsLost == calls' = NoCalls
=============================================================================
