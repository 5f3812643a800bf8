----------------------------- MODULE ChatTyping -----------------------------
(***************************************************************************)
(* "... is typing" in one room: the composer's hook (web and mobile          *)
(* useChatTyping), the gateway's timers (chat.gateway.ts typing,             *)
(* typing_stop, clearTyping) and the indicator of those who watch.  A        *)
(* watcher's socket outlives its pages: turning from one to another only     *)
(* takes the handlers off and says leave_room, and what is on its way meets  *)
(* the handlers of whatever chat page is mounted by then.                    *)
(***************************************************************************)
EXTENDS Naturals, Sequences

CONSTANTS
  Typists, Watchers,
  MaxWire      \* bound: events in flight each way

VARIABLES
  typing,      \* isTypingRef of each typist, with its own timer of 3 s
  sent,        \* each typist's events on their way to the gateway, in order
  timer,       \* typingTimers of the room: the users with a timer of 3 s
  relayed,     \* events on their way to each watcher, in order
  shown,       \* typingUsers of each watcher
  page,        \* the chat page each watcher has mounted: of this room, of another, none
  asked,       \* each watcher's join_room and leave_room on their way, in order
  joining,     \* calls of handleJoin of each watcher's socket in the middle of their work
  hears,       \* the watchers whose socket is in the room
  missed       \* history: the watcher was out of the room with an indicator still to come or on

typists == <<typing, sent, timer>>
watchers == <<relayed, shown, missed>>
places == <<page, asked, joining, hears>>
typingVars == <<typists, watchers, places>>
Event(u, on) == [user |-> u, on |-> on]

TypingInit ==
  /\ typing = [u \in Typists |-> FALSE] /\ sent = [u \in Typists |-> <<>>]
  /\ timer = {} /\ relayed = [w \in Watchers |-> <<>>]
  /\ shown = [w \in Watchers |-> {}] /\ missed = [w \in Watchers |-> FALSE]
  /\ page = [w \in Watchers |-> "none"] /\ asked = [w \in Watchers |-> <<>>]
  /\ joining = [w \in Watchers |-> 0] /\ hears = {}

\* What the watcher shows once all that is on its way has come.
Soon(w) ==
  {u \in Typists :
     LET Of == {i \in DOMAIN relayed[w] : relayed[w][i].user = u} IN
     IF Of = {} THEN u \in shown[w]
     ELSE \E i \in Of : relayed[w][i].on /\ \A j \in Of : j <= i}

\* The first character says "typing", later ones only restart the hook's timer;
\* that timer, an empty input, a message sent and a closed page say "typing_stop".
Say(u) ==
  /\ Len(sent[u]) < MaxWire
  /\ typing' = [typing EXCEPT ![u] = ~typing[u]]
  /\ sent' = [sent EXCEPT ![u] = Append(@, ~typing[u])]
  /\ UNCHANGED <<timer, watchers, places>>

\* The typist's connection drops: the events on their way are lost, the hook's
\* flag and the gateway's timer stay.
LoseTypist(u) ==
  /\ sent[u] # <<>> /\ sent' = [sent EXCEPT ![u] = <<>>]
  /\ UNCHANGED <<typing, timer, watchers, places>>

Room == \A w \in hears : Len(relayed[w]) < MaxWire

\* client.to(chatId).emit
Relay(u, on) ==
  /\ Room
  /\ relayed' = [w \in Watchers |-> IF w \in hears THEN Append(relayed[w], Event(u, on))
                                                  ELSE relayed[w]]

\* typing replaces the user's timer, typing_stop clears it; both are relayed.
Handle(u) ==
  /\ sent[u] # <<>>
  /\ timer' = IF Head(sent[u]) THEN timer \cup {u} ELSE timer \ {u}
  /\ Relay(u, Head(sent[u]))
  /\ sent' = [sent EXCEPT ![u] = Tail(@)]
  /\ UNCHANGED <<typing, shown, missed, places>>

\* A mutated form of Expires: the timer goes, the room is not told.
ExpiresSilently(u) == timer' = timer \ {u} /\ UNCHANGED relayed

\* The timer's callback: clearTyping, then user_typing_stop.
Expires(u) == timer' = timer \ {u} /\ Relay(u, FALSE)

TimerFires(u) ==
  u \in timer /\ Expires(u) /\ UNCHANGED <<typing, sent, shown, missed, places>>

\* onUserTyping, onUserTypingStop of any chat page: neither looks at the room. Without
\* a page nothing is attached. (One's own events are not shown: a typist here is
\* never one of the watchers.)
Watch(w) ==
  /\ relayed[w] # <<>>
  /\ LET e == Head(relayed[w]) IN
       shown' = [shown EXCEPT ![w] = IF page[w] = "none" THEN @
                                     ELSE IF e.on THEN @ \cup {e.user} ELSE @ \ {e.user}]
  /\ relayed' = [relayed EXCEPT ![w] = Tail(@)]
  /\ UNCHANGED <<typists, missed, places>>

\* A chat page is left, opened, or mounted anew: the cleanup says leave_room and
\* empties typingUsers, the effect attaches the handlers and says join_room.
TurnTo(w, to) ==
  LET said == (IF page[w] = "here" THEN <<"leave">> ELSE <<>>)
              \o (IF to = "here" THEN <<"join">> ELSE <<>>)
  IN  /\ page[w] # to \/ to = "here"
      /\ joining[w] + Len(asked[w] \o said) <= MaxWire
      /\ asked' = [asked EXCEPT ![w] = @ \o said]
      /\ page' = [page EXCEPT ![w] = to] /\ shown' = [shown EXCEPT ![w] = {}]
      /\ missed' = [missed EXCEPT ![w] = @ /\ relayed[w] # <<>>]
      /\ UNCHANGED <<typists, relayed, joining, hears>>

Asks(w, what) ==
  asked[w] # <<>> /\ Head(asked[w]) = what /\ asked' = [asked EXCEPT ![w] = Tail(@)]

\* handleLeave is synchronous. What was emitted before is still on its way.
LeaveHandled(w) ==
  /\ Asks(w, "leave")
  /\ hears' = hears \ {w}
  /\ missed' = [missed EXCEPT ![w] = @ \/ (w \in hears /\ Soon(w) # {})]
  /\ UNCHANGED <<typists, relayed, shown, page, joining>>

\* handleJoin awaits before it enters the room: a leave_room may overtake it.
JoinHandled(w) ==
  /\ Asks(w, "join")
  /\ joining' = [joining EXCEPT ![w] = @ + 1]
  /\ UNCHANGED <<typists, watchers, page, hears>>

\* The join enters the room, or is refused or fails.
JoinEnds(w) ==
  /\ joining[w] > 0
  /\ joining' = [joining EXCEPT ![w] = @ - 1]
  /\ hears' \in {hears, hears \cup {w}}
  /\ UNCHANGED <<typists, watchers, page, asked>>

\* The page of the room joins again as its socket reconnects.
Rejoin(w) == IF page[w] = "here" THEN <<"join">> ELSE <<>>

\* A watcher's connection drops and comes back: typingUsers stays as it was.
LoseWatcher(w) ==
  /\ relayed' = [relayed EXCEPT ![w] = <<>>]
  /\ asked' = [asked EXCEPT ![w] = Rejoin(w)]
  /\ joining' = [joining EXCEPT ![w] = 0] /\ hears' = hears \ {w}
  /\ missed' = [missed EXCEPT ![w] = shown[w] # {}]
  /\ UNCHANGED <<typists, shown, page>>

\* The gateway restarts: the timers are gone, every connection drops.
TypingRestart ==
  /\ timer' = {} /\ sent' = [u \in Typists |-> <<>>]
  /\ relayed' = [w \in Watchers |-> <<>>]
  /\ asked' = [w \in Watchers |-> Rejoin(w)]
  /\ joining' = [w \in Watchers |-> 0] /\ hears' = {}
  /\ missed' = [w \in Watchers |-> shown[w] # {}]
  /\ UNCHANGED <<typing, shown, page>>

TypingNext ==
  \/ \E u \in Typists : Say(u) \/ LoseTypist(u) \/ Handle(u) \/ TimerFires(u)
  \/ \E w \in Watchers : Watch(w) \/ LeaveHandled(w) \/ JoinHandled(w) \/ JoinEnds(w)
                           \/ LoseWatcher(w)
  \/ \E w \in Watchers, to \in {"here", "elsewhere", "none"} : TurnTo(w, to)
  \/ TypingRestart

TypingSpec == TypingInit /\ [][TypingNext]_typingVars

\* An indicator that is on, or will be once what is on its way has come, has a timer
\* in the gateway that will turn it off. It may stick only for a watcher who was out
\* of the room, by leave_room or a lost connection, while one was on or on its way,
\* and for that watcher until a page is mounted with nothing on its way.
IndicatorHasTimer == \A w \in Watchers : missed[w] \/ Soon(w) \subseteq timer
=============================================================================
