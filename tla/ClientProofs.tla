---------------------------- MODULE ClientProofs ----------------------------
(***************************************************************************)
(* What the clients show, for any number of typists, watchers, messages and *)
(* presses and however long the wires are: the indicator of who is typing    *)
(* never sticks, a bubble of the mobile chat never spins for good and is     *)
(* there once, and the button of the radio, its page and the floor agree.    *)
(***************************************************************************)
EXTENDS ChatTyping, MobileChat, TelsizPage, WellFoundedInduction, FiniteSetTheorems, TLAPS

-----------------------------------------------------------------------------
(* The typing indicator. *)

TypingEvents == [user : Typists, on : BOOLEAN]

TypingTypeOK ==
  /\ typing \in [Typists -> BOOLEAN] /\ sent \in [Typists -> Seq(BOOLEAN)]
  /\ timer \subseteq Typists /\ relayed \in [Watchers -> Seq(TypingEvents)]
  /\ shown \in [Watchers -> SUBSET Typists] /\ missed \in [Watchers -> BOOLEAN]
  /\ page \in [Watchers -> {"here", "elsewhere", "none"}]

\* A watcher out of the room, who is told nothing more, has nothing to forget.
AwayShowsNothing == \A w \in Watchers \ hears : missed[w] \/ Soon(w) = {}

NoPageShowsNothing == \A w \in Watchers : page[w] = "none" => shown[w] = {}

TypingInv == TypingTypeOK /\ IndicatorHasTimer /\ AwayShowsNothing /\ NoPageShowsNothing

\* What the last event of r about the user says, and without one whether it is in S.
Shows(r, S, u) ==
  LET Of == {i \in DOMAIN r : r[i].user = u} IN
  IF Of = {} THEN u \in S ELSE \E i \in Of : r[i].on /\ \A j \in Of : j <= i

LEMMA SoonShows ==
  ASSUME NEW w \in Watchers
  PROVE  /\ Soon(w) = {u \in Typists : Shows(relayed[w], shown[w], u)}
         /\ Soon(w)' = {u \in Typists : Shows(relayed'[w], shown'[w], u)}
BY Zenon DEF Soon, Shows

\* A relayed event decides for its user, and for no other.
LEMMA RelayDecides ==
  ASSUME NEW r \in Seq(TypingEvents), NEW S, NEW u \in Typists, NEW on \in BOOLEAN, NEW v,
         Shows(Append(r, Event(u, on)), S, v)
  PROVE  IF v = u THEN on ELSE Shows(r, S, v)
<1> DEFINE q == Append(r, Event(u, on))
           n == Len(r) + 1
           Was == {i \in DOMAIN r : r[i].user = v}
           Is == {i \in DOMAIN q : q[i].user = v}
<1>1. /\ DOMAIN q = 1..n /\ DOMAIN r = 1..(n - 1) /\ n \in Nat
      /\ \A i \in DOMAIN r : q[i] = r[i]
      /\ q[n].user = u /\ q[n].on = on
  BY DEF Event
<1>2. IF Is = {} THEN v \in S ELSE \E i \in Is : q[i].on /\ \A j \in Is : j <= i
  BY DEF Shows
<1> HIDE DEF q
<1>3. ASSUME v = u
      PROVE  on
  <2>1. n \in Is
    BY <1>1, <1>3
  <2>2. PICK i \in Is : q[i].on /\ \A j \in Is : j <= i
    BY <1>2, <2>1
  <2>3. i \in 1..n /\ n <= i
    BY <1>1, <2>1, <2>2
  <2> QED
    BY <1>1, <2>2, <2>3
<1>4. ASSUME v # u
      PROVE  Shows(r, S, v)
  <2>1. Is = Was
    BY <1>1, <1>4
  <2>2. IF Was = {} THEN v \in S ELSE \E i \in Was : r[i].on /\ \A j \in Was : j <= i
    BY <1>1, <1>2, <2>1
  <2> QED
    BY <2>2 DEF Shows
<1> QED
  BY <1>3, <1>4

\* An event that is watched was on its way: nothing new is to be shown soon.
LEMMA WatchReveals ==
  ASSUME NEW r \in Seq(TypingEvents), r # <<>>, NEW S, NEW v,
         Shows(Tail(r), IF Head(r).on THEN S \cup {Head(r).user} ELSE S \ {Head(r).user}, v)
  PROVE  Shows(r, S, v)
<1> DEFINE q == Tail(r)
           n == Len(r)
           T == IF r[1].on THEN S \cup {r[1].user} ELSE S \ {r[1].user}
           Was == {i \in DOMAIN r : r[i].user = v}
           Is == {i \in DOMAIN q : q[i].user = v}
<1>1. /\ DOMAIN r = 1..n /\ DOMAIN q = 1..(n - 1) /\ n \in Nat \ {0}
      /\ \A i \in DOMAIN q : q[i] = r[i + 1] /\ i + 1 \in DOMAIN r
      /\ Head(r) = r[1]
  OBVIOUS
<1>2. IF Is = {} THEN v \in T ELSE \E i \in Is : q[i].on /\ \A j \in Is : j <= i
  BY <1>1 DEF Shows
<1> HIDE DEF q
<1>3. \A j \in Was : j = 1 \/ (j - 1 \in Is /\ j \in 1..n)
  BY <1>1
<1>4. CASE Is = {}
  <2>1. v \in T /\ (Was = {} \/ Was = {1})
    BY <1>2, <1>3, <1>4
  <2>2. ASSUME Was = {}
        PROVE  v \in S
    BY <2>1, <2>2, <1>1
  <2>3. ASSUME Was = {1}
        PROVE  r[1].on
    BY <2>1, <2>3
  <2> QED
    BY <2>1, <2>2, <2>3 DEF Shows
<1>5. CASE Is # {}
  <2>1. PICK i \in Is : q[i].on /\ \A j \in Is : j <= i
    BY <1>2, <1>5
  <2>2. i + 1 \in Was /\ r[i + 1].on /\ i \in 1..(n - 1)
    BY <1>1, <2>1
  <2>3. \A j \in Was : j <= i + 1
    BY <1>1, <1>3, <2>1, <2>2
  <2> QED
    BY <2>2, <2>3 DEF Shows
<1> QED
  BY <1>4, <1>5

\* Without a page an event is dropped, which reveals no more.
LEMMA DropReveals ==
  ASSUME NEW r \in Seq(TypingEvents), r # <<>>, NEW v, Shows(Tail(r), {}, v)
  PROVE  Shows(r, {}, v)
<1>1. Shows(Tail(r), IF Head(r).on THEN {} \cup {Head(r).user} ELSE {} \ {Head(r).user}, v)
  BY DEF Shows
<1> QED
  BY <1>1, WatchReveals

LEMMA WatchersHearOf ==
  ASSUME TypingInv, NEW u \in Typists, NEW on \in BOOLEAN, Relay(u, on),
         timer' = (IF on THEN timer \cup {u} ELSE timer \ {u}),
         UNCHANGED <<typing, shown, missed, hears, page>>, sent' \in [Typists -> Seq(BOOLEAN)]
  PROVE  TypingInv'
<1>1. relayed' = [w \in Watchers |-> IF w \in hears THEN Append(relayed[w], Event(u, on))
                                                     ELSE relayed[w]]
  BY DEF Relay
<1>2. Event(u, on) \in TypingEvents
  BY DEF Event, TypingEvents
<1>3. TypingTypeOK'
  BY <1>1, <1>2 DEF TypingInv, TypingTypeOK
<1>4. ASSUME NEW w \in Watchers \ hears
      PROVE  Soon(w)' = Soon(w)
  BY <1>1, SoonShows
<1>5. ASSUME NEW w \in Watchers, w \in hears, ~missed[w]
      PROVE  Soon(w)' \subseteq timer'
  <2> SUFFICES ASSUME NEW v \in Soon(w)'
               PROVE  v \in timer'
    OBVIOUS
  <2>1. v \in Typists /\ Shows(Append(relayed[w], Event(u, on)), shown[w], v)
    BY <1>1, <1>5, SoonShows
  <2>2. relayed[w] \in Seq(TypingEvents)
    BY <1>5 DEF TypingInv, TypingTypeOK
  <2>3. IF v = u THEN on ELSE Shows(relayed[w], shown[w], v)
    BY <2>1, <2>2, RelayDecides
  <2>4. v # u => v \in Soon(w)
    BY <1>5, <2>1, <2>3, SoonShows
  <2> QED
    BY <1>5, <2>3, <2>4 DEF TypingInv, IndicatorHasTimer
<1>6. IndicatorHasTimer'
  BY <1>4, <1>5 DEF TypingInv, IndicatorHasTimer, AwayShowsNothing
<1>7. AwayShowsNothing' /\ NoPageShowsNothing'
  BY <1>4 DEF TypingInv, AwayShowsNothing, NoPageShowsNothing
<1> QED
  BY <1>3, <1>6, <1>7 DEF TypingInv

\* A step after which each watcher is excepted, shows nothing, or shows no more than
\* before without having gone from the room.
LEMMA ShowsNoMore ==
  ASSUME TypingInv, TypingTypeOK', NoPageShowsNothing', timer \subseteq timer',
         \A w \in Watchers :
           \/ missed'[w]
           \/ Soon(w)' = {}
           \/ Soon(w)' \subseteq Soon(w) /\ missed'[w] = missed[w] /\ (w \in hears => w \in hears')
  PROVE  TypingInv'
<1>1. IndicatorHasTimer'
  BY DEF TypingInv, IndicatorHasTimer
<1>2. AwayShowsNothing'
  BY DEF TypingInv, AwayShowsNothing
<1> QED
  BY <1>1, <1>2 DEF TypingInv

LEMMA SeqParts ==
  ASSUME NEW B, NEW s \in Seq(B), s # <<>>
  PROVE  Head(s) \in B /\ Tail(s) \in Seq(B)
OBVIOUS

LEMMA SeqGrows ==
  ASSUME NEW B, NEW s \in Seq(B), NEW e \in B
  PROVE  Append(s, e) \in Seq(B)
OBVIOUS

LEMMA TypingStep == TypingInv /\ [TypingNext]_typingVars => TypingInv'
<1> SUFFICES ASSUME TypingInv, [TypingNext]_typingVars
             PROVE  TypingInv'
  OBVIOUS
<1>0. TypingTypeOK /\ NoPageShowsNothing
  BY DEF TypingInv
<1>1. ASSUME NEW u \in Typists, Say(u) \/ LoseTypist(u)
      PROVE  TypingInv'
  <2>1. UNCHANGED <<relayed, shown, timer, missed, hears, page>>
    BY <1>1 DEF Say, LoseTypist, watchers, places
  <2>2. TypingTypeOK'
    <3>1. CASE Say(u)
      <4> DEFINE say == ~typing[u]
      <4>0. say \in BOOLEAN
        OBVIOUS
      <4>1. sent[u] \in Seq(BOOLEAN) /\ say \in BOOLEAN
        BY <1>0, <4>0, Zenon DEF TypingTypeOK
      <4>2. Append(sent[u], ~typing[u]) \in Seq(BOOLEAN)
        BY <4>1, SeqGrows, Zenon
      <4> QED
        BY <1>0, <2>1, <3>1, <4>1, <4>2 DEF Say, TypingTypeOK
    <3>2. CASE LoseTypist(u)
      BY <1>0, <2>1, <3>2 DEF LoseTypist, TypingTypeOK
    <3> QED
      BY <1>1, <3>1, <3>2
  <2>3. NoPageShowsNothing' /\ \A w \in Watchers : Soon(w)' = Soon(w)
    BY <1>0, <2>1 DEF NoPageShowsNothing, Soon
  <2> QED
    BY <2>1, <2>2, <2>3, ShowsNoMore
<1>2. ASSUME NEW u \in Typists, Handle(u)
      PROVE  TypingInv'
  <2>1. sent[u] \in Seq(BOOLEAN) /\ sent[u] # <<>>
    BY <1>0, <1>2 DEF Handle, TypingTypeOK
  <2>2. Head(sent[u]) \in BOOLEAN /\ Tail(sent[u]) \in Seq(BOOLEAN)
    BY <2>1, SeqParts, Zenon
  <2>3. UNCHANGED <<typing, shown, missed, hears, page>> /\ sent' \in [Typists -> Seq(BOOLEAN)]
    BY <1>0, <1>2, <2>2 DEF Handle, places, TypingTypeOK
  <2> QED
    BY <1>2, <2>2, <2>3, WatchersHearOf DEF Handle
<1>3. ASSUME NEW u \in Typists, TimerFires(u)
      PROVE  TypingInv'
  <2>1. UNCHANGED <<typing, shown, missed, hears, page>> /\ sent' \in [Typists -> Seq(BOOLEAN)]
    BY <1>0, <1>3 DEF TimerFires, places, TypingTypeOK
  <2> QED
    BY <1>3, <2>1, WatchersHearOf DEF TimerFires, Expires
<1>4. ASSUME NEW w \in Watchers, Watch(w)
      PROVE  TypingInv'
  <2> DEFINE r == relayed[w]
             T == IF Head(r).on THEN shown[w] \cup {Head(r).user} ELSE shown[w] \ {Head(r).user}
  <2>1. r \in Seq(TypingEvents) /\ r # <<>> /\ Head(r) \in TypingEvents /\ Tail(r) \in Seq(TypingEvents)
    BY <1>0, <1>4 DEF Watch, TypingTypeOK
  <2>2. UNCHANGED <<typing, sent, timer, missed, hears, page>>
    BY <1>4 DEF Watch, typists, places
  <2>3. relayed'[w] = Tail(r) /\ shown'[w] = IF page[w] = "none" THEN shown[w] ELSE T
    BY <1>0, <1>4 DEF Watch, TypingTypeOK
  <2>4. TypingTypeOK'
    BY <1>0, <1>4, <2>1, <2>2 DEF Watch, TypingTypeOK, TypingEvents
  <2>5. \A x \in Watchers \ {w} : shown'[x] = shown[x] /\ relayed'[x] = relayed[x]
    BY <1>0, <1>4 DEF Watch, TypingTypeOK
  <2>6. NoPageShowsNothing'
    BY <1>0, <2>2, <2>3, <2>5 DEF NoPageShowsNothing
  <2>7. \A x \in Watchers \ {w} : Soon(x)' = Soon(x)
    BY <2>5, SoonShows
  <2>8. \A v : Shows(relayed'[w], shown'[w], v) => Shows(r, shown[w], v)
    <3>1. CASE page[w] = "none"
      BY <1>0, <2>1, <2>3, <3>1, DropReveals DEF NoPageShowsNothing
    <3>2. CASE page[w] # "none"
      BY <2>1, <2>3, <3>2, WatchReveals
    <3> QED
      BY <3>1, <3>2
  <2>9. Soon(w)' \subseteq Soon(w)
    BY <2>8, SoonShows
  <2> QED
    BY <2>2, <2>4, <2>6, <2>7, <2>9, ShowsNoMore
<1>5. ASSUME NEW w \in Watchers, LeaveHandled(w)
      PROVE  TypingInv'
  <2>1. UNCHANGED <<typists, relayed, shown, page>> /\ hears' = hears \ {w}
    BY <1>5 DEF LeaveHandled
  <2>2. \A x \in Watchers : Soon(x)' = Soon(x)
    BY <2>1 DEF Soon
  <2>3. missed' = [missed EXCEPT ![w] = @ \/ (w \in hears /\ Soon(w) # {})]
    BY <1>5 DEF LeaveHandled
  <2>4. \A x \in Watchers \ {w} : missed'[x] = missed[x]
    BY <1>0, <2>3 DEF TypingTypeOK
  <2>5. missed'[w] <=> (missed[w] \/ (w \in hears /\ Soon(w) # {}))
    BY <1>0, <2>3, Zenon DEF TypingTypeOK
  <2>6. missed' \in [Watchers -> BOOLEAN]
    BY <1>0, <2>3, Zenon DEF TypingTypeOK
  <2>7. TypingTypeOK' /\ NoPageShowsNothing'
    BY <1>0, <2>1, <2>6 DEF TypingTypeOK, NoPageShowsNothing, typists
  <2>8. w \in hears \/ missed[w] \/ Soon(w) = {}
    BY DEF TypingInv, AwayShowsNothing
  <2> QED
    BY <2>1, <2>2, <2>4, <2>5, <2>7, <2>8, ShowsNoMore DEF typists
<1>6. ASSUME NEW w \in Watchers, JoinHandled(w) \/ JoinEnds(w)
      PROVE  TypingInv'
  <2>1. UNCHANGED <<typists, watchers, page>> /\ hears \subseteq hears'
    BY <1>6 DEF JoinHandled, JoinEnds
  <2>2. \A x \in Watchers : Soon(x)' = Soon(x) /\ missed'[x] = missed[x]
    BY <2>1 DEF Soon, watchers
  <2>3. TypingTypeOK' /\ NoPageShowsNothing'
    BY <1>0, <2>1 DEF TypingTypeOK, NoPageShowsNothing, typists, watchers
  <2> QED
    BY <2>1, <2>2, <2>3, ShowsNoMore DEF typists
<1>7. ASSUME NEW w \in Watchers, LoseWatcher(w)
      PROVE  TypingInv'
  <2>1. UNCHANGED <<typists, shown, page>> /\ hears' = hears \ {w}
    BY <1>7 DEF LoseWatcher
  <2>2. missed' = [missed EXCEPT ![w] = shown[w] # {}] /\ relayed' = [relayed EXCEPT ![w] = <<>>]
    BY <1>7 DEF LoseWatcher
  <2>3. TypingTypeOK' /\ NoPageShowsNothing'
    BY <1>0, <2>1, <2>2 DEF TypingTypeOK, NoPageShowsNothing, typists
  <2>4. \A x \in Watchers \ {w} : Soon(x)' = Soon(x) /\ missed'[x] = missed[x]
    BY <1>0, <2>1, <2>2, SoonShows DEF TypingTypeOK
  <2>5. missed'[w] \/ Soon(w)' = {}
    <3>1. (missed'[w] <=> shown[w] # {}) /\ relayed'[w] = <<>>
      BY <1>0, <2>2, Zenon DEF TypingTypeOK
    <3> QED
      BY <2>1, <3>1 DEF Soon
  <2> QED
    BY <2>1, <2>3, <2>4, <2>5, ShowsNoMore DEF typists
<1>8. ASSUME NEW w \in Watchers, NEW to \in {"here", "elsewhere", "none"}, TurnTo(w, to)
      PROVE  TypingInv'
  <2>1. UNCHANGED <<typists, relayed, hears>>
    BY <1>8 DEF TurnTo
  <2>2. /\ page' = [page EXCEPT ![w] = to] /\ shown' = [shown EXCEPT ![w] = {}]
        /\ missed' = [missed EXCEPT ![w] = @ /\ relayed[w] # <<>>]
    BY <1>8 DEF TurnTo
  <2>3. missed' \in [Watchers -> BOOLEAN]
    BY <1>0, <2>2, Zenon DEF TypingTypeOK
  <2>4. TypingTypeOK'
    BY <1>0, <2>1, <2>2, <2>3 DEF TypingTypeOK, typists
  <2>5. NoPageShowsNothing'
    BY <1>0, <2>2 DEF NoPageShowsNothing, TypingTypeOK
  <2>6. \A x \in Watchers \ {w} : Soon(x)' = Soon(x) /\ missed'[x] = missed[x]
    BY <1>0, <2>1, <2>2, SoonShows DEF TypingTypeOK
  <2>7. shown'[w] = {} /\ relayed'[w] = relayed[w]
    BY <1>0, <2>1, <2>2 DEF TypingTypeOK
  <2>8. Soon(w)' \subseteq Soon(w)
    BY <2>7, SoonShows DEF Shows
  <2>9. missed'[w] <=> (missed[w] /\ relayed[w] # <<>>)
    BY <1>0, <2>2, Zenon DEF TypingTypeOK
  <2>10. relayed[w] = <<>> => Soon(w)' = {}
    BY <2>7 DEF Soon
  <2>11. missed'[w] \in BOOLEAN /\ missed[w] \in BOOLEAN
    BY <1>0, <2>3, Zenon DEF TypingTypeOK
  <2>12. missed'[w] \/ Soon(w)' = {} \/ missed'[w] = missed[w]
    BY <2>9, <2>10, <2>11
  <2> QED
    BY <2>1, <2>4, <2>5, <2>6, <2>8, <2>12, ShowsNoMore DEF typists
<1>9. ASSUME TypingRestart
      PROVE  TypingInv'
  <2>1. /\ UNCHANGED <<typing, shown, page>> /\ timer' = {} /\ sent' = [u \in Typists |-> <<>>]
        /\ relayed' = [w \in Watchers |-> <<>>] /\ missed' = [w \in Watchers |-> shown[w] # {}]
    BY <1>9 DEF TypingRestart
  <2>2. missed' \in [Watchers -> BOOLEAN] /\ \A w \in Watchers : missed'[w] <=> shown[w] # {}
    BY <2>1, Zenon
  <2>3. TypingTypeOK' /\ NoPageShowsNothing'
    BY <1>0, <2>1, <2>2 DEF TypingTypeOK, NoPageShowsNothing
  <2>4. \A w \in Watchers : missed'[w] \/ Soon(w)' = {}
    BY <2>1, <2>2 DEF Soon
  <2> QED
    BY <2>3, <2>4 DEF TypingInv, IndicatorHasTimer, AwayShowsNothing
<1>10. ASSUME UNCHANGED typingVars
       PROVE  TypingInv'
  <2>1. UNCHANGED <<typing, sent, timer, relayed, shown, missed, page, hears>>
    BY <1>10 DEF typingVars, typists, watchers, places
  <2>2. TypingTypeOK' /\ NoPageShowsNothing'
    BY <1>0, <2>1 DEF TypingTypeOK, NoPageShowsNothing
  <2>3. \A w \in Watchers : Soon(w)' = Soon(w)
    BY <2>1 DEF Soon
  <2> QED
    BY <2>1, <2>2, <2>3, ShowsNoMore
<1> QED
  BY <1>1, <1>2, <1>3, <1>4, <1>5, <1>6, <1>7, <1>8, <1>9, <1>10 DEF TypingNext

\* Whatever page a watcher turns to, nobody is shown as typing whom the gateway's timers
\* have forgotten: events are relayed in the order in which the timers were set and
\* cleared, so the last word on its way agrees with them (chat.gateway.ts typing,
\* typing_stop, clearTyping). Excepted is, until a page is mounted with nothing on its
\* way, a watcher who went out of the room while an indicator was on or on its way.
THEOREM IndicatorNeverSticks == TypingSpec => []IndicatorHasTimer
<1>1. TypingInit => TypingInv
  <2> SUFFICES ASSUME TypingInit PROVE TypingInv
    OBVIOUS
  <2>1. TypingTypeOK /\ NoPageShowsNothing
    BY DEF TypingInit, TypingTypeOK, NoPageShowsNothing
  <2>2. \A w \in Watchers : Soon(w) = {}
    BY DEF TypingInit, Soon
  <2> QED
    BY <2>1, <2>2 DEF TypingInv, IndicatorHasTimer, AwayShowsNothing
<1>2. TypingInv => IndicatorHasTimer
  BY DEF TypingInv
<1> QED
  BY <1>1, <1>2, TypingStep, PTL DEF TypingSpec

-----------------------------------------------------------------------------
(* The composer of the mobile chat: bubbles and their timers. *)

Bubbles == [client : Clients \cup {Elsewhere}, msg : Nat, state : {"pending", "failed", "sent"}]
Answers == [kind : {"new", "history"}, msg : Nat]

ScreenTypeOK == bubbles \in Seq(Bubbles) /\ timers \subseteq Clients

\* A bubble shown for a message composed here has no message of the room yet; every
\* other bubble is one.
BubbleIsOneOrOther ==
  \A i \in DOMAIN bubbles :
    IF bubbles[i].state = "sent" THEN bubbles[i].client = Elsewhere /\ bubbles[i].msg # 0
                                 ELSE bubbles[i].client \in Clients /\ bubbles[i].msg = 0

OneBubbleEach ==
  \A i, j \in DOMAIN bubbles :
    bubbles[i].client \in Clients /\ bubbles[i].client = bubbles[j].client => i = j

WireTypeOK ==
  /\ down \in Seq(Answers) /\ join \in {"offline", "asked", "joined", "read", "in"}
  /\ stored \in Seq(Clients \cup {Elsewhere})
  /\ unsent \subseteq DOMAIN stored /\ untold \subseteq DOMAIN stored \ unsent
  /\ snapshot \in 0..Len(stored) /\ crossed \in BOOLEAN
  /\ \A p \in DOMAIN down : down[p].msg = 0 => down[p].kind = "history"

ScreenInv ==
  /\ ScreenTypeOK /\ WireTypeOK /\ BubbleIsOneOrOther /\ OneBubbleEach /\ PendingBubbleHasTimer

-----------------------------------------------------------------------------
(* What the screen shows and will show of the room's messages. *)

\* Messages stored that are not broadcast, or not yet.
Silent == unsent \cup untold

Histories == {h \in DOMAIN down : down[h].kind = "history"}

\* Broadcasts that no history on its way will replace.
After == {p \in DOMAIN down : down[p].kind = "new" /\ \A h \in Histories : h < p}

\* The history is on its way only once the socket is in the room, and it is one.
HistoryComesOnce ==
  /\ join \in {"offline", "asked"} => down = <<>>
  /\ Histories # {} => join = "in"
  /\ \A h, k \in Histories : h = k
  /\ \A h \in Histories : down[h].msg = snapshot

\* While the history is read and sent, what it does not hold is yet to be broadcast.
NoneBetween ==
  join = "read" /\ ~crossed => \A i \in DOMAIN stored : i > snapshot => i \in Silent

Live == join = "in" /\ ~crossed

\* A message after the history is broadcast once.
AfterHistory ==
  Live =>
    /\ \A p \in After : /\ down[p].msg \in DOMAIN stored \ Silent
                        /\ down[p].msg > snapshot
    /\ \A p, q \in After : down[p].msg = down[q].msg => p = q

\* Once the history has come, each of its messages is shown, and one after it once
\* its broadcast has come.
OnScreen ==
  Live /\ Histories = {} =>
    /\ \A i \in 1..snapshot : \E j \in DOMAIN bubbles : bubbles[j].msg = i
    /\ \A j \in DOMAIN bubbles :
         bubbles[j].msg > snapshot =>
           /\ bubbles[j].msg \in DOMAIN stored \ Silent
           /\ \A p \in After : down[p].msg # bubbles[j].msg
    /\ \A j, k \in DOMAIN bubbles :
         bubbles[j].msg # 0 /\ bubbles[j].msg = bubbles[k].msg => j = k

\* No message after the history is lost.
NoneLost ==
  Live =>
    \A i \in DOMAIN stored :
      i > snapshot =>
        \/ i \in Silent
        \/ \E p \in After : down[p].msg = i
        \/ Histories = {} /\ \E j \in DOMAIN bubbles : bubbles[j].msg = i

RoomInv ==
  ScreenInv /\ HistoryComesOnce /\ NoneBetween /\ AfterHistory /\ OnScreen /\ NoneLost

LEMMA FirstIsPending ==
  ASSUME ScreenTypeOK, Pending # {}
  PROVE  First \in Pending
<1>1. Pending \subseteq Nat
  BY DEF ScreenTypeOK, Pending
<1> DEFINE Less == OpToRel(<, Nat)
<1>2. IsWellFoundedOn(Less, Nat)
  BY NatLessThanWellFounded
<1>3. \A x, y \in Nat : x < y => <<x, y>> \in Less
  BY DEF OpToRel
<1> HIDE DEF Less
<1>4. PICK i \in Pending : \A j \in Pending : ~(<<j, i>> \in Less)
  BY <1>1, <1>2, WFMin
<1>5. ASSUME NEW j \in Pending
      PROVE  i <= j
  <2>1. i \in Nat /\ j \in Nat
    BY <1>1
  <2>2. ~(j < i)
    BY <1>3, <1>4, <2>1, Zenon
  <2> QED
    BY <2>1, <2>2
<1> QED
  BY <1>5 DEF First

\* A bubble is marked, and nothing else of the list changes.
LEMMA Marking ==
  ASSUME ScreenTypeOK, NEW m \in Clients, NEW from \in {"pending", "failed"},
         NEW to \in {"pending", "failed"}, bubbles' = Marked(m, from, to)
  PROVE  /\ bubbles' \in Seq(Bubbles) /\ DOMAIN bubbles' = DOMAIN bubbles
         /\ \A i \in DOMAIN bubbles :
              /\ bubbles'[i].client = bubbles[i].client /\ bubbles'[i].msg = bubbles[i].msg
              /\ bubbles'[i].state = IF bubbles[i].client = m /\ bubbles[i].state = from
                                     THEN to ELSE bubbles[i].state
<1>1. bubbles \in Seq(Bubbles) /\ DOMAIN bubbles = 1..Len(bubbles) /\ Len(bubbles) \in Nat
  BY DEF ScreenTypeOK
<1>2. \A b \in Bubbles : /\ [b EXCEPT !.state = to] \in Bubbles
                         /\ [b EXCEPT !.state = to].client = b.client
                         /\ [b EXCEPT !.state = to].msg = b.msg
                         /\ [b EXCEPT !.state = to].state = to
  BY DEF Bubbles
<1>3. \A i \in DOMAIN bubbles : bubbles[i] \in Bubbles
  BY <1>1
<1>4. \A i \in DOMAIN bubbles :
        bubbles'[i] = IF bubbles[i].client = m /\ bubbles[i].state = from
                      THEN [bubbles[i] EXCEPT !.state = to] ELSE bubbles[i]
  BY DEF Marked
<1>5. DOMAIN bubbles' = 1..Len(bubbles) /\ bubbles' = [i \in 1..Len(bubbles) |-> bubbles'[i]]
  BY <1>1 DEF Marked
<1>6. \A i \in 1..Len(bubbles) : bubbles'[i] \in Bubbles
  BY <1>1, <1>2, <1>3, <1>4
<1>7. bubbles' \in Seq(Bubbles)
  BY <1>1, <1>5, <1>6
<1>8. ASSUME NEW i \in DOMAIN bubbles
      PROVE  /\ bubbles'[i].client = bubbles[i].client /\ bubbles'[i].msg = bubbles[i].msg
             /\ bubbles'[i].state = IF bubbles[i].client = m /\ bubbles[i].state = from
                                    THEN to ELSE bubbles[i].state
  <2> DEFINE x == bubbles[i]
  <2>1. x \in Bubbles /\ bubbles'[i] = IF x.client = m /\ x.state = from
                                       THEN [x EXCEPT !.state = to] ELSE x
    BY <1>3, <1>4
  <2> HIDE DEF x
  <2>2. bubbles'[i].client = x.client /\ bubbles'[i].msg = x.msg
        /\ bubbles'[i].state = IF x.client = m /\ x.state = from THEN to ELSE x.state
    BY <1>2, <2>1
  <2> QED
    BY <2>2 DEF x
<1> QED
  BY <1>1, <1>5, <1>7, <1>8

\* One's own message takes the place of a pending bubble or comes last.
LEMMA OwnMessage ==
  ASSUME ScreenTypeOK, BubbleIsOneOrOther, NEW msg \in Nat, OnOwnMessage(msg)
  PROVE  /\ bubbles' \in Seq(Bubbles)
         /\ \E p \in DOMAIN bubbles' :
              /\ DOMAIN bubbles' = DOMAIN bubbles \cup {p}
              /\ bubbles'[p] = Bubble(Elsewhere, msg, "sent")
              /\ \A i \in DOMAIN bubbles : i # p => bubbles'[i] = bubbles[i]
              /\ IF p \in DOMAIN bubbles
                 THEN /\ bubbles[p].state = "pending" /\ bubbles[p].msg = 0
                      /\ timers' = timers \ {bubbles[p].client}
                 ELSE Pending = {} /\ timers' = timers
<1>1. bubbles \in Seq(Bubbles) /\ DOMAIN bubbles = 1..Len(bubbles) /\ Len(bubbles) \in Nat
  BY DEF ScreenTypeOK
<1> DEFINE b == Bubble(Elsewhere, msg, "sent")
<1>2. b \in Bubbles
  BY DEF Bubble, Bubbles
<1>3. CASE Pending = {}
  <2>1. bubbles' = Append(bubbles, b) /\ timers' = timers
    BY <1>3 DEF OnOwnMessage
  <2> HIDE DEF b
  <2>2. /\ bubbles' \in Seq(Bubbles) /\ DOMAIN bubbles' = DOMAIN bubbles \cup {Len(bubbles) + 1}
        /\ bubbles'[Len(bubbles) + 1] = b
        /\ \A i \in DOMAIN bubbles : bubbles'[i] = bubbles[i]
        /\ Len(bubbles) + 1 \notin DOMAIN bubbles
    BY <1>1, <1>2, <2>1
  <2> QED
    BY <1>3, <2>1, <2>2 DEF b
<1>4. CASE Pending # {}
  <2>1. First \in Pending
    BY <1>4, FirstIsPending
  <2> DEFINE p == First
  <2>2. bubbles' = [bubbles EXCEPT ![p] = b] /\ timers' = timers \ {bubbles[p].client}
    BY <1>4 DEF OnOwnMessage
  <2>3. p \in DOMAIN bubbles /\ bubbles[p].state = "pending" /\ bubbles[p].msg = 0
    BY <2>1 DEF Pending, BubbleIsOneOrOther
  <2> HIDE DEF b, p
  <2>4. /\ bubbles' \in Seq(Bubbles) /\ DOMAIN bubbles' = DOMAIN bubbles
        /\ bubbles'[p] = b /\ \A i \in DOMAIN bubbles : i # p => bubbles'[i] = bubbles[i]
    BY <1>1, <1>2, <2>2, <2>3
  <2> QED
    BY <2>2, <2>3, <2>4 DEF b
<1> QED
  BY <1>3, <1>4

LEMMA HistoryShown ==
  ASSUME NEW k \in Nat, OnHistory(k)
  PROVE  /\ bubbles' \in Seq(Bubbles) /\ DOMAIN bubbles' = 1..k /\ timers' = timers
         /\ \A i \in 1..k : bubbles'[i] = Bubble(Elsewhere, i, "sent")
<1>1. \A i \in 1..k : Bubble(Elsewhere, i, "sent") \in Bubbles
  BY DEF Bubble, Bubbles
<1> QED
  BY <1>1 DEF OnHistory

\* What a step of the connection or the gateway leaves alone.
LEMMA WireStep ==
  ASSUME WireTypeOK, [MobileNext]_mobileVars
  PROVE  WireTypeOK'
<1>1. ASSUME UNCHANGED <<serverVars, down, join>>
      PROVE  WireTypeOK'
  BY <1>1 DEF WireTypeOK, serverVars
<1>2. ASSUME NEW m \in Clients, SendMessage(m) \/ RetrySendMessage(m) \/ TimeoutFires(m) \/ Refuse(m)
      PROVE  WireTypeOK'
  BY <1>1, <1>2 DEF SendMessage, RetrySendMessage, TimeoutFires, Refuse
<1>3. ASSUME NEW by \in Clients \cup {Elsewhere},
             stored' = Append(stored, by), unsent' = unsent \cup {Len(stored) + 1},
             UNCHANGED <<down, join, untold, snapshot, crossed>>
      PROVE  WireTypeOK'
  <2>1. /\ Len(stored) \in Nat /\ DOMAIN stored = 1..Len(stored)
        /\ stored' \in Seq(Clients \cup {Elsewhere})
        /\ DOMAIN stored' = 1..(Len(stored) + 1) /\ Len(stored') = Len(stored) + 1
    BY <1>3 DEF WireTypeOK
  <2> QED
    BY <1>3, <2>1 DEF WireTypeOK
<1>4. ASSUME NEW m \in Clients, Save(m)
      PROVE  WireTypeOK'
  BY <1>3, <1>4 DEF Save
<1>5. ASSUME SaveElsewhere
      PROVE  WireTypeOK'
  BY <1>3, <1>5 DEF SaveElsewhere
<1>6. ASSUME NEW e \in Answers, e.msg = 0 => e.kind = "history"
      PROVE  /\ Append(down, e) \in Seq(Answers)
             /\ \A p \in DOMAIN Append(down, e) :
                  Append(down, e)[p].msg = 0 => Append(down, e)[p].kind = "history"
  BY <1>6 DEF WireTypeOK
<1>7. ASSUME Receive
      PROVE  WireTypeOK'
  <2>1. down' = Tail(down) /\ down # <<>> /\ UNCHANGED <<serverVars, join>>
    BY <1>7 DEF Receive
  <2>2. /\ down' \in Seq(Answers)
        /\ \A p \in DOMAIN down' : p + 1 \in DOMAIN down /\ down'[p] = down[p + 1]
    BY <2>1 DEF WireTypeOK
  <2> QED
    BY <2>1, <2>2 DEF WireTypeOK, serverVars
<1>8. ASSUME Connect \/ Join
      PROVE  WireTypeOK'
  BY <1>8 DEF Connect, Join, WireTypeOK, serverVars
<1>9. ASSUME Disconnect
      PROVE  WireTypeOK'
  BY <1>9 DEF Disconnect, WireTypeOK, serverVars
<1>10. ASSUME NEW i \in unsent, Broadcast(i)
       PROVE  WireTypeOK'
  <2> DEFINE e == [kind |-> "new", msg |-> i]
  <2>1. i \in Nat \ {0}
    BY DEF WireTypeOK
  <2>2. e \in Answers /\ e.msg # 0
    BY <2>1 DEF Answers
  <2>3. down' \in {down, Append(down, e)}
    BY <1>10 DEF Broadcast
  <2>4. crossed' \in BOOLEAN
    <3> DEFINE cross == (crossed \/ (join = "read" /\ i > snapshot) \/ (join = "in" /\ i <= snapshot))
    <3>1. cross \in BOOLEAN
      OBVIOUS
    <3> QED
      BY <1>10, <3>1, Zenon DEF Broadcast
  <2>5. /\ unsent' \subseteq DOMAIN stored /\ untold' \subseteq DOMAIN stored \ unsent'
        /\ UNCHANGED <<stored, join, snapshot>>
    BY <1>10 DEF Broadcast, WireTypeOK
  <2> HIDE DEF e
  <2>6. down' \in Seq(Answers) /\ \A p \in DOMAIN down' : down'[p].msg = 0 => down'[p].kind = "history"
    BY <1>6, <2>2, <2>3 DEF WireTypeOK
  <2> QED
    BY <2>4, <2>5, <2>6 DEF WireTypeOK
<1>11. ASSUME ReadHistory
       PROVE  WireTypeOK'
  <2>1. Len(stored) \in Nat
    BY DEF WireTypeOK
  <2>2. snapshot' \in 0..Len(stored')
    BY <1>11, <2>1 DEF ReadHistory
  <2>3. crossed' = FALSE
    BY <1>11 DEF ReadHistory
  <2> QED
    BY <1>11, <2>2, <2>3 DEF ReadHistory, WireTypeOK
<1>12. ASSUME SendHistory
       PROVE  WireTypeOK'
  <2> DEFINE e == [kind |-> "history", msg |-> snapshot]
  <2>1. e \in Answers /\ e.kind = "history"
    BY DEF Answers, WireTypeOK
  <2>2. down' = Append(down, e) /\ join' = "in" /\ UNCHANGED serverVars
    BY <1>12 DEF SendHistory
  <2> HIDE DEF e
  <2>3. down' \in Seq(Answers) /\ \A p \in DOMAIN down' : down'[p].msg = 0 => down'[p].kind = "history"
    BY <1>6, <2>1, <2>2
  <2> QED
    BY <2>2, <2>3 DEF WireTypeOK, serverVars
<1>13. ASSUME UNCHANGED mobileVars
       PROVE  WireTypeOK'
  BY <1>1, <1>13 DEF mobileVars
<1>14. CASE \E m \in Clients : SendMessage(m) \/ RetrySendMessage(m) \/ TimeoutFires(m)
                              \/ Save(m) \/ Refuse(m)
  BY <1>2, <1>4, <1>14
<1>15. ASSUME NEW i \in unsent, SaveCutOff(i)
       PROVE  WireTypeOK'
  BY <1>15 DEF SaveCutOff, WireTypeOK
<1>16. CASE \E i \in unsent : Broadcast(i) \/ SaveCutOff(i)
  BY <1>10, <1>15, <1>16
<1> QED
  BY <1>5, <1>7, <1>8, <1>9, <1>11, <1>12, <1>13, <1>14, <1>16 DEF MobileNext

LEMMA ScreenStep ==
  ASSUME ScreenInv, [MobileNext]_mobileVars
  PROVE  ScreenInv'
<1> USE DEF ScreenInv
<1> DEFINE ScreenOK == ScreenTypeOK /\ BubbleIsOneOrOther /\ OneBubbleEach /\ PendingBubbleHasTimer
<1>1. WireTypeOK'
  BY WireStep
<1>2. bubbles \in Seq(Bubbles) /\ DOMAIN bubbles = 1..Len(bubbles) /\ Len(bubbles) \in Nat
  BY DEF ScreenTypeOK
<1>3. ASSUME UNCHANGED screenVars
      PROVE  ScreenOK'
  BY <1>3 DEF screenVars, ScreenTypeOK, BubbleIsOneOrOther, OneBubbleEach, PendingBubbleHasTimer, Pending
<1>4. ASSUME NEW m \in Clients, SendMessage(m)
      PROVE  ScreenOK'
  <2> DEFINE b == Bubble(m, 0, "pending")
             n == Len(bubbles) + 1
  <2>1. b \in Bubbles /\ b.client = m /\ b.msg = 0 /\ b.state = "pending"
    BY DEF Bubble, Bubbles
  <2>2. bubbles' = Append(bubbles, b) /\ timers' = timers \cup {m}
    BY <1>4 DEF SendMessage, Emit
  <2> HIDE DEF b
  <2>3. /\ bubbles' \in Seq(Bubbles) /\ DOMAIN bubbles' = DOMAIN bubbles \cup {n} /\ bubbles'[n] = b
        /\ \A i \in DOMAIN bubbles : i # n /\ bubbles'[i] = bubbles[i]
    BY <1>2, <2>1, <2>2
  <2>4. \A i \in DOMAIN bubbles : bubbles[i].client # m
    BY <1>4 DEF SendMessage
  <2>5. ScreenTypeOK' /\ BubbleIsOneOrOther'
    BY <2>1, <2>2, <2>3 DEF ScreenTypeOK, BubbleIsOneOrOther
  <2>6. OneBubbleEach'
    BY <2>1, <2>3, <2>4 DEF OneBubbleEach
  <2>7. PendingBubbleHasTimer'
    BY <2>1, <2>2, <2>3 DEF PendingBubbleHasTimer, Pending
  <2> QED
    BY <2>5, <2>6, <2>7
<1>5. ASSUME NEW m \in Clients, RetrySendMessage(m)
      PROVE  ScreenOK'
  <2>1. bubbles' = Marked(m, "failed", "pending") /\ timers' = timers \cup {m}
    BY <1>5 DEF RetrySendMessage, Repeat, Emit
  <2>2. /\ bubbles' \in Seq(Bubbles) /\ DOMAIN bubbles' = DOMAIN bubbles
        /\ \A i \in DOMAIN bubbles :
             /\ bubbles'[i].client = bubbles[i].client /\ bubbles'[i].msg = bubbles[i].msg
             /\ bubbles'[i].state = IF bubbles[i].client = m /\ bubbles[i].state = "failed"
                                    THEN "pending" ELSE bubbles[i].state
    BY <2>1, Marking
  <2> QED
    BY <2>1, <2>2 DEF ScreenTypeOK, BubbleIsOneOrOther, OneBubbleEach, PendingBubbleHasTimer, Pending
<1>6. ASSUME NEW m \in Clients, TimeoutFires(m)
      PROVE  ScreenOK'
  <2>1. bubbles' = Marked(m, "pending", "failed") /\ timers' = timers \ {m}
    BY <1>6 DEF TimeoutFires
  <2>2. /\ bubbles' \in Seq(Bubbles) /\ DOMAIN bubbles' = DOMAIN bubbles
        /\ \A i \in DOMAIN bubbles :
             /\ bubbles'[i].client = bubbles[i].client /\ bubbles'[i].msg = bubbles[i].msg
             /\ bubbles'[i].state = IF bubbles[i].client = m /\ bubbles[i].state = "pending"
                                    THEN "failed" ELSE bubbles[i].state
    BY <2>1, Marking
  <2> QED
    BY <2>1, <2>2 DEF ScreenTypeOK, BubbleIsOneOrOther, OneBubbleEach, PendingBubbleHasTimer, Pending
<1>7. ASSUME NEW msg \in Nat \ {0}, OnOwnMessage(msg)
      PROVE  ScreenOK'
  <2>1. PICK p \in DOMAIN bubbles' :
           /\ DOMAIN bubbles' = DOMAIN bubbles \cup {p}
           /\ bubbles'[p] = Bubble(Elsewhere, msg, "sent")
           /\ \A i \in DOMAIN bubbles : i # p => bubbles'[i] = bubbles[i]
           /\ IF p \in DOMAIN bubbles
              THEN /\ bubbles[p].state = "pending" /\ bubbles[p].msg = 0
                   /\ timers' = timers \ {bubbles[p].client}
              ELSE Pending = {} /\ timers' = timers
    BY <1>7, OwnMessage
  <2>2. bubbles' \in Seq(Bubbles)
    BY <1>7, OwnMessage
  <2>3. bubbles'[p].client = Elsewhere /\ bubbles'[p].msg = msg /\ bubbles'[p].state = "sent"
    BY <2>1 DEF Bubble
  <2>4. ScreenTypeOK' /\ BubbleIsOneOrOther' /\ OneBubbleEach'
    BY <2>1, <2>2, <2>3, ElsewhereAssumption DEF ScreenTypeOK, BubbleIsOneOrOther, OneBubbleEach
  <2>5. PendingBubbleHasTimer'
    <3>1. CASE p \in DOMAIN bubbles
      <4>1. bubbles[p].client \in Clients
        BY <2>1, <3>1 DEF BubbleIsOneOrOther
      <4>2. \A i \in DOMAIN bubbles : i # p => bubbles[i].client # bubbles[p].client
        BY <3>1, <4>1 DEF OneBubbleEach
      <4> QED
        BY <2>1, <2>3, <3>1, <4>2 DEF PendingBubbleHasTimer, Pending
    <3>2. CASE p \notin DOMAIN bubbles
      BY <2>1, <2>3, <3>2 DEF PendingBubbleHasTimer, Pending
    <3> QED
      BY <3>1, <3>2
  <2> QED
    BY <2>4, <2>5
<1>8. ASSUME NEW k \in Nat, OnHistory(k)
      PROVE  ScreenOK'
  <2>1. /\ bubbles' \in Seq(Bubbles) /\ DOMAIN bubbles' = 1..k /\ timers' = timers
        /\ \A i \in 1..k : bubbles'[i] = Bubble(Elsewhere, i, "sent")
    BY <1>8, HistoryShown
  <2>2. \A i \in 1..k : /\ bubbles'[i].client = Elsewhere /\ bubbles'[i].msg = i
                         /\ bubbles'[i].state = "sent"
    BY <2>1 DEF Bubble
  <2> QED
    BY <2>1, <2>2, ElsewhereAssumption
    DEF ScreenTypeOK, BubbleIsOneOrOther, OneBubbleEach, PendingBubbleHasTimer, Pending
<1>9. ASSUME Receive
      PROVE  ScreenOK'
  <2> DEFINE e == Head(down)
  <2>1. e \in Answers /\ (e.msg = 0 => e.kind = "history")
    <3>1. down \in Seq(Answers) /\ down # <<>>
      BY <1>9 DEF Receive, WireTypeOK
    <3>2. 1 \in DOMAIN down /\ e = down[1] /\ down[1] \in Answers
      BY <3>1
    <3> QED
      BY <3>2 DEF WireTypeOK
  <2>2. IF e.kind = "new" THEN OnOwnMessage(e.msg) ELSE OnHistory(e.msg)
    BY <1>9 DEF Receive
  <2> HIDE DEF e
  <2>3. e.msg \in Nat /\ (e.kind = "new" => e.msg # 0)
    BY <2>1 DEF Answers
  <2> QED
    BY <1>7, <1>8, <2>2, <2>3
<1>10. UNCHANGED screenVars \/ (\E m \in Clients : SendMessage(m) \/ RetrySendMessage(m) \/ TimeoutFires(m))
       \/ Receive
  BY DEF MobileNext, mobileVars, Connect, Disconnect, SaveElsewhere, Broadcast, Join, ReadHistory,
         SendHistory, Save, SaveCutOff, Refuse
<1>11. ScreenOK'
  BY <1>3, <1>4, <1>5, <1>6, <1>9, <1>10
<1> QED
  BY <1>1, <1>11

LEMMA Appended ==
  ASSUME WireTypeOK, NEW e \in Answers, down' = Append(down, e)
  PROVE  LET n == Len(down) + 1 IN
         /\ n \notin DOMAIN down /\ DOMAIN down' = DOMAIN down \cup {n} /\ down'[n] = e
         /\ \A p \in DOMAIN down : down'[p] = down[p] /\ p < n
         /\ e.kind = "new" => Histories' = Histories /\ After' = After \cup {n}
         /\ e.kind = "history" => Histories' = Histories \cup {n} /\ After' = {}
<1> DEFINE n == Len(down) + 1
<1>1. /\ n \notin DOMAIN down /\ DOMAIN down' = DOMAIN down \cup {n} /\ down'[n] = e
      /\ \A p \in DOMAIN down : down'[p] = down[p] /\ p < n
      /\ n \in Nat /\ DOMAIN down \subseteq Nat
  BY DEF WireTypeOK
<1> HIDE DEF n
<1>2. ASSUME e.kind = "new"
      PROVE  Histories' = Histories /\ After' = After \cup {n}
  <2>1. Histories' = Histories
    BY <1>1, <1>2 DEF Histories
  <2>2. \A h \in Histories : h < n
    BY <1>1 DEF Histories
  <2> QED
    BY <1>1, <1>2, <2>1, <2>2 DEF After
<1>3. ASSUME e.kind = "history"
      PROVE  Histories' = Histories \cup {n} /\ After' = {}
  <2>1. Histories' = Histories \cup {n}
    BY <1>1, <1>3 DEF Histories
  <2>2. ASSUME NEW p \in After'
        PROVE  FALSE
    <3>1. n < p /\ p \in DOMAIN down'
      BY <2>1 DEF After
    <3> QED
      BY <1>1, <3>1
  <2> QED
    BY <2>1, <2>2
<1> QED
  BY <1>1, <1>2, <1>3 DEF n

LEMMA Taken ==
  ASSUME WireTypeOK, down # <<>>, down' = Tail(down)
  PROVE  /\ 1 \in DOMAIN down /\ Head(down) = down[1] /\ DOMAIN down \subseteq Nat \ {0}
         /\ \A p \in Nat \ {0} : (p \in DOMAIN down' <=> p + 1 \in DOMAIN down)
         /\ DOMAIN down' \subseteq Nat \ {0} /\ \A p \in DOMAIN down' : down'[p] = down[p + 1]
         /\ \A p \in Nat \ {0} : (p \in Histories' <=> p + 1 \in Histories)
                              /\ (p \in After' <=> p + 1 \in After)
<1>1. /\ 1 \in DOMAIN down /\ Head(down) = down[1] /\ DOMAIN down \subseteq Nat \ {0}
      /\ \A p \in Nat \ {0} : (p \in DOMAIN down' <=> p + 1 \in DOMAIN down)
      /\ DOMAIN down' \subseteq Nat \ {0} /\ \A p \in DOMAIN down' : down'[p] = down[p + 1]
  BY DEF WireTypeOK
<1>2. ASSUME NEW p \in Nat \ {0}
      PROVE  p \in Histories' <=> p + 1 \in Histories
  BY <1>1 DEF Histories
<1>3. ASSUME NEW p \in Nat \ {0}, p \in After'
      PROVE  p + 1 \in After
  <2>1. p \in DOMAIN down' /\ down'[p].kind = "new" /\ \A h \in Histories' : h < p
    BY <1>3 DEF After
  <2>2. p + 1 \in DOMAIN down /\ down[p + 1].kind = "new"
    BY <1>1, <2>1
  <2>3. ASSUME NEW h \in Histories
        PROVE  h < p + 1
    <3>1. h \in Nat \ {0}
      BY <1>1 DEF Histories
    <3>2. CASE h = 1
      BY <3>2
    <3>3. CASE h # 1
      <4>1. h - 1 \in Nat \ {0} /\ (h - 1) + 1 = h
        BY <3>1, <3>3
      <4>2. h - 1 \in Histories'
        BY <1>2, <4>1
      <4> QED
        BY <2>1, <3>1, <4>2
    <3> QED
      BY <3>2, <3>3
  <2> QED
    BY <2>2, <2>3 DEF After
<1>4. ASSUME NEW p \in Nat \ {0}, p + 1 \in After
      PROVE  p \in After'
  <2>1. p + 1 \in DOMAIN down /\ down[p + 1].kind = "new" /\ \A h \in Histories : h < p + 1
    BY <1>4 DEF After
  <2>2. p \in DOMAIN down' /\ down'[p].kind = "new"
    BY <1>1, <2>1
  <2>3. ASSUME NEW h \in Histories'
        PROVE  h < p
    <3>1. h \in Nat \ {0}
      BY <1>1 DEF Histories
    <3>2. h + 1 \in Histories
      BY <1>2, <3>1
    <3> QED
      BY <2>1, <3>1, <3>2
  <2> QED
    BY <2>2, <2>3 DEF After
<1> QED
  BY <1>1, <1>2, <1>3, <1>4

\* The composer's own bubbles are nothing of the room.
LEMMA BubblesOnly ==
  ASSUME RoomInv, UNCHANGED <<stored, Silent, snapshot, crossed, down, join>>,
         DOMAIN bubbles \subseteq DOMAIN bubbles',
         \A j \in DOMAIN bubbles : bubbles'[j].msg = bubbles[j].msg,
         \A j \in DOMAIN bubbles' \ DOMAIN bubbles : bubbles'[j].msg = 0
  PROVE  (HistoryComesOnce /\ NoneBetween /\ AfterHistory /\ OnScreen /\ NoneLost)'
<1>1. UNCHANGED <<stored, Silent, snapshot, crossed, down, join>>
  OBVIOUS
<1>2. Histories' = Histories /\ After' = After /\ Live' = Live
  BY <1>1 DEF Histories, After, Live
<1>3. snapshot \in Nat /\ DOMAIN stored \subseteq Nat \ {0}
  BY DEF RoomInv, ScreenInv, WireTypeOK
<1>4. \A j \in DOMAIN bubbles' : bubbles'[j].msg # 0 => j \in DOMAIN bubbles
  OBVIOUS
<1>5. (HistoryComesOnce /\ NoneBetween /\ AfterHistory)'
  BY <1>1, <1>2 DEF RoomInv, HistoryComesOnce, NoneBetween, AfterHistory
<1>6. OnScreen'
  BY <1>1, <1>2, <1>3, <1>4 DEF RoomInv, OnScreen
<1>7. NoneLost'
  BY <1>1, <1>2, <1>3, <1>4 DEF RoomInv, NoneLost
<1> QED
  BY <1>5, <1>6, <1>7

LEMMA Stores ==
  ASSUME RoomInv, NEW by \in Clients \cup {Elsewhere},
         stored' = Append(stored, by), unsent' = unsent \cup {Len(stored) + 1},
         UNCHANGED <<bubbles, down, join, untold, snapshot, crossed>>
  PROVE  (HistoryComesOnce /\ NoneBetween /\ AfterHistory /\ OnScreen /\ NoneLost)'
<1> DEFINE n == Len(stored) + 1
<1>1. /\ n \notin DOMAIN stored /\ DOMAIN stored' = DOMAIN stored \cup {n} /\ n \in Nat \ {0}
      /\ snapshot \in Nat /\ DOMAIN stored \subseteq Nat \ {0} /\ Silent' = Silent \cup {n}
      /\ Silent \subseteq DOMAIN stored
  BY DEF RoomInv, ScreenInv, WireTypeOK, Silent
<1> HIDE DEF n
<1>2. Histories' = Histories /\ After' = After /\ Live' = Live
  BY DEF Histories, After, Live
<1>3. (HistoryComesOnce /\ NoneBetween /\ AfterHistory)'
  BY <1>1, <1>2 DEF RoomInv, HistoryComesOnce, NoneBetween, AfterHistory
<1>4. OnScreen'
  BY <1>1, <1>2 DEF RoomInv, OnScreen
<1>5. NoneLost'
  BY <1>1, <1>2 DEF RoomInv, NoneLost
<1> QED
  BY <1>3, <1>4, <1>5

LEMMA Broadcasts ==
  ASSUME RoomInv, NEW i \in unsent, Broadcast(i)
  PROVE  (HistoryComesOnce /\ NoneBetween /\ AfterHistory /\ OnScreen /\ NoneLost)'
<1> DEFINE e == [kind |-> "new", msg |-> i]
           n == Len(down) + 1
<1>1. /\ WireTypeOK /\ i \in DOMAIN stored /\ i \in Nat /\ snapshot \in Nat
      /\ DOMAIN stored \subseteq Nat \ {0} /\ Silent \subseteq DOMAIN stored /\ i \in Silent
  BY DEF RoomInv, ScreenInv, WireTypeOK, Silent
<1>2. e \in Answers /\ e.kind = "new" /\ e.msg = i
  BY <1>1 DEF Answers
<1>3. /\ Silent' = Silent \ {i} /\ UNCHANGED <<bubbles, stored, join, snapshot>>
      /\ down' = IF join \in {"joined", "read", "in"} THEN Append(down, e) ELSE down
  BY <1>1 DEF Broadcast, screenVars, WireTypeOK, Silent
<1>4. ~crossed' => ~crossed /\ (join = "read" => i <= snapshot) /\ (join = "in" => i > snapshot)
  <2>1. ~crossed' => ~crossed /\ ~(join = "read" /\ i > snapshot) /\ ~(join = "in" /\ i <= snapshot)
    BY Zenon DEF Broadcast
  <2> QED
    BY <1>1, <2>1
<1> HIDE DEF e
<1>5. CASE join \in {"joined", "read", "in"}
  <2>1. /\ n \notin DOMAIN down /\ DOMAIN down' = DOMAIN down \cup {n} /\ down'[n] = e
        /\ \A p \in DOMAIN down : down'[p] = down[p]
        /\ Histories' = Histories /\ After' = After \cup {n}
    BY <1>1, <1>2, <1>3, <1>5, Appended
  <2> HIDE DEF n
  <2>2. Histories \subseteq DOMAIN down /\ After \subseteq DOMAIN down
    BY DEF Histories, After
  <2>3. HistoryComesOnce'
    BY <1>3, <1>5, <2>1, <2>2 DEF RoomInv, HistoryComesOnce
  <2>4. NoneBetween'
    BY <1>1, <1>3, <1>4 DEF RoomInv, NoneBetween
  <2>5. ASSUME Live'
        PROVE  Live /\ i > snapshot
    BY <1>3, <1>4, <2>5 DEF Live
  <2>6. AfterHistory'
    <3> SUFFICES ASSUME Live'
                 PROVE  /\ \A p \in After' : /\ down'[p].msg \in DOMAIN stored' \ Silent'
                                             /\ down'[p].msg > snapshot'
                        /\ \A p, q \in After' : down'[p].msg = down'[q].msg => p = q
      BY DEF AfterHistory
    <3>1. \A p \in After : /\ down'[p].msg = down[p].msg /\ down[p].msg \in DOMAIN stored \ Silent
                           /\ down[p].msg > snapshot
      BY <2>1, <2>2, <2>5 DEF RoomInv, AfterHistory
    <3>2. \A p, q \in After : down[p].msg = down[q].msg => p = q
      BY <2>5 DEF RoomInv, AfterHistory
    <3>3. down'[n].msg = i
      BY <1>2, <2>1
    <3>4. ASSUME NEW p \in After'
          PROVE  down'[p].msg \in DOMAIN stored \ Silent' /\ down'[p].msg > snapshot
      BY <1>1, <1>3, <2>1, <2>5, <3>1, <3>3
    <3>5. \A p \in After : down'[p].msg # i
      BY <1>1, <3>1
    <3>6. ASSUME NEW p \in After', NEW q \in After', down'[p].msg = down'[q].msg
          PROVE  p = q
      <4>1. p \in After \cup {n} /\ q \in After \cup {n}
        BY <2>1
      <4>2. CASE p = n \/ q = n
        BY <3>3, <3>5, <3>6, <4>1, <4>2
      <4>3. CASE p \in After /\ q \in After
        BY <3>1, <3>2, <3>6, <4>3
      <4> QED
        BY <4>1, <4>2, <4>3
    <3>7. snapshot' = snapshot /\ stored' = stored
      BY <1>3
    <3> HIDE DEF Silent, After
    <3> QED
      BY <3>4, <3>6, <3>7
  <2>7. OnScreen'
    <3> SUFFICES ASSUME Live', Histories' = {}
                 PROVE  /\ \A k \in 1..snapshot' : \E j \in DOMAIN bubbles' : bubbles'[j].msg = k
                        /\ \A j \in DOMAIN bubbles' :
                             bubbles'[j].msg > snapshot' =>
                               /\ bubbles'[j].msg \in DOMAIN stored' \ Silent'
                               /\ \A p \in After' : down'[p].msg # bubbles'[j].msg
                        /\ \A j, k \in DOMAIN bubbles' :
                             bubbles'[j].msg # 0 /\ bubbles'[j].msg = bubbles'[k].msg => j = k
      BY DEF OnScreen
    <3>1. /\ \A k \in 1..snapshot : \E j \in DOMAIN bubbles : bubbles[j].msg = k
          /\ \A j \in DOMAIN bubbles :
               bubbles[j].msg > snapshot =>
                 /\ bubbles[j].msg \in DOMAIN stored \ Silent
                 /\ \A p \in After : down[p].msg # bubbles[j].msg
          /\ \A j, k \in DOMAIN bubbles :
               bubbles[j].msg # 0 /\ bubbles[j].msg = bubbles[k].msg => j = k
      BY <2>1, <2>5 DEF RoomInv, OnScreen
    <3>2. down'[n].msg = i
      BY <1>2, <2>1
    <3>3. ASSUME NEW j \in DOMAIN bubbles, bubbles[j].msg > snapshot
          PROVE  /\ bubbles[j].msg # i
                 /\ bubbles[j].msg \in DOMAIN stored \ Silent'
                 /\ \A p \in After' : down'[p].msg # bubbles[j].msg
      BY <1>1, <1>3, <2>1, <2>2, <3>1, <3>2, <3>3
    <3>4. snapshot' = snapshot /\ stored' = stored /\ bubbles' = bubbles
      BY <1>3
    <3> QED
      BY <3>1, <3>3, <3>4
  <2>8. NoneLost'
    <3> SUFFICES ASSUME Live', NEW k \in DOMAIN stored', k > snapshot'
                 PROVE  \/ k \in Silent'
                        \/ \E p \in After' : down'[p].msg = k
                        \/ Histories' = {} /\ \E j \in DOMAIN bubbles' : bubbles'[j].msg = k
      BY DEF NoneLost
    <3>1. CASE k = i
      BY <1>2, <2>1, <3>1
    <3>2. CASE k # i
      <4>1. \/ k \in Silent
            \/ \E p \in After : down[p].msg = k
            \/ Histories = {} /\ \E j \in DOMAIN bubbles : bubbles[j].msg = k
        BY <1>3, <2>5 DEF RoomInv, NoneLost
      <4> QED
        BY <1>3, <2>1, <2>2, <3>2, <4>1
    <3> QED
      BY <3>1, <3>2
  <2> QED
    BY <2>3, <2>4, <2>6, <2>7, <2>8
<1>6. CASE join \notin {"joined", "read", "in"}
  <2>1. down' = down /\ join' = join /\ snapshot' = snapshot
    BY <1>3, <1>6
  <2>2. Histories' = Histories
    BY <2>1 DEF Histories
  <2> QED
    BY <1>6, <2>1, <2>2
    DEF RoomInv, HistoryComesOnce, NoneBetween, AfterHistory, OnScreen, NoneLost, Live
<1> QED
  BY <1>5, <1>6

LEMMA SendsHistory ==
  ASSUME RoomInv, SendHistory
  PROVE  (HistoryComesOnce /\ NoneBetween /\ AfterHistory /\ OnScreen /\ NoneLost)'
<1> DEFINE e == [kind |-> "history", msg |-> snapshot]
           n == Len(down) + 1
<1>1. e \in Answers /\ e.kind = "history" /\ e.msg = snapshot /\ WireTypeOK
  BY DEF RoomInv, ScreenInv, WireTypeOK, Answers
<1>2. /\ join = "read" /\ join' = "in" /\ down' = Append(down, e)
      /\ UNCHANGED <<bubbles, stored, Silent, snapshot, crossed>>
  BY DEF SendHistory, screenVars, serverVars, Silent
<1> HIDE DEF e
<1>3. Histories = {}
  BY <1>2 DEF RoomInv, HistoryComesOnce
<1>4. down'[n] = e /\ Histories' = {n} /\ After' = {}
  BY <1>1, <1>2, <1>3, Appended
<1> HIDE DEF n
<1>5. HistoryComesOnce' /\ NoneBetween'
  BY <1>1, <1>2, <1>4 DEF HistoryComesOnce, NoneBetween
<1>6. AfterHistory' /\ OnScreen'
  BY <1>4 DEF AfterHistory, OnScreen
<1>7. NoneLost'
  BY <1>2 DEF RoomInv, NoneBetween, NoneLost, Live
<1> QED
  BY <1>5, <1>6, <1>7

\* The history comes and the list is the history.
LEMMA HistoryComes ==
  ASSUME RoomInv, Receive, Head(down).kind = "history"
  PROVE  (HistoryComesOnce /\ NoneBetween /\ AfterHistory /\ OnScreen /\ NoneLost)'
<1>1. /\ WireTypeOK /\ down # <<>> /\ down' = Tail(down) /\ snapshot \in Nat
      /\ DOMAIN stored \subseteq Nat \ {0}
      /\ UNCHANGED <<stored, Silent, snapshot, crossed, join>>
  BY DEF Receive, RoomInv, ScreenInv, WireTypeOK, serverVars, Silent
<1>2. /\ 1 \in DOMAIN down /\ Head(down) = down[1] /\ DOMAIN down \subseteq Nat \ {0}
      /\ DOMAIN down' \subseteq Nat \ {0} /\ \A p \in DOMAIN down' : down'[p] = down[p + 1]
      /\ \A p \in Nat \ {0} : (p \in Histories' <=> p + 1 \in Histories)
                           /\ (p \in After' <=> p + 1 \in After)
  BY <1>1, Taken
<1>3. 1 \in Histories /\ down[1].msg = snapshot /\ join = "in"
  BY <1>2 DEF RoomInv, HistoryComesOnce, Histories
<1>4. Histories' = {}
  <2> SUFFICES ASSUME NEW h \in Histories'
               PROVE  FALSE
    OBVIOUS
  <2>1. h \in Nat \ {0}
    BY <1>2 DEF Histories
  <2>2. h + 1 = 1
    BY <1>2, <1>3, <2>1 DEF RoomInv, HistoryComesOnce
  <2> QED
    BY <2>1, <2>2
<1>5. After' \subseteq DOMAIN down' /\ After \subseteq DOMAIN down
  BY DEF After
<1>6. OnHistory(snapshot)
  BY <1>2, <1>3 DEF Receive
<1>7. DOMAIN bubbles' = 1..snapshot /\ \A j \in 1..snapshot : bubbles'[j].msg = j
  <2>1. DOMAIN bubbles' = 1..snapshot /\ \A j \in 1..snapshot : bubbles'[j] = Bubble(Elsewhere, j, "sent")
    BY <1>1, <1>6, HistoryShown
  <2> QED
    BY <2>1 DEF Bubble
<1>8. HistoryComesOnce' /\ NoneBetween'
  BY <1>1, <1>3, <1>4 DEF HistoryComesOnce, NoneBetween
<1>9. AfterHistory'
  <2>1. \A p \in After' : p \in Nat \ {0} /\ p + 1 \in After /\ down'[p] = down[p + 1]
    BY <1>2, <1>5
  <2> SUFFICES ASSUME Live'
               PROVE  /\ \A p \in After' : /\ down'[p].msg \in DOMAIN stored \ Silent
                                           /\ down'[p].msg > snapshot
                      /\ \A p, q \in After' : down'[p].msg = down'[q].msg => p = q
    BY <1>1 DEF AfterHistory
  <2>2. Live
    BY <1>1 DEF Live
  <2>3. \A p \in After' : /\ down'[p].msg \in DOMAIN stored \ Silent
                          /\ down'[p].msg > snapshot
    BY <2>1, <2>2 DEF RoomInv, AfterHistory
  <2>4. ASSUME NEW p \in After', NEW q \in After', down'[p].msg = down'[q].msg
        PROVE  p = q
    <3>1. p + 1 = q + 1 /\ p \in Nat /\ q \in Nat
      BY <2>1, <2>2, <2>4 DEF RoomInv, AfterHistory
    <3> QED
      BY <3>1
  <2> QED
    BY <2>3, <2>4
<1>10. OnScreen'
  BY <1>1, <1>7 DEF OnScreen
<1>11. NoneLost'
  <2> SUFFICES ASSUME Live', NEW k \in DOMAIN stored', k > snapshot', k \notin Silent'
               PROVE  \E p \in After' : down'[p].msg = k
    BY DEF NoneLost
  <2>1. Live /\ k \in DOMAIN stored /\ k > snapshot /\ k \notin Silent
    BY <1>1 DEF Live
  <2>2. PICK p \in After : down[p].msg = k
    BY <1>3, <2>1 DEF RoomInv, NoneLost
  <2>3. p \in Nat /\ 1 < p
    BY <1>2, <1>3, <1>5 DEF After
  <2>4. p - 1 \in Nat \ {0} /\ (p - 1) + 1 = p
    BY <2>3
  <2>5. p - 1 \in After'
    BY <1>2, <2>4
  <2> QED
    BY <1>2, <1>5, <2>2, <2>4, <2>5
<1> QED
  BY <1>8, <1>9, <1>10, <1>11

\* A broadcast comes: it was on its way, and now it is shown.
LEMMA BroadcastComes ==
  ASSUME RoomInv, Receive, Head(down).kind = "new"
  PROVE  (HistoryComesOnce /\ NoneBetween /\ AfterHistory /\ OnScreen /\ NoneLost)'
<1>1. /\ WireTypeOK /\ ScreenTypeOK /\ BubbleIsOneOrOther
      /\ down # <<>> /\ down' = Tail(down) /\ snapshot \in Nat
      /\ DOMAIN stored \subseteq Nat \ {0}
      /\ UNCHANGED <<stored, Silent, snapshot, crossed, join>>
  BY DEF Receive, RoomInv, ScreenInv, WireTypeOK, serverVars, Silent
<1>2. /\ 1 \in DOMAIN down /\ Head(down) = down[1] /\ DOMAIN down \subseteq Nat \ {0}
      /\ DOMAIN down' \subseteq Nat \ {0} /\ \A p \in DOMAIN down' : down'[p] = down[p + 1]
      /\ \A p \in Nat \ {0} : (p \in Histories' <=> p + 1 \in Histories)
                           /\ (p \in After' <=> p + 1 \in After)
  BY <1>1, Taken
<1> DEFINE msg == down[1].msg
<1>3. down[1].kind = "new" /\ msg \in Nat /\ msg # 0
  <2>1. down[1].kind = "new" /\ down[1] \in Answers
    BY <1>1, <1>2 DEF WireTypeOK
  <2>2. down[1].msg = 0 => down[1].kind = "history"
    BY <1>1, <1>2 DEF WireTypeOK
  <2> QED
    BY <2>1, <2>2 DEF Answers
<1>4. /\ After' \subseteq DOMAIN down' /\ After \subseteq DOMAIN down
      /\ Histories' \subseteq DOMAIN down' /\ Histories \subseteq DOMAIN down
  BY DEF After, Histories
<1>5. 1 \notin Histories
  BY <1>3 DEF Histories
<1>6. PICK b \in DOMAIN bubbles' :
         /\ DOMAIN bubbles' = DOMAIN bubbles \cup {b}
         /\ bubbles'[b] = Bubble(Elsewhere, msg, "sent")
         /\ \A i \in DOMAIN bubbles : i # b => bubbles'[i] = bubbles[i]
         /\ b \in DOMAIN bubbles => bubbles[b].msg = 0
  <2>1. OnOwnMessage(msg)
    BY <1>2, <1>3 DEF Receive
  <2> QED
    BY <1>1, <1>3, <2>1, OwnMessage
<1>7. bubbles'[b].msg = msg
  BY <1>6 DEF Bubble
<1> HIDE DEF msg
<1>8. /\ Histories' = {} <=> Histories = {}
      /\ \A h \in Histories' : h + 1 \in Histories /\ h \in Nat
  <2>1. \A h \in Histories' : h + 1 \in Histories /\ h \in Nat
    BY <1>2, <1>4
  <2>2. ASSUME NEW h \in Histories
        PROVE  h - 1 \in Histories'
    <3>1. h - 1 \in Nat \ {0} /\ (h - 1) + 1 = h
      BY <1>2, <1>4, <1>5
    <3> QED
      BY <1>2, <3>1
  <2> QED
    BY <2>1, <2>2
<1>9. HistoryComesOnce'
  <2>1. join \in {"offline", "asked"} => down' = <<>>
    BY <1>1 DEF RoomInv, HistoryComesOnce
  <2>2. Histories' # {} => join = "in"
    BY <1>8 DEF RoomInv, HistoryComesOnce
  <2>3. \A h, k \in Histories' : h = k
    <3> SUFFICES ASSUME NEW h \in Histories', NEW k \in Histories'
                 PROVE  h = k
      OBVIOUS
    <3>1. h + 1 = k + 1 /\ h \in Nat /\ k \in Nat
      BY <1>8 DEF RoomInv, HistoryComesOnce
    <3> QED
      BY <3>1
  <2>4. \A h \in Histories' : down'[h].msg = snapshot
    BY <1>2, <1>4, <1>8 DEF RoomInv, HistoryComesOnce
  <2> QED
    BY <1>1, <2>1, <2>2, <2>3, <2>4 DEF HistoryComesOnce
<1>10. NoneBetween'
  BY <1>1 DEF RoomInv, NoneBetween
<1>11. \A p \in After' : p \in Nat \ {0} /\ p + 1 \in After /\ down'[p] = down[p + 1]
  BY <1>2, <1>4
<1>12. AfterHistory'
  <2> SUFFICES ASSUME Live'
               PROVE  /\ \A p \in After' : /\ down'[p].msg \in DOMAIN stored \ Silent
                                           /\ down'[p].msg > snapshot
                      /\ \A p, q \in After' : down'[p].msg = down'[q].msg => p = q
    BY <1>1 DEF AfterHistory
  <2>1. Live
    BY <1>1 DEF Live
  <2>2. \A p \in After' : /\ down'[p].msg \in DOMAIN stored \ Silent
                          /\ down'[p].msg > snapshot
    BY <1>11, <2>1 DEF RoomInv, AfterHistory
  <2>3. ASSUME NEW p \in After', NEW q \in After', down'[p].msg = down'[q].msg
        PROVE  p = q
    <3>1. p + 1 = q + 1 /\ p \in Nat /\ q \in Nat
      BY <1>11, <2>1, <2>3 DEF RoomInv, AfterHistory
    <3> QED
      BY <3>1
  <2> QED
    BY <2>2, <2>3
<1>13. OnScreen'
  <2> SUFFICES ASSUME Live', Histories' = {}
               PROVE  /\ \A k \in 1..snapshot : \E j \in DOMAIN bubbles' : bubbles'[j].msg = k
                      /\ \A j \in DOMAIN bubbles' :
                           bubbles'[j].msg > snapshot =>
                             /\ bubbles'[j].msg \in DOMAIN stored \ Silent
                             /\ \A p \in After' : down'[p].msg # bubbles'[j].msg
                      /\ \A j, k \in DOMAIN bubbles' :
                           bubbles'[j].msg # 0 /\ bubbles'[j].msg = bubbles'[k].msg => j = k
    BY <1>1 DEF OnScreen
  <2>1. Live /\ Histories = {}
    BY <1>1, <1>8 DEF Live
  <2>2. 1 \in After
    BY <1>2, <1>3, <2>1 DEF After
  <2>3. msg \in DOMAIN stored \ Silent /\ msg > snapshot
    BY <2>1, <2>2 DEF RoomInv, AfterHistory, msg
  <2>4. \A p \in After' : down'[p].msg # msg
    <3> SUFFICES ASSUME NEW p \in After', down'[p].msg = msg
                 PROVE  FALSE
      OBVIOUS
    <3>1. p + 1 = 1 /\ p \in Nat \ {0}
      BY <1>11, <2>1, <2>2 DEF RoomInv, AfterHistory, msg
    <3> QED
      BY <3>1
  <2>5. /\ \A k \in 1..snapshot : \E j \in DOMAIN bubbles : bubbles[j].msg = k
        /\ \A j \in DOMAIN bubbles :
             bubbles[j].msg > snapshot =>
               /\ bubbles[j].msg \in DOMAIN stored \ Silent
               /\ \A p \in After : down[p].msg # bubbles[j].msg
        /\ \A j, k \in DOMAIN bubbles :
             bubbles[j].msg # 0 /\ bubbles[j].msg = bubbles[k].msg => j = k
    BY <2>1 DEF RoomInv, OnScreen
  <2>6. \A j \in DOMAIN bubbles : bubbles[j].msg # msg
    BY <1>3, <2>2, <2>3, <2>5 DEF msg
  <2>7. \A j \in DOMAIN bubbles' : j # b => j \in DOMAIN bubbles /\ bubbles'[j] = bubbles[j]
    BY <1>6
  <2>8. ASSUME NEW k \in 1..snapshot
        PROVE  \E j \in DOMAIN bubbles' : bubbles'[j].msg = k
    <3>1. PICK j \in DOMAIN bubbles : bubbles[j].msg = k
      BY <2>5
    <3>2. j # b
      BY <1>6, <3>1
    <3> QED
      BY <1>6, <3>1, <3>2
  <2>9. ASSUME NEW j \in DOMAIN bubbles', bubbles'[j].msg > snapshot
        PROVE  /\ bubbles'[j].msg \in DOMAIN stored \ Silent
               /\ \A p \in After' : down'[p].msg # bubbles'[j].msg
    <3>1. CASE j = b
      BY <1>7, <2>3, <2>4, <3>1
    <3>2. CASE j # b
      BY <1>11, <2>5, <2>7, <2>9, <3>2
    <3> QED
      BY <3>1, <3>2
  <2>10. ASSUME NEW j \in DOMAIN bubbles', NEW k \in DOMAIN bubbles',
                bubbles'[j].msg # 0, bubbles'[j].msg = bubbles'[k].msg
         PROVE  j = k
    <3>1. CASE j = b \/ k = b
      BY <1>7, <2>6, <2>7, <2>10, <3>1
    <3>2. CASE j # b /\ k # b
      BY <2>5, <2>7, <2>10, <3>2
    <3> QED
      BY <3>1, <3>2
  <2> QED
    BY <2>8, <2>9, <2>10
<1>14. NoneLost'
  <2> SUFFICES ASSUME Live', NEW k \in DOMAIN stored, k > snapshot, k \notin Silent
               PROVE  \/ \E p \in After' : down'[p].msg = k
                      \/ Histories' = {} /\ \E j \in DOMAIN bubbles' : bubbles'[j].msg = k
    BY <1>1 DEF NoneLost
  <2>1. \/ \E p \in After : down[p].msg = k
        \/ Histories = {} /\ \E j \in DOMAIN bubbles : bubbles[j].msg = k
    BY <1>1 DEF RoomInv, NoneLost, Live
  <2>2. ASSUME NEW p \in After, down[p].msg = k, p # 1
        PROVE  \E q \in After' : down'[q].msg = k
    <3>1. p - 1 \in Nat \ {0} /\ (p - 1) + 1 = p
      BY <1>2, <1>4, <2>2
    <3>2. p - 1 \in After'
      BY <1>2, <3>1
    <3> QED
      BY <1>11, <2>2, <3>1, <3>2
  <2>3. ASSUME 1 \in After, down[1].msg = k
        PROVE  Histories' = {} /\ bubbles'[b].msg = k
    <3>1. Histories = {}
      <4> SUFFICES ASSUME NEW h \in Histories
                   PROVE  FALSE
        OBVIOUS
      <4>1. h < 1 /\ h \in Nat \ {0}
        BY <1>2, <1>4, <2>3 DEF After
      <4> QED
        BY <4>1
    <3> QED
      BY <1>7, <1>8, <2>3, <3>1 DEF msg
  <2>4. ASSUME Histories = {}, NEW j \in DOMAIN bubbles, bubbles[j].msg = k
        PROVE  Histories' = {} /\ \E i \in DOMAIN bubbles' : bubbles'[i].msg = k
    <3>1. j # b
      BY <1>1, <1>6, <2>4
    <3> QED
      BY <1>6, <1>8, <2>4, <3>1
  <2> QED
    BY <2>1, <2>2, <2>3, <2>4
<1> QED
  BY <1>9, <1>10, <1>12, <1>13, <1>14

LEMMA RoomStep == RoomInv /\ [MobileNext]_mobileVars => RoomInv'
<1> SUFFICES ASSUME RoomInv, [MobileNext]_mobileVars
             PROVE  RoomInv'
  OBVIOUS
<1> DEFINE Shown == HistoryComesOnce /\ NoneBetween /\ AfterHistory /\ OnScreen /\ NoneLost
<1>1. ScreenInv /\ ScreenInv'
  BY ScreenStep DEF RoomInv
<1>2. /\ bubbles \in Seq(Bubbles) /\ DOMAIN bubbles = 1..Len(bubbles) /\ Len(bubbles) \in Nat
      /\ snapshot \in 0..Len(stored)
  BY <1>1 DEF ScreenInv, ScreenTypeOK, WireTypeOK
<1>3. ASSUME NEW m \in Clients, SendMessage(m)
      PROVE  Shown'
  <2> DEFINE b == Bubble(m, 0, "pending")
             n == Len(bubbles) + 1
  <2>1. bubbles' = Append(bubbles, b) /\ UNCHANGED <<serverVars, down, join>> /\ b.msg = 0
    BY <1>3 DEF SendMessage, Bubble
  <2> HIDE DEF b
  <2>2. /\ n \notin DOMAIN bubbles /\ DOMAIN bubbles' = DOMAIN bubbles \cup {n} /\ bubbles'[n] = b
        /\ \A j \in DOMAIN bubbles : bubbles'[j] = bubbles[j]
    BY <1>2, <2>1
  <2> HIDE DEF n
  <2>3. /\ DOMAIN bubbles \subseteq DOMAIN bubbles'
        /\ \A j \in DOMAIN bubbles : bubbles'[j].msg = bubbles[j].msg
        /\ \A j \in DOMAIN bubbles' \ DOMAIN bubbles : bubbles'[j].msg = 0
    BY <2>1, <2>2
  <2> QED
    BY <2>1, <2>3, BubblesOnly DEF serverVars, Silent
<1>4. ASSUME NEW m \in Clients, NEW from \in {"pending", "failed"}, NEW to \in {"pending", "failed"},
             bubbles' = Marked(m, from, to), UNCHANGED <<serverVars, down, join>>
      PROVE  Shown'
  <2>1. /\ DOMAIN bubbles' = DOMAIN bubbles
        /\ \A j \in DOMAIN bubbles : bubbles'[j].msg = bubbles[j].msg
    BY <1>1, <1>4, Marking DEF ScreenInv
  <2> QED
    BY <1>4, <2>1, BubblesOnly DEF serverVars, Silent
<1>5. ASSUME NEW m \in Clients, RetrySendMessage(m) \/ TimeoutFires(m)
      PROVE  Shown'
  BY <1>4, <1>5 DEF RetrySendMessage, TimeoutFires
<1>6. ASSUME UNCHANGED <<bubbles, stored, Silent, snapshot, crossed, down, join>>
      PROVE  Shown'
  BY <1>6, BubblesOnly
<1>7. ASSUME NEW m \in Clients, Save(m)
      PROVE  Shown'
  BY <1>7, Stores DEF Save, screenVars
<1>8. ASSUME NEW m \in Clients, Refuse(m)
      PROVE  Shown'
  BY <1>6, <1>8 DEF Refuse, screenVars, serverVars, Silent
<1>9. ASSUME SaveElsewhere
      PROVE  Shown'
  BY <1>9, Stores DEF SaveElsewhere, screenVars
<1>10. ASSUME Receive
       PROVE  Shown'
  <2>1. down # <<>> /\ down \in Seq(Answers)
    BY <1>1, <1>10 DEF Receive, ScreenInv, WireTypeOK
  <2>2. Head(down) \in Answers
    BY <2>1
  <2>3. Head(down).kind \in {"new", "history"}
    BY <2>2 DEF Answers
  <2> QED
    BY <1>10, <2>3, HistoryComes, BroadcastComes
<1>11. ASSUME join \in {"offline", "asked"}, join' \in {"asked", "joined"}, UNCHANGED down
       PROVE  Shown'
  <2>1. down' = <<>> /\ ~Live'
    BY <1>11 DEF RoomInv, HistoryComesOnce, Live
  <2>2. Histories' = {}
    BY <2>1 DEF Histories
  <2> QED
    BY <1>11, <2>1, <2>2 DEF HistoryComesOnce, NoneBetween, AfterHistory, OnScreen, NoneLost
<1>12. ASSUME Connect \/ Join
       PROVE  Shown'
  BY <1>11, <1>12 DEF Connect, Join
<1>13. ASSUME Disconnect
       PROVE  Shown'
  <2>1. down' = <<>> /\ join' = "offline"
    BY <1>13 DEF Disconnect
  <2>2. Histories' = {} /\ ~Live'
    BY <2>1 DEF Histories, Live
  <2> QED
    BY <2>1, <2>2 DEF HistoryComesOnce, NoneBetween, AfterHistory, OnScreen, NoneLost
<1>14. ASSUME NEW i \in unsent, Broadcast(i) \/ SaveCutOff(i)
       PROVE  Shown'
  <2>1. CASE Broadcast(i)
    BY <2>1, Broadcasts
  <2>2. CASE SaveCutOff(i)
    BY <1>6, <2>2 DEF SaveCutOff, screenVars, Silent
  <2> QED
    BY <1>14, <2>1, <2>2
<1>15. ASSUME ReadHistory
       PROVE  Shown'
  <2>1. /\ join = "joined" /\ join' = "read" /\ snapshot' = Len(stored)
        /\ UNCHANGED <<down, stored>>
    BY <1>15 DEF ReadHistory
  <2>2. Histories = {}
    BY <2>1 DEF RoomInv, HistoryComesOnce
  <2>3. Histories' = {} /\ ~Live'
    BY <2>1, <2>2 DEF Histories, Live
  <2>4. \A i \in DOMAIN stored : ~(i > Len(stored))
    BY <1>1 DEF ScreenInv, WireTypeOK
  <2> QED
    BY <2>1, <2>3, <2>4 DEF HistoryComesOnce, NoneBetween, AfterHistory, OnScreen, NoneLost
<1>16. ASSUME SendHistory
       PROVE  Shown'
  BY <1>16, SendsHistory
<1>17. ASSUME UNCHANGED mobileVars
       PROVE  Shown'
  BY <1>6, <1>17 DEF mobileVars, screenVars, serverVars, Silent
<1>18. CASE \E m \in Clients : SendMessage(m) \/ RetrySendMessage(m) \/ TimeoutFires(m)
                               \/ Save(m) \/ Refuse(m)
  <2>1. Shown'
    BY <1>3, <1>5, <1>7, <1>8, <1>18
  <2> QED
    BY <1>1, <2>1 DEF RoomInv
<1>19. CASE ~(\E m \in Clients : SendMessage(m) \/ RetrySendMessage(m) \/ TimeoutFires(m)
                                 \/ Save(m) \/ Refuse(m))
  <2>1. Shown'
    BY <1>9, <1>10, <1>12, <1>13, <1>14, <1>15, <1>16, <1>17, <1>19 DEF MobileNext
  <2> QED
    BY <1>1, <2>1 DEF RoomInv
<1> QED
  BY <1>18, <1>19

LEMMA RoomCorrect == MobileSpec => []RoomInv
<1>1. MobileInit => RoomInv
  <2> SUFFICES ASSUME MobileInit
               PROVE  RoomInv
    OBVIOUS
  <2>1. /\ bubbles = <<>> /\ timers = {} /\ down = <<>> /\ stored = <<>> /\ unsent = {}
        /\ untold = {} /\ join = "offline" /\ snapshot = 0 /\ crossed = FALSE
    BY DEF MobileInit
  <2>2. ScreenInv
    <3>1. ScreenTypeOK /\ BubbleIsOneOrOther /\ OneBubbleEach /\ PendingBubbleHasTimer
      BY <2>1 DEF ScreenTypeOK, BubbleIsOneOrOther, OneBubbleEach, PendingBubbleHasTimer, Pending
    <3>2. Len(stored) = 0 /\ stored \in Seq(Clients \cup {Elsewhere}) /\ down \in Seq(Answers)
      BY <2>1
    <3>3. WireTypeOK
      <4>1. /\ snapshot \in 0..Len(stored) /\ unsent \subseteq DOMAIN stored
            /\ untold \subseteq DOMAIN stored \ unsent
        BY <2>1, <3>2
      <4>2. crossed \in BOOLEAN
        BY <2>1, Zenon
      <4>3. \A p \in DOMAIN down : down[p].msg = 0 => down[p].kind = "history"
        BY <2>1
      <4>4. join \in {"offline", "asked", "joined", "read", "in"}
        BY <2>1
      <4> QED
        BY <3>2, <4>1, <4>2, <4>3, <4>4 DEF WireTypeOK
    <3> QED
      BY <3>1, <3>3 DEF ScreenInv
  <2>3. Histories = {}
    BY <2>1 DEF Histories
  <2> QED
    BY <2>1, <2>2, <2>3
    DEF RoomInv, HistoryComesOnce, NoneBetween, AfterHistory, OnScreen, NoneLost, Live
<1> QED
  BY <1>1, RoomStep, PTL DEF MobileSpec

\* A pending bubble of the mobile chat has its timer, although a broadcast replaces
\* the first pending bubble, whichever message it was shown for, and clears that
\* one's timer: no message has two bubbles (sohbet/[slug].tsx onNewMessage,
\* retrySendMessage, pendingTimeoutsRef).
THEOREM BubbleKeepsTimer == MobileSpec => []PendingBubbleHasTimer
<1>1. RoomInv => PendingBubbleHasTimer
  BY DEF RoomInv, ScreenInv
<1> QED
  BY <1>1, RoomCorrect, PTL

\* Once the socket has had its history and all is quiet, each message of the room is on
\* the screen exactly once, unless a broadcast crossed that history; only one whose
\* handler ended after storing it, since that history was read, is not there at all
\* (sohbet/[slug].tsx onHistory, onNewMessage; chat.gateway.ts handleJoin,
\* handleMessage; chat.service.ts saveMessage).
THEOREM EveryMessageIsShownOnce == MobileSpec => []StoredShownOnce
<1>1. RoomInv => StoredShownOnce
  <2> SUFFICES ASSUME RoomInv, Quiet, ~crossed, NEW i \in DOMAIN stored
               PROVE  Cardinality({j \in DOMAIN bubbles : bubbles[j].msg = i}) =
                        IF i \in untold /\ i > snapshot THEN 0 ELSE 1
    BY DEF StoredShownOnce
  <2>1. Live /\ Histories = {} /\ After = {} /\ Silent = untold
    BY DEF Quiet, Live, Histories, After, Silent
  <2>2. i \in Nat \ {0} /\ snapshot \in Nat
    BY DEF RoomInv, ScreenInv, WireTypeOK
  <2>3. ASSUME i \in untold, i > snapshot
        PROVE  {j \in DOMAIN bubbles : bubbles[j].msg = i} = {}
    BY <2>1, <2>3 DEF RoomInv, OnScreen
  <2>4. ASSUME ~(i \in untold /\ i > snapshot)
        PROVE  \E j : {k \in DOMAIN bubbles : bubbles[k].msg = i} = {j}
    <3>1. PICK j \in DOMAIN bubbles : bubbles[j].msg = i
      <4>1. CASE i <= snapshot
        BY <2>1, <2>2, <4>1 DEF RoomInv, OnScreen
      <4>2. CASE i > snapshot
        BY <2>1, <2>4, <4>2 DEF RoomInv, NoneLost
      <4> QED
        BY <2>2, <4>1, <4>2
    <3>2. \A k \in DOMAIN bubbles : bubbles[k].msg = i => k = j
      BY <2>1, <2>2, <3>1 DEF RoomInv, OnScreen
    <3> QED
      BY <3>1, <3>2
  <2> QED
    BY <2>3, <2>4, FS_Singleton, FS_EmptySet
<1> QED
  BY <1>1, RoomCorrect, PTL

-----------------------------------------------------------------------------
(* The button of the radio, its page and the gateway. *)

\* What the page has emitted and the gateway has not handled, in order: the wire, or
\* while the socket is down its send buffer.
Wire == IF link = "up" THEN upward ELSE kept
Starts == {i \in DOMAIN Wire : Wire[i] = "start"}
Ends == {i \in DOMAIN Wire : Wire[i] = "end"}
ChannelWords == {i \in DOMAIN Wire : Wire[i] \in {"join", "leave"}}
Responses == {i \in DOMAIN downward : downward[i] \in {"granted", "denied"}}
Denials == {i \in DOMAIN downward : downward[i] = "denied"}
Linked == link \in {"up", "down"}

\* The gateway knows nothing of a socket that is gone, and the buffer is sent first.
LinkAgrees ==
  /\ link = "up" => kept = <<>>
  /\ link # "up" => /\ upward = <<>> /\ downward = <<>> /\ presses = 0
                    /\ session = "off" /\ floor # "page"
  /\ session # "ready" => ~member
  /\ unheard => ~member

\* The last word about the channel says whether the page shows one; when there is none,
\* the gateway has heard it.
ChannelAgrees ==
  /\ Linked => \A i \in ChannelWords : (\A j \in ChannelWords : j <= i) => (Wire[i] = "join" <=> tuned)
  /\ link = "up" /\ ChannelWords = {} => unheard \/ (tuned <=> member)

TalkIsHeld == talking => late \/ (held /\ tuned)

\* A page that did not go on before a press was answered has one press at most on its
\* way, answered while it transmits; nothing but a join comes after the press; and
\* while the socket has the floor the page transmits on it, or its end is on its way.
OnePress ==
  /\ \A i, j \in Starts : i = j
  /\ \A i, j \in Responses : i = j
  /\ Starts # {} => presses = 0 /\ Responses = {}
  /\ presses # 0 => presses = 1 /\ Responses = {}
  /\ ~talking => Starts = {} /\ presses = 0 /\ Responses = {}

JoinsAfterPress ==
  talking => \A i \in DOMAIN Wire : Wire[i] # "join" => \E s \in Starts : i <= s

FloorAgrees ==
  /\ floor = "page" /\ (~talking \/ Starts # {}) => Ends # {}
  /\ presses # 0 \/ Denials # {} => floor # "page"
  /\ talking /\ Starts = {} /\ presses = 0 /\ Denials = {} => floor = "page" \/ deaf

\* A press without a channel is not heard.
NoChannelNoFloor ==
  talking /\ ~tuned => presses = 0 /\ Responses = {} /\ (Starts = {} => floor # "page")

PressInv ==
  Linked /\ ~hurried => OnePress /\ JoinsAfterPress /\ FloorAgrees /\ NoChannelNoFloor

RadioInv == RadioTypeOK /\ LinkAgrees /\ ChannelAgrees /\ TalkIsHeld /\ PressInv

Words == {"join", "leave", "start", "end"}
Tidings == {"granted", "denied", "speaker_start", "speaker_end"}

RadioFlagsOK ==
  /\ held \in BOOLEAN /\ tuned \in BOOLEAN /\ someone \in BOOLEAN /\ guard \in BOOLEAN
  /\ talking \in BOOLEAN /\ autoStop \in BOOLEAN /\ strayStop \in BOOLEAN /\ member \in BOOLEAN
  /\ hurried \in BOOLEAN /\ late \in BOOLEAN /\ deaf \in BOOLEAN /\ unheard \in BOOLEAN

RadioRestOK ==
  /\ starts \in [StartIds -> {"none", "stream", "resume"}]
  /\ link \in {"up", "down", "refused", "closed"}
  /\ kept \in Seq(Words) /\ upward \in Seq(Words) /\ downward \in Seq(Tidings)
  /\ session \in {"off", "loading", "ready"}
  /\ floor \in {"free", "page", "other"} /\ presses \in Nat

LEMMA RadioTypes ==
  /\ RadioTypeOK <=> RadioFlagsOK /\ RadioRestOK
  /\ RadioTypeOK' <=> RadioFlagsOK' /\ RadioRestOK'
<1>1. {held, tuned, someone, guard, talking, autoStop, strayStop, member} \subseteq BOOLEAN
        /\ {hurried, late, deaf, unheard} \subseteq BOOLEAN <=> RadioFlagsOK
  BY DEF RadioFlagsOK
<1>2. ({held, tuned, someone, guard, talking, autoStop, strayStop, member} \subseteq BOOLEAN
        /\ {hurried, late, deaf, unheard} \subseteq BOOLEAN <=> RadioFlagsOK)'
  BY DEF RadioFlagsOK
<1>3. {kept, upward} \subseteq Seq(Words) <=> kept \in Seq(Words) /\ upward \in Seq(Words)
  OBVIOUS
<1>4. ({kept, upward} \subseteq Seq(Words) <=> kept \in Seq(Words) /\ upward \in Seq(Words))'
  OBVIOUS
<1> QED
  BY <1>1, <1>2, <1>3, <1>4 DEF RadioTypeOK, RadioRestOK, Words, Tidings

\* Whatever is emitted joins the end of the wire.
LEMMA Emitted ==
  ASSUME RadioRestOK, NEW events \in Seq(Words), EmitAll(events), link' = link
  PROVE  /\ kept' \in Seq(Words) /\ upward' \in Seq(Words) /\ Wire \in Seq(Words)
         /\ link = "up" => UNCHANGED kept
         /\ link # "up" => UNCHANGED upward
         /\ Wire' = Wire \o events
<1>1. Wire \in Seq(Words)
  BY DEF Wire, RadioRestOK
<1>2. CASE link = "up"
  <2>1. upward' = upward \o events /\ kept' = kept /\ upward \in Seq(Words) /\ kept \in Seq(Words)
    BY <1>2 DEF EmitAll, RadioRestOK
  <2>2. upward' \in Seq(Words)
    BY <2>1
  <2>3. Wire' = upward' /\ Wire = upward
    BY <1>2 DEF Wire
  <2> QED
    BY <1>1, <1>2, <2>1, <2>2, <2>3
<1>3. CASE link # "up"
  <2>1. kept' = kept \o events /\ upward' = upward /\ upward \in Seq(Words) /\ kept \in Seq(Words)
    BY <1>3 DEF EmitAll, RadioRestOK
  <2>2. kept' \in Seq(Words)
    BY <2>1
  <2>3. Wire' = kept' /\ Wire = kept
    BY <1>3 DEF Wire
  <2> QED
    BY <1>1, <1>3, <2>1, <2>2, <2>3
<1> QED
  BY <1>2, <1>3

LEMMA Concatenated ==
  ASSUME NEW s \in Seq(Words), NEW t \in Seq(Words)
  PROVE  LET r == s \o t IN
         /\ r \in Seq(Words)
         /\ \A i \in DOMAIN s : i \in DOMAIN r /\ r[i] = s[i]
         /\ \A k \in DOMAIN t : Len(s) + k \in DOMAIN r /\ r[Len(s) + k] = t[k]
         /\ \A i \in DOMAIN r \ DOMAIN s :
              i > Len(s) /\ i - Len(s) \in DOMAIN t /\ r[i] = t[i - Len(s)]
OBVIOUS

\* What a word does to the wire it is emitted on.
LEMMA WordsEmitted ==
  ASSUME RadioRestOK, NEW events \in Seq(Words), EmitAll(events), link' = link,
         \A k \in DOMAIN events : events[k] # "start"
  PROVE  /\ Starts' = Starts /\ Ends \subseteq Ends'
         /\ (\E k \in DOMAIN events : events[k] = "end") => Ends' # {}
         /\ DOMAIN Wire \subseteq DOMAIN Wire' /\ \A i \in DOMAIN Wire : Wire'[i] = Wire[i]
<1> DEFINE s == Wire
           r == s \o events
<1>1. s \in Seq(Words) /\ Wire' = r
  BY Emitted
<1> HIDE DEF s, r
<1>2. /\ \A i \in DOMAIN s : i \in DOMAIN r /\ r[i] = s[i]
      /\ \A k \in DOMAIN events : Len(s) + k \in DOMAIN r /\ r[Len(s) + k] = events[k]
      /\ \A i \in DOMAIN r \ DOMAIN s : i - Len(s) \in DOMAIN events /\ r[i] = events[i - Len(s)]
  BY <1>1, Concatenated DEF r
<1>3. Starts = {i \in DOMAIN s : s[i] = "start"} /\ Starts' = {i \in DOMAIN r : r[i] = "start"}
  BY <1>1 DEF Starts, s
<1>4. Ends = {i \in DOMAIN s : s[i] = "end"} /\ Ends' = {i \in DOMAIN r : r[i] = "end"}
  BY <1>1 DEF Ends, s
<1>5. Starts' = Starts
  BY <1>2, <1>3
<1>6. Ends \subseteq Ends' /\ ((\E k \in DOMAIN events : events[k] = "end") => Ends' # {})
  BY <1>2, <1>4
<1> QED
  BY <1>1, <1>2, <1>5, <1>6 DEF s

LEMMA StartEmitted ==
  ASSUME RadioRestOK, EmitAll(<<"start">>), link' = link
  PROVE  LET n == Len(Wire) + 1 IN
         /\ Starts' = Starts \cup {n} /\ n \notin Starts /\ Ends' = Ends
         /\ DOMAIN Wire' = 1..n /\ n \in Nat
<1> DEFINE n == Len(Wire) + 1
<1>0. <<"start">> \in Seq(Words)
  BY DEF Words
<1>1. Wire \in Seq(Words) /\ Wire' = Wire \o <<"start">>
  BY <1>0, Emitted
<1>2. /\ DOMAIN Wire' = 1..n /\ DOMAIN Wire = 1..(n - 1) /\ n \in Nat /\ Wire'[n] = "start"
      /\ \A i \in DOMAIN Wire : Wire'[i] = Wire[i]
  BY <1>1
<1>3. Starts' = Starts \cup {n} /\ n \notin Starts
  BY <1>2 DEF Starts
<1>4. Ends' = Ends
  BY <1>2 DEF Ends
<1> QED
  BY <1>2, <1>3, <1>4

LEMMA NothingUnanswered ==
  ASSUME RadioRestOK, LinkAgrees, Linked, ~Unanswered
  PROVE  Starts = {} /\ presses = 0 /\ Responses = {} /\ Denials = {}
<1>1. presses = 0
  BY DEF Unanswered, RadioRestOK
<1>2. Responses = {} /\ Denials = {}
  BY DEF Unanswered, Occurs, Responses, Denials
<1>3. kept \o upward = Wire
  <2>1. kept \in Seq(Words) /\ upward \in Seq(Words)
    BY DEF RadioRestOK
  <2>2. CASE link = "up"
    BY <2>1, <2>2 DEF LinkAgrees, Wire
  <2>3. CASE link # "up"
    BY <2>1, <2>3 DEF LinkAgrees, Wire
  <2> QED
    BY <2>2, <2>3
<1>4. Starts = {}
  BY <1>3 DEF Unanswered, Occurs, Starts
<1> QED
  BY <1>1, <1>2, <1>4

LEMMA Told ==
  ASSUME RadioRestOK, NEW e \in {"speaker_start", "speaker_end"},
         downward' = Append(downward, e) \/ downward' = downward
  PROVE  downward' \in Seq(Tidings) /\ Responses' = Responses /\ Denials' = Denials
<1>1. downward \in Seq(Tidings) /\ e \in Tidings
  BY DEF RadioRestOK, Tidings
<1>2. CASE downward' = downward
  BY <1>1, <1>2 DEF Responses, Denials
<1>3. CASE downward' = Append(downward, e)
  <2> DEFINE n == Len(downward) + 1
  <2>1. /\ DOMAIN downward' = DOMAIN downward \cup {n} /\ downward'[n] = e /\ downward' \in Seq(Tidings)
        /\ \A i \in DOMAIN downward : downward'[i] = downward[i]
    BY <1>1, <1>3
  <2> HIDE DEF n
  <2>2. Responses' = Responses /\ Denials' = Denials
    BY <2>1 DEF Responses, Denials
  <2> QED
    BY <2>1, <2>2
<1> QED
  BY <1>2, <1>3

LEMMA Responded ==
  ASSUME RadioRestOK, NEW e \in {"granted", "denied"}, downward' = Append(downward, e)
  PROVE  LET n == Len(downward) + 1 IN
         /\ downward' \in Seq(Tidings) /\ Responses' = Responses \cup {n}
         /\ Denials' = IF e = "denied" THEN Denials \cup {n} ELSE Denials
<1> DEFINE n == Len(downward) + 1
<1>1. downward \in Seq(Tidings) /\ e \in Tidings
  BY DEF RadioRestOK, Tidings
<1>2. /\ DOMAIN downward' = DOMAIN downward \cup {n} /\ downward'[n] = e /\ downward' \in Seq(Tidings)
      /\ \A i \in DOMAIN downward : downward'[i] = downward[i]
      /\ n \notin DOMAIN downward
  BY <1>1
<1> HIDE DEF n
<1>3. Responses' = Responses \cup {n}
  BY <1>2 DEF Responses
<1>4. Denials' = IF e = "denied" THEN Denials \cup {n} ELSE Denials
  BY <1>2 DEF Denials
<1> QED
  BY <1>2, <1>3, <1>4 DEF n

LEMMA PressUnchanged ==
  ASSUME RadioInv, UNCHANGED <<link, kept, upward, downward, presses, floor, talking, tuned, deaf, hurried>>
  PROVE  PressInv'
<1>1. Wire' = Wire /\ Linked' = Linked
  BY DEF Wire, Linked
<1>2. Starts' = Starts /\ Ends' = Ends /\ Responses' = Responses /\ Denials' = Denials
  BY <1>1 DEF Starts, Ends, Responses, Denials
<1>3. OnePress' = OnePress
  BY <1>2 DEF OnePress
<1>4. JoinsAfterPress' = JoinsAfterPress
  BY <1>1, <1>2 DEF JoinsAfterPress
<1>5. FloorAgrees' = FloorAgrees
  BY <1>2 DEF FloorAgrees
<1>6. NoChannelNoFloor' = NoChannelNoFloor
  BY <1>2 DEF NoChannelNoFloor
<1> QED
  BY <1>1, <1>3, <1>4, <1>5, <1>6 DEF RadioInv, PressInv

LEMMA OneWord ==
  ASSUME NEW w \in Words
  PROVE  /\ <<w>> \in Seq(Words) /\ DOMAIN <<w>> = {1} /\ <<w>>[1] = w
         /\ <<>> \in Seq(Words) /\ DOMAIN <<>> = {}
OBVIOUS

LEMMA Phrases ==
  ASSUME NEW end \in {<<>>, <<"end">>}, NEW more \in {<<>>, <<"leave">>}
  PROVE  /\ end \o more \in Seq(Words) /\ \A k \in DOMAIN (end \o more) : (end \o more)[k] # "start"
         /\ end = <<"end">> => \E k \in DOMAIN (end \o more) : (end \o more)[k] = "end"
         /\ more = <<>> => \A k \in DOMAIN (end \o more) : (end \o more)[k] \notin {"join", "leave"}
         /\ more = <<"leave">> =>
              end \o more # <<>> /\ (end \o more)[Len(end \o more)] = "leave"
<1> DEFINE r == end \o more
<1>0. "end" \in Words /\ "leave" \in Words
  BY DEF Words
<1>1. /\ end \in Seq(Words) /\ \A k \in DOMAIN end : end[k] # "start"
      /\ end = <<"end">> => 1 \in DOMAIN end /\ end[1] = "end"
  <2>1. CASE end = <<"end">>
    BY <1>0, <2>1, OneWord
  <2>2. CASE end = <<>>
    BY <1>0, <2>2, OneWord
  <2> QED
    BY <2>1, <2>2
<1>2. more \in Seq(Words) /\ \A k \in DOMAIN more : more[k] # "start"
  <2>1. CASE more = <<"leave">>
    BY <1>0, <2>1, OneWord
  <2>2. CASE more = <<>>
    BY <1>0, <2>2, OneWord
  <2> QED
    BY <2>1, <2>2
<1>3. /\ r \in Seq(Words) /\ \A i \in DOMAIN end : i \in DOMAIN r /\ r[i] = end[i]
      /\ \A i \in DOMAIN r \ DOMAIN end :
           i - Len(end) \in DOMAIN more /\ r[i] = more[i - Len(end)]
  BY <1>1, <1>2, Concatenated
<1> HIDE DEF r
<1>4. \A k \in DOMAIN r : r[k] # "start"
  BY <1>1, <1>2, <1>3
<1>5. end = <<"end">> => \E k \in DOMAIN r : r[k] = "end"
  BY <1>1, <1>3
<1>6. more = <<>> => \A k \in DOMAIN r : r[k] \notin {"join", "leave"}
  <2>1. more = <<>> => r = end
    BY <1>1 DEF r
  <2> QED
    BY <2>1, <1>0, OneWord
<1>7. more = <<"leave">> => r # <<>> /\ r[Len(r)] = "leave"
  <2>1. more = <<"leave">> => r = Append(end, "leave")
    BY <1>1 DEF r
  <2> QED
    BY <1>1, <2>1
<1> QED
  BY <1>3, <1>4, <1>5, <1>6, <1>7 DEF r

\* The page stops transmitting, and says so: what it says is heard after the answer.
LEMMA Stopping ==
  ASSUME RadioInv, NEW more \in {<<>>, <<"leave">>}, StopTalking(more),
         more # <<>> => tuned,
         UNCHANGED <<link, downward, presses, floor, deaf>>
  PROVE  PressInv'
<1> SUFFICES ASSUME Linked', ~hurried'
             PROVE  (OnePress /\ JoinsAfterPress /\ FloorAgrees /\ NoChannelNoFloor)'
  BY DEF PressInv
<1>1. RadioRestOK /\ LinkAgrees /\ Linked
  BY RadioTypes DEF RadioInv, Linked
<1>2. ~hurried /\ ~(Unanswered /\ (talking \/ more # <<>>))
  BY Zenon DEF StopTalking
<1>3. OnePress /\ FloorAgrees /\ NoChannelNoFloor
  BY <1>1, <1>2 DEF RadioInv, PressInv
<1>4. Starts = {} /\ presses = 0 /\ Responses = {} /\ Denials = {}
  <2>1. CASE talking
    BY <1>1, <1>2, <2>1, NothingUnanswered
  <2>2. CASE ~talking
    <3>1. Responses = {} => Denials = {}
      BY DEF Responses, Denials
    <3> QED
      BY <1>3, <2>2, <3>1 DEF OnePress
  <2> QED
    BY <2>1, <2>2
<1> DEFINE events == (IF talking THEN EndOfTalk ELSE <<>>) \o more
<1>5. EmitAll(events) /\ talking' = FALSE
  BY DEF StopTalking, StopCapture
<1>6. /\ events \in Seq(Words) /\ \A k \in DOMAIN events : events[k] # "start"
      /\ talking /\ tuned => \E k \in DOMAIN events : events[k] = "end"
  <2> DEFINE end == IF talking THEN EndOfTalk ELSE <<>>
  <2>1. end \in {<<>>, <<"end">>} /\ (talking /\ tuned => end = <<"end">>)
    BY DEF EndOfTalk
  <2> HIDE DEF end
  <2>2. events = end \o more
    BY DEF end
  <2> QED
    BY <2>1, <2>2, Phrases
<1> HIDE DEF events
<1>7. Starts' = Starts /\ Ends \subseteq Ends'
      /\ ((\E k \in DOMAIN events : events[k] = "end") => Ends' # {})
  BY <1>1, <1>5, <1>6, WordsEmitted
<1>8. Responses' = {} /\ Denials' = {} /\ presses' = 0 /\ Starts' = {}
  BY <1>4, <1>7 DEF Responses, Denials
<1>9. OnePress' /\ JoinsAfterPress' /\ NoChannelNoFloor'
  BY <1>5, <1>8 DEF OnePress, JoinsAfterPress, NoChannelNoFloor
<1>10. floor = "page" => Ends' # {}
  <2>1. CASE talking
    <3>1. floor = "page" => tuned
      BY <1>3, <1>4, <2>1 DEF NoChannelNoFloor
    <3> QED
      BY <1>6, <1>7, <2>1, <3>1
  <2>2. CASE ~talking
    BY <1>3, <1>7, <2>2 DEF FloorAgrees
  <2> QED
    BY <2>1, <2>2
<1>11. FloorAgrees'
  BY <1>5, <1>8, <1>10 DEF FloorAgrees
<1> QED
  BY <1>9, <1>11

\* The page starts to transmit: its press is the only one on its way.
LEMMA Starting ==
  ASSUME RadioInv, NEW a \in StartIds, StartTalking(a)
  PROVE  PressInv'
<1> SUFFICES ASSUME Linked', ~hurried'
             PROVE  (OnePress /\ JoinsAfterPress /\ FloorAgrees /\ NoChannelNoFloor)'
  BY DEF PressInv
<1>1. RadioRestOK /\ LinkAgrees /\ Linked
  BY RadioTypes DEF RadioInv, Linked, StartTalking
<1>2. ~Unanswered /\ ~talking /\ ~(hurried /\ floor = "page")
  BY Zenon DEF StartTalking
<1>3. Starts = {} /\ presses = 0 /\ Responses = {} /\ Denials = {}
  BY <1>1, <1>2, NothingUnanswered
<1>4. /\ EmitAll(<<"start">>) /\ talking' = TRUE
      /\ UNCHANGED <<link, tuned, downward, floor, presses>>
  BY DEF StartTalking, gatewayVars
<1> DEFINE n == Len(Wire) + 1
<1>5. Starts' = {n} /\ Ends' = Ends /\ DOMAIN Wire' = 1..n /\ n \in Nat
  BY <1>1, <1>3, <1>4, StartEmitted
<1>6. Responses' = {} /\ Denials' = {} /\ presses' = 0
  BY <1>3, <1>4 DEF Responses, Denials
<1> HIDE DEF n
<1>7. OnePress' /\ JoinsAfterPress' /\ NoChannelNoFloor'
  BY <1>4, <1>5, <1>6 DEF OnePress, JoinsAfterPress, NoChannelNoFloor
<1>8. floor = "page" => Ends # {}
  BY <1>1, <1>2 DEF RadioInv, PressInv, FloorAgrees
<1>9. FloorAgrees'
  BY <1>4, <1>5, <1>6, <1>8 DEF FloorAgrees
<1> QED
  BY <1>7, <1>9

\* What is said of the channel: nothing, or a last word.
LEMMA ChannelSilent ==
  ASSUME RadioInv, NEW events \in Seq(Words), EmitAll(events),
         \A k \in DOMAIN events : events[k] \notin {"join", "leave"},
         UNCHANGED <<link, tuned, member, unheard>>
  PROVE  ChannelAgrees'
<1> DEFINE s == Wire
           r == s \o events
<1>1. s \in Seq(Words) /\ Wire' = r
  BY Emitted, RadioTypes DEF RadioInv
<1> HIDE DEF s, r
<1>2. /\ \A i \in DOMAIN s : i \in DOMAIN r /\ r[i] = s[i]
      /\ \A i \in DOMAIN r \ DOMAIN s : i - Len(s) \in DOMAIN events /\ r[i] = events[i - Len(s)]
  BY <1>1, Concatenated DEF r
<1>3. /\ ChannelWords = {i \in DOMAIN s : s[i] \in {"join", "leave"}}
      /\ ChannelWords' = {i \in DOMAIN r : r[i] \in {"join", "leave"}}
  BY <1>1 DEF ChannelWords, s
<1>4. ChannelWords' = ChannelWords
  BY <1>2, <1>3
<1>5. \A i \in ChannelWords : Wire'[i] = Wire[i]
  BY <1>1, <1>2, <1>3 DEF s
<1>6. Linked' = Linked
  BY DEF Linked
<1> QED
  BY <1>4, <1>5, <1>6 DEF RadioInv, ChannelAgrees

LEMMA ChannelSpoken ==
  ASSUME RadioRestOK, NEW events \in Seq(Words), EmitAll(events), link' = link,
         events # <<>>, events[Len(events)] \in {"join", "leave"},
         events[Len(events)] = "join" <=> tuned'
  PROVE  ChannelAgrees'
<1> DEFINE s == Wire
           r == s \o events
           n == Len(s) + Len(events)
<1>1. s \in Seq(Words) /\ Wire' = r
  BY Emitted
<1>2. DOMAIN r = 1..n /\ n \in DOMAIN r /\ r[n] = events[Len(events)] /\ n \in Nat
  BY <1>1
<1> HIDE DEF r, n
<1>3. ChannelWords' = {i \in DOMAIN r : r[i] \in {"join", "leave"}}
  BY <1>1 DEF ChannelWords
<1>4. n \in ChannelWords' /\ \A i \in ChannelWords' : n <= i => i = n
  BY <1>2, <1>3
<1> QED
  BY <1>1, <1>2, <1>4 DEF ChannelAgrees

\* The next word is handled.
LEMMA WordTaken ==
  ASSUME RadioRestOK, link = "up", link' = link, upward # <<>>, upward' = Tail(upward)
  PROVE  /\ upward' \in Seq(Words) /\ 1 \in DOMAIN Wire /\ Wire[1] = Head(upward)
         /\ Wire[1] \in Words
         /\ DOMAIN Wire \subseteq Nat \ {0} /\ DOMAIN Wire' \subseteq Nat \ {0}
         /\ \A i \in Nat \ {0} : i \in DOMAIN Wire' <=> i + 1 \in DOMAIN Wire
         /\ \A i \in DOMAIN Wire' : Wire'[i] = Wire[i + 1]
<1>1. upward \in Seq(Words) /\ Wire = upward /\ Wire' = Tail(upward)
  BY DEF RadioRestOK, Wire
<1> DEFINE s == upward
<1>2. /\ Tail(s) \in Seq(Words) /\ 1 \in DOMAIN s /\ s[1] = Head(s) /\ s[1] \in Words
      /\ DOMAIN s \subseteq Nat \ {0} /\ DOMAIN Tail(s) \subseteq Nat \ {0}
      /\ \A i \in Nat \ {0} : i \in DOMAIN Tail(s) <=> i + 1 \in DOMAIN s
      /\ \A i \in DOMAIN Tail(s) : Tail(s)[i] = s[i + 1]
  BY <1>1
<1> QED
  BY <1>1, <1>2

LEMMA Shifted ==
  ASSUME NEW S \in SUBSET (Nat \ {0}), NEW T \in SUBSET (Nat \ {0}),
         \A i \in Nat \ {0} : i \in T <=> i + 1 \in S, 1 \notin S
  PROVE  S = {} <=> T = {}
<1>1. ASSUME NEW i \in T
      PROVE  S # {}
  BY <1>1
<1>2. ASSUME NEW i \in S
      PROVE  T # {}
  <2>1. i - 1 \in Nat \ {0} /\ (i - 1) + 1 = i
    BY <1>2
  <2>2. i - 1 \in T
    BY <2>1
  <2> QED
    BY <2>2
<1> QED
  BY <1>1, <1>2

LEMMA WordsTaken ==
  ASSUME RadioRestOK, link = "up", link' = link, upward # <<>>, upward' = Tail(upward)
  PROVE  /\ \A i \in Nat \ {0} : /\ i \in Starts' <=> i + 1 \in Starts
                                 /\ i \in Ends' <=> i + 1 \in Ends
                                 /\ i \in ChannelWords' <=> i + 1 \in ChannelWords
         /\ Starts \cup Ends \cup ChannelWords \subseteq Nat \ {0}
         /\ Starts' \cup Ends' \cup ChannelWords' \subseteq Nat \ {0}
         /\ Wire[1] # "start" => (Starts = {} <=> Starts' = {})
         /\ Wire[1] # "end" => (Ends = {} <=> Ends' = {})
<1>1. /\ 1 \in DOMAIN Wire /\ DOMAIN Wire \subseteq Nat \ {0} /\ DOMAIN Wire' \subseteq Nat \ {0}
      /\ \A i \in Nat \ {0} : i \in DOMAIN Wire' <=> i + 1 \in DOMAIN Wire
      /\ \A i \in DOMAIN Wire' : Wire'[i] = Wire[i + 1]
  BY WordTaken
<1>2. /\ Starts \cup Ends \cup ChannelWords \subseteq Nat \ {0}
      /\ Starts' \cup Ends' \cup ChannelWords' \subseteq Nat \ {0}
  BY <1>1 DEF Starts, Ends, ChannelWords
<1>3. ASSUME NEW i \in Nat \ {0}
      PROVE  /\ i \in Starts' <=> i + 1 \in Starts
             /\ i \in Ends' <=> i + 1 \in Ends
             /\ i \in ChannelWords' <=> i + 1 \in ChannelWords
  BY <1>1 DEF Starts, Ends, ChannelWords
<1>5. ASSUME Wire[1] # "start"
      PROVE  Starts = {} <=> Starts' = {}
  <2>1. 1 \notin Starts
    BY <1>5 DEF Starts
  <2> QED
    BY <1>2, <1>3, <2>1, Shifted
<1>6. ASSUME Wire[1] # "end"
      PROVE  Ends = {} <=> Ends' = {}
  <2>1. 1 \notin Ends
    BY <1>6 DEF Ends
  <2> QED
    BY <1>2, <1>3, <2>1, Shifted
<1> QED
  BY <1>2, <1>3, <1>5, <1>6

LEMMA LastOf ==
  ASSUME NEW n \in Nat, NEW S \in SUBSET (1..n), S # {}
  PROVE  \E i \in S : \A j \in S : j <= i
<1> DEFINE Less == OpToRel(<, Nat)
           T == {k \in Nat : n - k \in S}
<1>1. IsWellFoundedOn(Less, Nat)
  BY NatLessThanWellFounded
<1>2. \A x, y \in Nat : x < y => <<x, y>> \in Less
  BY DEF OpToRel
<1> HIDE DEF Less
<1>3. T # {} /\ T \subseteq Nat
  <2>1. PICK i \in S : TRUE
    OBVIOUS
  <2>2. n - i \in Nat /\ n - (n - i) = i
    BY <2>1
  <2> QED
    BY <2>1, <2>2
<1>4. PICK k \in T : \A l \in T : ~(<<l, k>> \in Less)
  BY <1>1, <1>3, WFMin
<1>5. n - k \in S /\ k \in Nat
  OBVIOUS
<1>6. ASSUME NEW j \in S
      PROVE  j <= n - k
  <2>1. n - j \in Nat /\ n - (n - j) = j
    OBVIOUS
  <2>2. n - j \in T
    BY <2>1
  <2>3. ~(n - j < k)
    BY <1>2, <1>4, <1>5, <2>1, <2>2, Zenon
  <2> QED
    BY <1>5, <2>1, <2>3
<1> QED
  BY <1>5, <1>6

\* What a handler of the gateway does, whichever word it is for.
LEMMA GatewayHandled ==
  ASSUME RadioRestOK, GatewayHandles
  PROVE  /\ upward # <<>> /\ upward' = Tail(upward)
         /\ UNCHANGED <<link, kept, session, tuned, held, talking, hurried, late>>
         /\ Head(upward) \in {"join", "leave", "end", "start"}
         /\ downward' \in Seq(Tidings) /\ Responses' = Responses /\ Denials' = Denials
         /\ Head(upward) # "start" => UNCHANGED <<presses, deaf>>
         /\ Head(upward) = "join" =>
              /\ UNCHANGED floor
              /\ IF session = "ready" THEN member' /\ ~unheard' ELSE unheard' /\ UNCHANGED member
         /\ Head(upward) = "leave" => ~member' /\ UNCHANGED unheard /\ floor' \in {floor, "free"}
         /\ Head(upward) = "end" => floor' \in {"free", "other"} /\ UNCHANGED <<member, unheard>>
         /\ Head(upward) = "start" =>
              /\ UNCHANGED <<member, unheard, floor>>
              /\ IF session = "ready" /\ member THEN presses' = presses + 1 /\ UNCHANGED deaf
                                               ELSE deaf' /\ UNCHANGED presses
<1>1. /\ upward # <<>> /\ upward' = Tail(upward)
      /\ UNCHANGED <<link, kept, session, tuned, held, talking, hurried, late>>
  BY DEF GatewayHandles, pageVars
<1>2. Head(upward) \in {"join", "leave", "end", "start"}
  <2>1. upward \in Seq(Words)
    BY DEF RadioRestOK
  <2>2. Head(upward) \in Words
    BY <1>1, <2>1
  <2> QED
    BY <2>2 DEF Words
<1>3. CASE Head(upward) = "join"
  <2>1. HandleJoin
    BY <1>3 DEF GatewayHandles
  <2>2. downward' = Append(downward, "speaker_start") \/ downward' = downward
    BY <2>1 DEF HandleJoin
  <2>3. downward' \in Seq(Tidings) /\ Responses' = Responses /\ Denials' = Denials
    BY <2>2, Told
  <2> QED
    BY <1>1, <1>3, <2>1, <2>3 DEF HandleJoin
<1>4. CASE Head(upward) = "leave"
  <2>1. HandleLeave
    BY <1>4 DEF GatewayHandles
  <2>2. downward' = Append(downward, "speaker_end") \/ downward' = downward
    BY <2>1 DEF HandleLeave, ToRoom
  <2>3. downward' \in Seq(Tidings) /\ Responses' = Responses /\ Denials' = Denials
    BY <2>2, Told
  <2> QED
    BY <1>1, <1>4, <2>1, <2>3 DEF HandleLeave
<1>5. CASE Head(upward) = "end"
  <2>1. HandlePttEnd
    BY <1>5 DEF GatewayHandles
  <2>2. downward' = Append(downward, "speaker_end") \/ downward' = downward
    BY <2>1 DEF HandlePttEnd, ToRoom
  <2>3. downward' \in Seq(Tidings) /\ Responses' = Responses /\ Denials' = Denials
    BY <2>2, Told
  <2>4. floor' \in {"free", "other"}
    BY <2>1 DEF HandlePttEnd, RadioRestOK
  <2> QED
    BY <1>1, <1>5, <2>1, <2>3, <2>4 DEF HandlePttEnd
<1>6. CASE Head(upward) = "start"
  <2>1. HandlePttStart
    BY <1>6 DEF GatewayHandles
  <2>2. downward' \in Seq(Tidings) /\ Responses' = Responses /\ Denials' = Denials
    BY <2>1 DEF HandlePttStart, RadioRestOK, Responses, Denials
  <2> QED
    BY <1>1, <1>6, <2>1, <2>2 DEF HandlePttStart
<1> QED
  BY <1>2, <1>3, <1>4, <1>5, <1>6

LEMMA HandlingAgrees ==
  ASSUME RadioInv, GatewayHandles
  PROVE  LinkAgrees' /\ ChannelAgrees'
<1>1. RadioRestOK /\ LinkAgrees /\ ChannelAgrees
  BY RadioTypes DEF RadioInv
<1>2. link = "up" /\ link' = link /\ upward # <<>> /\ upward' = Tail(upward)
  BY <1>1, GatewayHandled DEF LinkAgrees
<1> DEFINE w == Head(upward)
<1>3. /\ 1 \in DOMAIN Wire /\ Wire[1] = w
      /\ \A i \in DOMAIN Wire' : Wire'[i] = Wire[i + 1]
  BY <1>1, <1>2, WordTaken
<1>4. /\ \A i \in Nat \ {0} : i \in ChannelWords' <=> i + 1 \in ChannelWords
      /\ ChannelWords \subseteq Nat \ {0} /\ ChannelWords' \subseteq Nat \ {0}
  BY <1>1, <1>2, WordsTaken
<1>5. ChannelWords' \subseteq DOMAIN Wire'
  BY DEF ChannelWords
<1>6. /\ w \in {"join", "leave", "end", "start"} /\ UNCHANGED <<kept, session, tuned>>
      /\ w = "join" => IF session = "ready" THEN member' /\ ~unheard' ELSE unheard' /\ UNCHANGED member
      /\ w = "leave" => ~member' /\ UNCHANGED unheard
      /\ w \in {"end", "start"} => UNCHANGED <<member, unheard>>
  BY <1>1, GatewayHandled
<1> HIDE DEF w
<1>7. LinkAgrees'
  BY <1>1, <1>2, <1>6 DEF LinkAgrees
<1>8. ASSUME NEW i \in ChannelWords', \A j \in ChannelWords' : j <= i
      PROVE  Wire'[i] = "join" <=> tuned'
  <2>1. i \in Nat \ {0} /\ i + 1 \in ChannelWords
    BY <1>4
  <2>2. ASSUME NEW j \in ChannelWords
        PROVE  j <= i + 1
    <3>1. CASE j = 1
      BY <2>1, <3>1
    <3>2. CASE j # 1
      <4>1. j - 1 \in Nat \ {0} /\ (j - 1) + 1 = j
        BY <1>4, <3>2
      <4>2. j - 1 \in ChannelWords'
        BY <1>4, <4>1
      <4> QED
        BY <1>8, <2>1, <4>1, <4>2
    <3> QED
      BY <3>1, <3>2
  <2>3. Wire[i + 1] = "join" <=> tuned
    BY <1>1, <1>2, <2>1, <2>2 DEF ChannelAgrees, Linked
  <2> QED
    BY <1>3, <1>5, <1>6, <2>3
<1>9. ASSUME ChannelWords' = {}
      PROVE  unheard' \/ (tuned' <=> member')
  <2>1. CASE w \in {"join", "leave"}
    <3>1. 1 \in ChannelWords
      BY <1>3, <2>1 DEF ChannelWords
    <3>2. ASSUME NEW j \in ChannelWords
          PROVE  j <= 1
      <4>1. j # 1 => j - 1 \in Nat \ {0} /\ (j - 1) + 1 = j
        BY <1>4
      <4> QED
        BY <1>4, <1>9, <4>1
    <3>3. Wire[1] = "join" <=> tuned
      BY <1>1, <1>2, <3>1, <3>2 DEF ChannelAgrees, Linked
    <3> QED
      BY <1>3, <1>6, <2>1, <3>3
  <2>2. CASE w \in {"end", "start"}
    <3>1. 1 \notin ChannelWords
      BY <1>3, <2>2 DEF ChannelWords
    <3>2. ChannelWords = {}
      BY <1>4, <1>9, <3>1, Shifted
    <3> QED
      BY <1>1, <1>2, <1>6, <2>2, <3>2 DEF ChannelAgrees
  <2> QED
    BY <1>6, <2>1, <2>2
<1> QED
  BY <1>7, <1>8, <1>9 DEF ChannelAgrees

LEMMA HandlingPress ==
  ASSUME RadioInv, GatewayHandles
  PROVE  PressInv'
<1> SUFFICES ASSUME Linked', ~hurried'
             PROVE  (OnePress /\ JoinsAfterPress /\ FloorAgrees /\ NoChannelNoFloor)'
  BY DEF PressInv
<1>1. RadioRestOK /\ LinkAgrees /\ ChannelAgrees
  BY RadioTypes DEF RadioInv
<1>2. link = "up" /\ link' = link /\ upward # <<>> /\ upward' = Tail(upward)
  BY <1>1, GatewayHandled DEF LinkAgrees
<1> DEFINE w == Head(upward)
<1>3. /\ 1 \in DOMAIN Wire /\ Wire[1] = w /\ DOMAIN Wire' \subseteq Nat \ {0}
      /\ \A i \in Nat \ {0} : i \in DOMAIN Wire' <=> i + 1 \in DOMAIN Wire
      /\ \A i \in DOMAIN Wire' : Wire'[i] = Wire[i + 1]
  BY <1>1, <1>2, WordTaken
<1>4. /\ \A i \in Nat \ {0} : i \in Starts' <=> i + 1 \in Starts
      /\ Starts \subseteq Nat \ {0} /\ Starts' \subseteq Nat \ {0}
      /\ Ends \subseteq Nat \ {0}
      /\ w # "start" => (Starts = {} <=> Starts' = {})
      /\ w # "end" => (Ends = {} <=> Ends' = {})
  BY <1>1, <1>2, <1>3, WordsTaken
<1>5. /\ w \in {"join", "leave", "end", "start"} /\ UNCHANGED <<session, tuned, talking, hurried>>
      /\ Responses' = Responses /\ Denials' = Denials
      /\ w # "start" => UNCHANGED <<presses, deaf>>
      /\ w = "join" => floor' = floor
      /\ w = "leave" => floor' \in {floor, "free"}
      /\ w = "end" => floor' \in {"free", "other"}
      /\ w = "start" =>
           /\ UNCHANGED <<member, unheard, floor>>
           /\ IF session = "ready" /\ member THEN presses' = presses + 1 /\ UNCHANGED deaf
                                            ELSE deaf' /\ UNCHANGED presses
  BY <1>1, GatewayHandled
<1> HIDE DEF w
<1>6. OnePress /\ JoinsAfterPress /\ FloorAgrees /\ NoChannelNoFloor
  BY <1>2, <1>5 DEF RadioInv, PressInv, Linked
<1>7. ASSUME w # "start"
      PROVE  (OnePress /\ JoinsAfterPress /\ FloorAgrees /\ NoChannelNoFloor)'
  <2>1. UNCHANGED <<presses, deaf>> /\ (Starts = {} <=> Starts' = {}) /\ (floor' = "page" => floor = "page")
    BY <1>4, <1>5, <1>7
  <2>2. OnePress'
    <3>1. ASSUME NEW i \in Starts', NEW j \in Starts'
          PROVE  i = j
      <4>1. i + 1 = j + 1 /\ i \in Nat /\ j \in Nat
        BY <1>4, <1>6 DEF OnePress
      <4> QED
        BY <4>1
    <3> QED
      BY <1>5, <1>6, <2>1, <3>1 DEF OnePress
  <2>3. JoinsAfterPress'
    <3> SUFFICES ASSUME talking', NEW i \in DOMAIN Wire', Wire'[i] # "join"
                 PROVE  \E s \in Starts' : i <= s
      BY DEF JoinsAfterPress
    <3>1. i \in Nat \ {0} /\ i + 1 \in DOMAIN Wire /\ Wire[i + 1] # "join"
      BY <1>3
    <3>2. PICK s \in Starts : i + 1 <= s
      BY <1>5, <1>6, <3>1 DEF JoinsAfterPress
    <3>3. s - 1 \in Nat \ {0} /\ (s - 1) + 1 = s /\ i <= s - 1
      BY <1>4, <3>1, <3>2
    <3> QED
      BY <1>4, <3>3
  <2>4. FloorAgrees'
    <3>1. floor' = "page" /\ (~talking' \/ Starts' # {}) => Ends' # {}
      BY <1>4, <1>5, <1>6, <2>1 DEF FloorAgrees
    <3>2. presses' # 0 \/ Denials' # {} => floor' # "page"
      BY <1>5, <1>6, <2>1 DEF FloorAgrees
    <3>3. ASSUME talking', Starts' = {}, presses' = 0, Denials' = {}
          PROVE  floor' = "page" \/ deaf'
      <4>1. w = "join"
        BY <1>3, <1>5, <1>6, <2>1, <3>3 DEF JoinsAfterPress
      <4> QED
        BY <1>5, <1>6, <2>1, <3>3, <4>1 DEF FloorAgrees
    <3> QED
      BY <3>1, <3>2, <3>3 DEF FloorAgrees
  <2>5. NoChannelNoFloor'
    BY <1>5, <1>6, <2>1 DEF NoChannelNoFloor
  <2> QED
    BY <2>2, <2>3, <2>4, <2>5
<1>8. ASSUME w = "start"
      PROVE  (OnePress /\ JoinsAfterPress /\ FloorAgrees /\ NoChannelNoFloor)'
  <2>1. 1 \in Starts
    BY <1>3, <1>8 DEF Starts
  <2>2. Starts = {1} /\ presses = 0 /\ Responses = {} /\ talking
    BY <1>6, <2>1 DEF OnePress
  <2>3. Starts' = {}
    <3> SUFFICES ASSUME NEW i \in Starts'
                 PROVE  FALSE
      OBVIOUS
    <3>1. i + 1 = 1 /\ i \in Nat \ {0}
      BY <1>4, <2>2
    <3> QED
      BY <3>1
  <2>4. \A i \in DOMAIN Wire : i # 1 => Wire[i] = "join"
    <3>1. DOMAIN Wire \subseteq Nat \ {0}
      BY <1>1, <1>2, WordTaken
    <3> QED
      BY <1>6, <2>2, <3>1 DEF JoinsAfterPress
  <2>5. floor # "page"
    <3>1. Ends = {}
      BY <1>3, <1>8, <2>4 DEF Ends
    <3> QED
      BY <1>6, <2>2, <3>1 DEF FloorAgrees
  <2>6. \A i \in DOMAIN Wire' : Wire'[i] = "join"
    BY <1>3, <2>4
  <2>7. Responses' = {} /\ Denials' = {} /\ talking' /\ floor' # "page"
    BY <1>5, <1>8, <2>2, <2>5 DEF Responses, Denials
  <2>8. presses' = 1 \/ (presses' = 0 /\ deaf')
    BY <1>5, <1>8, <2>2
  <2>9. presses' = 1 => tuned'
    <3> SUFFICES ASSUME presses' = 1, ~tuned
                 PROVE  FALSE
      BY <1>5
    <3>1. member
      BY <1>5, <1>8, <2>2
    <3>2. ChannelWords # {}
      BY <1>1, <1>2, <3>1 DEF ChannelAgrees, LinkAgrees
    <3>3. Len(Wire) \in Nat /\ ChannelWords \subseteq 1..Len(Wire)
      BY <1>1, <1>2 DEF Wire, RadioRestOK, ChannelWords
    <3>4. PICK i \in ChannelWords : \A j \in ChannelWords : j <= i
      BY <3>2, <3>3, LastOf
    <3>5. Wire[i] = "join"
      BY <1>3, <1>8, <2>4 DEF ChannelWords
    <3> QED
      BY <1>1, <1>2, <3>4, <3>5 DEF ChannelAgrees, Linked
  <2>10. OnePress' /\ JoinsAfterPress'
    BY <2>3, <2>6, <2>7, <2>8 DEF OnePress, JoinsAfterPress
  <2>11. FloorAgrees' /\ NoChannelNoFloor'
    BY <2>3, <2>7, <2>8, <2>9 DEF FloorAgrees, NoChannelNoFloor
  <2> QED
    BY <2>10, <2>11
<1> QED
  BY <1>7, <1>8

LEMMA WireSame ==
  ASSUME UNCHANGED <<link, kept, upward>>
  PROVE  /\ Wire' = Wire /\ Starts' = Starts /\ Ends' = Ends /\ ChannelWords' = ChannelWords
         /\ Linked' = Linked
<1>1. Wire' = Wire /\ Linked' = Linked
  BY DEF Wire, Linked
<1> QED
  BY <1>1 DEF Starts, Ends, ChannelWords

LEMMA AnsweringPress ==
  ASSUME RadioInv, GatewayAnswers
  PROVE  PressInv' /\ link = "up" /\ downward' \in Seq(Tidings) /\ presses' \in Nat
<1>1. RadioRestOK /\ LinkAgrees
  BY RadioTypes DEF RadioInv
<1>2. presses > 0 /\ presses' = presses - 1
  BY DEF GatewayAnswers, PttDenied, PttGranted, MuteReadFails, Answered
<1>3. presses \in Nat /\ presses' \in Nat
  BY <1>1, <1>2 DEF RadioRestOK
<1>4. link = "up"
  BY <1>1, <1>2, <1>3 DEF LinkAgrees
<1>5. downward' \in Seq(Tidings)
  BY <1>1, Responded DEF GatewayAnswers, PttDenied, PttGranted, MuteReadFails, Answered, RadioRestOK
<1>6. /\ Wire' = Wire /\ Starts' = Starts /\ Ends' = Ends /\ Linked' = Linked
      /\ UNCHANGED <<talking, tuned, hurried>>
  BY WireSame DEF GatewayAnswers, pageVars
<1>7. ASSUME Linked', ~hurried'
      PROVE  (OnePress /\ JoinsAfterPress /\ FloorAgrees /\ NoChannelNoFloor)'
  <2>1. OnePress /\ JoinsAfterPress /\ FloorAgrees /\ NoChannelNoFloor
    BY <1>6, <1>7 DEF RadioInv, PressInv
  <2>2. /\ presses' = 0 /\ Responses = {} /\ Starts = {} /\ talking /\ tuned /\ floor # "page"
    BY <1>2, <1>3, <2>1 DEF OnePress, FloorAgrees, NoChannelNoFloor
  <2>3. Denials = {}
    BY <2>2 DEF Responses, Denials
  <2> DEFINE n == Len(downward) + 1
  <2>4. CASE PttDenied
    <3>1. downward' = Append(downward, "denied") /\ UNCHANGED <<floor, deaf>>
      BY <2>4 DEF PttDenied, Answered
    <3>2. Responses' = {n} /\ Denials' = {n}
      BY <1>1, <2>2, <2>3, <3>1, Responded
    <3> QED
      BY <1>6, <2>1, <2>2, <3>1, <3>2 DEF OnePress, JoinsAfterPress, FloorAgrees, NoChannelNoFloor
  <2>5. CASE PttGranted
    <3>1. downward' = Append(downward, "granted") /\ floor' = "page"
      BY <2>5 DEF PttGranted, Answered
    <3>2. Responses' = {n} /\ Denials' = {}
      BY <1>1, <2>2, <2>3, <3>1, Responded
    <3> QED
      BY <1>6, <2>1, <2>2, <3>1, <3>2 DEF OnePress, JoinsAfterPress, FloorAgrees, NoChannelNoFloor
  <2>6. CASE MuteReadFails
    <3>1. deaf' = TRUE /\ UNCHANGED <<floor, downward>>
      BY <2>6 DEF MuteReadFails
    <3>2. Responses' = {} /\ Denials' = {}
      BY <2>2, <2>3, <3>1 DEF Responses, Denials
    <3> QED
      BY <1>6, <2>1, <2>2, <3>1, <3>2 DEF OnePress, JoinsAfterPress, FloorAgrees, NoChannelNoFloor
  <2> QED
    BY <2>4, <2>5, <2>6 DEF GatewayAnswers
<1> QED
  BY <1>3, <1>4, <1>5, <1>7 DEF PressInv

\* The floor passes to nobody or to others, and the page is told or is not there.
LEMMA FloorMoves ==
  ASSUME RadioInv, UNCHANGED <<link, kept, upward, talking, tuned, hurried, presses>>,
         Responses' = Responses, Denials' = Denials,
         floor' # "page", deaf => deaf', floor = "page" => deaf' \/ ~talking
  PROVE  PressInv'
<1> SUFFICES ASSUME Linked', ~hurried'
             PROVE  (OnePress /\ JoinsAfterPress /\ FloorAgrees /\ NoChannelNoFloor)'
  BY DEF PressInv
<1>1. Wire' = Wire /\ Starts' = Starts /\ Ends' = Ends /\ Linked' = Linked
  BY WireSame
<1>2. OnePress /\ JoinsAfterPress /\ FloorAgrees /\ NoChannelNoFloor
  BY <1>1 DEF RadioInv, PressInv
<1>3. OnePress' /\ JoinsAfterPress' /\ NoChannelNoFloor'
  BY <1>1, <1>2 DEF OnePress, JoinsAfterPress, NoChannelNoFloor
<1>4. FloorAgrees'
  BY <1>1, <1>2 DEF FloorAgrees
<1> QED
  BY <1>3, <1>4

LEMMA HearingPress ==
  ASSUME RadioInv, Hear
  PROVE  PressInv' /\ link = "up" /\ downward' \in Seq(Tidings)
<1>1. RadioRestOK /\ LinkAgrees
  BY RadioTypes DEF RadioInv
<1>2. /\ downward # <<>> /\ downward' = Tail(downward)
      /\ UNCHANGED <<link, kept, upward, tuned, hurried, presses, floor, deaf>>
  BY DEF Hear, gatewayVars, marks
<1>3. link = "up"
  BY <1>1, <1>2 DEF LinkAgrees
<1> DEFINE s == downward
           e == Head(downward)
<1>4. /\ Tail(s) \in Seq(Tidings) /\ 1 \in DOMAIN s /\ s[1] = Head(s)
      /\ DOMAIN s \subseteq Nat \ {0} /\ DOMAIN Tail(s) \subseteq Nat \ {0}
      /\ \A i \in Nat \ {0} : i \in DOMAIN Tail(s) <=> i + 1 \in DOMAIN s
      /\ \A i \in DOMAIN Tail(s) : Tail(s)[i] = s[i + 1]
  BY <1>1, <1>2 DEF RadioRestOK
<1>5. /\ Responses \subseteq Nat \ {0} /\ Responses' \subseteq Nat \ {0}
      /\ Denials \subseteq Responses /\ Denials' \subseteq Responses'
      /\ \A i \in Nat \ {0} : /\ i \in Responses' <=> i + 1 \in Responses
                              /\ i \in Denials' <=> i + 1 \in Denials
  BY <1>2, <1>4 DEF Responses, Denials
<1>6. Wire' = Wire /\ Starts' = Starts /\ Ends' = Ends /\ Linked' = Linked
  BY <1>2, WireSame
<1>7. /\ e = "denied" => ~talking' /\ 1 \in Denials
      /\ e = "granted" => 1 \in Responses
      /\ e \notin {"denied", "granted"} => 1 \notin Responses
      /\ e # "denied" => talking' = talking /\ 1 \notin Denials
  BY <1>4 DEF Hear, StopCapture, Responses, Denials
<1> HIDE DEF e
<1>8. ASSUME Linked', ~hurried'
      PROVE  (OnePress /\ JoinsAfterPress /\ FloorAgrees /\ NoChannelNoFloor)'
  <2>1. OnePress /\ JoinsAfterPress /\ FloorAgrees /\ NoChannelNoFloor
    BY <1>2, <1>6, <1>8 DEF RadioInv, PressInv
  <2>2. \A i, j \in Responses' : i = j
    <3> SUFFICES ASSUME NEW i \in Responses', NEW j \in Responses'
                 PROVE  i = j
      OBVIOUS
    <3>1. i + 1 = j + 1 /\ i \in Nat /\ j \in Nat
      BY <1>5, <2>1 DEF OnePress
    <3> QED
      BY <3>1
  <2>3. Responses = {} => Responses' = {}
    BY <1>5
  <2>4. 1 \in Responses => Responses' = {}
    <3> SUFFICES ASSUME 1 \in Responses, NEW i \in Responses'
                 PROVE  FALSE
      OBVIOUS
    <3>1. i + 1 = 1 /\ i \in Nat \ {0}
      BY <1>5, <2>1 DEF OnePress
    <3> QED
      BY <3>1
  <2>5. Denials' # {} => Denials # {}
    BY <1>5
  <2>6. CASE e = "denied"
    <3>1. Responses' = {} /\ Starts = {} /\ presses = 0 /\ floor # "page" /\ Denials' = {} /\ ~talking'
      BY <1>5, <1>7, <2>1, <2>4, <2>6 DEF OnePress, FloorAgrees
    <3> QED
      BY <1>2, <1>6, <3>1 DEF OnePress, JoinsAfterPress, FloorAgrees, NoChannelNoFloor
  <2>7. CASE e # "denied"
    <3>1. talking' = talking
      BY <1>7, <2>7
    <3>2. ~talking => Responses = {}
      BY <2>1 DEF OnePress
    <3>3. OnePress'
      BY <1>2, <1>6, <2>1, <2>2, <2>3, <3>1 DEF OnePress
    <3>4. JoinsAfterPress' /\ NoChannelNoFloor'
      BY <1>2, <1>6, <2>1, <2>3, <3>1 DEF JoinsAfterPress, NoChannelNoFloor
    <3>5. Denials' = {} => Denials = {}
      <4>1. 1 \notin Denials
        BY <1>7, <2>7
      <4> QED
        BY <1>5, <4>1, Shifted
    <3>6. FloorAgrees'
      BY <1>2, <1>6, <2>1, <2>5, <3>1, <3>5 DEF FloorAgrees
    <3> QED
      BY <3>3, <3>4, <3>6
  <2> QED
    BY <2>6, <2>7
<1> QED
  BY <1>2, <1>3, <1>4, <1>8 DEF PressInv

LEMMA ChannelUnchanged ==
  ASSUME RadioInv, UNCHANGED <<link, kept, upward, tuned, member, unheard>>
  PROVE  ChannelAgrees'
<1>1. Wire' = Wire /\ ChannelWords' = ChannelWords /\ Linked' = Linked
  BY WireSame
<1> QED
  BY <1>1 DEF RadioInv, ChannelAgrees

\* A step of the page that emits nothing.
LEMMA PageSteps ==
  ASSUME RadioInv, UNCHANGED <<wires, gatewayVars, tuned, talking, marks>>
  PROVE  LinkAgrees' /\ ChannelAgrees' /\ PressInv'
<1>1. UNCHANGED <<link, kept, upward, downward, session, member, floor, presses, tuned, talking,
                  hurried, deaf, unheard>>
  BY DEF wires, gatewayVars, marks
<1> QED
  BY <1>1, PressUnchanged, ChannelUnchanged DEF RadioInv, LinkAgrees

\* The socket is gone, and with it all that was on its way.
LEMMA Leaving ==
  ASSUME RadioInv, Gone, talking' = FALSE, UNCHANGED kept,
         (link = "up" /\ link' = "down") \/ link' \in {"refused", "closed"}
  PROVE  /\ upward' \in Seq(Words) /\ downward' \in Seq(Tidings) /\ session' = "off"
         /\ floor' \in {"free", "page", "other"} /\ presses' \in Nat
         /\ LinkAgrees' /\ PressInv' /\ (UNCHANGED unheard => ChannelAgrees')
<1>1. RadioRestOK /\ LinkAgrees
  BY RadioTypes DEF RadioInv
<1>2. /\ upward' = <<>> /\ downward' = <<>> /\ presses' = 0 /\ session' = "off" /\ ~member'
      /\ floor' \in {"free", "other"}
  BY <1>1 DEF Gone, RadioRestOK
<1>3. upward' \in Seq(Words) /\ downward' \in Seq(Tidings)
  BY <1>2
<1>4. link' # "up"
  OBVIOUS
<1>5. LinkAgrees'
  BY <1>2, <1>4 DEF LinkAgrees
<1>6. ASSUME Linked'
      PROVE  Wire' = <<>>
  BY <1>1, <1>6 DEF Linked, LinkAgrees, Wire
<1>7. Linked' => Starts' = {} /\ Ends' = {} /\ ChannelWords' = {}
  BY <1>6 DEF Starts, Ends, ChannelWords
<1>8. Responses' = {} /\ Denials' = {}
  BY <1>2 DEF Responses, Denials
<1>9. Linked' => OnePress' /\ JoinsAfterPress' /\ FloorAgrees' /\ NoChannelNoFloor'
  BY <1>2, <1>7, <1>8 DEF OnePress, JoinsAfterPress, FloorAgrees, NoChannelNoFloor
<1>10. PressInv'
  BY <1>9 DEF PressInv
<1>11. ChannelAgrees'
  BY <1>4, <1>7 DEF ChannelAgrees
<1> QED
  BY <1>2, <1>3, <1>5, <1>10, <1>11

LEMMA Reconnecting ==
  ASSUME RadioInv, Reconnect
  PROVE  RadioRestOK' /\ LinkAgrees' /\ ChannelAgrees' /\ PressInv'
<1>1. RadioRestOK /\ LinkAgrees /\ ChannelAgrees
  BY RadioTypes DEF RadioInv
<1> DEFINE s == kept
           join_ == IF tuned THEN <<"join">> ELSE <<>>
           r == s \o join_
<1>2. /\ link = "down" /\ link' = "up" /\ session' = "loading" /\ upward' = r /\ kept' = <<>>
      /\ UNCHANGED <<starts, tuned, talking, downward, member, floor, presses, hurried, deaf, unheard>>
  BY DEF Reconnect, pageVars, marks
<1>3. Wire = s /\ Wire' = r /\ s \in Seq(Words)
  BY <1>1, <1>2 DEF Wire, RadioRestOK
<1>4. join_ \in Seq(Words) /\ (\A k \in DOMAIN join_ : join_[k] = "join")
  <2>1. "join" \in Words
    BY DEF Words
  <2>2. CASE tuned
    BY <2>1, <2>2, OneWord
  <2>3. CASE ~tuned
    BY <2>1, <2>3, OneWord
  <2> QED
    BY <2>2, <2>3
<1> HIDE DEF join_
<1>5. /\ r \in Seq(Words) /\ \A i \in DOMAIN s : i \in DOMAIN r /\ r[i] = s[i]
      /\ \A i \in DOMAIN r \ DOMAIN s : r[i] = "join" /\ i > Len(s)
  BY <1>3, <1>4, Concatenated
<1>6. tuned => Len(s) + 1 \in DOMAIN r /\ \A i \in DOMAIN r : i <= Len(s) + 1
  BY <1>3 DEF join_
<1>7. ~tuned => r = s
  BY <1>3 DEF join_
<1> HIDE DEF s, r
<1>8. /\ floor # "page" /\ presses = 0 /\ downward = <<>> /\ ~member
  BY <1>1, <1>2 DEF LinkAgrees
<1>9. RadioRestOK'
  BY <1>1, <1>2, <1>5 DEF RadioRestOK
<1>10. LinkAgrees'
  BY <1>1, <1>2, <1>8 DEF LinkAgrees
<1>11. ChannelAgrees'
  <2>1. ChannelWords' = {i \in DOMAIN r : r[i] \in {"join", "leave"}}
    BY <1>3 DEF ChannelWords
  <2>2. CASE tuned
    <3> DEFINE n == Len(s) + 1
    <3>1. n \in DOMAIN r /\ n \notin DOMAIN s /\ Len(s) \in Nat /\ DOMAIN r \subseteq Nat
      BY <1>3, <1>5, <1>6, <2>2
    <3>2. r[n] = "join" /\ n \in ChannelWords'
      BY <1>5, <2>1, <3>1
    <3>3. \A i \in ChannelWords' : n <= i => i = n
      BY <1>6, <2>1, <2>2, <3>1
    <3> HIDE DEF n
    <3> QED
      BY <1>2, <1>3, <2>2, <3>2, <3>3 DEF ChannelAgrees
  <2>3. CASE ~tuned
    <3>1. ChannelWords' = ChannelWords /\ Wire' = Wire
      BY <1>3, <1>7, <2>1, <2>3 DEF ChannelWords
    <3>2. Linked
      BY <1>2 DEF Linked
    <3> QED
      BY <1>1, <1>2, <1>8, <2>3, <3>1, <3>2 DEF ChannelAgrees
  <2> QED
    BY <2>2, <2>3
<1>12. PressInv'
  <2> SUFFICES ASSUME Linked', ~hurried'
               PROVE  (OnePress /\ JoinsAfterPress /\ FloorAgrees /\ NoChannelNoFloor)'
    BY DEF PressInv
  <2>1. OnePress /\ JoinsAfterPress /\ FloorAgrees /\ NoChannelNoFloor
    BY <1>2 DEF RadioInv, PressInv, Linked
  <2>2. Starts' = Starts /\ Ends' = Ends
    <3>1. Starts = {i \in DOMAIN s : s[i] = "start"} /\ Starts' = {i \in DOMAIN r : r[i] = "start"}
      BY <1>3 DEF Starts
    <3>2. Ends = {i \in DOMAIN s : s[i] = "end"} /\ Ends' = {i \in DOMAIN r : r[i] = "end"}
      BY <1>3 DEF Ends
    <3> QED
      BY <1>5, <3>1, <3>2
  <2>3. Responses' = Responses /\ Denials' = Denials
    BY <1>2 DEF Responses, Denials
  <2>4. OnePress' /\ FloorAgrees' /\ NoChannelNoFloor'
    BY <1>2, <2>1, <2>2, <2>3 DEF OnePress, FloorAgrees, NoChannelNoFloor
  <2>5. JoinsAfterPress'
    BY <1>2, <1>3, <1>5, <2>1, <2>2 DEF JoinsAfterPress
  <2> QED
    BY <2>4, <2>5
<1> QED
  BY <1>9, <1>10, <1>11, <1>12

\* A word about the channel is emitted by a page that has no press on its way.
LEMMA Selecting ==
  ASSUME RadioInv, SelectChannel
  PROVE  RadioRestOK' /\ LinkAgrees' /\ ChannelAgrees' /\ PressInv'
<1>1. RadioRestOK /\ LinkAgrees
  BY RadioTypes DEF RadioInv
<1> DEFINE events == <<"join">>
<1>2. /\ EmitAll(events) /\ ~tuned /\ tuned'
      /\ UNCHANGED <<link, starts, talking, downward, session, member, floor, presses,
                     hurried, deaf, unheard>>
  BY DEF SelectChannel, gatewayVars, marks
<1>3. /\ events \in Seq(Words) /\ DOMAIN events = {1} /\ events[1] = "join"
      /\ Len(events) = 1 /\ events # <<>>
  <2>1. "join" \in Words
    BY DEF Words
  <2> QED
    BY <2>1, OneWord
<1> HIDE DEF events
<1>4. /\ kept' \in Seq(Words) /\ upward' \in Seq(Words) /\ Wire \in Seq(Words)
      /\ link = "up" => UNCHANGED kept
      /\ link # "up" => UNCHANGED upward
      /\ Wire' = Wire \o events
  BY <1>1, <1>2, <1>3, Emitted
<1>5. RadioRestOK'
  BY <1>1, <1>2, <1>4 DEF RadioRestOK
<1>6. LinkAgrees'
  BY <1>1, <1>2, <1>4 DEF LinkAgrees
<1>7. ChannelAgrees'
  <2>1. events # <<>> /\ events[Len(events)] \in {"join", "leave"} /\ (events[Len(events)] = "join" <=> tuned')
    BY <1>2, <1>3
  <2> QED
    BY <1>1, <1>2, <1>3, <2>1, ChannelSpoken
<1>8. PressInv'
  <2> SUFFICES ASSUME Linked', ~hurried'
               PROVE  (OnePress /\ JoinsAfterPress /\ FloorAgrees /\ NoChannelNoFloor)'
    BY DEF PressInv
  <2>1. OnePress /\ JoinsAfterPress /\ FloorAgrees /\ NoChannelNoFloor
    BY <1>2 DEF RadioInv, PressInv, Linked
  <2>2. /\ Starts' = Starts /\ Ends \subseteq Ends'
        /\ \A i \in DOMAIN Wire : Wire'[i] = Wire[i]
    BY <1>1, <1>2, <1>3, WordsEmitted
  <2>3. \A i \in DOMAIN Wire' \ DOMAIN Wire : Wire'[i] = "join"
    BY <1>3, <1>4, Concatenated
  <2>4. Responses' = Responses /\ Denials' = Denials
    BY <1>2 DEF Responses, Denials
  <2>5. OnePress' /\ FloorAgrees' /\ NoChannelNoFloor'
    BY <1>2, <2>1, <2>2, <2>4 DEF OnePress, FloorAgrees, NoChannelNoFloor
  <2>6. JoinsAfterPress'
    BY <1>2, <2>1, <2>2, <2>3 DEF JoinsAfterPress
  <2> QED
    BY <2>5, <2>6
<1> QED
  BY <1>5, <1>6, <1>7, <1>8

LEMMA StoppingAgrees ==
  ASSUME RadioInv, NEW more \in {<<>>, <<"leave">>}, StopTalking(more),
         IF more = <<>> THEN UNCHANGED tuned ELSE tuned /\ ~tuned',
         UNCHANGED <<starts, link, downward, gatewayVars, deaf, unheard>>
  PROVE  RadioRestOK' /\ LinkAgrees' /\ ChannelAgrees' /\ PressInv'
<1>1. RadioRestOK /\ LinkAgrees
  BY RadioTypes DEF RadioInv
<1>2. UNCHANGED <<session, member, floor, presses>>
  BY DEF gatewayVars
<1> DEFINE end == IF talking THEN EndOfTalk ELSE <<>>
           events == end \o more
<1>3. EmitAll(events)
  BY DEF StopTalking
<1>4. end \in {<<>>, <<"end">>}
  BY DEF EndOfTalk
<1> HIDE DEF end
<1>5. /\ events \in Seq(Words)
      /\ more = <<>> => \A k \in DOMAIN events : events[k] \notin {"join", "leave"}
      /\ more = <<"leave">> => events # <<>> /\ events[Len(events)] = "leave"
  BY <1>4, Phrases
<1> HIDE DEF events
<1>6. /\ kept' \in Seq(Words) /\ upward' \in Seq(Words)
      /\ link = "up" => UNCHANGED kept
      /\ link # "up" => UNCHANGED upward
  BY <1>1, <1>3, <1>5, Emitted
<1>7. RadioRestOK'
  BY <1>1, <1>2, <1>6 DEF RadioRestOK
<1>8. LinkAgrees'
  BY <1>1, <1>2, <1>6 DEF LinkAgrees
<1>9. ChannelAgrees'
  <2>1. CASE more = <<>>
    BY <1>2, <1>3, <1>5, <2>1, ChannelSilent
  <2>2. CASE more = <<"leave">>
    <3>1. more # <<>>
      BY <2>2
    <3>2. ~tuned'
      BY <3>1
    <3> QED
      BY <1>1, <1>3, <1>5, <2>2, <3>2, ChannelSpoken
  <2> QED
    BY <2>1, <2>2
<1>10. PressInv'
  BY <1>2, Stopping
<1> QED
  BY <1>7, <1>8, <1>9, <1>10

LEMMA StartingAgrees ==
  ASSUME RadioInv, NEW a \in StartIds, StartTalking(a)
  PROVE  RadioRestOK' /\ LinkAgrees' /\ ChannelAgrees' /\ PressInv'
<1>1. RadioRestOK /\ LinkAgrees
  BY RadioTypes DEF RadioInv
<1> DEFINE events == <<"start">>
<1>2. /\ EmitAll(events) /\ starts' = [starts EXCEPT ![a] = "none"]
      /\ UNCHANGED <<link, tuned, downward, session, member, floor, presses, unheard>>
  BY DEF StartTalking, gatewayVars
<1>3. events \in Seq(Words) /\ DOMAIN events = {1} /\ events[1] = "start"
  <2>1. "start" \in Words
    BY DEF Words
  <2> QED
    BY <2>1, OneWord
<1> HIDE DEF events
<1>4. /\ kept' \in Seq(Words) /\ upward' \in Seq(Words)
      /\ link = "up" => UNCHANGED kept
      /\ link # "up" => UNCHANGED upward
  BY <1>1, <1>2, <1>3, Emitted
<1>5. RadioRestOK'
  BY <1>1, <1>2, <1>4 DEF RadioRestOK
<1>6. LinkAgrees'
  BY <1>1, <1>2, <1>4 DEF LinkAgrees
<1>7. ChannelAgrees'
  BY <1>2, <1>3, ChannelSilent
<1> QED
  BY <1>5, <1>6, <1>7, Starting

LEMMA FlagsStep ==
  ASSUME RadioFlagsOK, RadioRestOK, [RadioNext]_radioVars
  PROVE  RadioFlagsOK'
<1> USE DEF RadioFlagsOK
<1>1. \A x, y, z \in BOOLEAN : (x \/ y) \in BOOLEAN /\ (x \/ (y /\ z)) \in BOOLEAN /\ (~(x /\ y)) \in BOOLEAN
  OBVIOUS
<1>2. ASSUME NEW a \in StartIds, Press(a) \/ NoStream(a) \/ StreamReady(a)
      PROVE  RadioFlagsOK'
  <2>1. held' \in BOOLEAN /\ UNCHANGED <<tuned, someone, guard, talking, autoStop, strayStop>>
    BY <1>2 DEF Press, NoStream, StreamReady
  <2>2. UNCHANGED <<member, hurried, late, deaf, unheard>>
    BY <1>2 DEF Press, NoStream, StreamReady, gatewayVars, marks
  <2> QED
    BY <2>1, <2>2
<1>3. ASSUME NEW more, StopTalking(more)
      PROVE  talking' \in BOOLEAN /\ autoStop' \in BOOLEAN /\ hurried' \in BOOLEAN
  <2> DEFINE h == hurried \/ (Unanswered /\ (talking \/ more # <<>>))
  <2>1. h \in BOOLEAN
    OBVIOUS
  <2>2. hurried' = h /\ talking' = FALSE /\ autoStop' = FALSE
    BY <1>3 DEF StopTalking, StopCapture
  <2> HIDE DEF h
  <2> QED
    BY <2>1, <2>2
<1>4. ASSUME NEW a \in StartIds, StartTalking(a)
      PROVE  RadioFlagsOK'
  <2> DEFINE s == strayStop \/ autoStop
             h == Unanswered \/ talking \/ (hurried /\ floor = "page")
             l == ~(held /\ tuned)
  <2>1. s \in BOOLEAN /\ h \in BOOLEAN /\ l \in BOOLEAN
    OBVIOUS
  <2>2. /\ talking' = TRUE /\ strayStop' = s /\ hurried' = h /\ late' = l /\ deaf' = FALSE
        /\ autoStop' \in IF link = "closed" THEN {TRUE, autoStop} ELSE {TRUE}
        /\ UNCHANGED <<held, tuned, someone, guard, member, unheard>>
    BY <1>4 DEF StartTalking, gatewayVars
  <2> HIDE DEF s, h, l
  <2> QED
    BY <2>1, <2>2
<1>5. ASSUME Release
      PROVE  RadioFlagsOK'
  <2>1. talking' \in BOOLEAN /\ autoStop' \in BOOLEAN /\ hurried' \in BOOLEAN
    BY <1>3, <1>5 DEF Release
  <2> QED
    BY <1>5, <2>1 DEF Release, gatewayVars
<1>6. ASSUME AutoStopFires
      PROVE  RadioFlagsOK'
  <2>1. strayStop' \in BOOLEAN
    BY <1>6 DEF AutoStopFires
  <2> QED
    BY <1>3, <1>6, <2>1 DEF AutoStopFires, gatewayVars
<1>7. ASSUME LeaveChannel
      PROVE  RadioFlagsOK'
  BY <1>3, <1>7 DEF LeaveChannel, gatewayVars
<1>8. ASSUME SelectChannel \/ GuardFires
      PROVE  RadioFlagsOK'
  BY <1>8 DEF SelectChannel, GuardFires, gatewayVars, marks
<1>9. ASSUME Hear
      PROVE  RadioFlagsOK'
  <2> DEFINE e == Head(downward)
             start == e = "speaker_start"
             known == e \in {"speaker_start", "speaker_end"} /\ tuned
  <2>1. start \in BOOLEAN
    OBVIOUS
  <2>2. /\ someone' = IF known THEN start ELSE someone
        /\ guard' = IF known THEN start ELSE guard
    BY <1>9, Zenon DEF Hear
  <2>3. talking' \in BOOLEAN /\ autoStop' \in BOOLEAN
    BY <1>9 DEF Hear, StopCapture
  <2>4. UNCHANGED <<held, tuned, strayStop, member, marks>>
    BY <1>9 DEF Hear, gatewayVars
  <2> HIDE DEF start, known
  <2>5. someone' \in BOOLEAN /\ guard' \in BOOLEAN
    BY <2>1, <2>2
  <2> QED
    BY <2>3, <2>4, <2>5 DEF marks
<1>10. ASSUME Gone
       PROVE  hurried' = FALSE /\ member' = FALSE
  BY <1>10 DEF Gone
<1>11. ASSUME LoseLink \/ ProfileFails
       PROVE  RadioFlagsOK'
  BY <1>10, <1>11 DEF LoseLink, ProfileFails, Cut, StopCapture
<1>12. ASSUME Unmount
       PROVE  RadioFlagsOK'
  BY <1>10, <1>12 DEF Unmount, StopCapture
<1>13. ASSUME Reconnect \/ ProfileLoaded
       PROVE  RadioFlagsOK'
  BY <1>13 DEF Reconnect, ProfileLoaded, pageVars, marks
<1>14. ASSUME GatewayHandles
       PROVE  RadioFlagsOK'
  <2>1. UNCHANGED <<pageVars, hurried, late>>
    BY <1>14 DEF GatewayHandles
  <2>2. HandleJoin \/ HandleLeave \/ HandlePttStart \/ HandlePttEnd \/ UNCHANGED <<member, deaf, unheard>>
    <3>1. Head(upward) \in {"join", "leave", "end", "start"}
      BY <1>14, GatewayHandled
    <3> QED
      BY <1>14, <3>1 DEF GatewayHandles
  <2>3. member' \in {TRUE, FALSE, member}
    BY <2>2 DEF HandleJoin, HandleLeave, HandlePttStart, HandlePttEnd
  <2>4. deaf' \in {TRUE, FALSE, deaf} /\ unheard' \in {TRUE, FALSE, unheard}
    BY <2>2 DEF HandleJoin, HandleLeave, HandlePttStart, HandlePttEnd
  <2>5. UNCHANGED <<held, tuned, someone, guard, talking, autoStop, strayStop, hurried, late>>
    BY <2>1 DEF pageVars
  <2>6. member' \in BOOLEAN
    BY <2>3
  <2>7. deaf' \in BOOLEAN /\ unheard' \in BOOLEAN
    BY <2>4
  <2> QED
    BY <2>5, <2>6, <2>7
<1>15. ASSUME GatewayAnswers
       PROVE  RadioFlagsOK'
  <2>1. deaf' \in BOOLEAN
    BY <1>15 DEF GatewayAnswers, PttDenied, PttGranted, MuteReadFails
  <2> QED
    BY <1>15, <2>1 DEF GatewayAnswers, pageVars
<1>16. ASSUME CutTalk
       PROVE  RadioFlagsOK'
  <2> DEFINE d == deaf \/ talking
  <2>1. d \in BOOLEAN
    OBVIOUS
  <2>2. deaf' = d
    BY <1>16 DEF CutTalk
  <2> HIDE DEF d
  <2> QED
    BY <1>16, <2>1, <2>2 DEF CutTalk, pageVars
<1>17. ASSUME OthersSpeak \/ UNCHANGED radioVars
       PROVE  RadioFlagsOK'
  BY <1>17 DEF OthersSpeak, radioVars, pageVars, gatewayVars, marks
<1>18. CASE \E a \in StartIds : Press(a) \/ NoStream(a) \/ StreamReady(a) \/ StartTalking(a)
  BY <1>2, <1>4, <1>18
<1> QED
  BY <1>5, <1>6, <1>7, <1>8, <1>9, <1>11, <1>12, <1>13, <1>14, <1>15, <1>16, <1>17, <1>18
  DEF RadioNext

LEMMA TalkStep ==
  ASSUME TalkIsHeld, [RadioNext]_radioVars
  PROVE  TalkIsHeld'
<1>1. ASSUME NEW a \in StartIds, StartTalking(a)
      PROVE  TalkIsHeld'
  <2>1. late' \/ (held /\ tuned)
    BY <1>1, Zenon DEF StartTalking
  <2>2. UNCHANGED <<held, tuned>>
    BY <1>1 DEF StartTalking
  <2> QED
    BY <2>1, <2>2 DEF TalkIsHeld
<1>2. ASSUME talking' = FALSE
      PROVE  TalkIsHeld'
  BY <1>2 DEF TalkIsHeld
<1>3. ASSUME UNCHANGED <<talking, late>>, held => held', tuned => tuned'
      PROVE  TalkIsHeld'
  BY <1>3 DEF TalkIsHeld
<1>4. ASSUME Release
      PROVE  TalkIsHeld'
  <2>1. CASE tuned
    BY <1>2, <1>4, <2>1 DEF Release, StopTalking, StopCapture
  <2>2. CASE ~tuned
    BY <1>4, <2>2 DEF Release, TalkIsHeld
  <2> QED
    BY <2>1, <2>2
<1>5. ASSUME AutoStopFires \/ LeaveChannel \/ LoseLink \/ ProfileFails \/ Unmount
      PROVE  TalkIsHeld'
  BY <1>2, <1>5 DEF AutoStopFires, LeaveChannel, LoseLink, ProfileFails, Unmount, Cut, StopTalking,
                    StopCapture
<1>6. ASSUME NEW a \in StartIds, Press(a) \/ NoStream(a) \/ StreamReady(a)
      PROVE  TalkIsHeld'
  <2>1. UNCHANGED <<talking, late, tuned>> /\ (held => held')
    BY <1>6 DEF Press, NoStream, StreamReady, marks
  <2> QED
    BY <1>3, <2>1
<1>7. ASSUME SelectChannel \/ GuardFires
      PROVE  TalkIsHeld'
  BY <1>3, <1>7 DEF SelectChannel, GuardFires, marks
<1>8. ASSUME Hear
      PROVE  TalkIsHeld'
  <2>1. talking' = FALSE \/ UNCHANGED talking
    BY <1>8 DEF Hear, StopCapture
  <2>2. UNCHANGED <<held, tuned, late>>
    BY <1>8 DEF Hear, marks
  <2> QED
    BY <1>2, <1>3, <2>1, <2>2
<1>9. ASSUME \/ Reconnect \/ ProfileLoaded \/ GatewayHandles \/ GatewayAnswers \/ CutTalk \/ OthersSpeak
             \/ UNCHANGED radioVars
      PROVE  TalkIsHeld'
  <2>1. UNCHANGED <<talking, late, tuned, held>>
    BY <1>9 DEF Reconnect, ProfileLoaded, GatewayHandles, GatewayAnswers, CutTalk, OthersSpeak,
                radioVars, pageVars, marks
  <2> QED
    BY <1>3, <2>1
<1>10. CASE \E a \in StartIds : Press(a) \/ NoStream(a) \/ StreamReady(a) \/ StartTalking(a)
  BY <1>1, <1>6, <1>10
<1> QED
  BY <1>4, <1>5, <1>7, <1>8, <1>9, <1>10 DEF RadioNext


\* What a step that is neither a flag's nor the talk's must keep.
RadioRelations == RadioRestOK /\ LinkAgrees /\ ChannelAgrees /\ PressInv

LEMMA PageRelations ==
  ASSUME RadioInv, [RadioNext]_radioVars,
         \/ \E a \in StartIds : Press(a) \/ NoStream(a) \/ StreamReady(a) \/ StartTalking(a)
         \/ Release \/ AutoStopFires \/ SelectChannel \/ LeaveChannel \/ GuardFires \/ Hear
  PROVE  RadioRelations'
<1>1. RadioRestOK /\ LinkAgrees
  BY RadioTypes DEF RadioInv
<1>2. ASSUME UNCHANGED <<wires, gatewayVars, tuned, talking, marks>>,
             starts' \in [StartIds -> {"none", "stream", "resume"}]
      PROVE  RadioRelations'
  <2>1. LinkAgrees' /\ ChannelAgrees' /\ PressInv'
    BY <1>2, PageSteps
  <2>2. RadioRestOK'
    BY <1>1, <1>2 DEF RadioRestOK, wires, gatewayVars
  <2> QED
    BY <2>1, <2>2 DEF RadioRelations
<1>3. ASSUME NEW a \in StartIds, Press(a) \/ NoStream(a) \/ StreamReady(a)
      PROVE  RadioRelations'
  <2>1. UNCHANGED <<wires, gatewayVars, tuned, talking, marks>>
    BY <1>3 DEF Press, NoStream, StreamReady
  <2>2. \/ starts' = starts
        \/ \E t \in {"none", "stream", "resume"} : starts' = [starts EXCEPT ![a] = t]
    BY <1>3 DEF Press, NoStream, StreamReady
  <2>3. starts' \in [StartIds -> {"none", "stream", "resume"}]
    BY <1>1, <2>2 DEF RadioRestOK
  <2> QED
    BY <1>2, <2>1, <2>3
<1>4. ASSUME NEW a \in StartIds, StartTalking(a)
      PROVE  RadioRelations'
  BY <1>4, StartingAgrees DEF RadioRelations
<1>5. ASSUME Release
      PROVE  RadioRelations'
  <2>1. CASE tuned
    <3>1. StopTalking(<<>>) /\ UNCHANGED <<tuned, starts, link, downward, gatewayVars, deaf, unheard>>
      BY <1>5, <2>1 DEF Release
    <3> QED
      BY <3>1, StoppingAgrees DEF RadioRelations
  <2>2. CASE ~tuned
    <3>1. UNCHANGED <<wires, gatewayVars, tuned, talking, marks>> /\ UNCHANGED starts
      BY <1>5, <2>2 DEF Release, wires, marks
    <3> QED
      BY <1>1, <1>2, <3>1 DEF RadioRestOK
  <2> QED
    BY <2>1, <2>2
<1>6. ASSUME AutoStopFires
      PROVE  RadioRelations'
  <2>1. StopTalking(<<>>) /\ UNCHANGED <<tuned, starts, link, downward, gatewayVars, deaf, unheard>>
    BY <1>6 DEF AutoStopFires
  <2> QED
    BY <2>1, StoppingAgrees DEF RadioRelations
<1>7. ASSUME LeaveChannel
      PROVE  RadioRelations'
  <2> DEFINE more == <<"leave">>
  <2>1. StopTalking(more) /\ more # <<>> /\ tuned /\ ~tuned'
        /\ UNCHANGED <<starts, link, downward, gatewayVars, deaf, unheard>>
    BY <1>7 DEF LeaveChannel
  <2> QED
    BY <2>1, StoppingAgrees DEF RadioRelations
<1>8. ASSUME SelectChannel
      PROVE  RadioRelations'
  BY <1>8, Selecting DEF RadioRelations
<1>9. ASSUME GuardFires
      PROVE  RadioRelations'
  <2>1. UNCHANGED <<wires, gatewayVars, tuned, talking, marks, starts>>
    BY <1>9 DEF GuardFires
  <2> QED
    BY <1>1, <1>2, <2>1 DEF RadioRestOK
<1>10. ASSUME Hear
       PROVE  RadioRelations'
  <2>1. PressInv' /\ link = "up" /\ downward' \in Seq(Tidings)
    BY <1>10, HearingPress
  <2>2. UNCHANGED <<tuned, starts, link, kept, upward, session, member, floor, presses, unheard>>
    BY <1>10 DEF Hear, gatewayVars, marks
  <2>3. RadioRestOK'
    BY <1>1, <2>1, <2>2 DEF RadioRestOK
  <2>4. LinkAgrees'
    BY <1>1, <2>1, <2>2 DEF LinkAgrees
  <2>5. ChannelAgrees'
    BY <2>2, ChannelUnchanged
  <2> QED
    BY <2>1, <2>3, <2>4, <2>5 DEF RadioRelations
<1>11. CASE \E a \in StartIds : Press(a) \/ NoStream(a) \/ StreamReady(a) \/ StartTalking(a)
  BY <1>3, <1>4, <1>11
<1> QED
  BY <1>5, <1>6, <1>7, <1>8, <1>9, <1>10, <1>11

LEMMA LinkRelations ==
  ASSUME RadioInv,
         LoseLink \/ Reconnect \/ Unmount \/ ProfileLoaded \/ ProfileFails \/ UNCHANGED radioVars
  PROVE  RadioRelations'
<1>1. RadioRestOK /\ LinkAgrees
  BY RadioTypes DEF RadioInv
<1>2. ASSUME Gone, talking' = FALSE, UNCHANGED <<kept, starts, unheard>>,
             (link = "up" /\ link' = "down") \/ link' \in {"refused", "closed"}
      PROVE  RadioRelations'
  <2>1. /\ upward' \in Seq(Words) /\ downward' \in Seq(Tidings) /\ session' = "off"
        /\ floor' \in {"free", "page", "other"} /\ presses' \in Nat
        /\ LinkAgrees' /\ PressInv' /\ ChannelAgrees'
    BY <1>2, Leaving
  <2>2. RadioRestOK'
    BY <1>1, <1>2, <2>1 DEF RadioRestOK
  <2> QED
    BY <2>1, <2>2 DEF RadioRelations
<1>3. CASE LoseLink
  BY <1>2, <1>3 DEF LoseLink, Cut, StopCapture
<1>4. CASE ProfileFails
  BY <1>2, <1>4 DEF ProfileFails, Cut, StopCapture
<1>5. CASE Unmount
  BY <1>2, <1>5 DEF Unmount, StopCapture
<1>6. CASE Reconnect
  BY <1>6, Reconnecting DEF RadioRelations
<1>7. CASE ProfileLoaded
  <2>1. /\ session = "loading" /\ session' = "ready"
        /\ UNCHANGED <<starts, tuned, talking, link, kept, upward, downward, member, floor, presses,
                       hurried, late, deaf, unheard>>
    BY <1>7 DEF ProfileLoaded, pageVars, wires, marks
  <2>2. RadioRestOK'
    BY <1>1, <2>1 DEF RadioRestOK
  <2>3. LinkAgrees'
    BY <1>1, <2>1 DEF LinkAgrees
  <2> QED
    BY <2>1, <2>2, <2>3, ChannelUnchanged, PressUnchanged DEF RadioRelations
<1>8. CASE UNCHANGED radioVars
  <2>1. UNCHANGED <<wires, gatewayVars, tuned, talking, marks, starts>>
    BY <1>8 DEF radioVars, pageVars
  <2>2. RadioRestOK'
    BY <1>1, <2>1 DEF RadioRestOK, wires, gatewayVars
  <2> QED
    BY <2>1, <2>2, PageSteps DEF RadioRelations
<1> QED
  BY <1>3, <1>4, <1>5, <1>6, <1>7, <1>8

LEMMA GatewayRelations ==
  ASSUME RadioInv, GatewayHandles \/ GatewayAnswers \/ CutTalk \/ OthersSpeak
  PROVE  RadioRelations'
<1>1. RadioRestOK /\ LinkAgrees
  BY RadioTypes DEF RadioInv
<1>2. CASE GatewayHandles
  <2>1. upward # <<>> /\ upward' = Tail(upward) /\ link' = link
    BY <1>1, <1>2, GatewayHandled
  <2>2. link = "up"
    BY <1>1, <2>1 DEF LinkAgrees
  <2>3. upward' \in Seq(Words)
    BY <1>1, <2>1, <2>2, WordTaken
  <2>4. downward' \in Seq(Tidings)
    BY <1>1, <1>2, GatewayHandled
  <2>5. floor' \in {floor, "free", "other"} /\ presses' \in {presses, presses + 1}
    <3>1. Head(upward) \in {"join", "leave", "end", "start"}
      BY <1>1, <1>2, GatewayHandled
    <3>2. HandleJoin \/ HandleLeave \/ HandlePttStart \/ HandlePttEnd
      BY <1>2, <3>1 DEF GatewayHandles
    <3> QED
      BY <3>2 DEF HandleJoin, HandleLeave, HandlePttStart, HandlePttEnd
  <2>6. UNCHANGED <<starts, kept, session>>
    BY <1>2 DEF GatewayHandles, pageVars
  <2>7. RadioRestOK'
    BY <1>1, <2>1, <2>3, <2>4, <2>5, <2>6 DEF RadioRestOK
  <2> QED
    BY <1>2, <2>7, HandlingAgrees, HandlingPress DEF RadioRelations
<1>3. CASE GatewayAnswers
  <2>1. PressInv' /\ link = "up" /\ downward' \in Seq(Tidings) /\ presses' \in Nat
    BY <1>3, AnsweringPress
  <2>2. UNCHANGED <<starts, tuned, link, kept, upward, session, member, unheard>>
    BY <1>3 DEF GatewayAnswers, pageVars
  <2>3. floor' \in {floor, "page"}
    BY <1>3 DEF GatewayAnswers, PttDenied, PttGranted, MuteReadFails
  <2>4. RadioRestOK'
    BY <1>1, <2>1, <2>2, <2>3 DEF RadioRestOK
  <2>5. LinkAgrees'
    BY <1>1, <2>1, <2>2 DEF LinkAgrees
  <2> QED
    BY <2>1, <2>2, <2>4, <2>5, ChannelUnchanged DEF RadioRelations
<1>4. ASSUME NEW e \in {"speaker_start", "speaker_end"}, ToRoom(e),
             UNCHANGED <<starts, tuned, talking, link, kept, upward, session, member, presses,
                         hurried, unheard>>,
             floor' \in {"free", "other"}, deaf => deaf', floor = "page" => deaf' \/ ~talking
      PROVE  RadioRelations'
  <2>1. downward' = Append(downward, e) \/ downward' = downward
    BY <1>4 DEF ToRoom
  <2>2. downward' \in Seq(Tidings) /\ Responses' = Responses /\ Denials' = Denials
    BY <1>1, <2>1, Told
  <2>3. RadioRestOK'
    BY <1>1, <1>4, <2>2 DEF RadioRestOK
  <2>4. LinkAgrees'
    <3>1. ~member => downward' = downward
      BY <1>4 DEF ToRoom
    <3>2. link # "up" => ~member
      BY <1>1 DEF LinkAgrees
    <3> QED
      BY <1>1, <1>4, <3>1, <3>2 DEF LinkAgrees
  <2>5. ChannelAgrees'
    BY <1>4, ChannelUnchanged
  <2>6. PressInv'
    BY <1>4, <2>2, FloorMoves
  <2> QED
    BY <2>3, <2>4, <2>5, <2>6 DEF RadioRelations
<1>5. CASE CutTalk
  <2>1. deaf => deaf'
    BY <1>5, Zenon DEF CutTalk
  <2>2. talking => deaf'
    BY <1>5, Zenon DEF CutTalk
  <2> QED
    BY <1>4, <1>5, <2>1, <2>2 DEF CutTalk, pageVars
<1>6. CASE OthersSpeak
  <2>1. \E e \in {"speaker_start", "speaker_end"} : ToRoom(e)
    BY <1>6 DEF OthersSpeak
  <2>2. floor' \in {"free", "other"} /\ floor # "page"
        /\ UNCHANGED <<starts, tuned, talking, link, kept, upward, session, member, presses,
                       hurried, deaf, unheard>>
    BY <1>6 DEF OthersSpeak, pageVars, marks
  <2> QED
    BY <1>4, <2>1, <2>2
<1> QED
  BY <1>2, <1>3, <1>5, <1>6

LEMMA RadioStep == RadioInv /\ [RadioNext]_radioVars => RadioInv'
<1> SUFFICES ASSUME RadioInv, [RadioNext]_radioVars
             PROVE  RadioInv'
  OBVIOUS
<1>1. RadioFlagsOK /\ RadioRestOK /\ TalkIsHeld
  BY RadioTypes DEF RadioInv
<1>2. RadioFlagsOK' /\ TalkIsHeld'
  BY <1>1, FlagsStep, TalkStep
<1>3. RadioRelations'
  BY PageRelations, LinkRelations, GatewayRelations DEF RadioNext
<1> QED
  BY <1>2, <1>3, RadioTypes DEF RadioInv, RadioRelations

LEMMA RadioStart == RadioInit => RadioInv
<1> SUFFICES ASSUME RadioInit
             PROVE  RadioInv
  OBVIOUS
<1>1. RadioFlagsOK
  BY DEF RadioInit, RadioFlagsOK
<1>2. RadioRestOK
  BY DEF RadioInit, RadioRestOK
<1>3. Wire = <<>> /\ downward = <<>>
  BY DEF RadioInit, Wire
<1>4. Starts = {} /\ ChannelWords = {} /\ Responses = {} /\ Denials = {}
  BY <1>3 DEF Starts, ChannelWords, Responses, Denials
<1>5. LinkAgrees
  BY DEF RadioInit, LinkAgrees
<1>6. ChannelAgrees
  BY <1>4 DEF RadioInit, ChannelAgrees
<1>7. TalkIsHeld /\ PressInv
  BY <1>4 DEF RadioInit, TalkIsHeld, PressInv, OnePress, JoinsAfterPress, FloorAgrees,
              NoChannelNoFloor
<1> QED
  BY <1>1, <1>2, <1>5, <1>6, <1>7, RadioTypes DEF RadioInv

LEMMA RadioCorrect == RadioSpec => []RadioInv
  BY RadioStart, RadioStep, PTL DEF RadioSpec

\* The state of the radio's page and of its socket keeps its type, however the presses,
\* the timers, the disconnections and the gateway's answers interleave.
THEOREM RadioTypeCorrect == RadioSpec => []RadioTypeOK
<1>1. RadioInv => RadioTypeOK
  BY DEF RadioInv
<1> QED
  BY <1>1, RadioCorrect, PTL

\* The button, the page and the gateway agree (YolculukTelsizPage.tsx with
\* telsiz.gateway.ts): the page transmits only while the button is held, or when it was
\* let go while the microphone was waited for; and once nothing is on its way the page and
\* its socket are in the same channel, and the page transmits exactly while the socket
\* has the floor, unless it went on before an answer or the gateway did not listen.
THEOREM ButtonPageFloor == RadioSpec => []ButtonPageAndFloorAgree
<1>1. RadioInv => ButtonPageAndFloorAgree
  <2> SUFFICES ASSUME RadioInv
               PROVE  ButtonPageAndFloorAgree
    OBVIOUS
  <2>1. talking => held \/ late
    BY DEF RadioInv, TalkIsHeld
  <2>2. ASSUME AtRest
        PROVE  /\ ~unheard => (tuned <=> member)
               /\ floor = "page" /\ ~hurried => talking
               /\ talking /\ ~hurried /\ ~deaf => floor = "page"
    <3>1. link = "up" /\ Wire = <<>> /\ downward = <<>> /\ presses = 0
      BY <2>2 DEF AtRest, Wire
    <3>2. Starts = {} /\ Ends = {} /\ ChannelWords = {} /\ Denials = {}
      BY <3>1 DEF Starts, Ends, ChannelWords, Denials
    <3>3. ~unheard => (tuned <=> member)
      BY <3>1, <3>2 DEF RadioInv, ChannelAgrees
    <3>4. ~hurried => FloorAgrees
      BY <3>1 DEF RadioInv, PressInv, Linked
    <3> QED
      BY <3>1, <3>2, <3>3, <3>4 DEF FloorAgrees
  <2> QED
    BY <2>1, <2>2 DEF ButtonPageAndFloorAgree
<1> QED
  BY <1>1, RadioCorrect, PTL

=============================================================================
