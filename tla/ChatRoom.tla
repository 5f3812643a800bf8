------------------------------ MODULE ChatRoom ------------------------------
(***************************************************************************)
(* A chat room between the database, the gateway and one page that shows it *)
(* (api/src/chat/chat.gateway.ts, chat.service.ts and the page of the web   *)
(* client, web/src/app/sohbet/[type]/[slug]/page.tsx).                      *)
(*                                                                          *)
(* Every writer (send, edit, delete, clear, react) changes the database and *)
(* tells the room later, after an await; the page gets its first messages   *)
(* from a read that is answered later too, and older ones over HTTP.  The   *)
(* page reaches the gateway at once; what the gateway emits waits in order  *)
(* in a queue that a lost connection throws away.                           *)
(*                                                                          *)
(* A join may be refused (access, password, ban) or fail at any await, and  *)
(* so may the look-up of a room and every writer; senders pass moderation,  *)
(* and only those who may edit or delete a message try.  Message ids follow *)
(* createdAt.                                                               *)
(* The messages and the reactions of a history are read in one step.  The   *)
(* page is one component that follows its address: what it began for an     *)
(* earlier room goes on.                                                    *)
(***************************************************************************)
EXTENDS Naturals, Sequences, FiniteSets

CONSTANTS
  Chats,
  Earlier,    \* messages the rooms start with
  MaxMsgs,    \* bound: messages, those included
  MaxCalls,   \* bound: calls of the writers
  JoinIds,    \* bound: joins in flight
  PageIds,    \* bound: requests for older messages in flight
  MaxMoves,   \* bound: navigations, lost connections and restarts
  Limit,      \* messages of one history or page (50 in the code)
  None, Idle, Done

ASSUME BoundsAssumption == /\ {MaxMsgs, MaxCalls, MaxMoves} \subseteq Nat
                           /\ Earlier \in 0..MaxMsgs
                           /\ Limit \in Nat \ {0}

VARIABLES
  rows,      \* the messages table
  timers,    \* messages whose expiry the running process will announce
  calls,     \* handlers of the writers, each used once, in order
  moves,
  conn,      \* connection of the page
  inRooms,   \* socket.io rooms its socket is in
  down,      \* events on their way to the page
  joins,     \* activations of handleJoin for the page
  route,     \* room in the address of the page
  resolves,  \* rooms whose /chat/resolve is unanswered
  chatId,    \* room the page listens to
  list,      \* messages shown
  oldest, hasMore, loading,   \* paging towards older messages
  pages,     \* requests for older messages
  filled,    \* history: what the page knows of its room since it opened it
  hasty,     \* history: the page left a room with an answer still due
  stranded,  \* history: the look-up of a room, or a join, came to nothing, and
             \* the page has neither moved to another room nor connected again
  overtaken, \* history: an older page arrived after a history that does not
             \* begin where the page was asked for, and none came since
  crossed    \* history: messages written while another emission about them,
             \* or a read of their room, was on its way, or whose writer
             \* failed between the write and its announcement

server == <<rows, timers, calls, moves>>
link == <<conn, inRooms, down, joins>>
view == <<route, resolves, chatId, list, oldest, hasMore, loading, pages>>
ghosts == <<filled, hasty, stranded, overtaken, crossed>>
vars == <<server, link, view, ghosts>>

MsgIds == 1..MaxMsgs
CallIds == 1..MaxCalls
Row == [chat : Chats, body : 0..MaxCalls, liked : BOOLEAN, deleted : BOOLEAN,
        timed : {"no", "running", "over", "purged"}]
Entry == [id : MsgIds, body : 0..MaxCalls, liked : BOOLEAN]
Call == [op : {"new", "delete"}, msg : MsgIds, chat : Chats, at : {"write", "emit"}, val : {0}]
        \cup [op : {"edit"}, msg : MsgIds, chat : Chats, at : {"write", "emit"}, val : 0..MaxCalls]
        \cup [op : {"clear"}, msg : {None}, chat : Chats, at : {"emit"}, val : {0}]
        \cup [op : {"react"}, msg : MsgIds, chat : Chats, at : {"find", "count"}, val : {0}]
        \cup [op : {"react"}, msg : MsgIds, chat : Chats, at : {"write", "emit"}, val : BOOLEAN]
Join == [chat : Chats, at : {"enter", "read", "emit"}, val : Seq(Entry)]
Page == [chat : Chats, before : MsgIds, at : {"read", "apply"}, val : Seq(Entry)]
Event == [type : {"new"}, msg : Entry]
         \cup [type : {"edit"}, msg : MsgIds, val : 0..MaxCalls]
         \cup [type : {"react"}, msg : MsgIds, val : BOOLEAN]
         \cup [type : {"delete"}, msg : MsgIds, val : {0}]
         \cup [type : {"clear"}, msg : {None}, val : {0}]
         \cup [type : {"history"}, chat : Chats, list : Seq(Entry)]
         \cup [type : {"error"}, chat : Chats]

ASSUME NullsAssumption ==
  /\ None \notin Chats \cup MsgIds /\ None \notin Row
  /\ Idle # Done /\ \A x \in {Idle, Done} : x \notin Call /\ x \notin Join /\ x \notin Page

TypeOK ==
  /\ rows \in [MsgIds -> Row \cup {None}]
  /\ timers \subseteq MsgIds
  /\ calls \in [CallIds -> Call \cup {Idle, Done}]
  /\ moves \in 0..MaxMoves
  /\ conn \in {"up", "down"}
  /\ inRooms \subseteq Chats
  /\ down \in Seq(Event)
  /\ joins \in [JoinIds -> Join \cup {Idle}]
  /\ route \in Chats /\ chatId \in Chats \cup {None} /\ resolves \subseteq Chats
  /\ list \in Seq(Entry)
  /\ oldest \in MsgIds \cup {None}
  /\ pages \in [PageIds -> Page \cup {Idle}]
  /\ {hasMore, loading, hasty} \subseteq BOOLEAN
  /\ stranded \in BOOLEAN /\ overtaken \in BOOLEAN
  /\ filled \in {"no", "yes", "error"}
  /\ crossed \subseteq MsgIds

NewRow(c, timed) ==
  [chat |-> c, body |-> 0, liked |-> FALSE, deleted |-> FALSE, timed |-> timed]

Init ==
  /\ \E c \in [1..Earlier -> Chats] :
       rows = [m \in MsgIds |-> IF m <= Earlier THEN NewRow(c[m], "no") ELSE None]
  /\ timers = {}
  /\ calls = [k \in CallIds |-> Idle] /\ moves = 0
  /\ conn = "up" /\ inRooms = {} /\ down = <<>>
  /\ joins = [j \in JoinIds |-> Idle]
  /\ route \in Chats /\ resolves = {route} /\ chatId = None
  /\ list = <<>> /\ oldest = None /\ hasMore = TRUE /\ loading = FALSE
  /\ pages = [p \in PageIds |-> Idle]
  /\ filled = "no" /\ crossed = {}
  /\ hasty = FALSE /\ stranded = FALSE /\ overtaken = FALSE

-----------------------------------------------------------------------------
(* The messages table and what is read of it. *)

Exists(m) == rows[m] # None /\ rows[m].timed # "purged"
Visible(m) == Exists(m) /\ ~rows[m].deleted /\ rows[m].timed # "over"
EntryOf(m) == [id |-> m, body |-> rows[m].body, liked |-> rows[m].liked]
Shows(s, m) == \E i \in DOMAIN s : s[i].id = m

\* The members of a finite set of numbers in their order, and the members of a
\* sequence at the positions I.  (SelectSeq is not used: it is opaque to the
\* prover, and these have a definition that can be reasoned about.)
InOrder(S) ==
  CHOOSE e \in [1..Cardinality(S) -> S] : \A i, j \in DOMAIN e : i < j => e[i] < e[j]
Kept(s, I) == LET e == InOrder(I) IN [n \in DOMAIN e |-> s[e[n]]]
Without(s, m) == Kept(s, {i \in DOMAIN s : s[i].id # m})

\* getMessages: the newest Limit messages older than before, oldest first.
Messages(c, before) ==
  LET all == InOrder({m \in MsgIds : m < before /\ Visible(m) /\ rows[m].chat = c})
      skip == IF Len(all) > Limit THEN Len(all) - Limit ELSE 0
  IN  [i \in 1..(Len(all) - skip) |-> EntryOf(all[skip + i])]

Emit(c, e) == down' = IF c \in inRooms THEN Append(down, e) ELSE down

-----------------------------------------------------------------------------
(* The writers. *)

Open(k) == calls[k] \notin {Idle, Done}
At(k, op, phase) == Open(k) /\ calls[k].op = op /\ calls[k].at = phase
Next1(k) == calls[k] = Idle /\ \A j \in 1..(k - 1) : calls[j] # Idle
Phase(k, phase, val) == calls' = [calls EXCEPT ![k].at = phase, ![k].val = val]
Start(k, op, m, c, phase) ==
  /\ Next1(k)
  /\ calls' = [calls EXCEPT ![k] = [op |-> op, msg |-> m, chat |-> c, at |-> phase, val |-> 0]]

\* A read of the room, or an emission that the write of op would have to
\* precede, is on its way.
Clash(op, m, c) ==
  \/ \E j \in JoinIds : joins[j] # Idle /\ joins[j].chat = c /\ joins[j].at = "emit"
  \/ \E p \in PageIds : pages[p] # Idle /\ pages[p].chat = c /\ pages[p].at = "apply"
  \/ \E k \in CallIds : Open(k) /\ calls[k].at = "emit" /\ calls[k].chat = c
                         /\ \/ calls[k].msg = m /\ calls[k].op \in {"new", op}
                            \/ calls[k].op = "clear" /\ op = "new"
Mark(op, ms, c) == crossed' = crossed \cup {m \in ms : Clash(op, m, c)}

\* send_message, up to the row that saveMessage creates.
SendMessage(k, c, timed) ==
  \E m \in MsgIds :
    /\ rows[m] = None /\ \A n \in 1..(m - 1) : rows[n] # None
    /\ Start(k, "new", m, c, "emit")
    /\ rows' = [rows EXCEPT ![m] = NewRow(c, IF timed THEN "running" ELSE "no")]
    /\ Mark("new", {m}, c)
    /\ UNCHANGED <<timers, moves, link, view, filled, hasty, stranded, overtaken>>

\* The rest of send_message: the broadcast, and the timer of a timed message.
NewMessage(k) ==
  /\ At(k, "new", "emit")
  /\ LET m == calls[k].msg
     IN  /\ Emit(calls[k].chat, [type |-> "new", msg |-> [id |-> m, body |-> 0, liked |-> FALSE]])
         /\ timers' = IF rows[m].timed = "no" THEN timers ELSE timers \cup {m}
  /\ calls' = [calls EXCEPT ![k] = Done]
  /\ UNCHANGED <<rows, moves, conn, inRooms, joins, view, ghosts>>

\* getEditableMessage, and the moderation that follows it.
EditMessage(k, m) ==
  /\ Exists(m) /\ ~rows[m].deleted
  /\ Start(k, "edit", m, rows[m].chat, "write")
  /\ UNCHANGED <<rows, timers, moves, link, view, ghosts>>

\* applyMessageEdit looks for nothing but the id of the message.
ApplyMessageEdit(k) ==
  /\ At(k, "edit", "write")
  /\ LET m == calls[k].msg
     IN  IF Exists(m)
         THEN /\ rows' = [rows EXCEPT ![m].body = k]
              /\ Phase(k, "emit", k)
              /\ Mark("edit", {m}, calls[k].chat)
         ELSE /\ calls' = [calls EXCEPT ![k] = Done]
              /\ UNCHANGED <<rows, crossed>>
  /\ UNCHANGED <<timers, moves, link, view, filled, hasty, stranded, overtaken>>

\* deleteMessage: the check, then the update.
DeleteMessage(k, m) ==
  /\ Exists(m) /\ ~rows[m].deleted
  /\ Start(k, "delete", m, rows[m].chat, "write")
  /\ UNCHANGED <<rows, timers, moves, link, view, ghosts>>

ApplyDelete(k) ==
  /\ At(k, "delete", "write")
  /\ LET m == calls[k].msg
     IN  IF Exists(m)
         THEN /\ rows' = [rows EXCEPT ![m].deleted = TRUE]
              /\ Phase(k, "emit", 0)
              /\ Mark("delete", {m}, calls[k].chat)
         ELSE /\ calls' = [calls EXCEPT ![k] = Done]
              /\ UNCHANGED <<rows, crossed>>
  /\ UNCHANGED <<timers, moves, link, view, filled, hasty, stranded, overtaken>>

\* clearRoomMessages.
ClearRoom(k, c) ==
  LET cleared == {m \in MsgIds : Exists(m) /\ ~rows[m].deleted /\ rows[m].chat = c}
  IN  /\ Start(k, "clear", None, c, "emit")
      /\ rows' = [m \in MsgIds |-> IF m \in cleared THEN [rows[m] EXCEPT !.deleted = TRUE]
                                                    ELSE rows[m]]
      /\ Mark("clear", cleared, c)
      /\ UNCHANGED <<timers, moves, link, view, filled, hasty, stranded, overtaken>>

\* toggleReaction of one user and emoji: the message, the reaction it finds,
\* the write, which fails on a reaction gone or already there, and the count.
ReactMessage(k, m) ==
  /\ Exists(m) /\ ~rows[m].deleted
  /\ Start(k, "react", m, rows[m].chat, "find")
  /\ UNCHANGED <<rows, timers, moves, link, view, ghosts>>

FindReaction(k) ==
  /\ At(k, "react", "find")
  /\ Phase(k, "write", Exists(calls[k].msg) /\ rows[calls[k].msg].liked)
  /\ UNCHANGED <<rows, timers, moves, link, view, ghosts>>

WriteReaction(k) ==
  /\ At(k, "react", "write")
  /\ LET m == calls[k].msg
     IN  IF Exists(m) /\ rows[m].liked = calls[k].val
         THEN /\ rows' = [rows EXCEPT ![m].liked = ~@]
              /\ Phase(k, "count", 0)
              /\ Mark("react", {m}, calls[k].chat)
         ELSE /\ calls' = [calls EXCEPT ![k] = Done]
              /\ UNCHANGED <<rows, crossed>>
  /\ UNCHANGED <<timers, moves, link, view, filled, hasty, stranded, overtaken>>

CountReactions(k) ==
  /\ At(k, "react", "count")
  /\ Phase(k, "emit", Exists(calls[k].msg) /\ rows[calls[k].msg].liked)
  /\ UNCHANGED <<rows, timers, moves, link, view, ghosts>>

\* An await of a handler throws.  What was written before stays written and is
\* never announced: the row, when the second query of saveMessage fails, and the
\* reaction, when the count fails.
CallFails(k) ==
  /\ Open(k) /\ (calls[k].at = "emit" => calls[k].op = "new")
  /\ calls' = [calls EXCEPT ![k] = Done]
  /\ crossed' = IF calls[k].at \in {"emit", "count"} THEN crossed \cup {calls[k].msg} ELSE crossed
  /\ UNCHANGED <<rows, timers, moves, link, view, filled, hasty, stranded, overtaken>>

\* message_edited, message_deleted, room_cleared and message_reaction.
Announce(k) ==
  /\ Open(k) /\ calls[k].at = "emit" /\ calls[k].op # "new"
  /\ Emit(calls[k].chat, [type |-> calls[k].op, msg |-> calls[k].msg, val |-> calls[k].val])
  /\ calls' = [calls EXCEPT ![k] = Done]
  /\ UNCHANGED <<rows, timers, moves, conn, inRooms, joins, view, ghosts>>

-----------------------------------------------------------------------------
(* Joining and leaving. *)

\* A mutated form of LeftRooms: the page moves on without leave_room.
StaysInRooms(c) == inRooms

\* leave_room, when the page takes c for its room: handled at once.
LeftRooms(c) == IF c # chatId THEN inRooms \ {chatId} ELSE inRooms

\* join_room is emitted by the page; at most one free activation takes it.
Joining(c) ==
  \E j \in JoinIds : /\ joins[j] = Idle
                     /\ joins' = [joins EXCEPT ![j] = [chat |-> c, at |-> "enter", val |-> <<>>]]

\* The awaits before client.join have been passed.
EnterRoom(j) ==
  /\ joins[j] # Idle /\ joins[j].at = "enter"
  /\ inRooms' = inRooms \cup {joins[j].chat}
  /\ joins' = [joins EXCEPT ![j].at = "read"]
  /\ UNCHANGED <<server, conn, down, view, ghosts>>

ReadHistory(j) ==
  /\ joins[j] # Idle /\ joins[j].at = "read"
  /\ joins' = [joins EXCEPT ![j].at = "emit", ![j].val = Messages(joins[j].chat, MaxMsgs + 1)]
  /\ crossed' = crossed \cup
       {m \in MsgIds : ~Shows(Messages(joins[j].chat, MaxMsgs + 1), m) /\ Visible(m)
                        /\ rows[m].chat = joins[j].chat
                        /\ \E k \in CallIds : At(k, "new", "emit") /\ calls[k].msg = m}
  /\ UNCHANGED <<server, conn, inRooms, down, view, filled, hasty, stranded, overtaken>>

\* The history goes to the socket, whatever room it is in by now.
EmitHistory(j) ==
  /\ joins[j] # Idle /\ joins[j].at = "emit"
  /\ down' = Append(down, [type |-> "history", chat |-> joins[j].chat, list |-> joins[j].val])
  /\ joins' = [joins EXCEPT ![j] = Idle]
  /\ UNCHANGED <<server, conn, inRooms, view, ghosts>>

\* An await of handleJoin throws or refuses, or, the room entered, the one of
\* the online list throws: the page is sent no history and no error for it.
JoinFails(j) ==
  /\ joins[j] # Idle /\ joins[j].at \in {"enter", "read"}
  /\ joins' = [joins EXCEPT ![j] = Idle]
  /\ stranded' = TRUE
  /\ UNCHANGED <<server, conn, inRooms, down, view, filled, hasty, overtaken, crossed>>

HistoryFails(j) ==
  /\ joins[j] # Idle /\ joins[j].at = "read"
  /\ down' = Append(down, [type |-> "error", chat |-> joins[j].chat])
  /\ joins' = [joins EXCEPT ![j] = Idle]
  /\ UNCHANGED <<server, conn, inRooms, view, ghosts>>

-----------------------------------------------------------------------------
(* The page. *)

\* The timers the page keeps for the timed messages it shows.
LocalExpiry(s) == Kept(s, {i \in DOMAIN s : rows[s[i].id].timed \notin {"over", "purged"}})

Awaited(c) == \/ \E j \in JoinIds : joins[j] # Idle /\ joins[j].chat = c
              \/ \E p \in PageIds : pages[p] # Idle /\ pages[p].chat = c

\* Another room in the address: the list is emptied, the room looked up.
Navigate(c) ==
  /\ c # route /\ moves < MaxMoves
  /\ route' = c /\ resolves' = resolves \cup {c} /\ moves' = moves + 1
  /\ list' = <<>> /\ oldest' = None /\ hasMore' = TRUE /\ loading' = FALSE
  /\ filled' = "no"
  /\ hasty' = (hasty \/ resolves # {} \/ (chatId # None /\ Awaited(chatId)))
  /\ UNCHANGED <<rows, timers, calls, link, chatId, pages, stranded, overtaken, crossed>>

\* The room is known: the old one is left, the new one joined.  The room the
\* page already listens to is neither left nor joined again.
Resolve(c) ==
  /\ c \in resolves
  /\ resolves' = resolves \ {c} /\ chatId' = c
  /\ inRooms' = LeftRooms(c)
  /\ IF c # chatId /\ conn = "up" THEN Joining(c) ELSE UNCHANGED joins
  /\ hasty' = (hasty \/ (c # chatId /\ chatId # None /\ Awaited(chatId)))
  /\ stranded' = (stranded /\ c = chatId)
  /\ UNCHANGED <<server, conn, down, route, list, oldest, hasMore, loading, pages, filled,
                 overtaken, crossed>>

\* The look-up fails: the page keeps the room it listened to before.
ResolveFails(c) ==
  /\ c \in resolves
  /\ resolves' = resolves \ {c} /\ stranded' = TRUE
  /\ UNCHANGED <<server, link, route, chatId, list, oldest, hasMore, loading, pages, filled,
                 hasty, overtaken, crossed>>

\* A mutated form of Appended: the page trusts the gateway not to repeat itself.
AppendedBlindly(s, e) == Append(s, e)

\* onNewMessage.
Appended(s, e) == IF Shows(s, e.id) THEN s ELSE Append(s, e)

\* The list after onNewMessage, onMessageEdited, onMessageDeleted,
\* onRoomCleared and onMessageReaction.
Changed(s, e) ==
  CASE e.type = "new" -> Appended(s, e.msg)
    [] e.type = "edit" -> [i \in DOMAIN s |-> IF s[i].id = e.msg THEN [s[i] EXCEPT !.body = e.val]
                                                                 ELSE s[i]]
    [] e.type = "react" -> [i \in DOMAIN s |-> IF s[i].id = e.msg THEN [s[i] EXCEPT !.liked = e.val]
                                                                  ELSE s[i]]
    [] e.type = "delete" -> Without(s, e.msg)
    [] e.type = "clear" -> <<>>

DeliverChange ==
  /\ down # <<>> /\ Head(down).type \notin {"history", "error"}
  /\ down' = Tail(down)
  /\ list' = LocalExpiry(Changed(list, Head(down)))
  /\ UNCHANGED <<server, conn, inRooms, joins, route, resolves, chatId, oldest, hasMore, loading,
                 pages, ghosts>>

\* onHistory replaces the list, whichever room it is of.
DeliverHistory ==
  /\ down # <<>> /\ Head(down).type = "history"
  /\ LET e == Head(down)
     IN  /\ list' = LocalExpiry(e.list)
         /\ oldest' = IF e.list = <<>> THEN None ELSE e.list[1].id
         /\ hasMore' = (Len(e.list) >= Limit)
         /\ filled' = IF e.chat = route THEN "yes" ELSE filled
  /\ down' = Tail(down) /\ overtaken' = FALSE
  /\ UNCHANGED <<server, conn, inRooms, joins, route, resolves, chatId, loading, pages,
                 hasty, stranded, crossed>>

DeliverError ==
  /\ down # <<>> /\ Head(down).type = "error"
  /\ down' = Tail(down)
  /\ filled' = IF Head(down).chat = route THEN "error" ELSE filled
  /\ UNCHANGED <<server, conn, inRooms, joins, view, hasty, stranded, overtaken, crossed>>

\* loadOlderMessages: the request, the answer of the server, its arrival.
LoadOlder(p) ==
  /\ pages[p] = Idle /\ chatId # None /\ ~loading /\ hasMore /\ oldest # None
  /\ pages' = [pages EXCEPT ![p] = [chat |-> chatId, before |-> oldest, at |-> "read", val |-> <<>>]]
  /\ loading' = TRUE
  /\ UNCHANGED <<server, link, route, resolves, chatId, list, oldest, hasMore, ghosts>>

ReadOlder(p) ==
  /\ pages[p] # Idle /\ pages[p].at = "read"
  /\ pages' = [pages EXCEPT ![p].at = "apply", ![p].val = Messages(pages[p].chat, pages[p].before)]
  /\ UNCHANGED <<server, link, route, resolves, chatId, list, oldest, hasMore, loading, ghosts>>

\* Nothing asks whether the page still shows the room it asked about.
OlderArrives(p) ==
  /\ pages[p] # Idle /\ pages[p].at = "apply"
  /\ LET older == pages[p].val
     IN  /\ list' = LocalExpiry(older \o list)
         /\ oldest' = IF older = <<>> THEN oldest ELSE older[1].id
         /\ hasMore' = (hasMore /\ Len(older) >= Limit)
         /\ overtaken' = (overtaken \/ (older # <<>> /\ pages[p].before # oldest))
  /\ loading' = FALSE
  /\ pages' = [pages EXCEPT ![p] = Idle]
  /\ UNCHANGED <<server, link, route, resolves, chatId, filled, hasty, stranded, crossed>>

OlderFails(p) ==
  /\ pages[p] # Idle /\ pages[p].at = "read"
  /\ pages' = [pages EXCEPT ![p] = Idle] /\ loading' = FALSE
  /\ UNCHANGED <<server, link, route, resolves, chatId, list, oldest, hasMore, ghosts>>

-----------------------------------------------------------------------------
(* Time, lost connections and restarts. *)

\* A timed message expires: the page drops it by itself, the gateway announces
\* it unless it restarted since.
Expire(m) ==
  /\ rows[m] # None /\ rows[m].timed = "running"
  /\ rows' = [rows EXCEPT ![m].timed = "over"]
  /\ IF m \in timers THEN Emit(rows[m].chat, [type |-> "delete", msg |-> m, val |-> 0])
                     ELSE UNCHANGED down
  /\ timers' = timers \ {m}
  /\ list' = Without(list, m)
  /\ UNCHANGED <<calls, moves, conn, inRooms, joins, route, resolves, chatId, oldest, hasMore,
                 loading, pages, ghosts>>

\* purgeExpiredChatMessages, every hour.
Purge ==
  /\ \E m \in MsgIds : rows[m] # None /\ rows[m].timed = "over"
  /\ rows' = [m \in MsgIds |-> IF rows[m] # None /\ rows[m].timed = "over"
                               THEN [rows[m] EXCEPT !.timed = "purged"] ELSE rows[m]]
  /\ UNCHANGED <<timers, calls, moves, link, view, ghosts>>

Lost ==
  /\ conn' = "down" /\ inRooms' = {} /\ down' = <<>>
  /\ joins' = [j \in JoinIds |-> Idle]
  /\ filled' = "no"
  /\ UNCHANGED <<rows, view, hasty, stranded, overtaken, crossed>>

Disconnect ==
  /\ conn = "up" /\ moves < MaxMoves
  /\ moves' = moves + 1
  /\ Lost
  /\ UNCHANGED <<timers, calls>>

\* The process restarts: calls stop where they are, timers are gone.
Restart ==
  /\ moves < MaxMoves
  /\ moves' = moves + 1
  /\ Lost
  /\ timers' = {}
  /\ calls' = [k \in CallIds |-> IF Open(k) THEN Done ELSE calls[k]]

\* onConnect joins the room the page listens to again.
Reconnect ==
  /\ conn = "down"
  /\ conn' = "up"
  /\ IF chatId # None THEN Joining(chatId) ELSE UNCHANGED joins
  /\ stranded' = (stranded /\ chatId # route)
  /\ UNCHANGED <<server, inRooms, down, view, filled, hasty, overtaken, crossed>>

-----------------------------------------------------------------------------

Writers ==
  \E k \in CallIds :
    \/ \E c \in Chats : (\E t \in BOOLEAN : SendMessage(k, c, t)) \/ ClearRoom(k, c)
    \/ \E m \in MsgIds : EditMessage(k, m) \/ DeleteMessage(k, m) \/ ReactMessage(k, m)
    \/ NewMessage(k) \/ ApplyMessageEdit(k) \/ ApplyDelete(k) \/ Announce(k)
    \/ FindReaction(k) \/ WriteReaction(k) \/ CountReactions(k) \/ CallFails(k)

Next ==
  \/ Writers
  \/ \E j \in JoinIds : EnterRoom(j) \/ ReadHistory(j) \/ EmitHistory(j)
                          \/ HistoryFails(j) \/ JoinFails(j)
  \/ \E c \in Chats : Navigate(c) \/ Resolve(c) \/ ResolveFails(c)
  \/ DeliverChange \/ DeliverHistory \/ DeliverError
  \/ \E p \in PageIds : LoadOlder(p) \/ ReadOlder(p) \/ OlderArrives(p) \/ OlderFails(p)
  \/ \E m \in MsgIds : Expire(m)
  \/ Purge \/ Disconnect \/ Restart \/ Reconnect

Spec == Init /\ [][Next]_vars

-----------------------------------------------------------------------------

Quiet ==
  /\ \A k \in CallIds : ~Open(k)
  /\ \A j \in JoinIds : joins[j] = Idle
  /\ \A p \in PageIds : pages[p] = Idle
  /\ resolves = {} /\ down = <<>> /\ conn = "up"

\* Messages the page should show: those of its room, from the oldest it read.
Due(m) == Visible(m) /\ rows[m].chat = route /\ (oldest # None => m >= oldest)

Copies(m) == {i \in DOMAIN list : list[i].id = m}

\* When every call has ended and every answer arrived, the page shows each
\* message of its room once, as the database has it, and no other message:
\* nothing is lost, doubled, revived after its deletion or expiry, or left over
\* from another room, through every loss of connection, restart and failure.
\* Excepted are the messages written while an emission about them or a read of
\* the room was on its way, those whose writer failed before it could announce
\* them, and the pages that left a room with an answer still due, that had a
\* look-up or a join come to nothing and did nothing about it, or that took in
\* older messages asked for from below a list replaced since.
RestingListMatches ==
  Quiet /\ filled = "yes" /\ ~hasty /\ ~stranded /\ ~overtaken =>
    \A m \in MsgIds \ crossed :
      IF Due(m) THEN \E i \in DOMAIN list : Copies(m) = {i} /\ list[i] = EntryOf(m)
                ELSE Copies(m) = {}

\* A socket at rest hears no room but the one the page listens to, whatever
\* failed: every move leaves the room before.  And unless a look-up or a join
\* came to nothing, that room is the one in the address, its socket is in it,
\* and the page has been answered about it: every new connection joins it
\* again.  The exception is a page that left a room with an answer still due.
RestingPageHearsItsRoom ==
  Quiet /\ ~hasty =>
    /\ inRooms \subseteq {chatId}
    /\ ~stranded => chatId = route /\ inRooms = {route} /\ filled # "no"

\* "Oda değişince önceki odanın durumu sıfırlanır" (page.tsx:478): a page at
\* rest that was answered about its room shows no message of a room it left.
RoomChangeResetsList ==
  Quiet /\ filled = "yes" => \A i \in DOMAIN list : rows[list[i].id].chat = route
=============================================================================
