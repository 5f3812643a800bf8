------------------------- MODULE ChatPresenceProofs -------------------------
(***************************************************************************)
(* Who is online in the chat, for any number of users, of their tabs, of    *)
(* chats and of joins in flight.                                            *)
(***************************************************************************)
EXTENDS ChatPresence, FiniteSetTheorems, TLAPS

-----------------------------------------------------------------------------
(* The inductive invariant. *)

\* What is known of a socket at each point of its connection.  One that is gone
\* with its registration still to come belongs to a user in torn.
Lifecycle ==
  \A s \in Sockets :
    /\ conn[s] = "fresh" => setup[s] = "none" /\ ~known[s] /\ joined[s] = {}
    /\ setup[s] # "done" => site[s] = {}
    /\ setup[s] = "none" => conn[s] = "fresh"
    /\ conn[s] = "gone" /\ known[s] /\ setup[s] # "done" => userOf[s] \in torn

\* A join in flight is that of a socket that connected; if the socket is gone
\* since, its user is in torn.
JoinsAreOwned ==
  \A j \in JoinIds : joins[j] # Idle =>
    /\ conn[joins[j].sock] # "fresh"
    /\ conn[joins[j].sock] = "gone" /\ known[joins[j].sock] => userOf[joins[j].sock] \in torn

\* Only connected sockets are in rooms, and those with a user count there.
RoomIsTracked ==
  \A c \in Chats : \A s \in room[c] :
    Live(s) /\ (known[s] => c \in site[s] \cup joined[s])

IInv ==
  /\ TypeOK
  /\ Lifecycle
  /\ JoinsAreOwned
  /\ RoomIsTracked
  /\ ReferencesAreCovered
  /\ OnlyTornHandlersLeaveGhosts

-----------------------------------------------------------------------------
(* Counting sockets. *)

LEMMA SocketsAreCounted ==
  ASSUME NEW S \in SUBSET Sockets
  PROVE  IsFiniteSet(S) /\ Cardinality(S) \in Nat
BY SocketsFinite, FS_Subset, FS_CardinalityType

LEMMA CountSockets ==
  ASSUME NEW S \in SUBSET Sockets, NEW s \in Sockets
  PROVE  /\ Cardinality(S) \in Nat
         /\ Cardinality(S \cup {s}) = IF s \in S THEN Cardinality(S) ELSE Cardinality(S) + 1
         /\ Cardinality(S \ {s}) = IF s \in S THEN Cardinality(S) - 1 ELSE Cardinality(S)
         /\ Cardinality(S \ {s}) \in Nat
<1>1. IsFiniteSet(S) /\ Cardinality(S) \in Nat /\ Cardinality(S \ {s}) \in Nat
  BY SocketsAreCounted
<1> QED
  BY <1>1, FS_AddElement, FS_RemoveElement

LEMMA CountWithout ==
  ASSUME NEW S \in SUBSET Sockets, NEW s \in Sockets, NEW T, T = S \ {s}
  PROVE  /\ Cardinality(S) \in Nat /\ Cardinality(T) \in Nat
         /\ Cardinality(T) = IF s \in S THEN Cardinality(S) - 1 ELSE Cardinality(S)
BY CountSockets

LEMMA NoSockets == Cardinality({}) = 0
BY FS_EmptySet

-----------------------------------------------------------------------------

(* What the operations do to the counters. *)

LEMMA PresenceAdded ==
  ASSUME TypeOK, NEW s \in Sockets, NEW cs, AddPresence(cs, s)
  PROVE  /\ refs' \in [Chats -> [Users -> Nat]]
         /\ \A c \in Chats, u \in Users :
              refs'[c][u] = IF known[s] /\ c \in cs /\ u = userOf[s]
                            THEN refs[c][u] + 1 ELSE refs[c][u]
<1> DEFINE row(c) == IF c \in cs THEN [refs[c] EXCEPT ![userOf[s]] = @ + 1] ELSE refs[c]
<1>1. userOf[s] \in Users /\ \A c \in Chats : refs[c] \in [Users -> Nat]
  BY UserAssumption DEF TypeOK
<1>2. ASSUME NEW c \in Chats
      PROVE  /\ row(c) \in [Users -> Nat]
             /\ \A u \in Users : row(c)[u] = IF c \in cs /\ u = userOf[s]
                                            THEN refs[c][u] + 1 ELSE refs[c][u]
  <2>1. CASE c \in cs
    <3>1. row(c) = [refs[c] EXCEPT ![userOf[s]] = @ + 1]
      BY <2>1
    <3> HIDE DEF row
    <3> QED
      BY <1>1, <2>1, <3>1
  <2>2. CASE c \notin cs
    BY <1>1, <2>2
  <2> QED
    BY <2>1, <2>2
<1>3. refs' = IF known[s] THEN [c \in Chats |-> row(c)] ELSE refs
  BY DEF AddPresence
<1> HIDE DEF row
<1>4. CASE known[s]
  BY <1>2, <1>3, <1>4
<1>5. CASE ~known[s]
  BY <1>3, <1>5 DEF TypeOK
<1> QED
  BY <1>4, <1>5

LEMMA PresenceRemoved ==
  ASSUME TypeOK, NEW s \in Sockets, HandleDisconnect(s)
  PROVE  /\ refs' \in [Chats -> [Users -> Nat]]
         /\ \A c \in Chats, u \in Users :
              refs'[c][u] =
                IF known[s] /\ u = userOf[s]
                THEN Dropped(refs[c][u], (IF c \in site[s] THEN 1 ELSE 0)
                                           + (IF c \in joined[s] THEN 1 ELSE 0))
                ELSE refs[c][u]
<1> DEFINE times(c) == (IF c \in site[s] THEN 1 ELSE 0) + (IF c \in joined[s] THEN 1 ELSE 0)
           row(c) == [refs[c] EXCEPT ![userOf[s]] = Dropped(@, times(c))]
<1>1. userOf[s] \in Users /\ \A c \in Chats : refs[c] \in [Users -> Nat]
  BY UserAssumption DEF TypeOK
<1>2. ASSUME NEW c \in Chats
      PROVE  /\ row(c) \in [Users -> Nat]
             /\ \A u \in Users : row(c)[u] = IF u = userOf[s] THEN Dropped(refs[c][u], times(c))
                                                             ELSE refs[c][u]
  <2>1. times(c) \in Nat
    OBVIOUS
  <2> HIDE DEF times
  <2>2. \A n \in Nat : Dropped(n, times(c)) \in Nat
    BY <2>1 DEF Dropped
  <2> QED
    BY <1>1, <2>2
<1>3. refs' = IF known[s] THEN [c \in Chats |-> row(c)] ELSE refs
  BY DEF HandleDisconnect
<1> HIDE DEF row
<1>4. CASE known[s]
  BY <1>2, <1>3, <1>4
<1>5. CASE ~known[s]
  BY <1>3, <1>5 DEF TypeOK
<1> QED
  BY <1>4, <1>5

LEMMA PresenceLeft ==
  ASSUME TypeOK, NEW s \in Sockets, NEW c \in Chats, HandleLeave(s, c)
  PROVE  /\ refs' \in [Chats -> [Users -> Nat]]
         /\ \A d \in Chats, u \in Users :
              refs'[d][u] = IF known[s] /\ d = c /\ c \in joined[s] /\ u = userOf[s]
                            THEN Dropped(refs[d][u], 1) ELSE refs[d][u]
<1>1. userOf[s] \in Users /\ refs[c][userOf[s]] \in Nat
  BY UserAssumption DEF TypeOK
<1>2. Dropped(refs[c][userOf[s]], 1) \in Nat
  BY <1>1 DEF Dropped
<1>3. CASE known[s] /\ c \in joined[s]
  <2>1. refs' = [refs EXCEPT ![c][userOf[s]] = Dropped(@, 1)]
    BY <1>3 DEF HandleLeave
  <2> QED
    BY <1>1, <1>2, <1>3, <2>1 DEF TypeOK
<1>4. CASE ~(known[s] /\ c \in joined[s])
  BY <1>4 DEF HandleLeave, TypeOK
<1> QED
  BY <1>3, <1>4

-----------------------------------------------------------------------------

LEMMA TypeKept ==
  ASSUME TypeOK, [Next]_vars
  PROVE  TypeOK'
<1> USE DEF TypeOK
<1>1. ASSUME NEW s \in Sockets, HandleConnection(s)  PROVE TypeOK'
  BY <1>1 DEF HandleConnection
<1>2. ASSUME NEW s \in Sockets, ProfileLoaded(s)  PROVE TypeOK'
  BY <1>2 DEF ProfileLoaded
<1>3. ASSUME NEW s \in Sockets, ProfileMissing(s)  PROVE TypeOK'
  BY <1>3, UserAssumption DEF ProfileMissing
<1>4. ASSUME NEW s \in Sockets, ProfileFails(s)  PROVE TypeOK'
  BY <1>4 DEF ProfileFails
<1>5. ASSUME NEW s \in Sockets, NEW ids \in SUBSET Chats, RegisterSitePresence(s, ids)
      PROVE  TypeOK'
  <2>1. refs' \in [Chats -> [Users -> Nat]]
    BY <1>5, PresenceAdded DEF RegisterSitePresence
  <2>2. site' \in [Sockets -> SUBSET Chats]
    BY <1>5 DEF RegisterSitePresence
  <2> QED
    BY <1>5, <2>1, <2>2 DEF RegisterSitePresence
<1>6. ASSUME NEW s \in Sockets, RegistrationRefused(s)  PROVE TypeOK'
  BY <1>6 DEF RegistrationRefused
<1>7. ASSUME NEW s \in Sockets, HandleDisconnect(s)  PROVE TypeOK'
  <2>1. refs' \in [Chats -> [Users -> Nat]]
    BY <1>7, PresenceRemoved
  <2>2. torn' \in SUBSET Users
    BY <1>7, UserAssumption DEF HandleDisconnect
  <2> QED
    BY <1>7, <2>1, <2>2 DEF HandleDisconnect
<1>8. ASSUME NEW s \in Sockets, NEW c \in Chats, HandleJoin(s, c)  PROVE TypeOK'
  <2>1. joins' \in [JoinIds -> Join \cup {Idle}]
    <3>1. PICK j \in JoinIds : joins' = [joins EXCEPT ![j] = [sock |-> s, chat |-> c]]
      BY <1>8 DEF HandleJoin
    <3>2. [sock |-> s, chat |-> c] \in Join
      BY DEF Join
    <3> QED
      BY <3>1, <3>2
  <2> QED
    BY <1>8, <2>1 DEF HandleJoin
<1>9. ASSUME NEW s \in Sockets, NEW c \in Chats, HandleLeave(s, c)  PROVE TypeOK'
  <2>1. refs' \in [Chats -> [Users -> Nat]]
    BY <1>9, PresenceLeft
  <2>2. joined' \in [Sockets -> SUBSET Chats]
    BY <1>9 DEF HandleLeave
  <2>3. room' \in [Chats -> SUBSET Sockets]
    BY <1>9 DEF HandleLeave
  <2> QED
    BY <1>9, <2>1, <2>2, <2>3 DEF HandleLeave
<1>10. ASSUME NEW j \in JoinIds, JoinRefused(j)  PROVE TypeOK'
  BY <1>10 DEF JoinRefused, Finish
<1>11. ASSUME NEW j \in JoinIds, EnterRoom(j)  PROVE TypeOK'
  <2>1. joins[j].sock \in Sockets /\ joins[j].chat \in Chats
    BY <1>11 DEF EnterRoom, Join
  <2>2. refs' \in [Chats -> [Users -> Nat]]
    BY <1>11, <2>1, PresenceAdded DEF EnterRoom
  <2>3. room' \in [Chats -> SUBSET Sockets] /\ joined' \in [Sockets -> SUBSET Chats]
    BY <1>11, <2>1 DEF EnterRoom, SocketJoin
  <2> QED
    BY <1>11, <2>2, <2>3 DEF EnterRoom, Finish
<1>12. ASSUME Restart  PROVE TypeOK'
  BY <1>12 DEF Restart
<1>13. CASE UNCHANGED vars
  BY <1>13 DEF vars
<1> QED
  BY <1>1, <1>2, <1>3, <1>4, <1>5, <1>6, <1>7, <1>8, <1>9, <1>10, <1>11, <1>12, <1>13 DEF Next

LEMMA LifecycleKept ==
  ASSUME TypeOK, Lifecycle, JoinsAreOwned, [Next]_vars
  PROVE  Lifecycle'
<1> USE DEF TypeOK, Lifecycle
<1>1. ASSUME NEW s \in Sockets, HandleConnection(s)  PROVE Lifecycle'
  BY <1>1 DEF HandleConnection
<1>2. ASSUME NEW s \in Sockets, ProfileLoaded(s)  PROVE Lifecycle'
  BY <1>2 DEF ProfileLoaded
<1>3. ASSUME NEW s \in Sockets, ProfileMissing(s)  PROVE Lifecycle'
  BY <1>3 DEF ProfileMissing
<1>4. ASSUME NEW s \in Sockets, ProfileFails(s)  PROVE Lifecycle'
  BY <1>4 DEF ProfileFails
<1>5. ASSUME NEW s \in Sockets, NEW ids \in SUBSET Chats, RegisterSitePresence(s, ids)
      PROVE  Lifecycle'
  BY <1>5 DEF RegisterSitePresence
<1>6. ASSUME NEW s \in Sockets, RegistrationRefused(s)  PROVE Lifecycle'
  BY <1>6 DEF RegistrationRefused
<1>7. ASSUME NEW s \in Sockets, HandleDisconnect(s)  PROVE Lifecycle'
  BY <1>7 DEF HandleDisconnect, Live
<1>8. ASSUME NEW s \in Sockets, NEW c \in Chats, HandleJoin(s, c)  PROVE Lifecycle'
  BY <1>8 DEF HandleJoin
<1>9. ASSUME NEW s \in Sockets, NEW c \in Chats, HandleLeave(s, c)  PROVE Lifecycle'
  BY <1>9 DEF HandleLeave, Live
<1>10. ASSUME NEW j \in JoinIds, JoinRefused(j)  PROVE Lifecycle'
  BY <1>10 DEF JoinRefused
<1>11. ASSUME NEW j \in JoinIds, EnterRoom(j)  PROVE Lifecycle'
  <2>1. joins[j].sock \in Sockets /\ conn[joins[j].sock] # "fresh"
    BY <1>11 DEF EnterRoom, Join, JoinsAreOwned
  <2> QED
    BY <1>11, <2>1 DEF EnterRoom
<1>12. ASSUME Restart  PROVE Lifecycle'
  BY <1>12 DEF Restart
<1>13. CASE UNCHANGED vars
  BY <1>13 DEF vars
<1> QED
  BY <1>1, <1>2, <1>3, <1>4, <1>5, <1>6, <1>7, <1>8, <1>9, <1>10, <1>11, <1>12, <1>13 DEF Next

LEMMA JoinsKept ==
  ASSUME TypeOK, Lifecycle, JoinsAreOwned, [Next]_vars
  PROVE  JoinsAreOwned'
<1> SUFFICES ASSUME NEW j \in JoinIds, joins'[j] # Idle
             PROVE  /\ conn'[joins'[j].sock] # "fresh"
                    /\ conn'[joins'[j].sock] = "gone" /\ known'[joins'[j].sock]
                         => userOf[joins'[j].sock] \in torn'
  BY DEF JoinsAreOwned
<1> USE DEF TypeOK, JoinsAreOwned
\* Only handleJoin starts a join, on a connected socket; others keep theirs.
<1>1. CASE joins'[j] = joins[j]
  <2> DEFINE s == joins[j].sock
  <2>1. s \in Sockets /\ joins[j] # Idle
    BY <1>1 DEF Join
  <2>2. conn'[s] = "fresh" => conn[s] = "fresh"
    BY <2>1 DEF Next, HandleConnection, ProfileLoaded, ProfileMissing, ProfileFails,
                RegisterSitePresence, RegistrationRefused, HandleDisconnect, HandleJoin,
                HandleLeave, JoinRefused, EnterRoom, Restart, vars
  <2>3. ASSUME conn'[s] = "gone", known'[s]
        PROVE  userOf[s] \in torn'
    <3>1. CASE conn[s] = "gone" /\ known[s]
      <4>1. ~Restart
        BY <1>1, <2>1 DEF Restart
      <4>2. torn \subseteq torn'
        BY <4>1 DEF Next, HandleConnection, ProfileLoaded, ProfileMissing, ProfileFails,
                RegisterSitePresence, RegistrationRefused, HandleDisconnect, HandleJoin,
                HandleLeave, JoinRefused, EnterRoom, vars
      <4> QED
        BY <2>1, <3>1, <4>2
    <3>2. CASE ~(conn[s] = "gone" /\ known[s])
      <4>1. HandleDisconnect(s)
        <5>1. ~Restart
          BY <1>1, <2>1 DEF Restart
        <5>2. CASE conn[s] # "gone"
          <6>1. \/ UNCHANGED conn
                \/ \E m \in Sockets : HandleConnection(m) \/ HandleDisconnect(m)
            BY <5>1 DEF Next, ProfileLoaded, ProfileMissing, ProfileFails,
                   RegisterSitePresence, RegistrationRefused, HandleJoin, HandleLeave,
                   JoinRefused, EnterRoom, vars
          <6>2. \A m \in Sockets : HandleConnection(m) => conn'[s] \in {conn[s], "open"}
            BY <2>1 DEF HandleConnection
          <6>3. PICK m \in Sockets : HandleDisconnect(m)
            BY <2>3, <5>2, <6>1, <6>2
          <6>4. m = s
            BY <2>1, <2>3, <5>2, <6>3 DEF HandleDisconnect
          <6> QED
            BY <6>3, <6>4
        <5>3. CASE conn[s] = "gone" /\ ~known[s]
          <6>1. \/ known' = known
                \/ \E m \in Sockets : conn[m] = "fresh" /\ known' = [known EXCEPT ![m] = TRUE]
                \/ \E m \in Sockets : known' = [known EXCEPT ![m] = FALSE]
            BY DEF Next, HandleConnection, ProfileLoaded, ProfileMissing, ProfileFails,
                   RegisterSitePresence, RegistrationRefused, HandleDisconnect, HandleJoin,
                   HandleLeave, JoinRefused, EnterRoom, Restart, vars
          <6>2. ~known'[s]
            BY <2>1, <5>3, <6>1, Zenon
          <6> QED
            BY <2>3, <6>2
        <5> QED
          BY <3>2, <5>2, <5>3
      <4>2. Joining(s) /\ known[s]
        BY <2>1, <2>3, <4>1 DEF Joining, HandleDisconnect
      <4> QED
        BY <4>1, <4>2 DEF HandleDisconnect
    <3> QED
      BY <3>1, <3>2
  <2> QED
    BY <1>1, <2>1, <2>2, <2>3
<1>2. CASE joins'[j] # joins[j]
  <2>1. PICK s \in Sockets, c \in Chats : HandleJoin(s, c)
    BY <1>2 DEF Next, HandleConnection, ProfileLoaded, ProfileMissing, ProfileFails,
                RegisterSitePresence, RegistrationRefused, HandleDisconnect,
                HandleLeave, JoinRefused, EnterRoom, Finish, Restart, vars
  <2>2. joins'[j].sock = s /\ conn' = conn /\ conn[s] = "open"
    BY <1>2, <2>1 DEF HandleJoin, Live
  <2> QED
    BY <2>2
<1> QED
  BY <1>1, <1>2

LEMMA RoomsKept ==
  ASSUME TypeOK, Lifecycle, JoinsAreOwned, RoomIsTracked, [Next]_vars
  PROVE  RoomIsTracked'
<1> USE DEF TypeOK, RoomIsTracked, Live
<1>1. ASSUME NEW s \in Sockets, HandleConnection(s)  PROVE RoomIsTracked'
  BY <1>1 DEF HandleConnection
<1>2. ASSUME NEW s \in Sockets, ProfileLoaded(s)  PROVE RoomIsTracked'
  BY <1>2 DEF ProfileLoaded
<1>3. ASSUME NEW s \in Sockets, ProfileMissing(s)  PROVE RoomIsTracked'
  BY <1>3 DEF ProfileMissing
<1>4. ASSUME NEW s \in Sockets, ProfileFails(s)  PROVE RoomIsTracked'
  BY <1>4 DEF ProfileFails
<1>5. ASSUME NEW s \in Sockets, NEW ids \in SUBSET Chats, RegisterSitePresence(s, ids)
      PROVE  RoomIsTracked'
  <2>1. site[s] = {}
    BY <1>5 DEF RegisterSitePresence, Lifecycle
  <2> QED
    BY <1>5, <2>1 DEF RegisterSitePresence
<1>6. ASSUME NEW s \in Sockets, RegistrationRefused(s)  PROVE RoomIsTracked'
  BY <1>6 DEF RegistrationRefused
<1>7. ASSUME NEW s \in Sockets, HandleDisconnect(s)  PROVE RoomIsTracked'
  BY <1>7 DEF HandleDisconnect
<1>8. ASSUME NEW s \in Sockets, NEW c \in Chats, HandleJoin(s, c)  PROVE RoomIsTracked'
  BY <1>8 DEF HandleJoin
<1>9. ASSUME NEW s \in Sockets, NEW c \in Chats, HandleLeave(s, c)  PROVE RoomIsTracked'
  <2>1. \A d \in Chats : room'[d] = IF d = c THEN room[d] \ {s} ELSE room[d]
    BY <1>9 DEF HandleLeave
  <2>2. \A m \in Sockets : joined'[m] = joined[m] \/ (m = s /\ joined'[m] = joined[m] \ {c})
    BY <1>9 DEF HandleLeave
  <2>3. UNCHANGED <<conn, known, site>>
    BY <1>9 DEF HandleLeave
  <2>4. ASSUME NEW d \in Chats, NEW m \in room'[d]
        PROVE  Live(m)' /\ (known'[m] => d \in site'[m] \cup joined'[m])
    <3>1. m \in room[d] /\ m \in Sockets /\ (d = c => m # s)
      BY <2>1, <2>4
    <3> QED
      BY <2>2, <2>3, <3>1
  <2> QED
    BY <2>4
<1>10. ASSUME NEW j \in JoinIds, JoinRefused(j)  PROVE RoomIsTracked'
  BY <1>10 DEF JoinRefused
<1>11. ASSUME NEW j \in JoinIds, EnterRoom(j)  PROVE RoomIsTracked'
  <2> DEFINE s == joins[j].sock
             c == joins[j].chat
  <2>1. s \in Sockets /\ c \in Chats
    BY <1>11 DEF EnterRoom, Join
  <2>2. /\ c \in site[s] \cup joined'[s] 
        /\ \A m \in Sockets : joined[m] \subseteq joined'[m]
        /\ UNCHANGED <<conn, known, site>>
    BY <1>11, <2>1 DEF EnterRoom
  <2>3. \A d \in Chats : room'[d] = room[d] \/ (d = c /\ Live(s) /\ room'[d] = room[d] \cup {s})
    BY <1>11, <2>1 DEF EnterRoom, SocketJoin
  <2> QED
    BY <2>1, <2>2, <2>3
<1>12. ASSUME Restart  PROVE RoomIsTracked'
  BY <1>12 DEF Restart
<1>13. CASE UNCHANGED vars
  BY <1>13 DEF vars
<1> QED
  BY <1>1, <1>2, <1>3, <1>4, <1>5, <1>6, <1>7, <1>8, <1>9, <1>10, <1>11, <1>12, <1>13 DEF Next

-----------------------------------------------------------------------------
(* The counters agree with the sockets. *)

Agrees(c, u) ==
  /\ refs[c][u] >= References(c, u)
  /\ u \notin torn => refs[c][u] = References(c, u)

\* A step that moves no socket in or out of the counted ones moves no counter.
LEMMA NothingCounted ==
  ASSUME NEW c \in Chats, NEW u \in Users, Agrees(c, u),
         refs'[c][u] = refs[c][u], u \in torn => u \in torn',
         Sited(c, u)' = Sited(c, u), Entered(c, u)' = Entered(c, u)
  PROVE  Agrees(c, u)'
BY DEF Agrees, References

LEMMA CountsAreNumbers ==
  ASSUME TypeOK, NEW c \in Chats, NEW u \in Users
  PROVE  /\ refs[c][u] \in Nat
         /\ Cardinality(Sited(c, u)) \in Nat
         /\ Cardinality(Entered(c, u)) \in Nat
<1>1. Sited(c, u) \in SUBSET Sockets /\ Entered(c, u) \in SUBSET Sockets
  BY DEF Sited, Entered
<1> QED
  BY <1>1, SocketsAreCounted DEF TypeOK

\* The profile is gone: the user's other sockets keep their references.
LEMMA MissingProfile ==
  ASSUME TypeOK, Lifecycle, NEW c \in Chats, NEW u \in Users, Agrees(c, u),
         NEW s \in Sockets, ProfileMissing(s)
  PROVE  Agrees(c, u)'
<1>1. UNCHANGED <<conn, site, joined, refs>> /\ \A m \in Sockets : known'[m] = (known[m] /\ m # s)
  BY DEF ProfileMissing, TypeOK
<1>2. /\ Sited(c, u)' = Sited(c, u) \ {s}
      /\ Entered(c, u)' = Entered(c, u) \ {s}
  BY <1>1 DEF Sited, Entered, Counting, Live
<1>3. s \notin Sited(c, u)
  BY DEF ProfileMissing, Lifecycle, Sited
<1>4. Sited(c, u) \in SUBSET Sockets /\ Entered(c, u) \in SUBSET Sockets
  BY DEF Sited, Entered
<1>5. References(c, u)' \in Nat /\ References(c, u) \in Nat /\ References(c, u)' <= References(c, u)
  <2>1. /\ Cardinality(Sited(c, u)') = Cardinality(Sited(c, u))
        /\ Cardinality(Sited(c, u)) \in Nat
    BY <1>2, <1>3, <1>4, CountWithout
  <2>2. /\ Cardinality(Entered(c, u)') <= Cardinality(Entered(c, u))
        /\ Cardinality(Entered(c, u)') \in Nat /\ Cardinality(Entered(c, u)) \in Nat
    BY <1>2, <1>4, CountWithout
  <2> QED
    BY <2>1, <2>2 DEF References
<1>6. u \notin torn' => u \notin torn /\ s \notin Entered(c, u)
  BY DEF ProfileMissing, Entered
<1>7. s \notin Entered(c, u) => References(c, u)' = References(c, u)
  <2> SUFFICES ASSUME s \notin Entered(c, u)
               PROVE  References(c, u)' = References(c, u)
    OBVIOUS
  <2>1. Entered(c, u)' = Entered(c, u) /\ Sited(c, u)' = Sited(c, u)
    BY <1>2, <1>3
  <2> QED
    BY <2>1 DEF References
<1>8. refs[c][u] \in Nat /\ refs'[c][u] = refs[c][u]
  BY <1>1 DEF TypeOK
<1> QED
  BY <1>5, <1>6, <1>7, <1>8 DEF Agrees

LEMMA Registered ==
  ASSUME TypeOK, Lifecycle, NEW c \in Chats, NEW u \in Users, Agrees(c, u),
         NEW s \in Sockets, NEW ids \in SUBSET Chats, RegisterSitePresence(s, ids)
  PROVE  Agrees(c, u)'
<1>1. /\ UNCHANGED <<conn, known, joined, torn>>
      /\ \A m \in Sockets : site'[m] = IF m = s THEN ids ELSE site[m]
  BY DEF RegisterSitePresence, TypeOK
<1>2. refs'[c][u] = IF known[s] /\ c \in ids /\ u = userOf[s] THEN refs[c][u] + 1 ELSE refs[c][u]
  BY PresenceAdded DEF RegisterSitePresence
<1>3. Entered(c, u)' = Entered(c, u)
  BY <1>1 DEF Entered, Counting, Live
<1>4. s \notin Sited(c, u) /\ Sited(c, u) \in SUBSET Sockets
  BY DEF RegisterSitePresence, Lifecycle, Sited
<1>5. CASE c \in ids /\ u = userOf[s] /\ Counting(s)
  <2>1. Sited(c, u)' = Sited(c, u) \cup {s}
    BY <1>1, <1>5 DEF Sited, Counting, Live
  <2>2. Cardinality(Sited(c, u)') = Cardinality(Sited(c, u)) + 1
    BY <1>4, <2>1, CountSockets
  <2> QED
    BY <1>1, <1>2, <1>3, <1>5, <2>2, CountsAreNumbers DEF Agrees, References, Counting
<1>6. CASE ~(c \in ids /\ u = userOf[s] /\ Counting(s))
  <2>1. Sited(c, u)' = Sited(c, u)
    BY <1>1, <1>4, <1>6 DEF Sited, Counting, Live
  <2>2. refs'[c][u] = refs[c][u] \/ (refs'[c][u] = refs[c][u] + 1 /\ u \in torn)
    <3> SUFFICES ASSUME known[s], c \in ids, u = userOf[s]
                 PROVE  u \in torn
      BY <1>2
    <3>1. setup[s] = "pending" /\ conn[s] # "open"
      BY <1>6 DEF RegisterSitePresence, Counting, Live
    <3>2. conn[s] = "gone"
      BY <3>1 DEF Lifecycle, TypeOK
    <3> QED
      BY <3>1, <3>2 DEF Lifecycle
  <2> QED
    BY <1>1, <1>3, <2>1, <2>2, CountsAreNumbers DEF Agrees, References
<1> QED
  BY <1>5, <1>6

LEMMA Disconnected ==
  ASSUME TypeOK, Lifecycle, NEW c \in Chats, NEW u \in Users, Agrees(c, u),
         NEW s \in Sockets, HandleDisconnect(s)
  PROVE  Agrees(c, u)'
<1>1. /\ UNCHANGED <<known, site, joined>> /\ torn \subseteq torn' /\ conn[s] = "open"
      /\ \A m \in Sockets : conn'[m] = IF m = s THEN "gone" ELSE conn[m]
  BY DEF HandleDisconnect, TypeOK, Live
<1>2. Sited(c, u)' = Sited(c, u) \ {s} /\ Entered(c, u)' = Entered(c, u) \ {s}
  BY <1>1 DEF Sited, Entered, Counting, Live
<1>3. CASE known[s] /\ u = userOf[s]
  <2> DEFINE inSite == IF c \in site[s] THEN 1 ELSE 0
             inJoined == IF c \in joined[s] THEN 1 ELSE 0
  <2>1. (s \in Sited(c, u) <=> c \in site[s]) /\ (s \in Entered(c, u) <=> c \in joined[s])
    BY <1>1, <1>3 DEF Sited, Entered, Counting, Live
  <2>2. Sited(c, u) \in SUBSET Sockets /\ Entered(c, u) \in SUBSET Sockets
    BY DEF Sited, Entered
  <2>3. /\ Cardinality(Sited(c, u)') = Cardinality(Sited(c, u)) - inSite
        /\ Cardinality(Sited(c, u)') \in Nat
    BY <1>2, <2>1, <2>2, CountWithout
  <2>4. /\ Cardinality(Entered(c, u)') = Cardinality(Entered(c, u)) - inJoined
        /\ Cardinality(Entered(c, u)') \in Nat
    BY <1>2, <2>1, <2>2, CountWithout
  <2>5. refs'[c][u] = Dropped(refs[c][u], inSite + inJoined)
    BY <1>3, PresenceRemoved
  <2>6. inSite \in {0, 1} /\ inJoined \in {0, 1}
    OBVIOUS
  <2> HIDE DEF inSite, inJoined
  <2>7. refs[c][u] >= inSite + inJoined
    BY <2>3, <2>4, <2>6, CountsAreNumbers DEF Agrees, References
  <2>8. refs'[c][u] = refs[c][u] - (inSite + inJoined)
    BY <2>5, <2>6, <2>7, CountsAreNumbers DEF Dropped
  <2> QED
    BY <1>1, <2>3, <2>4, <2>6, <2>8, CountsAreNumbers DEF Agrees, References
<1>4. CASE ~(known[s] /\ u = userOf[s])
  <2>1. s \notin Sited(c, u) /\ s \notin Entered(c, u)
    BY <1>4 DEF Sited, Entered, Counting
  <2>2. refs'[c][u] = refs[c][u]
    BY <1>4, PresenceRemoved
  <2> QED
    BY <1>1, <1>2, <2>1, <2>2, NothingCounted
<1> QED
  BY <1>3, <1>4

LEMMA RoomEntered ==
  ASSUME TypeOK, JoinsAreOwned, NEW c \in Chats, NEW u \in Users, Agrees(c, u),
         NEW j \in JoinIds, EnterRoom(j)
  PROVE  Agrees(c, u)'
<1> DEFINE s == joins[j].sock
           d == joins[j].chat
           counted == IF d \in joined[s] \cup site[s] THEN {} ELSE {d}
<1>1. s \in Sockets /\ d \in Chats /\ joins[j] # Idle
  BY DEF EnterRoom, TypeOK, Join
<1>2. /\ UNCHANGED <<conn, known, site, torn>>
      /\ \A m \in Sockets : joined'[m] = IF m = s THEN joined[s] \cup counted ELSE joined[m]
  BY <1>1 DEF EnterRoom, TypeOK
<1>3. AddPresence(counted, s)
  BY DEF EnterRoom
<1> HIDE DEF counted
<1>4. refs'[c][u] = IF known[s] /\ c \in counted /\ u = userOf[s] THEN refs[c][u] + 1 ELSE refs[c][u]
  BY <1>1, <1>3, PresenceAdded
<1>5. c \in counted => c \notin joined[s]
  BY DEF counted
<1>6. Sited(c, u)' = Sited(c, u)
  BY <1>2 DEF Sited, Counting, Live
<1>7. s \in Entered(c, u) => c \in joined[s]
  BY DEF Entered
<1>8. Entered(c, u) \in SUBSET Sockets
  BY DEF Entered
<1>9. CASE c \in counted /\ u = userOf[s] /\ Counting(s)
  <2>1. Entered(c, u)' = Entered(c, u) \cup {s}
    BY <1>1, <1>2, <1>9 DEF Entered, Counting, Live
  <2>2. Cardinality(Entered(c, u)') = Cardinality(Entered(c, u)) + 1
    BY <1>1, <1>5, <1>7, <1>8, <1>9, <2>1, CountSockets
  <2> QED
    BY <1>2, <1>4, <1>6, <1>9, <2>2, CountsAreNumbers DEF Agrees, References, Counting
<1>10. CASE ~(c \in counted /\ u = userOf[s] /\ Counting(s))
  <2>1. Entered(c, u)' = Entered(c, u)
    BY <1>1, <1>2, <1>10 DEF Entered, Counting, Live
  <2>2. refs'[c][u] = refs[c][u] \/ (refs'[c][u] = refs[c][u] + 1 /\ u \in torn)
    <3> SUFFICES ASSUME known[s], c \in counted, u = userOf[s]
                 PROVE  u \in torn
      BY <1>4
    <3>1. conn[s] = "gone"
      BY <1>1, <1>10 DEF Counting, Live, JoinsAreOwned, TypeOK
    <3> QED
      BY <1>1, <3>1 DEF JoinsAreOwned
  <2> QED
    BY <1>2, <1>6, <2>1, <2>2, CountsAreNumbers DEF Agrees, References
<1> QED
  BY <1>9, <1>10

LEMMA RoomLeft ==
  ASSUME TypeOK, NEW c \in Chats, NEW u \in Users, Agrees(c, u),
         NEW s \in Sockets, NEW d \in Chats, HandleLeave(s, d)
  PROVE  Agrees(c, u)'
<1>1. /\ UNCHANGED <<conn, known, site, torn>> /\ conn[s] = "open"
      /\ \A m \in Sockets :
           joined'[m] = IF m = s /\ known[s] /\ d \in joined[s] THEN joined[s] \ {d}
                        ELSE joined[m]
  BY DEF HandleLeave, TypeOK, Live
<1>2. refs'[c][u] = IF known[s] /\ c = d /\ d \in joined[s] /\ u = userOf[s]
                    THEN Dropped(refs[c][u], 1) ELSE refs[c][u]
  BY PresenceLeft
<1>3. Sited(c, u)' = Sited(c, u)
  BY <1>1 DEF Sited, Counting, Live
<1>4. CASE known[s] /\ c = d /\ d \in joined[s] /\ u = userOf[s]
  <2>1. Entered(c, u)' = Entered(c, u) \ {s} /\ s \in Entered(c, u)
    BY <1>1, <1>4 DEF Entered, Counting, Live
  <2>2. Entered(c, u) \in SUBSET Sockets
    BY DEF Entered
  <2>3. /\ Cardinality(Entered(c, u)') = Cardinality(Entered(c, u)) - 1
        /\ Cardinality(Entered(c, u)') \in Nat
    BY <2>1, <2>2, CountSockets
  <2>4. refs[c][u] >= 1
    BY <2>3, CountsAreNumbers DEF Agrees, References
  <2>5. refs'[c][u] = refs[c][u] - 1
    BY <1>2, <1>4, <2>4, CountsAreNumbers DEF Dropped
  <2> QED
    BY <1>1, <1>3, <2>3, <2>5, CountsAreNumbers DEF Agrees, References
<1>5. CASE ~(known[s] /\ c = d /\ d \in joined[s] /\ u = userOf[s])
  <2>1. Entered(c, u)' = Entered(c, u)
    BY <1>1, <1>5 DEF Entered, Counting, Live
  <2> QED
    BY <1>1, <1>2, <1>3, <1>5, <2>1, NothingCounted
<1> QED
  BY <1>4, <1>5

LEMMA Restarted ==
  ASSUME TypeOK, NEW c \in Chats, NEW u \in Users, Restart
  PROVE  Agrees(c, u)'
<1>1. \A m \in Sockets : conn'[m] # "open"
  BY DEF Restart, TypeOK
<1>2. Sited(c, u)' = {} /\ Entered(c, u)' = {}
  BY <1>1 DEF Sited, Entered, Counting, Live
<1>3. refs'[c][u] = 0
  BY DEF Restart
<1> QED
  BY <1>2, <1>3, NoSockets DEF Agrees, References

LEMMA CountersKept ==
  ASSUME TypeOK, Lifecycle, JoinsAreOwned, NEW c \in Chats, NEW u \in Users, Agrees(c, u),
         [Next]_vars
  PROVE  Agrees(c, u)'
<1>1. ASSUME NEW s \in Sockets, HandleConnection(s)  PROVE Agrees(c, u)'
  <2>1. site[s] = {} /\ joined[s] = {}
    BY <1>1 DEF HandleConnection, Lifecycle
  <2>2. /\ UNCHANGED <<site, joined, refs, torn>>
        /\ \A m \in Sockets \ {s} : conn'[m] = conn[m] /\ known'[m] = known[m]
    BY <1>1 DEF HandleConnection, TypeOK
  <2>3. Sited(c, u)' = Sited(c, u) /\ Entered(c, u)' = Entered(c, u)
    BY <2>1, <2>2 DEF Sited, Entered, Counting, Live
  <2> QED
    BY <2>2, <2>3, NothingCounted
<1>2. ASSUME UNCHANGED <<conn, known, site, joined, refs>>, torn \subseteq torn'
      PROVE  Agrees(c, u)'
  <2>1. Sited(c, u)' = Sited(c, u) /\ Entered(c, u)' = Entered(c, u)
    BY <1>2 DEF Sited, Entered, Counting, Live
  <2> QED
    BY <1>2, <2>1, NothingCounted
<1>3. ASSUME NEW s \in Sockets, ProfileLoaded(s)  PROVE Agrees(c, u)'
  BY <1>2, <1>3 DEF ProfileLoaded
<1>4. ASSUME NEW s \in Sockets, ProfileMissing(s)  PROVE Agrees(c, u)'
  BY <1>4, MissingProfile
<1>5. ASSUME NEW s \in Sockets, ProfileFails(s)  PROVE Agrees(c, u)'
  BY <1>2, <1>5 DEF ProfileFails
<1>6. ASSUME NEW s \in Sockets, NEW ids \in SUBSET Chats, RegisterSitePresence(s, ids)
      PROVE  Agrees(c, u)'
  BY <1>6, Registered
<1>7. ASSUME NEW s \in Sockets, RegistrationRefused(s)  PROVE Agrees(c, u)'
  BY <1>2, <1>7 DEF RegistrationRefused
<1>8. ASSUME NEW s \in Sockets, HandleDisconnect(s)  PROVE Agrees(c, u)'
  BY <1>8, Disconnected
<1>9. ASSUME NEW s \in Sockets, NEW d \in Chats, HandleJoin(s, d)  PROVE Agrees(c, u)'
  BY <1>2, <1>9 DEF HandleJoin
<1>10. ASSUME NEW s \in Sockets, NEW d \in Chats, HandleLeave(s, d)  PROVE Agrees(c, u)'
  BY <1>10, RoomLeft
<1>11. ASSUME NEW j \in JoinIds, JoinRefused(j)  PROVE Agrees(c, u)'
  BY <1>2, <1>11 DEF JoinRefused
<1>12. ASSUME NEW j \in JoinIds, EnterRoom(j)  PROVE Agrees(c, u)'
  BY <1>12, RoomEntered
<1>13. CASE Restart
  BY <1>13, Restarted
<1>14. CASE UNCHANGED vars
  BY <1>2, <1>14 DEF vars
<1> QED
  BY <1>1, <1>3, <1>4, <1>5, <1>6, <1>7, <1>8, <1>9, <1>10, <1>11, <1>12, <1>13, <1>14 DEF Next

LEMMA ReferencesKept ==
  ASSUME IInv, [Next]_vars
  PROVE  ReferencesAreCovered' /\ OnlyTornHandlersLeaveGhosts'
<1>1. ASSUME NEW c \in Chats, NEW u \in Users
      PROVE  Agrees(c, u)'
  <2>1. Agrees(c, u)
    BY DEF IInv, ReferencesAreCovered, OnlyTornHandlersLeaveGhosts, Agrees
  <2> QED
    BY <2>1, CountersKept DEF IInv
<1> QED
  BY <1>1 DEF Agrees, ReferencesAreCovered, OnlyTornHandlersLeaveGhosts

-----------------------------------------------------------------------------
(* The theorems. *)

LEMMA Inductive == Spec => []IInv
<1>1. Init => IInv
  <2> SUFFICES ASSUME Init PROVE IInv
    OBVIOUS
  <2>1. TypeOK /\ Lifecycle /\ JoinsAreOwned /\ RoomIsTracked
    BY DEF Init, TypeOK, Lifecycle, JoinsAreOwned, RoomIsTracked
  <2>2. ASSUME NEW c \in Chats, NEW u \in Users
        PROVE  References(c, u) = 0 /\ refs[c][u] = 0
    <3>1. Sited(c, u) = {} /\ Entered(c, u) = {} /\ refs[c][u] = 0
      BY DEF Init, Sited, Entered, Counting, Live
    <3> QED
      BY <3>1, NoSockets DEF References
  <2> QED
    BY <2>1, <2>2 DEF IInv, ReferencesAreCovered, OnlyTornHandlersLeaveGhosts
<1>2. IInv /\ [Next]_vars => IInv'
  BY TypeKept, LifecycleKept, JoinsKept, RoomsKept, ReferencesKept DEF IInv
<1> QED
  BY <1>1, <1>2, PTL DEF Spec

\* The counters are numbers and the maps stay within the sockets, rooms and
\* users there are.
THEOREM TypeCorrect == Spec => []TypeOK
BY Inductive, PTL DEF IInv

\* Nobody goes offline while one of their sockets still counts, whichever tabs
\* close, leave or join meanwhile.
THEOREM NobodyDroppedEarly == Spec => []ReferencesAreCovered
BY Inductive, PTL DEF IInv

\* Ghosts come only from sockets that went away in the middle of a handler.
THEOREM GhostsAreTorn == Spec => []OnlyTornHandlersLeaveGhosts
BY Inductive, PTL DEF IInv

\* Whoever is in a room is listed as online there.
THEOREM MembersListed == Spec => []RoomMembersAreOnline
<1>1. IInv => RoomMembersAreOnline
  <2> SUFFICES ASSUME IInv, NEW c \in Chats, NEW s \in room[c], Counting(s)
               PROVE  refs[c][userOf[s]] > 0
    BY DEF RoomMembersAreOnline
  <2> DEFINE u == userOf[s]
  <2>1. s \in Sockets /\ u \in Users
    BY UserAssumption DEF IInv, TypeOK
  <2>2. s \in Sited(c, u) \/ s \in Entered(c, u)
    BY <2>1 DEF IInv, RoomIsTracked, Counting, Sited, Entered
  <2>3. Sited(c, u) \in SUBSET Sockets /\ Entered(c, u) \in SUBSET Sockets
    BY DEF Sited, Entered
  <2>4. /\ s \in Sited(c, u) => Cardinality(Sited(c, u)) >= 1
        /\ s \in Entered(c, u) => Cardinality(Entered(c, u)) >= 1
    <3>1. s \in Sited(c, u) => Cardinality(Sited(c, u)) - 1 \in Nat
      BY <2>1, <2>3, CountWithout
    <3>2. s \in Entered(c, u) => Cardinality(Entered(c, u)) - 1 \in Nat
      BY <2>1, <2>3, CountWithout
    <3> QED
      BY <2>3, <3>1, <3>2, SocketsAreCounted
  <2>5. References(c, u) >= 1
    BY <2>1, <2>2, <2>4, CountsAreNumbers DEF References, IInv
  <2>6. refs[c][u] >= References(c, u) /\ References(c, u) \in Nat
    BY <2>1, CountsAreNumbers DEF IInv, ReferencesAreCovered, References
  <2> QED
    BY <2>1, <2>5, <2>6, CountsAreNumbers DEF IInv
<1> QED
  BY <1>1, Inductive, PTL
=============================================================================
