--------------------------- MODULE ChatRoomProofs ---------------------------
(***************************************************************************)
(* What a page shows of a chat room once everything has come to rest, for   *)
(* any number of rooms, messages, writers, joins and lost connections and   *)
(* any limit of a history.                                                  *)
(***************************************************************************)
EXTENDS ChatRoom, FiniteSetTheorems, WellFoundedInduction, TLAPS

-----------------------------------------------------------------------------
(* Which room the page hears. *)

NoJoin == \A j \in JoinIds : joins[j] = Idle
IsAnswer(i) == down[i].type \in {"history", "error"}
LastAnswer(i) == i \in DOMAIN down /\ IsAnswer(i) /\ \A n \in DOMAIN down : n > i => ~IsAnswer(n)

\* A lost connection leaves nothing behind.
OfflineIsEmpty ==
  conn = "down" => inRooms = {} /\ down = <<>> /\ NoJoin /\ filled = "no"

\* As long as the page waits for its answers, it asks for one room at a time.
OneRoomAtATime ==
  ~hasty =>
    /\ resolves \subseteq {route}
    /\ ~stranded /\ resolves = {} => chatId = route
    /\ inRooms \subseteq {chatId}
    /\ \A j \in JoinIds : joins[j] # Idle => joins[j].chat = chatId
    /\ \A j, k \in JoinIds : joins[j] # Idle /\ joins[k] # Idle => j = k

\* The same of older messages.
OnePageAtATime ==
  ~hasty =>
    /\ \A p \in PageIds : pages[p] # Idle =>
         pages[p].chat = chatId /\ loading
    /\ \A p, q \in PageIds : pages[p] # Idle /\ pages[q] # Idle => p = q

\* A page that is connected has entered its room or is about to, is answered
\* about it or will be, and of several answers that of its room comes last:
\* unless an answer never came.
RoomIsJoined ==
  ~hasty /\ ~stranded /\ conn = "up" /\ chatId # None =>
    /\ chatId \in inRooms \/ \E j \in JoinIds : joins[j] # Idle /\ joins[j].at = "enter"
    /\ filled = "no" /\ chatId = route =>
         ~NoJoin \/ \E i \in DOMAIN down : IsAnswer(i) /\ down[i].chat = route
    /\ NoJoin => \A i \in DOMAIN down : LastAnswer(i) => down[i].chat = chatId

HearInv == TypeOK /\ OfflineIsEmpty /\ OneRoomAtATime /\ OnePageAtATime /\ RoomIsJoined

-----------------------------------------------------------------------------
(* Sets of numbers in their order, and lists kept at some positions.         *)

Increasing(e) == \A i, j \in DOMAIN e : i < j => e[i] < e[j]

LEMMA LeastNat ==
  ASSUME NEW T \in SUBSET Nat, T # {}
  PROVE  \E x \in T : \A y \in T : x <= y
<1> DEFINE Less == OpToRel(<, Nat)
<1>1. IsWellFoundedOn(Less, Nat)
  BY NatLessThanWellFounded
<1>2. \A x, y \in Nat : x < y => <<x, y>> \in Less
  BY DEF OpToRel
<1> HIDE DEF Less
<1>3. PICK x \in T : \A y \in T : ~(<<y, x>> \in Less)
  BY <1>1, WFMin
<1>4. ASSUME NEW y \in T
      PROVE  x <= y
  <2>1. x \in Nat /\ y \in Nat
    OBVIOUS
  <2>2. ~(y < x)
    BY <1>2, <1>3, <2>1, Zenon
  <2> QED
    BY <2>1, <2>2
<1> QED
  BY <1>4

LEMMA OneMore ==
  ASSUME NEW c \in Nat, NEW k \in Nat, NEW U \in SUBSET (1..(k - 1)), NEW d \in [1..c -> U],
         \A i, j \in 1..c : i < j => d[i] < d[j]
  PROVE  \E e \in [1..(c + 1) -> U \cup {k}] :
           \A i, j \in 1..(c + 1) : i < j => e[i] < e[j]
<1> DEFINE e == [i \in 1..(c + 1) |-> IF i <= c THEN d[i] ELSE k]
<1>1. \A i \in 1..c : d[i] \in 1..(k - 1)
  OBVIOUS
<1>2. \A i \in 1..(c + 1) : IF i <= c THEN e[i] = d[i] ELSE e[i] = k
  OBVIOUS
<1>3. e \in [1..(c + 1) -> U \cup {k}]
  OBVIOUS
<1>4. ASSUME NEW i \in 1..(c + 1), NEW j \in 1..(c + 1), i < j
      PROVE  e[i] < e[j]
  <2>1. i \in 1..c /\ e[i] = d[i]
    BY <1>2, <1>4
  <2> HIDE DEF e
  <2>2. CASE j <= c
    <3>1. j \in 1..c /\ e[j] = d[j]
      BY <1>2, <2>2
    <3> QED
      BY <1>4, <2>1, <3>1
  <2>3. CASE ~(j <= c)
    <3>1. e[j] = k
      BY <1>2, <2>3
    <3> QED
      BY <1>1, <2>1, <3>1
  <2> QED
    BY <2>2, <2>3
<1> QED
  BY <1>3, <1>4

\* Every set of numbers up to n has its members in order.
LEMMA OrderExists ==
  ASSUME NEW n \in Nat, NEW S \in SUBSET (1..n)
  PROVE  \E e \in [1..Cardinality(S) -> S] : Increasing(e)
<1> DEFINE Ordered(T) == \E e \in [1..Cardinality(T) -> T] : Increasing(e)
           Bad == {k \in Nat : \E T \in SUBSET (1..k) : ~Ordered(T)}
<1>1. SUFFICES ASSUME Bad # {}
               PROVE  FALSE
  <2>1. n \notin Bad
    BY <1>1
  <2> HIDE DEF Ordered
  <2>2. Ordered(S)
    BY <2>1
  <2> QED
    BY <2>2 DEF Ordered
<1>2. Bad \in SUBSET Nat
  OBVIOUS
<1> HIDE DEF Bad
<1>3. PICK k \in Bad : \A j \in Bad : k <= j
  BY <1>1, <1>2, LeastNat
<1>4. PICK T \in SUBSET (1..k) : ~Ordered(T)
  <2> HIDE DEF Ordered
  <2> QED
    BY <1>3 DEF Bad
<1>5. k \in Nat
  BY <1>2, <1>3
<1>6. CASE k = 0
  <2>1. T = {}
    BY <1>6
  <2>2. Cardinality(T) = 0
    BY <2>1, FS_EmptySet
  <2>3. <<>> \in [1..Cardinality(T) -> T] /\ Increasing(<<>>)
    BY <2>1, <2>2 DEF Increasing
  <2> QED
    BY <1>4, <2>3
<1>7. CASE k # 0
  <2>1. k - 1 \in Nat /\ k - 1 \notin Bad
    <3>1. k - 1 \in Nat /\ ~(k <= k - 1)
      BY <1>5, <1>7
    <3> QED
      BY <1>3, <3>1
  <2> DEFINE U == T \ {k}
  <2>2. U \in SUBSET (1..(k - 1))
    BY <1>4, <1>5
  <2>3. Ordered(U)
    <3> HIDE DEF Ordered, U
    <3> QED
      BY <2>1, <2>2 DEF Bad
  <2>4. PICK d \in [1..Cardinality(U) -> U] : Increasing(d)
    BY <2>3
  <2>5. IsFiniteSet(T) /\ IsFiniteSet(U)
    <3>1. IsFiniteSet(1..k)
      BY <1>5, FS_Interval
    <3> QED
      BY <1>4, <3>1, FS_Subset
  <2>6. CASE k \notin T
    <3>1. U = T
      BY <2>6
    <3> QED
      BY <1>4, <2>3, <3>1
  <2>7. CASE k \in T
    <3> DEFINE c == Cardinality(U)
    <3>1. c \in Nat /\ Cardinality(T) = c + 1
      <4>1. Cardinality(T \ {k}) = Cardinality(T) - 1
        BY <2>5, <2>7, FS_RemoveElement
      <4>2. Cardinality(T) \in Nat /\ Cardinality(U) \in Nat
        BY <2>5, FS_CardinalityType
      <4> QED
        BY <4>1, <4>2
    <3>2. \A i \in 1..c : d[i] \in U /\ d[i] \in 1..(k - 1)
      BY <2>2, <2>4
    <3>3. \A i, j \in 1..c : i < j => d[i] < d[j]
      BY <2>4, Zenon DEF Increasing
    <3>4. PICK e \in [1..(c + 1) -> U \cup {k}] : \A i, j \in 1..(c + 1) : i < j => e[i] < e[j]
      <4> HIDE DEF U, c, Ordered
      <4> QED
        BY <1>5, <1>7, <2>2, <3>1, <3>2, <3>3, OneMore DEF c
    <3>5. e \in [1..Cardinality(T) -> T] /\ Increasing(e)
      BY <2>7, <3>1, <3>4, Zenon DEF Increasing
    <3> QED
      BY <1>4, <3>5
  <2> QED
    BY <2>6, <2>7
<1> QED
  BY <1>6, <1>7

LEMMA InOrderSound ==
  ASSUME NEW n \in Nat, NEW S \in SUBSET (1..n)
  PROVE  /\ Cardinality(S) \in Nat /\ InOrder(S) \in [1..Cardinality(S) -> S]
         /\ \A i, j \in 1..Cardinality(S) : i < j => InOrder(S)[i] < InOrder(S)[j]
         /\ \A x \in S : \E i \in 1..Cardinality(S) : InOrder(S)[i] = x
<1>1. IsFiniteSet(S)
  <2>1. IsFiniteSet(1..n)
    BY FS_Interval
  <2> QED
    BY <2>1, FS_Subset
<1>2. Cardinality(S) \in Nat
  BY <1>1, FS_CardinalityType
<1> DEFINE e == InOrder(S)
           c == Cardinality(S)
<1>3. e \in [1..c -> S] /\ Increasing(e)
  BY OrderExists, Zenon DEF InOrder, Increasing
<1>4. \A i, j \in 1..c : i < j => e[i] < e[j]
  BY <1>3, Zenon DEF Increasing
<1>5. IsFiniteSet(1..c) /\ Cardinality(1..c) = c
  BY <1>2, FS_Interval
<1> HIDE DEF e
<1>6. \A i, j \in 1..c : e[i] = e[j] => i = j
  <2> SUFFICES ASSUME NEW i \in 1..c, NEW j \in 1..c, i # j
               PROVE  e[i] # e[j]
    OBVIOUS
  <2>1. i < j \/ j < i
    BY <1>2
  <2>2. e[i] \in 1..n /\ e[j] \in 1..n
    BY <1>3
  <2> QED
    BY <1>4, <2>1, <2>2
<1>7. e \in Injection(1..c, S)
  BY <1>3, <1>6 DEF Injection, IsInjective
<1>8. e \in Surjection(1..c, S)
  BY <1>1, <1>5, <1>7, FS_Injection
<1>9. \A x \in S : \E i \in 1..c : e[i] = x
  BY <1>8 DEF Surjection
<1> QED
  BY <1>2, <1>3, <1>4, <1>9 DEF e

\* A list kept at some positions has the entries of these, in their order.
LEMMA KeptSound ==
  ASSUME NEW A, NEW s \in Seq(A), NEW I \in SUBSET (DOMAIN s)
  PROVE  /\ Kept(s, I) \in Seq(A)
         /\ \E e \in [DOMAIN Kept(s, I) -> I] :
              /\ \A n \in DOMAIN Kept(s, I) : Kept(s, I)[n] = s[e[n]]
              /\ \A i, j \in DOMAIN Kept(s, I) : i < j => e[i] < e[j]
              /\ \A i \in I : \E n \in DOMAIN Kept(s, I) : e[n] = i
<1> DEFINE e == InOrder(I)
           c == Cardinality(I)
           k == Kept(s, I)
<1>1. Len(s) \in Nat /\ I \in SUBSET (1..Len(s))
  OBVIOUS
<1>2. /\ c \in Nat /\ e \in [1..c -> I] /\ \A i, j \in 1..c : i < j => e[i] < e[j]
      /\ \A x \in I : \E i \in 1..c : e[i] = x
  BY <1>1, InOrderSound
<1>3. k = [n \in DOMAIN e |-> s[e[n]]]
  BY DEF Kept
<1> HIDE DEF e, c, k
<1>4. k = [n \in 1..c |-> s[e[n]]]
  BY <1>2, <1>3
<1>5. \A n \in 1..c : s[e[n]] \in A
  BY <1>1, <1>2
<1>6. k \in [1..c -> A] /\ DOMAIN k = 1..c
  BY <1>4, <1>5
<1>7. k \in Seq(A)
  BY <1>2, <1>6
<1>8. e \in [DOMAIN k -> I] /\ \A n \in DOMAIN k : k[n] = s[e[n]]
  BY <1>2, <1>4, <1>6
<1>9. \A i, j \in DOMAIN k : i < j => e[i] < e[j]
  BY <1>2, <1>6
<1>10. \A i \in I : \E n \in DOMAIN k : e[n] = i
  BY <1>2, <1>6
<1> QED
  BY <1>7, <1>8, <1>9, <1>10, Zenon DEF k

RowsOK == rows \in [MsgIds -> Row \cup {None}]

LEMMA EntryOfType ==
  ASSUME RowsOK, NEW m \in MsgIds, rows[m] # None
  PROVE  EntryOf(m) \in Entry /\ EntryOf(m).id = m
BY DEF RowsOK, EntryOf, Entry, Row

\* What the table answers: the newest messages before a message, in order.
LEMMA MessagesSound ==
  ASSUME RowsOK, NEW c, NEW before \in Nat
  PROVE  LET L == Messages(c, before) IN
         /\ L \in Seq(Entry)
         /\ \A i, j \in DOMAIN L : i < j => L[i].id < L[j].id
         /\ \A i \in DOMAIN L : /\ L[i].id < before /\ Visible(L[i].id)
                                /\ rows[L[i].id].chat = c /\ L[i] = EntryOf(L[i].id)
         /\ \A m \in MsgIds : Visible(m) /\ rows[m].chat = c /\ m < before =>
              L # <<>> /\ (L[1].id <= m => Shows(L, m))
<1> DEFINE S == {m \in MsgIds : m < before /\ Visible(m) /\ rows[m].chat = c}
           all == InOrder(S)
           n == Cardinality(S)
           skip == IF n > Limit THEN n - Limit ELSE 0
           L == Messages(c, before)
<1>1. MaxMsgs \in Nat /\ S \in SUBSET (1..MaxMsgs) /\ Limit \in Nat \ {0}
  BY BoundsAssumption DEF MsgIds
<1>2. /\ n \in Nat /\ all \in [1..n -> S] /\ \A i, j \in 1..n : i < j => all[i] < all[j]
      /\ \A x \in S : \E i \in 1..n : all[i] = x
  <2> HIDE DEF S
  <2> QED
    BY <1>1, InOrderSound
<1>3. S \in SUBSET MsgIds
      /\ \A m \in S : m < before /\ Visible(m) /\ rows[m].chat = c /\ rows[m] # None
  BY DEF Visible, Exists
<1>4. L = [i \in 1..(Len(all) - (IF Len(all) > Limit THEN Len(all) - Limit ELSE 0)) |->
             EntryOf(all[(IF Len(all) > Limit THEN Len(all) - Limit ELSE 0) + i])]
  BY DEF Messages
<1>5. \A m \in MsgIds : Visible(m) /\ rows[m].chat = c /\ m < before => m \in S
  OBVIOUS
<1> HIDE DEF S, all, n, L
<1>6. Len(all) = n
  BY <1>2
<1>7. L = [i \in 1..(n - skip) |-> EntryOf(all[skip + i])]
  BY <1>4, <1>6, Zenon
<1>8. skip \in 0..n /\ (n > 0 => n - skip > 0)
  BY <1>1, <1>2
<1> HIDE DEF skip
<1>9. \A i \in 1..(n - skip) : skip + i \in 1..n
  BY <1>2, <1>8
<1>10. \A i \in 1..(n - skip) : all[skip + i] \in S
  BY <1>2, <1>9
<1>11. \A m \in S : EntryOf(m) \in Entry /\ EntryOf(m).id = m
  BY <1>3, EntryOfType
<1>12. DOMAIN L = 1..(n - skip) /\ \A i \in DOMAIN L : L[i] = EntryOf(all[skip + i])
  BY <1>7
<1>13. \A i \in DOMAIN L : L[i] \in Entry /\ L[i].id = all[skip + i] /\ L[i].id \in S
  BY <1>10, <1>11, <1>12
<1>14. L \in Seq(Entry)
  <2>1. n - skip \in Nat
    BY <1>2, <1>8
  <2>2. L \in [1..(n - skip) -> Entry]
    BY <1>7, <1>12, <1>13
  <2> QED
    BY <2>1, <2>2
<1>15. ASSUME NEW i \in DOMAIN L, NEW j \in DOMAIN L, i < j
       PROVE  L[i].id < L[j].id
  <2>1. skip + i \in 1..n /\ skip + j \in 1..n /\ skip + i < skip + j
    BY <1>8, <1>9, <1>12, <1>15
  <2> QED
    BY <1>2, <1>13, <2>1
<1>16. ASSUME NEW m \in MsgIds, Visible(m), rows[m].chat = c, m < before
       PROVE  L # <<>> /\ (L[1].id <= m => Shows(L, m))
  <2>1. PICK i \in 1..n : all[i] = m
    BY <1>2, <1>5, <1>16
  <2>2. 1 \in DOMAIN L
    BY <1>2, <1>8, <1>12, <2>1
  <2>3. ASSUME L[1].id <= m
        PROVE  \E x \in DOMAIN L : L[x].id = m
    <3>1. L[1].id = all[skip + 1] /\ skip + 1 \in 1..n
      BY <1>9, <1>12, <1>13, <2>2
    <3>2. ~(i < skip + 1)
      <4>1. i < skip + 1 => all[i] < all[skip + 1]
        BY <1>2, <3>1
      <4>2. m \in Nat /\ all[skip + 1] \in Nat
        <5>1. \A x \in S : x \in Nat
          BY <1>3 DEF MsgIds
        <5> QED
          BY <1>2, <2>1, <3>1, <5>1
      <4> QED
        BY <2>1, <2>3, <3>1, <4>1, <4>2
    <3>3. i - skip \in 1..(n - skip) /\ skip + (i - skip) = i
      BY <1>2, <1>8, <3>2
    <3> QED
      BY <1>12, <1>13, <2>1, <3>3
  <2> QED
    BY <2>2, <2>3 DEF Shows
<1> QED
  BY <1>3, <1>12, <1>13, <1>14, <1>15, <1>16, <1>11, Zenon DEF L

-----------------------------------------------------------------------------
(* Types. *)

LEMMA CallFields ==
  ASSUME TypeOK, NEW k \in CallIds, Open(k)
  PROVE  /\ calls[k] \in Call /\ calls[k].chat \in Chats
         /\ calls[k].op \in {"new", "edit", "delete", "clear", "react"}
         /\ calls[k].op # "clear" => calls[k].msg \in MsgIds
         /\ calls[k].op = "clear" => /\ calls[k].msg = None /\ calls[k].at = "emit"
                                     /\ calls[k].val = 0
         /\ calls[k].op = "edit" => calls[k].val \in 0..MaxCalls
         /\ calls[k].op = "delete" => calls[k].val = 0
         /\ calls[k].op = "react" /\ calls[k].at \in {"write", "emit"} => calls[k].val \in BOOLEAN
<1>1. calls[k] \in Call
  BY DEF TypeOK, Open
<1> QED
  BY <1>1 DEF Call

LEMMA RowFields ==
  ASSUME TypeOK, NEW m \in MsgIds, rows[m] # None
  PROVE  /\ rows[m] \in Row /\ rows[m].chat \in Chats /\ rows[m].body \in 0..MaxCalls
         /\ rows[m].liked \in BOOLEAN /\ rows[m].deleted \in BOOLEAN
         /\ rows[m].timed \in {"no", "running", "over", "purged"}
BY DEF TypeOK, Row

LEMMA StartTyped ==
  ASSUME TypeOK, NEW k \in CallIds, NEW op, NEW m, NEW c \in Chats, NEW at, Start(k, op, m, c, at),
         \/ op \in {"new", "delete", "edit"} /\ m \in MsgIds /\ at \in {"write", "emit"}
         \/ op = "clear" /\ m = None /\ at = "emit"
         \/ op = "react" /\ m \in MsgIds /\ at = "find"
  PROVE  /\ calls' \in [CallIds -> Call \cup {Idle, Done}]
         /\ calls'[k] = [op |-> op, msg |-> m, chat |-> c, at |-> at, val |-> 0]
         /\ \A j \in CallIds \ {k} : calls'[j] = calls[j]
<1> DEFINE r == [op |-> op, msg |-> m, chat |-> c, at |-> at, val |-> 0]
<1>1. 0 \in 0..MaxCalls
  BY BoundsAssumption
<1>2. r \in Call
  BY <1>1 DEF Call
<1> HIDE DEF r
<1>3. calls' = [calls EXCEPT ![k] = r]
  BY Zenon DEF Start, r
<1>4. calls' \in [CallIds -> Call \cup {Idle, Done}] /\ calls'[k] = r
      /\ \A j \in CallIds \ {k} : calls'[j] = calls[j]
  BY <1>2, <1>3 DEF TypeOK
<1> QED
  BY <1>4 DEF r

LEMMA PhaseTyped ==
  ASSUME TypeOK, NEW k \in CallIds, Open(k), NEW at, NEW val, Phase(k, at, val),
         \/ calls[k].op \in {"new", "delete"} /\ at \in {"write", "emit"} /\ val = 0
         \/ calls[k].op = "edit" /\ at \in {"write", "emit"} /\ val \in 0..MaxCalls
         \/ calls[k].op = "react" /\ at \in {"find", "count"} /\ val = 0
         \/ calls[k].op = "react" /\ at \in {"write", "emit"} /\ val \in BOOLEAN
  PROVE  /\ calls' \in [CallIds -> Call \cup {Idle, Done}]
         /\ calls'[k] = [op |-> calls[k].op, msg |-> calls[k].msg, chat |-> calls[k].chat,
                         at |-> at, val |-> val]
         /\ \A j \in CallIds \ {k} : calls'[j] = calls[j]
<1> DEFINE r == [op |-> calls[k].op, msg |-> calls[k].msg, chat |-> calls[k].chat,
                 at |-> at, val |-> val]
<1>1. calls[k] \in Call
  BY CallFields
<1>2. calls[k].chat \in Chats /\ (calls[k].op # "clear" => calls[k].msg \in MsgIds)
  BY CallFields
<1>3. r \in Call
  BY <1>2 DEF Call
<1>4. [[calls[k] EXCEPT !.at = at] EXCEPT !.val = val] = r
  <2>1. calls[k] = [op |-> calls[k].op, msg |-> calls[k].msg, chat |-> calls[k].chat,
                    at |-> calls[k].at, val |-> calls[k].val]
    BY <1>1 DEF Call
  <2>2. PICK o, m, c, a, v : calls[k] = [op |-> o, msg |-> m, chat |-> c, at |-> a, val |-> v]
    BY <2>1
  <2>3. r = [op |-> o, msg |-> m, chat |-> c, at |-> at, val |-> val]
    BY <2>2
  <2>4. [[op |-> o, msg |-> m, chat |-> c, at |-> a, val |-> v] EXCEPT !.at = at]
           = [op |-> o, msg |-> m, chat |-> c, at |-> at, val |-> v]
    OBVIOUS
  <2>5. [[op |-> o, msg |-> m, chat |-> c, at |-> at, val |-> v] EXCEPT !.val = val]
           = [op |-> o, msg |-> m, chat |-> c, at |-> at, val |-> val]
    OBVIOUS
  <2> HIDE DEF r
  <2> QED
    BY <2>2, <2>3, <2>4, <2>5, Zenon
<1>5. calls' = [calls EXCEPT ![k] = r]
  <2>1. calls' = [calls EXCEPT ![k] = [[calls[k] EXCEPT !.at = at] EXCEPT !.val = val]]
    BY DEF Phase, TypeOK
  <2> QED
    BY <1>4, <2>1
<1> HIDE DEF r
<1>6. calls' \in [CallIds -> Call \cup {Idle, Done}] /\ calls'[k] = r
      /\ \A j \in CallIds \ {k} : calls'[j] = calls[j]
  BY <1>3, <1>5 DEF TypeOK
<1> QED
  BY <1>6 DEF r

LEMMA DoneTyped ==
  ASSUME TypeOK, NEW k \in CallIds, calls' = [calls EXCEPT ![k] = Done]
  PROVE  /\ calls' \in [CallIds -> Call \cup {Idle, Done}] /\ calls'[k] = Done
         /\ \A j \in CallIds \ {k} : calls'[j] = calls[j]
BY DEF TypeOK

\* A column of a row changes, and no other.
LEMMA RowChanged ==
  ASSUME TypeOK, NEW m \in MsgIds, rows[m] # None
  PROVE  /\ \A b \in 0..MaxCalls : [rows[m] EXCEPT !.body = b] \in Row
         /\ \A b \in BOOLEAN : [rows[m] EXCEPT !.liked = b] \in Row
         /\ [rows[m] EXCEPT !.deleted = TRUE] \in Row
         /\ \A t \in {"over", "purged"} : [rows[m] EXCEPT !.timed = t] \in Row
<1>1. rows[m] \in Row
  BY RowFields
<1> QED
  BY <1>1 DEF Row

LEMMA EmitTyped ==
  ASSUME TypeOK, NEW c, NEW e \in Event, Emit(c, e)
  PROVE  down' \in Seq(Event)
BY DEF TypeOK, Emit

LEMMA LocalExpiryTyped ==
  ASSUME NEW s \in Seq(Entry)
  PROVE  LocalExpiry(s) \in Seq(Entry)
<1>1. {i \in DOMAIN s : rows[s[i].id].timed \notin {"over", "purged"}} \in SUBSET (DOMAIN s)
  OBVIOUS
<1> QED
  BY <1>1, KeptSound, Zenon DEF LocalExpiry

LEMMA WithoutTyped ==
  ASSUME NEW s \in Seq(Entry), NEW m
  PROVE  Without(s, m) \in Seq(Entry)
<1>1. {i \in DOMAIN s : s[i].id # m} \in SUBSET (DOMAIN s)
  OBVIOUS
<1> QED
  BY <1>1, KeptSound, Zenon DEF Without

LEMMA EntryChanged ==
  ASSUME NEW s \in Seq(Entry), NEW i \in DOMAIN s
  PROVE  /\ \A b \in 0..MaxCalls : [s[i] EXCEPT !.body = b] \in Entry
         /\ \A b \in BOOLEAN : [s[i] EXCEPT !.liked = b] \in Entry
<1>1. s[i] \in Entry
  OBVIOUS
<1> QED
  BY <1>1 DEF Entry

LEMMA ChangedTyped ==
  ASSUME NEW s \in Seq(Entry), NEW e \in Event, e.type \notin {"history", "error"}
  PROVE  Changed(s, e) \in Seq(Entry)
<1>1. CASE e.type = "new"
  <2>1. e.msg \in Entry
    BY <1>1 DEF Event
  <2> QED
    BY <1>1, <2>1 DEF Changed, Appended
<1>2. CASE e.type = "edit"
  <2>1. e.val \in 0..MaxCalls
    BY <1>2 DEF Event
  <2>2. \A i \in DOMAIN s : [s[i] EXCEPT !.body = e.val] \in Entry
    BY <2>1, EntryChanged
  <2> DEFINE t == [i \in DOMAIN s |-> IF s[i].id = e.msg THEN [s[i] EXCEPT !.body = e.val] ELSE s[i]]
  <2>3. Changed(s, e) = t
    BY <1>2 DEF Changed
  <2>4. DOMAIN t = 1..Len(s) /\ Len(s) \in Nat /\ \A i \in DOMAIN s : t[i] \in Entry
    BY <2>2
  <2>5. t \in [1..Len(s) -> Entry]
    BY <2>2
  <2> QED
    BY <2>3, <2>4, <2>5
<1>3. CASE e.type = "react"
  <2>1. e.val \in BOOLEAN
    BY <1>3 DEF Event
  <2>2. \A i \in DOMAIN s : [s[i] EXCEPT !.liked = e.val] \in Entry
    BY <2>1, EntryChanged
  <2> DEFINE t == [i \in DOMAIN s |-> IF s[i].id = e.msg THEN [s[i] EXCEPT !.liked = e.val] ELSE s[i]]
  <2>3. Changed(s, e) = t
    BY <1>3 DEF Changed
  <2>4. Len(s) \in Nat
    OBVIOUS
  <2>5. t \in [1..Len(s) -> Entry]
    BY <2>2
  <2> QED
    BY <2>3, <2>4, <2>5
<1>4. CASE e.type = "delete"
  <2>1. Changed(s, e) = Without(s, e.msg)
    BY <1>4 DEF Changed
  <2> QED
    BY <2>1, WithoutTyped
<1>5. CASE e.type = "clear"
  BY <1>5 DEF Changed
<1> QED
  BY <1>1, <1>2, <1>3, <1>4, <1>5 DEF Event

LEMMA InitTyped ==
  ASSUME Init
  PROVE  TypeOK
<1>1. PICK c \in [1..Earlier -> Chats] :
        rows = [m \in MsgIds |-> IF m <= Earlier THEN NewRow(c[m], "no") ELSE None]
  BY DEF Init
<1>2. Earlier \in Nat /\ MaxMsgs \in Nat /\ 0 \in 0..MaxCalls /\ 0 \in 0..MaxMoves
  BY BoundsAssumption
<1>3. \A m \in MsgIds : m <= Earlier => NewRow(c[m], "no") \in Row
  <2> TAKE m \in MsgIds
  <2>1. m <= Earlier => c[m] \in Chats
    BY <1>2 DEF MsgIds
  <2> QED
    BY <1>2, <2>1 DEF NewRow, Row
<1>4. rows \in [MsgIds -> Row \cup {None}]
  BY <1>1, <1>3
<1>5. hasMore = TRUE /\ loading = FALSE /\ hasty = FALSE
  BY Zenon DEF Init
<1>6. {hasMore, loading, hasty} \subseteq BOOLEAN
  BY <1>5
<1>7. /\ calls \in [CallIds -> Call \cup {Idle, Done}] /\ joins \in [JoinIds -> Join \cup {Idle}]
      /\ pages \in [PageIds -> Page \cup {Idle}]
  BY DEF Init
<1>8. /\ timers \subseteq MsgIds /\ moves \in 0..MaxMoves /\ conn \in {"up", "down"}
      /\ inRooms \subseteq Chats /\ down \in Seq(Event)
      /\ route \in Chats /\ chatId \in Chats \cup {None} /\ resolves \subseteq Chats
      /\ list \in Seq(Entry) /\ oldest \in MsgIds \cup {None}
      /\ filled \in {"no", "yes", "error"} /\ crossed \subseteq MsgIds
  BY <1>2 DEF Init
<1>9. stranded \in BOOLEAN /\ overtaken \in BOOLEAN
  BY Zenon DEF Init
<1> QED
  BY <1>4, <1>6, <1>7, <1>8, <1>9 DEF TypeOK

\* The parts of the type that an action may leave alone.
TableOK == RowsOK /\ timers \subseteq MsgIds /\ crossed \subseteq MsgIds
CallsOK == calls \in [CallIds -> Call \cup {Idle, Done}]
MovesOK == moves \in 0..MaxMoves
LinkOK == /\ conn \in {"up", "down"} /\ inRooms \subseteq Chats
          /\ joins \in [JoinIds -> Join \cup {Idle}]
DownOK == down \in Seq(Event)
WhereOK == route \in Chats /\ chatId \in Chats \cup {None} /\ resolves \subseteq Chats
ShownOK == list \in Seq(Entry) /\ oldest \in MsgIds \cup {None}
PagesOK == pages \in [PageIds -> Page \cup {Idle}]
FlagsOK == {hasMore, loading, hasty} \subseteq BOOLEAN /\ filled \in {"no", "yes", "error"}
GhostsOK == stranded \in BOOLEAN /\ overtaken \in BOOLEAN

LEMMA TypeParts ==
  TypeOK <=> /\ TableOK /\ CallsOK /\ MovesOK /\ LinkOK /\ DownOK /\ WhereOK /\ ShownOK
             /\ PagesOK /\ FlagsOK /\ GhostsOK
BY Zenon DEF TypeOK, TableOK, RowsOK, CallsOK, MovesOK, LinkOK, DownOK, WhereOK, ShownOK, PagesOK,
         FlagsOK, GhostsOK

LEMMA TypePartsNext ==
  TypeOK' <=> /\ TableOK' /\ CallsOK' /\ MovesOK' /\ LinkOK' /\ DownOK' /\ WhereOK' /\ ShownOK'
              /\ PagesOK' /\ FlagsOK' /\ GhostsOK'
BY Zenon DEF TypeOK, TableOK, RowsOK, CallsOK, MovesOK, LinkOK, DownOK, WhereOK, ShownOK, PagesOK,
         FlagsOK, GhostsOK

\* A writer changes the table, the calls and what is on its way down.
WriterStep(k) ==
  \/ \E c \in Chats : (\E t \in BOOLEAN : SendMessage(k, c, t)) \/ ClearRoom(k, c)
  \/ \E m \in MsgIds : EditMessage(k, m) \/ DeleteMessage(k, m) \/ ReactMessage(k, m)
  \/ NewMessage(k) \/ ApplyMessageEdit(k) \/ ApplyDelete(k) \/ Announce(k)
  \/ FindReaction(k) \/ WriteReaction(k) \/ CountReactions(k) \/ CallFails(k)

Elsewhere == <<moves, conn, inRooms, joins, view, filled, hasty, stranded, overtaken>>

LEMMA WritersStay ==
  ASSUME NEW k \in CallIds, WriterStep(k)
  PROVE  UNCHANGED Elsewhere
<1>1. ASSUME NEW c \in Chats, NEW t \in BOOLEAN, SendMessage(k, c, t)
      PROVE  UNCHANGED Elsewhere
  BY <1>1 DEF SendMessage, Elsewhere, link
<1>2. ASSUME NEW c \in Chats, ClearRoom(k, c)
      PROVE  UNCHANGED Elsewhere
  BY <1>2 DEF ClearRoom, Elsewhere, link
<1>3. ASSUME NEW m \in MsgIds, EditMessage(k, m) \/ DeleteMessage(k, m) \/ ReactMessage(k, m)
      PROVE  UNCHANGED Elsewhere
  BY <1>3 DEF EditMessage, DeleteMessage, ReactMessage, Elsewhere, link, ghosts
<1>4. CASE NewMessage(k) \/ Announce(k)
  BY <1>4 DEF NewMessage, Announce, Elsewhere, ghosts
<1>5. CASE ApplyMessageEdit(k) \/ ApplyDelete(k) \/ WriteReaction(k)
  BY <1>5 DEF ApplyMessageEdit, ApplyDelete, WriteReaction, Elsewhere, link
<1>6. CASE FindReaction(k) \/ CountReactions(k)
  BY <1>6 DEF FindReaction, CountReactions, Elsewhere, link, ghosts
<1>7. CASE CallFails(k)
  BY <1>7 DEF CallFails, Elsewhere, link
<1> QED
  BY <1>1, <1>2, <1>3, <1>4, <1>5, <1>6, <1>7, Zenon DEF WriterStep

LEMMA MarkTyped ==
  ASSUME TypeOK, NEW op, NEW ms \in SUBSET MsgIds, NEW c, Mark(op, ms, c)
  PROVE  crossed' \subseteq MsgIds
BY DEF TypeOK, Mark

LEMMA WritersTyped ==
  ASSUME TypeOK, NEW k \in CallIds, WriterStep(k)
  PROVE  TableOK' /\ CallsOK' /\ DownOK'
<1> USE DEF TableOK, RowsOK, CallsOK, DownOK
<1>0. RowsOK /\ timers \subseteq MsgIds /\ crossed \subseteq MsgIds /\ CallsOK /\ DownOK
  BY DEF TypeOK
<1>1. ASSUME NEW c \in Chats, NEW t \in BOOLEAN, SendMessage(k, c, t)
      PROVE  TableOK' /\ CallsOK' /\ DownOK'
  <2>1. PICK m \in MsgIds :
          /\ Start(k, "new", m, c, "emit")
          /\ rows' = [rows EXCEPT ![m] = NewRow(c, IF t THEN "running" ELSE "no")]
          /\ Mark("new", {m}, c)
    BY <1>1 DEF SendMessage
  <2>2. CallsOK'
    BY <2>1, StartTyped
  <2>3. NewRow(c, IF t THEN "running" ELSE "no") \in Row
    BY BoundsAssumption DEF NewRow, Row
  <2>4. crossed' \subseteq MsgIds
    BY <2>1, MarkTyped
  <2>5. UNCHANGED <<timers, down>>
    BY <1>1 DEF SendMessage, link
  <2> QED
    BY <1>0, <2>1, <2>2, <2>3, <2>4, <2>5
<1>2. ASSUME NEW c \in Chats, ClearRoom(k, c)
      PROVE  TableOK' /\ CallsOK' /\ DownOK'
  <2> DEFINE S == {m \in MsgIds : Exists(m) /\ ~rows[m].deleted /\ rows[m].chat = c}
  <2>1. /\ Start(k, "clear", None, c, "emit") /\ Mark("clear", S, c)
        /\ rows' = [m \in MsgIds |-> IF m \in S THEN [rows[m] EXCEPT !.deleted = TRUE] ELSE rows[m]]
    BY <1>2 DEF ClearRoom
  <2>2. CallsOK'
    BY <2>1, StartTyped
  <2>3. \A m \in S : [rows[m] EXCEPT !.deleted = TRUE] \in Row
    BY RowChanged DEF Exists
  <2>4. crossed' \subseteq MsgIds
    <3>1. S \in SUBSET MsgIds
      OBVIOUS
    <3> HIDE DEF S
    <3> QED
      BY <2>1, <3>1, MarkTyped
  <2>5. UNCHANGED <<timers, down>>
    BY <1>2 DEF ClearRoom, link
  <2> HIDE DEF S
  <2> QED
    BY <1>0, <2>1, <2>2, <2>3, <2>4, <2>5
<1>3. ASSUME NEW m \in MsgIds, EditMessage(k, m) \/ DeleteMessage(k, m) \/ ReactMessage(k, m)
      PROVE  TableOK' /\ CallsOK' /\ DownOK'
  <2>1. /\ UNCHANGED <<rows, timers, down, crossed>> /\ Exists(m)
        /\ \E op \in {"edit", "delete", "react"} :
             Start(k, op, m, rows[m].chat, IF op = "react" THEN "find" ELSE "write")
    BY <1>3 DEF EditMessage, DeleteMessage, ReactMessage, link, ghosts
  <2>2. PICK op \in {"edit", "delete", "react"} :
             Start(k, op, m, rows[m].chat, IF op = "react" THEN "find" ELSE "write")
    BY <2>1
  <2>3. rows[m].chat \in Chats
    BY <2>1, RowFields DEF Exists
  <2>4. CallsOK'
    BY <2>2, <2>3, StartTyped
  <2> QED
    BY <1>0, <2>1, <2>4
<1>4. CASE NewMessage(k)
  <2> DEFINE m == calls[k].msg
             e == [type |-> "new", msg |-> [id |-> m, body |-> 0, liked |-> FALSE]]
  <2>1. At(k, "new", "emit") /\ Emit(calls[k].chat, e) /\ calls' = [calls EXCEPT ![k] = Done]
        /\ UNCHANGED <<rows, crossed>> /\ timers' \in {timers, timers \cup {m}}
    BY <1>4 DEF NewMessage, ghosts
  <2>2. m \in MsgIds
    BY <2>1, CallFields DEF At
  <2>3. e \in Event
    BY <2>2, BoundsAssumption DEF Event, Entry
  <2> HIDE DEF e
  <2>4. CallsOK' /\ DownOK'
    BY <2>1, <2>3, DoneTyped, EmitTyped
  <2> QED
    BY <1>0, <2>1, <2>2, <2>4
<1>5. CASE ApplyMessageEdit(k)
  <2> DEFINE m == calls[k].msg
  <2>1. At(k, "edit", "write") /\ UNCHANGED <<timers, down>>
    BY <1>5 DEF ApplyMessageEdit, link
  <2>2. Open(k) /\ calls[k].op = "edit" /\ m \in MsgIds /\ k \in 0..MaxCalls
    BY <2>1, CallFields DEF At, CallIds
  <2>3. CASE Exists(m)
    <3>1. /\ rows' = [rows EXCEPT ![m].body = k] /\ Phase(k, "emit", k)
          /\ Mark("edit", {m}, calls[k].chat)
      BY <1>5, <2>3 DEF ApplyMessageEdit
    <3>2. CallsOK'
      BY <2>2, <3>1, PhaseTyped
    <3>3. [rows[m] EXCEPT !.body = k] \in Row
      BY <2>2, <2>3, RowChanged DEF Exists
    <3>4. crossed' \subseteq MsgIds
      BY <2>2, <3>1, MarkTyped
    <3>5. rows' = [rows EXCEPT ![m] = [rows[m] EXCEPT !.body = k]]
      BY <3>1
    <3> HIDE DEF m
    <3> QED
      BY <1>0, <2>1, <3>2, <3>3, <3>4, <3>5
  <2>4. CASE ~Exists(m)
    BY <1>0, <1>5, <2>1, <2>4, DoneTyped DEF ApplyMessageEdit
  <2> QED
    BY <2>3, <2>4
<1>6. CASE ApplyDelete(k)
  <2> DEFINE m == calls[k].msg
  <2>1. At(k, "delete", "write") /\ UNCHANGED <<timers, down>>
    BY <1>6 DEF ApplyDelete, link
  <2>2. Open(k) /\ calls[k].op = "delete" /\ m \in MsgIds
    BY <2>1, CallFields DEF At
  <2>3. CASE Exists(m)
    <3>1. /\ rows' = [rows EXCEPT ![m].deleted = TRUE] /\ Phase(k, "emit", 0)
          /\ Mark("delete", {m}, calls[k].chat)
      BY <1>6, <2>3 DEF ApplyDelete
    <3>2. CallsOK'
      BY <2>2, <3>1, PhaseTyped
    <3>3. [rows[m] EXCEPT !.deleted = TRUE] \in Row
      BY <2>2, <2>3, RowChanged DEF Exists
    <3>4. crossed' \subseteq MsgIds
      BY <2>2, <3>1, MarkTyped
    <3>5. rows' = [rows EXCEPT ![m] = [rows[m] EXCEPT !.deleted = TRUE]]
      BY <3>1
    <3> HIDE DEF m
    <3> QED
      BY <1>0, <2>1, <3>2, <3>3, <3>4, <3>5
  <2>4. CASE ~Exists(m)
    BY <1>0, <1>6, <2>1, <2>4, DoneTyped DEF ApplyDelete
  <2> QED
    BY <2>3, <2>4
<1>7. CASE WriteReaction(k)
  <2> DEFINE m == calls[k].msg
  <2>1. At(k, "react", "write") /\ UNCHANGED <<timers, down>>
    BY <1>7 DEF WriteReaction, link
  <2>2. Open(k) /\ calls[k].op = "react" /\ m \in MsgIds
    BY <2>1, CallFields DEF At
  <2>3. CASE Exists(m) /\ rows[m].liked = calls[k].val
    <3>1. /\ rows' = [rows EXCEPT ![m].liked = ~@] /\ Phase(k, "count", 0)
          /\ Mark("react", {m}, calls[k].chat)
      BY <1>7, <2>3 DEF WriteReaction
    <3>2. CallsOK'
      BY <2>2, <3>1, PhaseTyped
    <3>3. \A b \in BOOLEAN : [rows[m] EXCEPT !.liked = b] \in Row
      BY <2>2, <2>3, RowChanged DEF Exists
    <3>4. crossed' \subseteq MsgIds
      BY <2>2, <3>1, MarkTyped
    <3>5. rows' = [rows EXCEPT ![m] = [rows[m] EXCEPT !.liked = ~rows[m].liked]]
      BY <3>1
    <3>6. [rows[m] EXCEPT !.liked = ~rows[m].liked] \in Row
      <4> DEFINE b == ~rows[m].liked
      <4>1. b \in BOOLEAN
        OBVIOUS
      <4> HIDE DEF b
      <4>2. [rows[m] EXCEPT !.liked = b] \in Row
        BY <3>3, <4>1
      <4> QED
        BY <4>2 DEF b
    <3> DEFINE r == [rows[m] EXCEPT !.liked = ~rows[m].liked]
    <3>7. rows' = [rows EXCEPT ![m] = r] /\ r \in Row
      BY <3>5, <3>6, Zenon
    <3> HIDE DEF m, r
    <3> QED
      BY <1>0, <2>1, <3>2, <3>4, <3>7
  <2>4. CASE ~(Exists(m) /\ rows[m].liked = calls[k].val)
    BY <1>0, <1>7, <2>1, <2>4, DoneTyped DEF WriteReaction
  <2> QED
    BY <2>3, <2>4
<1>8. CASE Announce(k)
  <2> DEFINE e == [type |-> calls[k].op, msg |-> calls[k].msg, val |-> calls[k].val]
  <2>1. /\ Open(k) /\ calls[k].at = "emit" /\ calls[k].op # "new"
        /\ Emit(calls[k].chat, e) /\ calls' = [calls EXCEPT ![k] = Done]
        /\ UNCHANGED <<rows, timers, crossed>>
    BY <1>8 DEF Announce, ghosts
  <2>2. e \in Event
    BY <2>1, CallFields DEF Event
  <2> HIDE DEF e
  <2> QED
    BY <1>0, <2>1, <2>2, DoneTyped, EmitTyped
<1>9. CASE FindReaction(k) \/ CountReactions(k)
  <2> DEFINE v == Exists(calls[k].msg) /\ rows[calls[k].msg].liked
  <2>1. /\ \/ At(k, "react", "find") /\ Phase(k, "write", v)
           \/ At(k, "react", "count") /\ Phase(k, "emit", v)
        /\ UNCHANGED <<rows, timers, down, crossed>>
    BY <1>9, Zenon DEF FindReaction, CountReactions, link, ghosts
  <2>2. v \in BOOLEAN
    OBVIOUS
  <2> HIDE DEF v
  <2>3. CallsOK'
    BY <2>1, <2>2, PhaseTyped DEF At
  <2> QED
    BY <1>0, <2>1, <2>3
<1>10. CASE CallFails(k)
  <2>1. /\ Open(k) /\ calls' = [calls EXCEPT ![k] = Done] /\ UNCHANGED <<rows, timers, down>>
        /\ crossed' = IF calls[k].at \in {"emit", "count"} THEN crossed \cup {calls[k].msg}
                                                          ELSE crossed
        /\ calls[k].at = "emit" => calls[k].op = "new"
    BY <1>10 DEF CallFails, link
  <2>2. crossed' \subseteq MsgIds
    BY <1>0, <2>1, CallFields
  <2> QED
    BY <1>0, <2>1, <2>2, DoneTyped
<1> QED
  BY <1>1, <1>2, <1>3, <1>4, <1>5, <1>6, <1>7, <1>8, <1>9, <1>10, Zenon DEF WriterStep

LEMMA JoinTyped ==
  ASSUME TypeOK, NEW c \in Chats, Joining(c)
  PROVE  /\ joins' \in [JoinIds -> Join \cup {Idle}]
         /\ \E j \in JoinIds : /\ joins[j] = Idle
                               /\ joins'[j] = [chat |-> c, at |-> "enter", val |-> <<>>]
                               /\ \A i \in JoinIds \ {j} : joins'[i] = joins[i]
<1>1. PICK j \in JoinIds :
        joins[j] = Idle /\ joins' = [joins EXCEPT ![j] = [chat |-> c, at |-> "enter", val |-> <<>>]]
  BY DEF Joining
<1>2. [chat |-> c, at |-> "enter", val |-> <<>>] \in Join
  BY DEF Join
<1> QED
  BY <1>1, <1>2 DEF TypeOK

LEMMA JoinFields ==
  ASSUME TypeOK, NEW j \in JoinIds, joins[j] # Idle
  PROVE  /\ joins[j] \in Join /\ joins[j].chat \in Chats /\ joins[j].val \in Seq(Entry)
         /\ joins[j].at \in {"enter", "read", "emit"}
         /\ \A at \in {"read", "emit"}, v \in Seq(Entry) :
              [chat |-> joins[j].chat, at |-> at, val |-> v] \in Join
BY DEF TypeOK, Join

LEMMA PageFields ==
  ASSUME TypeOK, NEW p \in PageIds, pages[p] # Idle
  PROVE  /\ pages[p] \in Page /\ pages[p].chat \in Chats /\ pages[p].val \in Seq(Entry)
         /\ pages[p].at \in {"read", "apply"} /\ pages[p].before \in MsgIds
BY DEF TypeOK, Page

LEMMA EnterRoomEffect ==
  ASSUME TypeOK, NEW j \in JoinIds, EnterRoom(j)
  PROVE  /\ joins[j] # Idle /\ joins[j].at = "enter"
         /\ joins' = [joins EXCEPT ![j] = [chat |-> joins[j].chat, at |-> "read", val |-> joins[j].val]]
<1>1. joins[j] # Idle /\ joins[j].at = "enter" /\ joins' = [joins EXCEPT ![j].at = "read"]
  BY DEF EnterRoom
<1>2. PICK c, a, v : joins[j] = [chat |-> c, at |-> a, val |-> v]
  BY <1>1, JoinFields DEF Join
<1>3. [joins[j] EXCEPT !.at = "read"] = [chat |-> joins[j].chat, at |-> "read", val |-> joins[j].val]
  BY <1>2
<1> QED
  BY <1>1, <1>3 DEF TypeOK

LEMMA ReadHistoryEffect ==
  ASSUME TypeOK, NEW j \in JoinIds, ReadHistory(j)
  PROVE  /\ joins[j] # Idle /\ joins[j].at = "read"
         /\ joins' = [joins EXCEPT ![j] = [chat |-> joins[j].chat, at |-> "emit",
                                           val |-> Messages(joins[j].chat, MaxMsgs + 1)]]
<1> DEFINE L == Messages(joins[j].chat, MaxMsgs + 1)
<1>1. joins[j] # Idle /\ joins[j].at = "read"
      /\ joins' = [joins EXCEPT ![j] = [[joins[j] EXCEPT !.at = "emit"] EXCEPT !.val = L]]
  BY DEF ReadHistory, TypeOK
<1> HIDE DEF L
<1>2. PICK c, a, v : joins[j] = [chat |-> c, at |-> a, val |-> v]
  BY <1>1, JoinFields DEF Join
<1>3. [[joins[j] EXCEPT !.at = "emit"] EXCEPT !.val = L]
        = [chat |-> joins[j].chat, at |-> "emit", val |-> L]
  <2>1. [[chat |-> c, at |-> a, val |-> v] EXCEPT !.at = "emit"] = [chat |-> c, at |-> "emit", val |-> v]
    OBVIOUS
  <2>2. [[chat |-> c, at |-> "emit", val |-> v] EXCEPT !.val = L] = [chat |-> c, at |-> "emit", val |-> L]
    OBVIOUS
  <2>3. joins[j].chat = c
    BY <1>2
  <2> QED
    BY <1>2, <2>1, <2>2, <2>3, Zenon
<1> QED
  BY <1>1, <1>3 DEF L

LEMMA ReadOlderEffect ==
  ASSUME TypeOK, NEW p \in PageIds, ReadOlder(p)
  PROVE  /\ pages[p] # Idle /\ pages[p].at = "read"
         /\ pages' = [pages EXCEPT ![p] = [chat |-> pages[p].chat, before |-> pages[p].before,
                                           at |-> "apply",
                                           val |-> Messages(pages[p].chat, pages[p].before)]]
<1> DEFINE L == Messages(pages[p].chat, pages[p].before)
<1>1. pages[p] # Idle /\ pages[p].at = "read"
      /\ pages' = [pages EXCEPT ![p] = [[pages[p] EXCEPT !.at = "apply"] EXCEPT !.val = L]]
  BY DEF ReadOlder, TypeOK
<1> HIDE DEF L
<1>2. PICK c, b, a, v : pages[p] = [chat |-> c, before |-> b, at |-> a, val |-> v]
  BY <1>1, PageFields DEF Page
<1>3. [[pages[p] EXCEPT !.at = "apply"] EXCEPT !.val = L]
        = [chat |-> pages[p].chat, before |-> pages[p].before, at |-> "apply", val |-> L]
  <2>1. [[chat |-> c, before |-> b, at |-> a, val |-> v] EXCEPT !.at = "apply"]
          = [chat |-> c, before |-> b, at |-> "apply", val |-> v]
    OBVIOUS
  <2>2. [[chat |-> c, before |-> b, at |-> "apply", val |-> v] EXCEPT !.val = L]
          = [chat |-> c, before |-> b, at |-> "apply", val |-> L]
    OBVIOUS
  <2>3. pages[p].chat = c /\ pages[p].before = b
    BY <1>2
  <2> QED
    BY <1>2, <2>1, <2>2, <2>3, Zenon
<1> QED
  BY <1>1, <1>3 DEF L

LEMMA HeadTyped ==
  ASSUME TypeOK, down # <<>>
  PROVE  /\ Head(down) \in Event /\ Tail(down) \in Seq(Event)
         /\ Head(down).type = "history" => Head(down).list \in Seq(Entry) /\ Head(down).chat \in Chats
         /\ Head(down).type = "error" => Head(down).chat \in Chats
<1>1. Head(down) \in Event /\ Tail(down) \in Seq(Event)
  BY DEF TypeOK
<1> QED
  BY <1>1 DEF Event

LEMMA FlagsTyped ==
  ASSUME NEW a \in BOOLEAN, NEW b \in BOOLEAN, NEW c \in BOOLEAN
  PROVE  {a, b, c} \subseteq BOOLEAN
OBVIOUS

LEMMA FlagsOfType ==
  ASSUME TypeOK
  PROVE  hasMore \in BOOLEAN /\ loading \in BOOLEAN /\ hasty \in BOOLEAN
BY Zenon DEF TypeOK

LEMMA FirstIdTyped ==
  ASSUME NEW L \in Seq(Entry), L # <<>>
  PROVE  L[1].id \in MsgIds
<1>1. L[1] \in Entry
  OBVIOUS
<1> QED
  BY <1>1 DEF Entry

LEMMA GhostsTyped ==
  ASSUME TypeOK, [Next]_vars
  PROVE  GhostsOK'
<1>0. GhostsOK
  BY Zenon DEF TypeOK, GhostsOK
<1>1. ASSUME UNCHANGED <<stranded, overtaken>>
      PROVE  GhostsOK'
  BY <1>0, <1>1, Zenon DEF GhostsOK
<1>2. ASSUME NEW k \in CallIds, WriterStep(k)
      PROVE  GhostsOK'
  BY <1>1, <1>2, WritersStay DEF Elsewhere
<1>3. ASSUME NEW j \in JoinIds,
             EnterRoom(j) \/ ReadHistory(j) \/ EmitHistory(j) \/ HistoryFails(j)
      PROVE  GhostsOK'
  BY <1>1, <1>3 DEF EnterRoom, ReadHistory, EmitHistory, HistoryFails, ghosts
<1>4. ASSUME NEW j \in JoinIds, JoinFails(j)
      PROVE  GhostsOK'
  BY <1>0, <1>4, Zenon DEF JoinFails, GhostsOK
<1>5. ASSUME NEW c \in Chats, Navigate(c)
      PROVE  GhostsOK'
  BY <1>1, <1>5 DEF Navigate
<1>6. ASSUME NEW c \in Chats, ResolveFails(c)
      PROVE  GhostsOK'
  BY <1>0, <1>6, Zenon DEF ResolveFails, GhostsOK
<1>7. ASSUME NEW b \in BOOLEAN, stranded' = b, UNCHANGED overtaken
      PROVE  GhostsOK'
  BY <1>0, <1>7, Zenon DEF GhostsOK
<1>8. ASSUME NEW b \in BOOLEAN, overtaken' = b, UNCHANGED stranded
      PROVE  GhostsOK'
  BY <1>0, <1>8, Zenon DEF GhostsOK
<1>9. ASSUME NEW c \in Chats, Resolve(c)
      PROVE  GhostsOK'
  <2> DEFINE b == stranded /\ c = chatId
  <2>1. stranded' = b /\ UNCHANGED overtaken
    BY <1>9, Zenon DEF Resolve
  <2>2. b \in BOOLEAN
    OBVIOUS
  <2> HIDE DEF b
  <2> QED
    BY <1>7, <2>1, <2>2, Zenon
<1>10. CASE Reconnect
  <2> DEFINE b == stranded /\ chatId # route
  <2>1. stranded' = b /\ UNCHANGED overtaken
    BY <1>10, Zenon DEF Reconnect
  <2>2. b \in BOOLEAN
    OBVIOUS
  <2> HIDE DEF b
  <2> QED
    BY <1>7, <2>1, <2>2, Zenon
<1>11. CASE DeliverHistory
  BY <1>0, <1>11, Zenon DEF DeliverHistory, GhostsOK
<1>12. ASSUME NEW p \in PageIds, OlderArrives(p)
       PROVE  GhostsOK'
  <2> DEFINE b == overtaken \/ (pages[p].val # <<>> /\ pages[p].before # oldest)
  <2>1. overtaken' = b /\ UNCHANGED stranded
    BY <1>12, Zenon DEF OlderArrives
  <2>2. b \in BOOLEAN
    OBVIOUS
  <2> HIDE DEF b
  <2> QED
    BY <1>8, <2>1, <2>2, Zenon
<1>13. ASSUME NEW p \in PageIds, LoadOlder(p) \/ ReadOlder(p) \/ OlderFails(p)
       PROVE  GhostsOK'
  BY <1>1, <1>13 DEF LoadOlder, ReadOlder, OlderFails, ghosts
<1>14. CASE DeliverChange \/ DeliverError
  BY <1>1, <1>14 DEF DeliverChange, DeliverError, ghosts
<1>15. ASSUME NEW m \in MsgIds, Expire(m)
       PROVE  GhostsOK'
  BY <1>1, <1>15 DEF Expire, ghosts
<1>16. CASE Purge \/ Disconnect \/ Restart \/ UNCHANGED vars
  BY <1>1, <1>16 DEF Purge, Disconnect, Restart, Lost, vars, ghosts
<1> QED
  BY <1>2, <1>3, <1>4, <1>5, <1>6, <1>9, <1>10, <1>11, <1>12, <1>13, <1>14, <1>15, <1>16, Zenon
     DEF Next, Writers, WriterStep

LEMMA StepTyped ==
  ASSUME TypeOK, [Next]_vars
  PROVE  TypeOK'
<1> USE DEF TableOK, RowsOK, CallsOK, MovesOK, LinkOK, DownOK, WhereOK, ShownOK, PagesOK
<1>0. /\ TableOK /\ CallsOK /\ MovesOK /\ LinkOK /\ DownOK /\ WhereOK /\ ShownOK /\ PagesOK /\ FlagsOK
      /\ hasMore \in BOOLEAN /\ loading \in BOOLEAN /\ hasty \in BOOLEAN /\ GhostsOK'
  BY TypeParts, FlagsOfType, GhostsTyped, Zenon
<1>1. ASSUME NEW k \in CallIds, WriterStep(k)
      PROVE  TypeOK'
  <2>1. UNCHANGED Elsewhere
    BY <1>1, WritersStay
  <2>2. /\ UNCHANGED <<moves, conn, inRooms, joins, route, resolves, chatId, list, oldest, pages>>
        /\ UNCHANGED <<hasMore, loading, hasty, filled>>
    BY <2>1 DEF Elsewhere, view
  <2>3. MovesOK' /\ LinkOK' /\ WhereOK' /\ ShownOK' /\ PagesOK'
    BY <1>0, <2>2
  <2>4. FlagsOK'
    BY <1>0, <2>2, Zenon DEF FlagsOK
  <2>5. TableOK' /\ CallsOK' /\ DownOK'
    BY <1>1, WritersTyped
  <2> QED
    BY <2>3, <2>4, <2>5, <1>0, TypePartsNext
<1>2. ASSUME NEW j \in JoinIds, EnterRoom(j) \/ ReadHistory(j)
      PROVE  TypeOK'
  <2>1. UNCHANGED <<rows, timers, calls, moves, conn, down, view, filled, hasty>>
    BY <1>2 DEF EnterRoom, ReadHistory, server, ghosts
  <2>2. LinkOK' /\ TableOK'
    <3>1. CASE EnterRoom(j)
      <4>1. joins[j] # Idle
        BY <3>1 DEF EnterRoom
      <4>2. joins' \in [JoinIds -> Join \cup {Idle}]
        BY <1>0, <3>1, <4>1, EnterRoomEffect, JoinFields
      <4>3. inRooms' \subseteq Chats /\ crossed' = crossed
        BY <1>0, <3>1, <4>1, JoinFields DEF EnterRoom, ghosts
      <4> QED
        BY <1>0, <2>1, <4>2, <4>3
    <3>2. CASE ReadHistory(j)
      <4>1. joins[j] # Idle
        BY <3>2 DEF ReadHistory
      <4>2. Messages(joins[j].chat, MaxMsgs + 1) \in Seq(Entry)
        BY <1>0, BoundsAssumption, MessagesSound
      <4>3. joins' \in [JoinIds -> Join \cup {Idle}]
        BY <1>0, <3>2, <4>1, <4>2, ReadHistoryEffect, JoinFields
      <4>4. crossed' \subseteq MsgIds /\ inRooms' = inRooms
        BY <1>0, <3>2 DEF ReadHistory
      <4> QED
        BY <1>0, <2>1, <4>3, <4>4
    <3> QED
      BY <1>2, <3>1, <3>2
  <2>3. UNCHANGED <<route, resolves, chatId, list, oldest, pages, hasMore, loading>>
    BY <2>1 DEF view
  <2>4. CallsOK' /\ MovesOK' /\ DownOK' /\ WhereOK' /\ ShownOK' /\ PagesOK'
    BY <1>0, <2>1, <2>3
  <2>5. FlagsOK'
    BY <1>0, <2>1, <2>3, Zenon DEF FlagsOK
  <2> QED
    BY <2>2, <2>4, <2>5, <1>0, TypePartsNext
<1>17. ASSUME NEW j \in JoinIds, JoinFails(j)
       PROVE  TypeOK'
  <2>1. /\ UNCHANGED <<rows, timers, calls, moves, conn, inRooms, down, filled, hasty, crossed>>
        /\ UNCHANGED <<route, resolves, chatId, list, oldest, pages, hasMore, loading>>
        /\ joins' = [joins EXCEPT ![j] = Idle]
    BY <1>17 DEF JoinFails, server, view
  <2>2. FlagsOK'
    BY <1>0, <2>1, Zenon DEF FlagsOK
  <2>3. /\ TableOK' /\ CallsOK' /\ MovesOK' /\ LinkOK' /\ DownOK' /\ WhereOK' /\ ShownOK' /\ PagesOK'
    BY <1>0, <2>1
  <2> QED
    BY <2>2, <2>3, <1>0, TypePartsNext
<1>18. ASSUME NEW c \in Chats, ResolveFails(c)
       PROVE  TypeOK'
  <2>1. /\ UNCHANGED <<rows, timers, calls, moves, conn, inRooms, down, joins, filled, hasty, crossed>>
        /\ UNCHANGED <<route, chatId, list, oldest, pages, hasMore, loading>>
        /\ resolves' = resolves \ {c}
    BY <1>18 DEF ResolveFails, server, link
  <2>2. FlagsOK'
    BY <1>0, <2>1, Zenon DEF FlagsOK
  <2>3. /\ TableOK' /\ CallsOK' /\ MovesOK' /\ LinkOK' /\ DownOK' /\ WhereOK' /\ ShownOK' /\ PagesOK'
    BY <1>0, <2>1
  <2> QED
    BY <2>2, <2>3, <1>0, TypePartsNext
<1>3. ASSUME NEW j \in JoinIds, EmitHistory(j) \/ HistoryFails(j)
      PROVE  TypeOK'
  <2>1. UNCHANGED <<rows, timers, calls, moves, conn, inRooms, filled, hasty, crossed>>
        /\ UNCHANGED <<route, resolves, chatId, list, oldest, pages, hasMore, loading>>
    BY <1>3 DEF EmitHistory, HistoryFails, server, view, ghosts
  <2>2. DownOK'
    <3>1. joins[j] # Idle
      BY <1>3 DEF EmitHistory, HistoryFails
    <3> DEFINE h == [type |-> "history", chat |-> joins[j].chat, list |-> joins[j].val]
               e == [type |-> "error", chat |-> joins[j].chat]
    <3>2. h \in Event /\ e \in Event
      BY <3>1, JoinFields DEF Event
    <3>3. down' = Append(down, h) \/ down' = Append(down, e)
      BY <1>3 DEF EmitHistory, HistoryFails
    <3> HIDE DEF h, e
    <3>4. down \in Seq(Event)
      BY <1>0
    <3>5. Append(down, h) \in Seq(Event) /\ Append(down, e) \in Seq(Event)
      BY <3>2, <3>4
    <3>6. down' \in Seq(Event)
      BY <3>3, <3>5, Zenon
    <3> QED
      BY <3>6, Zenon
  <2>3. LinkOK'
    BY <1>0, <1>3, <2>1 DEF EmitHistory, HistoryFails
  <2>4. TableOK' /\ CallsOK' /\ MovesOK' /\ WhereOK' /\ ShownOK' /\ PagesOK'
    BY <1>0, <2>1
  <2>5. FlagsOK'
    BY <1>0, <2>1, Zenon DEF FlagsOK
  <2> QED
    BY <2>2, <2>3, <2>4, <2>5, <1>0, TypePartsNext
<1>4. ASSUME NEW c \in Chats, Navigate(c)
      PROVE  TypeOK'
  <2> DEFINE h == hasty \/ resolves # {} \/ (chatId # None /\ Awaited(chatId))
  <2>1. /\ UNCHANGED <<rows, timers, calls, conn, inRooms, down, joins, chatId, pages, crossed>>
        /\ c # route /\ moves < MaxMoves /\ moves' = moves + 1
        /\ route' = c /\ resolves' = resolves \cup {c}
        /\ list' = <<>> /\ oldest' = None
    BY <1>4 DEF Navigate, link
  <2>2. hasMore' = TRUE /\ loading' = FALSE /\ hasty' = h /\ filled' = "no"
    BY <1>4, Zenon DEF Navigate
  <2>3. h \in BOOLEAN
    OBVIOUS
  <2> HIDE DEF h
  <2>4. FlagsOK'
    BY <2>2, <2>3, FlagsTyped DEF FlagsOK
  <2>5. TableOK' /\ CallsOK' /\ MovesOK' /\ LinkOK' /\ DownOK' /\ WhereOK' /\ ShownOK' /\ PagesOK'
    BY <1>0, <2>1, BoundsAssumption
  <2> QED
    BY <2>4, <2>5, <1>0, TypePartsNext
<1>5. ASSUME NEW c \in Chats, Resolve(c)
      PROVE  TypeOK'
  <2> DEFINE h == hasty \/ (c # chatId /\ chatId # None /\ Awaited(chatId))
  <2>1. /\ UNCHANGED <<rows, timers, calls, moves, conn, down, route, list, oldest, pages, crossed>>
        /\ UNCHANGED <<hasMore, loading, filled>>
        /\ resolves' = resolves \ {c} /\ chatId' = c /\ inRooms' = LeftRooms(c)
        /\ (c # chatId /\ conn = "up") \/ UNCHANGED joins
    BY <1>5 DEF Resolve, server
  <2>2. hasty' = h /\ h \in BOOLEAN
    BY <1>5, Zenon DEF Resolve
  <2>4. LinkOK'
    <3>1. inRooms' \subseteq Chats
      BY <1>0, <2>1 DEF LeftRooms
    <3>2. joins' \in [JoinIds -> Join \cup {Idle}]
      <4>1. CASE c # chatId /\ conn = "up"
        BY <1>5, <4>1, JoinTyped DEF Resolve
      <4> QED
        BY <1>0, <2>1, <4>1
    <3> QED
      BY <1>0, <2>1, <3>1, <3>2
  <2> HIDE DEF h
  <2>5. FlagsOK'
    BY <1>0, <2>1, <2>2, FlagsTyped, Zenon DEF FlagsOK
  <2>6. TableOK' /\ CallsOK' /\ MovesOK' /\ DownOK' /\ WhereOK' /\ ShownOK' /\ PagesOK'
    BY <1>0, <2>1
  <2> QED
    BY <2>4, <2>5, <2>6, <1>0, TypePartsNext
<1>6. CASE DeliverChange
  <2>1. /\ UNCHANGED <<rows, timers, calls, moves, conn, inRooms, joins, route, resolves, chatId, oldest>>
        /\ UNCHANGED <<hasMore, loading, pages, filled, hasty, crossed>>
        /\ down # <<>> /\ Head(down).type \notin {"history", "error"} /\ down' = Tail(down)
        /\ list' = LocalExpiry(Changed(list, Head(down)))
    BY <1>6 DEF DeliverChange, server, ghosts
  <2>2. list' \in Seq(Entry) /\ DownOK'
    BY <1>0, <2>1, HeadTyped, ChangedTyped, LocalExpiryTyped
  <2>3. FlagsOK'
    BY <1>0, <2>1, Zenon DEF FlagsOK
  <2>4. TableOK' /\ CallsOK' /\ MovesOK' /\ LinkOK' /\ WhereOK' /\ ShownOK' /\ PagesOK'
    BY <1>0, <2>1, <2>2
  <2> QED
    BY <2>2, <2>3, <2>4, <1>0, TypePartsNext
<1>7. CASE DeliverHistory
  <2> DEFINE e == Head(down)
             m == (Len(e.list) >= Limit)
  <2>1. /\ UNCHANGED <<rows, timers, calls, moves, conn, inRooms, joins, route, resolves, chatId>>
        /\ UNCHANGED <<loading, pages, hasty, crossed>>
        /\ down # <<>> /\ e.type = "history" /\ down' = Tail(down)
        /\ list' = LocalExpiry(e.list) /\ oldest' = IF e.list = <<>> THEN None ELSE e.list[1].id
        /\ filled' \in {"yes", filled}
    BY <1>7 DEF DeliverHistory, server
  <2>2. hasMore' = m
    BY <1>7, Zenon DEF DeliverHistory
  <2>3. m \in BOOLEAN
    OBVIOUS
  <2>4. e.list \in Seq(Entry) /\ DownOK'
    BY <1>0, <2>1, HeadTyped
  <2> HIDE DEF e, m
  <2>5. list' \in Seq(Entry)
    BY <2>1, <2>4, LocalExpiryTyped
  <2>6. oldest' \in MsgIds \cup {None}
    BY <2>1, <2>4, FirstIdTyped
  <2>7. FlagsOK'
    <3>1. {hasMore, loading, hasty}' \subseteq BOOLEAN
      BY <1>0, <2>1, <2>2, <2>3, FlagsTyped
    <3>2. filled' \in {"no", "yes", "error"}
      BY <1>0, <2>1 DEF FlagsOK
    <3> QED
      BY <3>1, <3>2, Zenon DEF FlagsOK
  <2>8. TableOK' /\ CallsOK' /\ MovesOK' /\ LinkOK' /\ WhereOK' /\ ShownOK' /\ PagesOK'
    BY <1>0, <2>1, <2>5, <2>6
  <2> QED
    BY <2>4, <2>7, <2>8, <1>0, TypePartsNext
<1>8. CASE DeliverError
  <2>1. /\ UNCHANGED <<rows, timers, calls, moves, conn, inRooms, joins, route, resolves, chatId>>
        /\ UNCHANGED <<list, oldest, hasMore, loading, pages, hasty, crossed>>
        /\ down # <<>> /\ down' = Tail(down) /\ filled' \in {"error", filled}
    BY <1>8 DEF DeliverError, server, view
  <2>2. DownOK'
    BY <2>1, HeadTyped
  <2>3. FlagsOK'
    <3>1. {hasMore, loading, hasty}' \subseteq BOOLEAN
      BY <1>0, <2>1, Zenon DEF FlagsOK
    <3>2. filled' \in {"no", "yes", "error"}
      BY <1>0, <2>1 DEF FlagsOK
    <3> QED
      BY <3>1, <3>2, Zenon DEF FlagsOK
  <2>4. TableOK' /\ CallsOK' /\ MovesOK' /\ LinkOK' /\ WhereOK' /\ ShownOK' /\ PagesOK'
    BY <1>0, <2>1
  <2> QED
    BY <2>2, <2>3, <2>4, <1>0, TypePartsNext
<1>9. ASSUME NEW p \in PageIds, LoadOlder(p) \/ ReadOlder(p)
      PROVE  TypeOK'
  <2>1. /\ UNCHANGED <<rows, timers, calls, moves, conn, inRooms, down, joins, route, resolves, chatId>>
        /\ UNCHANGED <<list, oldest, hasMore, filled, hasty, crossed>>
        /\ loading' = TRUE \/ loading' = loading
    BY <1>9, Zenon DEF LoadOlder, ReadOlder, server, link, ghosts
  <2>2. PagesOK'
    <3>1. CASE LoadOlder(p)
      <4>1. /\ chatId # None /\ oldest # None
            /\ pages' = [pages EXCEPT ![p] =
                          [chat |-> chatId, before |-> oldest, at |-> "read", val |-> <<>>]]
        BY <3>1 DEF LoadOlder
      <4>2. [chat |-> chatId, before |-> oldest, at |-> "read", val |-> <<>>] \in Page
        BY <1>0, <4>1 DEF Page
      <4> QED
        BY <1>0, <4>1, <4>2
    <3>2. CASE ReadOlder(p)
      <4> DEFINE L == Messages(pages[p].chat, pages[p].before)
                 r == [chat |-> pages[p].chat, before |-> pages[p].before, at |-> "apply", val |-> L]
      <4>1. pages[p] # Idle /\ pages' = [pages EXCEPT ![p] = r]
        BY <3>2, ReadOlderEffect
      <4>2. pages[p].chat \in Chats /\ pages[p].before \in MsgIds
        BY <4>1, PageFields
      <4>3. L \in Seq(Entry)
        <5>1. pages[p].before \in Nat
          BY <4>2, BoundsAssumption DEF MsgIds
        <5> QED
          BY <1>0, <5>1, MessagesSound
      <4>4. r \in Page
        BY <4>2, <4>3 DEF Page
      <4> HIDE DEF r
      <4> QED
        BY <1>0, <4>1, <4>4
    <3> QED
      BY <1>9, <3>1, <3>2
  <2>3. FlagsOK'
    BY <1>0, <2>1, FlagsTyped, Zenon DEF FlagsOK
  <2>4. TableOK' /\ CallsOK' /\ MovesOK' /\ LinkOK' /\ DownOK' /\ WhereOK' /\ ShownOK'
    BY <1>0, <2>1
  <2> QED
    BY <2>2, <2>3, <2>4, <1>0, TypePartsNext
<1>10. ASSUME NEW p \in PageIds, OlderArrives(p)
       PROVE  TypeOK'
  <2> DEFINE older == pages[p].val
             m == hasMore /\ Len(older) >= Limit
  <2>1. /\ UNCHANGED <<rows, timers, calls, moves, conn, inRooms, down, joins, route, resolves, chatId>>
        /\ UNCHANGED <<filled, hasty, crossed>>
        /\ pages[p] # Idle /\ pages' = [pages EXCEPT ![p] = Idle]
        /\ list' = LocalExpiry(older \o list)
        /\ oldest' = IF older = <<>> THEN oldest ELSE older[1].id
    BY <1>10 DEF OlderArrives, server, link, ghosts
  <2>2. loading' = FALSE /\ hasMore' = m
    BY <1>10, Zenon DEF OlderArrives
  <2>3. m \in BOOLEAN
    OBVIOUS
  <2>4. older \in Seq(Entry)
    BY <2>1, PageFields
  <2> HIDE DEF older, m
  <2>5. list' \in Seq(Entry)
    <3>1. older \o list \in Seq(Entry)
      BY <1>0, <2>4
    <3> QED
      BY <2>1, <3>1, LocalExpiryTyped
  <2>6. oldest' \in MsgIds \cup {None}
    BY <1>0, <2>1, <2>4, FirstIdTyped
  <2>7. FlagsOK'
    BY <1>0, <2>1, <2>2, <2>3, FlagsTyped, Zenon DEF FlagsOK
  <2>8. /\ TableOK' /\ CallsOK' /\ MovesOK' /\ LinkOK' /\ DownOK' /\ WhereOK' /\ ShownOK' /\ PagesOK'
    BY <1>0, <2>1, <2>5, <2>6
  <2> QED
    BY <2>7, <2>8, <1>0, TypePartsNext
<1>11. ASSUME NEW p \in PageIds, OlderFails(p)
       PROVE  TypeOK'
  <2>1. /\ UNCHANGED <<rows, timers, calls, moves, conn, inRooms, down, joins, route, resolves, chatId>>
        /\ UNCHANGED <<list, oldest, hasMore, filled, hasty, crossed>>
        /\ pages' = [pages EXCEPT ![p] = Idle] /\ loading' = FALSE
    BY <1>11 DEF OlderFails, server, link, ghosts
  <2>2. FlagsOK'
    BY <1>0, <2>1, FlagsTyped, Zenon DEF FlagsOK
  <2>3. /\ TableOK' /\ CallsOK' /\ MovesOK' /\ LinkOK' /\ DownOK' /\ WhereOK' /\ ShownOK' /\ PagesOK'
    BY <1>0, <2>1
  <2> QED
    BY <2>2, <2>3, <1>0, TypePartsNext
<1>12. ASSUME NEW m \in MsgIds, Expire(m)
       PROVE  TypeOK'
  <2>1. /\ UNCHANGED <<calls, moves, conn, inRooms, joins, route, resolves, chatId, oldest>>
        /\ UNCHANGED <<hasMore, loading, pages, filled, hasty, crossed>>
        /\ rows[m] # None /\ rows' = [rows EXCEPT ![m].timed = "over"]
        /\ timers' = timers \ {m} /\ list' = Without(list, m)
        /\ UNCHANGED down \/ Emit(rows[m].chat, [type |-> "delete", msg |-> m, val |-> 0])
    BY <1>12 DEF Expire, ghosts
  <2>2. DownOK'
    <3>1. [type |-> "delete", msg |-> m, val |-> 0] \in Event
      BY DEF Event
    <3> QED
      BY <1>0, <2>1, <3>1, EmitTyped
  <2>3. list' \in Seq(Entry)
    BY <1>0, <2>1, WithoutTyped
  <2>4. TableOK'
    <3> DEFINE r == [rows[m] EXCEPT !.timed = "over"]
    <3>1. r \in Row /\ rows' = [rows EXCEPT ![m] = r]
      BY <1>0, <2>1, RowChanged
    <3> HIDE DEF r
    <3> QED
      BY <1>0, <2>1, <3>1
  <2>5. FlagsOK'
    BY <1>0, <2>1, Zenon DEF FlagsOK
  <2>6. CallsOK' /\ MovesOK' /\ LinkOK' /\ WhereOK' /\ ShownOK' /\ PagesOK'
    BY <1>0, <2>1, <2>3
  <2> QED
    BY <2>2, <2>4, <2>5, <2>6, <1>0, TypePartsNext
<1>13. CASE Purge
  <2>1. /\ UNCHANGED <<timers, calls, moves, conn, inRooms, down, joins, route, resolves, chatId, list>>
        /\ UNCHANGED <<oldest, hasMore, loading, pages, filled, hasty, crossed>>
        /\ rows' = [m \in MsgIds |-> IF rows[m] # None /\ rows[m].timed = "over"
                                     THEN [rows[m] EXCEPT !.timed = "purged"] ELSE rows[m]]
    BY <1>13 DEF Purge, link, view, ghosts
  <2>2. \A m \in MsgIds : rows[m] # None => [rows[m] EXCEPT !.timed = "purged"] \in Row
    BY RowChanged
  <2>3. TableOK'
    BY <1>0, <2>1, <2>2
  <2>4. FlagsOK'
    BY <1>0, <2>1, Zenon DEF FlagsOK
  <2>5. CallsOK' /\ MovesOK' /\ LinkOK' /\ DownOK' /\ WhereOK' /\ ShownOK' /\ PagesOK'
    BY <1>0, <2>1
  <2> QED
    BY <2>3, <2>4, <2>5, <1>0, TypePartsNext
<1>14. CASE Disconnect \/ Restart
  <2>1. /\ UNCHANGED <<rows, hasty, crossed>> /\ moves < MaxMoves /\ moves' = moves + 1
        /\ UNCHANGED <<route, resolves, chatId, list, oldest, hasMore, loading, pages>>
        /\ conn' = "down" /\ inRooms' = {} /\ down' = <<>> /\ filled' = "no"
        /\ joins' = [j \in JoinIds |-> Idle]
        /\ timers' = {} \/ timers' = timers
        /\ calls' = calls \/ calls' = [k \in CallIds |-> IF Open(k) THEN Done ELSE calls[k]]
    BY <1>14 DEF Disconnect, Restart, Lost, view
  <2>2. FlagsOK'
    BY <1>0, <2>1, FlagsTyped, Zenon DEF FlagsOK
  <2>3. /\ TableOK' /\ CallsOK' /\ MovesOK' /\ LinkOK' /\ DownOK' /\ WhereOK' /\ ShownOK' /\ PagesOK'
    BY <1>0, <2>1, BoundsAssumption
  <2> QED
    BY <2>2, <2>3, <1>0, TypePartsNext
<1>15. CASE Reconnect
  <2>1. /\ UNCHANGED <<rows, timers, calls, moves, inRooms, down, filled, hasty, crossed>>
        /\ UNCHANGED <<route, resolves, chatId, list, oldest, hasMore, loading, pages>>
        /\ conn' = "up" /\ IF chatId # None THEN Joining(chatId) ELSE UNCHANGED joins
    BY <1>15 DEF Reconnect, server, view, ghosts
  <2>2. LinkOK'
    BY <1>0, <2>1, JoinTyped
  <2>3. FlagsOK'
    BY <1>0, <2>1, Zenon DEF FlagsOK
  <2>4. /\ TableOK' /\ CallsOK' /\ MovesOK' /\ DownOK' /\ WhereOK' /\ ShownOK' /\ PagesOK'
    BY <1>0, <2>1
  <2> QED
    BY <2>2, <2>3, <2>4, <1>0, TypePartsNext
<1>16. CASE UNCHANGED vars
  <2>1. /\ UNCHANGED <<rows, timers, calls, moves, conn, inRooms, down, joins, filled, hasty, crossed>>
        /\ UNCHANGED <<route, resolves, chatId, list, oldest, hasMore, loading, pages>>
    BY <1>16 DEF vars, server, link, view, ghosts
  <2>2. FlagsOK'
    BY <1>0, <2>1, Zenon DEF FlagsOK
  <2>3. /\ TableOK' /\ CallsOK' /\ MovesOK' /\ LinkOK' /\ DownOK' /\ WhereOK' /\ ShownOK' /\ PagesOK'
    BY <1>0, <2>1
  <2> QED
    BY <2>2, <2>3, <1>0, TypePartsNext
<1> QED
  BY <1>1, <1>2, <1>3, <1>4, <1>5, <1>6, <1>7, <1>8, <1>9, <1>10, <1>11, <1>12, <1>13, <1>14, <1>15,
     <1>16, <1>17, <1>18, Zenon DEF Next, Writers, WriterStep

\* The tables, the calls, the connection and the page keep their types, whatever
\* the lengths of the lists and of what is on its way.
THEOREM TypeCorrect == Spec => []TypeOK
<1>1. Init => TypeOK
  BY InitTyped
<1>2. TypeOK /\ [Next]_vars => TypeOK'
  BY StepTyped
<1> QED
  BY <1>1, <1>2, PTL DEF Spec

-----------------------------------------------------------------------------
(* The page hears its room. *)

Whereabouts ==
  <<conn, inRooms, joins, route, resolves, chatId, oldest, loading, pages, filled, hasty, stranded>>

\* A change of the room is appended to what is on its way.
Told == inRooms # {} /\ \E e \in Event : e.type \notin {"history", "error"} /\ down' = Append(down, e)

LEMMA TellingAdds ==
  ASSUME TypeOK, NEW e \in Event, down' = Append(down, e)
  PROVE  /\ Len(down) \in Nat /\ DOMAIN down = 1..Len(down) /\ DOMAIN down' = 1..(Len(down) + 1)
         /\ \A i \in DOMAIN down : i \in DOMAIN down' /\ down'[i] = down[i]
         /\ down'[Len(down) + 1] = e
BY DEF TypeOK

LEMMA DeliveryShifts ==
  ASSUME TypeOK, down # <<>>, down' = Tail(down)
  PROVE  /\ Len(down) \in Nat \ {0} /\ DOMAIN down = 1..Len(down)
         /\ DOMAIN down' = 1..(Len(down) - 1) /\ Head(down) = down[1]
         /\ \A i \in DOMAIN down' : i + 1 \in DOMAIN down /\ down'[i] = down[i + 1]
         /\ \A i \in DOMAIN down : i # 1 => i - 1 \in DOMAIN down' /\ down'[i - 1] = down[i]
BY DEF TypeOK

LEMMA EmitTells ==
  ASSUME NEW c, NEW e \in Event, e.type \notin {"history", "error"}, Emit(c, e)
  PROVE  UNCHANGED down \/ Told
BY DEF Emit, Told

LEMMA WritersTell ==
  ASSUME TypeOK, NEW k \in CallIds, WriterStep(k)
  PROVE  UNCHANGED down \/ Told
<1>1. ASSUME NEW c \in Chats, NEW t \in BOOLEAN, SendMessage(k, c, t)
      PROVE  UNCHANGED down
  BY <1>1 DEF SendMessage, link
<1>2. ASSUME NEW c \in Chats, ClearRoom(k, c)
      PROVE  UNCHANGED down
  BY <1>2 DEF ClearRoom, link
<1>3. ASSUME NEW m \in MsgIds, EditMessage(k, m) \/ DeleteMessage(k, m) \/ ReactMessage(k, m)
      PROVE  UNCHANGED down
  BY <1>3 DEF EditMessage, DeleteMessage, ReactMessage, link
<1>4. CASE NewMessage(k)
  <2> DEFINE m == calls[k].msg
             e == [type |-> "new", msg |-> [id |-> m, body |-> 0, liked |-> FALSE]]
  <2>1. At(k, "new", "emit") /\ Emit(calls[k].chat, e)
    BY <1>4 DEF NewMessage
  <2>2. m \in MsgIds
    BY <2>1, CallFields DEF At
  <2>3. e \in Event /\ e.type = "new"
    BY <2>2, BoundsAssumption DEF Event, Entry
  <2> HIDE DEF e
  <2> QED
    BY <2>1, <2>3, EmitTells
<1>5. CASE Announce(k)
  <2> DEFINE e == [type |-> calls[k].op, msg |-> calls[k].msg, val |-> calls[k].val]
  <2>1. Open(k) /\ calls[k].at = "emit" /\ calls[k].op # "new" /\ Emit(calls[k].chat, e)
    BY <1>5 DEF Announce
  <2>2. e \in Event /\ e.type \notin {"history", "error"}
    BY <2>1, CallFields DEF Event
  <2> HIDE DEF e
  <2> QED
    BY <2>1, <2>2, EmitTells
<1>6. CASE \/ ApplyMessageEdit(k) \/ ApplyDelete(k) \/ WriteReaction(k) \/ FindReaction(k)
           \/ CountReactions(k) \/ CallFails(k)
  BY <1>6 DEF ApplyMessageEdit, ApplyDelete, WriteReaction, FindReaction, CountReactions, CallFails,
     link
<1> QED
  BY <1>1, <1>2, <1>3, <1>4, <1>5, <1>6, Zenon DEF WriterStep

LEMMA HearFrame ==
  ASSUME HearInv, UNCHANGED Whereabouts, UNCHANGED down \/ Told
  PROVE  OfflineIsEmpty' /\ OneRoomAtATime' /\ OnePageAtATime' /\ RoomIsJoined'
<1>1. UNCHANGED <<conn, inRooms, joins, route, resolves, chatId, oldest, loading, pages, filled, hasty,
                  stranded>>
  BY DEF Whereabouts
<1>2. OfflineIsEmpty'
  BY <1>1 DEF HearInv, OfflineIsEmpty, NoJoin, Told
<1>3. OneRoomAtATime' /\ OnePageAtATime'
  BY <1>1 DEF HearInv, OneRoomAtATime, OnePageAtATime
<1>4. RoomIsJoined'
  <2>1. CASE UNCHANGED down
    BY <1>1, <2>1 DEF HearInv, RoomIsJoined, NoJoin, IsAnswer, LastAnswer
  <2>2. CASE Told
    <3>1. PICK e \in Event : e.type \notin {"history", "error"} /\ down' = Append(down, e)
      BY <2>2 DEF Told
    <3>2. /\ Len(down) \in Nat /\ DOMAIN down = 1..Len(down) /\ DOMAIN down' = 1..(Len(down) + 1)
          /\ \A i \in DOMAIN down : i \in DOMAIN down' /\ down'[i] = down[i]
          /\ down'[Len(down) + 1] = e
      BY <3>1, TellingAdds DEF HearInv
    <3>3. ASSUME NEW i \in DOMAIN down', LastAnswer(i)'
          PROVE  i \in DOMAIN down /\ LastAnswer(i) /\ down'[i] = down[i]
      <4>1. i # Len(down) + 1
        BY <3>1, <3>2, <3>3 DEF LastAnswer, IsAnswer
      <4>2. i \in DOMAIN down /\ down'[i] = down[i]
        BY <3>2, <4>1
      <4> QED
        BY <3>2, <3>3, <4>2 DEF LastAnswer, IsAnswer
    <3>4. \A i \in DOMAIN down : IsAnswer(i) /\ down[i].chat = route =>
            i \in DOMAIN down' /\ IsAnswer(i)' /\ down'[i].chat = route'
      BY <1>1, <3>2 DEF IsAnswer
    <3> QED
      BY <1>1, <3>3, <3>4 DEF HearInv, RoomIsJoined, NoJoin
  <2> QED
    BY <2>1, <2>2
<1> QED
  BY <1>2, <1>3, <1>4

LEMMA HearStep ==
  ASSUME HearInv, [Next]_vars
  PROVE  OfflineIsEmpty' /\ OneRoomAtATime' /\ OnePageAtATime' /\ RoomIsJoined'
<1>0. TypeOK /\ OfflineIsEmpty /\ OneRoomAtATime /\ OnePageAtATime /\ RoomIsJoined
  BY DEF HearInv
<1> DEFINE Goal == OfflineIsEmpty' /\ OneRoomAtATime' /\ OnePageAtATime' /\ RoomIsJoined'
<1>1. ASSUME NEW k \in CallIds, WriterStep(k)
      PROVE  Goal
  <2>1. UNCHANGED Whereabouts
    <3>1. UNCHANGED Elsewhere
      BY <1>1, WritersStay
    <3> QED
      BY <3>1 DEF Elsewhere, view, Whereabouts
  <2>2. UNCHANGED down \/ Told
    BY <1>0, <1>1, WritersTell
  <2> QED
    BY <2>1, <2>2, HearFrame
<1>2. ASSUME NEW m \in MsgIds, Expire(m)
      PROVE  Goal
  <2> DEFINE e == [type |-> "delete", msg |-> m, val |-> 0]
  <2>1. UNCHANGED Whereabouts /\ (UNCHANGED down \/ Emit(rows[m].chat, e))
    BY <1>2 DEF Expire, Whereabouts, ghosts
  <2>2. e \in Event /\ e.type \notin {"history", "error"}
    BY DEF Event
  <2> HIDE DEF e
  <2>3. UNCHANGED down \/ Told
    BY <2>1, <2>2, EmitTells
  <2> QED
    BY <2>1, <2>3, HearFrame
<1>3. CASE Purge \/ UNCHANGED vars
  <2>1. UNCHANGED Whereabouts /\ UNCHANGED down
    BY <1>3 DEF Purge, Whereabouts, vars, link, view, ghosts
  <2> QED
    BY <2>1, HearFrame
<1>4. ASSUME NEW j \in JoinIds, EnterRoom(j) \/ ReadHistory(j)
      PROVE  Goal
  <2>1. /\ UNCHANGED <<conn, down, filled, hasty, stranded, route, resolves, chatId, loading, pages>>
        /\ joins[j] # Idle /\ joins[j].at \in {"enter", "read"}
    BY <1>4 DEF EnterRoom, ReadHistory, view, ghosts
  <2>2. PICK at \in {"read", "emit"}, v \in Seq(Entry) :
          joins' = [joins EXCEPT ![j] = [chat |-> joins[j].chat, at |-> at, val |-> v]]
    <3>1. CASE EnterRoom(j)
      BY <1>0, <2>1, <3>1, EnterRoomEffect, JoinFields
    <3>2. CASE ReadHistory(j)
      <4>1. Messages(joins[j].chat, MaxMsgs + 1) \in Seq(Entry)
        BY <1>0, BoundsAssumption, MessagesSound DEF TypeOK, RowsOK
      <4> QED
        BY <1>0, <3>2, <4>1, ReadHistoryEffect
    <3> QED
      BY <1>4, <3>1, <3>2
  <2> DEFINE r == [chat |-> joins[j].chat, at |-> at, val |-> v]
  <2>3. r # Idle /\ r.chat = joins[j].chat /\ r.at = at
    BY <1>0, <2>1, JoinFields, NullsAssumption
  <2>4. joins'[j] = r /\ \A i \in JoinIds \ {j} : joins'[i] = joins[i]
    BY <1>0, <2>2 DEF TypeOK
  <2> HIDE DEF r
  <2>5. \A i \in JoinIds : /\ joins'[i] = Idle <=> joins[i] = Idle
                           /\ joins[i] # Idle => joins'[i].chat = joins[i].chat
    BY <2>1, <2>3, <2>4
  <2>6. NoJoin' = NoJoin /\ ~NoJoin /\ conn = "up"
    BY <1>0, <2>1, <2>5 DEF NoJoin, OfflineIsEmpty, TypeOK
  <2>7. inRooms' \subseteq inRooms \cup {joins[j].chat} /\ inRooms \subseteq inRooms'
        /\ (EnterRoom(j) => joins[j].chat \in inRooms') /\ (joins[j].at = "enter" => EnterRoom(j))
    BY <1>4 DEF EnterRoom, ReadHistory
  <2>8. OfflineIsEmpty'
    BY <2>1, <2>6 DEF OfflineIsEmpty
  <2>9. OneRoomAtATime'
    BY <1>0, <2>1, <2>5, <2>7 DEF OneRoomAtATime
  <2>10. OnePageAtATime'
    BY <1>0, <2>1 DEF OnePageAtATime
  <2>11. RoomIsJoined'
    <3> SUFFICES ASSUME ~hasty, ~stranded, chatId # None
                 PROVE  /\ chatId \in inRooms' \/ \E i \in JoinIds : joins'[i] # Idle /\ joins'[i].at = "enter"
                        /\ ~NoJoin'
      BY <2>1, <2>6 DEF RoomIsJoined
    <3>1. chatId \in inRooms \/ \E i \in JoinIds : joins[i] # Idle /\ joins[i].at = "enter"
      BY <1>0, <2>6 DEF RoomIsJoined
    <3>2. joins[j].chat = chatId
      BY <1>0, <2>1 DEF OneRoomAtATime
    <3> QED
      BY <2>4, <2>5, <2>6, <2>7, <3>1, <3>2
  <2> QED
    BY <2>8, <2>9, <2>10, <2>11
<1>5. ASSUME NEW j \in JoinIds, EmitHistory(j) \/ HistoryFails(j)
      PROVE  Goal
  <2>1. /\ UNCHANGED <<conn, inRooms, filled, hasty, stranded, route, resolves, chatId, loading, pages>>
        /\ joins[j] # Idle /\ joins[j].at \in {"read", "emit"} /\ joins' = [joins EXCEPT ![j] = Idle]
    BY <1>5 DEF EmitHistory, HistoryFails, view, ghosts
  <2>2. PICK e \in Event : /\ down' = Append(down, e)
                           /\ e.type \in {"history", "error"} /\ e.chat = joins[j].chat
    <3> DEFINE h == [type |-> "history", chat |-> joins[j].chat, list |-> joins[j].val]
               f == [type |-> "error", chat |-> joins[j].chat]
    <3>1. h \in Event /\ f \in Event
      BY <1>0, <2>1, JoinFields DEF Event
    <3>2. down' = Append(down, h) \/ down' = Append(down, f)
      BY <1>5 DEF EmitHistory, HistoryFails
    <3>3. h.type = "history" /\ f.type = "error" /\ h.chat = joins[j].chat /\ f.chat = joins[j].chat
      OBVIOUS
    <3> HIDE DEF h, f
    <3> QED
      BY <3>1, <3>2, <3>3, Zenon
  <2>3. /\ Len(down) \in Nat /\ DOMAIN down = 1..Len(down) /\ DOMAIN down' = 1..(Len(down) + 1)
        /\ \A i \in DOMAIN down : i \in DOMAIN down' /\ down'[i] = down[i]
        /\ down'[Len(down) + 1] = e
    BY <1>0, <2>2, TellingAdds
  <2>4. joins'[j] = Idle /\ \A i \in JoinIds \ {j} : joins'[i] = joins[i]
    BY <1>0, <2>1 DEF TypeOK
  <2>5. ~NoJoin /\ conn = "up"
    BY <1>0, <2>1 DEF NoJoin, OfflineIsEmpty, TypeOK
  <2>6. OfflineIsEmpty'
    BY <2>1, <2>5 DEF OfflineIsEmpty
  <2>7. OneRoomAtATime'
    BY <1>0, <2>1, <2>4 DEF OneRoomAtATime
  <2>8. OnePageAtATime'
    BY <1>0, <2>1 DEF OnePageAtATime
  <2>9. RoomIsJoined'
    <3> SUFFICES ASSUME ~hasty, ~stranded, chatId # None
                 PROVE  /\ chatId \in inRooms \/ \E i \in JoinIds : joins'[i] # Idle /\ joins'[i].at = "enter"
                        /\ chatId = route => \E i \in DOMAIN down' : IsAnswer(i)' /\ down'[i].chat = route
                        /\ \A i \in DOMAIN down' : LastAnswer(i)' => down'[i].chat = chatId
      BY <2>1, <2>5 DEF RoomIsJoined
    <3>1. chatId \in inRooms \/ \E i \in JoinIds : joins[i] # Idle /\ joins[i].at = "enter"
      BY <1>0, <2>5 DEF RoomIsJoined
    <3>2. e.chat = chatId
      BY <1>0, <2>1, <2>2 DEF OneRoomAtATime
    <3>3. PICK n : n = Len(down) + 1
      OBVIOUS
    <3>4. IsAnswer(n)' /\ n \in DOMAIN down' /\ down'[n] = e
      BY <2>2, <2>3, <3>3 DEF IsAnswer
    <3>5. \A i \in DOMAIN down' : LastAnswer(i)' => i = n
      BY <2>3, <3>3, <3>4 DEF LastAnswer
    <3> QED
      BY <2>1, <2>2, <2>4, <3>1, <3>2, <3>4, <3>5
  <2> QED
    BY <2>6, <2>7, <2>8, <2>9
<1>6. ASSUME NEW c \in Chats, Navigate(c)
      PROVE  Goal
  <2>1. /\ UNCHANGED <<conn, inRooms, down, joins, chatId, pages, stranded>>
        /\ c # route /\ route' = c /\ resolves' = resolves \cup {c} /\ filled' = "no"
    BY <1>6 DEF Navigate, link
  <2>2. hasty' = (hasty \/ resolves # {} \/ (chatId # None /\ Awaited(chatId)))
    BY <1>6 DEF Navigate
  <2>3. ~hasty' => ~hasty /\ resolves = {} /\ (chatId # None => ~Awaited(chatId))
    BY <2>2
  <2>10. ~hasty' /\ ~stranded => chatId = route /\ chatId # None
    BY <1>0, <2>3, NullsAssumption DEF OneRoomAtATime, TypeOK
  <2>11. ~hasty' => \A p \in PageIds : pages[p] = Idle
    <3> SUFFICES ASSUME ~hasty', NEW p \in PageIds, pages[p] # Idle
                 PROVE  FALSE
      OBVIOUS
    <3>1. pages[p].chat = chatId /\ pages[p].chat \in Chats
      BY <1>0, <2>3, PageFields DEF OnePageAtATime
    <3> QED
      BY <2>3, <3>1, NullsAssumption DEF Awaited
  <2>4. OfflineIsEmpty'
    BY <1>0, <2>1 DEF OfflineIsEmpty, NoJoin
  <2>5. OneRoomAtATime'
    BY <1>0, <2>1, <2>3 DEF OneRoomAtATime
  <2>6. OnePageAtATime'
    BY <2>1, <2>11 DEF OnePageAtATime
  <2>7. RoomIsJoined'
    BY <1>0, <2>1, <2>3, <2>10 DEF RoomIsJoined, NoJoin, LastAnswer, IsAnswer
  <2> QED
    BY <2>4, <2>5, <2>6, <2>7
<1>7. ASSUME NEW c \in Chats, Resolve(c), c # chatId
      PROVE  Goal
  <2>1. /\ UNCHANGED <<conn, down, route, oldest, loading, pages, filled>>
        /\ c \in resolves /\ resolves' = resolves \ {c} /\ chatId' = c /\ inRooms' = LeftRooms(c)
        /\ IF c # chatId /\ conn = "up" THEN Joining(c) ELSE UNCHANGED joins
    BY <1>7 DEF Resolve, server
  <2>2. hasty' = (hasty \/ (c # chatId /\ chatId # None /\ Awaited(chatId)))
    BY <1>7 DEF Resolve
  <2>3. ~hasty' => /\ ~hasty /\ c = route /\ c # chatId /\ resolves' = {}
                   /\ chatId # None => ~Awaited(chatId)
    BY <1>0, <1>7, <2>1, <2>2 DEF OneRoomAtATime
  <2>4. c # None
    BY NullsAssumption
  <2>5. ~hasty' => NoJoin /\ (\A p \in PageIds : pages[p] = Idle) /\ inRooms' = {}
    <3> SUFFICES ASSUME ~hasty'
                 PROVE  NoJoin /\ (\A p \in PageIds : pages[p] = Idle) /\ inRooms' = {}
      OBVIOUS
    <3>1. \A j \in JoinIds : joins[j] # Idle => joins[j].chat = chatId /\ joins[j].chat \in Chats
      BY <1>0, <2>3, JoinFields DEF OneRoomAtATime
    <3>2. \A p \in PageIds : pages[p] # Idle => pages[p].chat = chatId /\ pages[p].chat \in Chats
      BY <1>0, <2>3, PageFields DEF OnePageAtATime
    <3>3. inRooms \subseteq {chatId}
      BY <1>0, <2>3 DEF OneRoomAtATime
    <3> QED
      BY <2>1, <2>3, <3>1, <3>2, <3>3, NullsAssumption DEF NoJoin, Awaited, LeftRooms
  <2>6. ASSUME conn = "down"
        PROVE  UNCHANGED joins /\ inRooms' = {}
    BY <1>0, <2>1, <2>6 DEF OfflineIsEmpty, LeftRooms
  <2>7. OfflineIsEmpty'
    BY <1>0, <2>1, <2>6 DEF OfflineIsEmpty, NoJoin
  <2>8. OnePageAtATime'
    BY <2>5 , <2>1 DEF OnePageAtATime
  <2>9. CASE conn = "up"
    <3> SUFFICES ASSUME ~hasty'
                 PROVE  OneRoomAtATime' /\ RoomIsJoined'
      BY <2>7, <2>8 DEF OneRoomAtATime, RoomIsJoined
    <3>1. PICK j \in JoinIds : /\ joins[j] = Idle
                               /\ joins'[j] = [chat |-> c, at |-> "enter", val |-> <<>>]
                               /\ \A i \in JoinIds \ {j} : joins'[i] = joins[i]
      BY <1>0, <2>1, <2>3, <2>9, JoinTyped
    <3>2. joins'[j] # Idle /\ joins'[j].chat = c /\ joins'[j].at = "enter"
      <4>1. [chat |-> c, at |-> "enter", val |-> <<>>] \in Join
        BY DEF Join
      <4> QED
        BY <3>1, <4>1, NullsAssumption
    <3>3. \A i \in JoinIds : joins'[i] # Idle => i = j
      BY <2>5, <3>1 DEF NoJoin
    <3>4. OneRoomAtATime'
      BY <2>1, <2>3, <2>5, <3>2, <3>3 DEF OneRoomAtATime
    <3>5. RoomIsJoined'
      BY <2>1, <3>2 DEF RoomIsJoined, NoJoin
    <3> QED
      BY <3>4, <3>5
  <2>10. CASE conn = "down"
    <3>1. RoomIsJoined'
      BY <2>1, <2>10 DEF RoomIsJoined
    <3>2. OneRoomAtATime'
      BY <2>1, <2>3, <2>5, <2>6, <2>10 DEF OneRoomAtATime, NoJoin
    <3> QED
      BY <2>7, <2>8, <3>1, <3>2
  <2> QED
    BY <1>0, <2>9, <2>10 DEF TypeOK
<1>12. ASSUME NEW c \in Chats, Resolve(c), c = chatId
       PROVE  Goal
  <2>1. /\ UNCHANGED <<conn, down, joins, route, chatId, loading, pages, filled, inRooms>>
        /\ c \in resolves /\ resolves' = resolves \ {c}
    BY <1>12 DEF Resolve, server, LeftRooms
  <2>2. (~hasty' => ~hasty) /\ (~stranded' => ~stranded)
    BY <1>12 DEF Resolve
  <2>3. ~hasty => c = route
    BY <1>0, <2>1 DEF OneRoomAtATime
  <2>4. OfflineIsEmpty' /\ OnePageAtATime'
    BY <1>0, <2>1, <2>2 DEF OfflineIsEmpty, OnePageAtATime, NoJoin
  <2>5. OneRoomAtATime'
    BY <1>0, <1>12, <2>1, <2>2, <2>3 DEF OneRoomAtATime
  <2>6. RoomIsJoined'
    BY <1>0, <2>1, <2>2 DEF RoomIsJoined, NoJoin, LastAnswer, IsAnswer
  <2> QED
    BY <2>4, <2>5, <2>6
<1>13. ASSUME NEW c \in Chats, ResolveFails(c)
       PROVE  Goal
  <2>1. /\ UNCHANGED <<conn, inRooms, down, joins, route, chatId, loading, pages, filled, hasty>>
        /\ resolves' = resolves \ {c} /\ stranded'
    BY <1>13 DEF ResolveFails, link
  <2> QED
    BY <1>0, <2>1 DEF OfflineIsEmpty, OneRoomAtATime, OnePageAtATime, RoomIsJoined, NoJoin
<1>14. ASSUME NEW j \in JoinIds, JoinFails(j)
       PROVE  Goal
  <2>1. /\ UNCHANGED <<conn, inRooms, down, resolves, route, chatId, loading, pages, filled, hasty>>
        /\ joins[j] # Idle /\ joins' = [joins EXCEPT ![j] = Idle] /\ stranded'
    BY <1>14 DEF JoinFails, view
  <2>2. joins'[j] = Idle /\ \A i \in JoinIds \ {j} : joins'[i] = joins[i]
    BY <1>0, <2>1 DEF TypeOK
  <2> QED
    BY <1>0, <2>1, <2>2 DEF OfflineIsEmpty, OneRoomAtATime, OnePageAtATime, RoomIsJoined, NoJoin
<1>8. CASE DeliverChange \/ DeliverHistory \/ DeliverError
  <2>1. /\ UNCHANGED <<conn, inRooms, joins, route, resolves, chatId, loading, pages, hasty, stranded>>
        /\ down # <<>> /\ down' = Tail(down)
    BY <1>8 DEF DeliverChange, DeliverHistory, DeliverError, view, ghosts
  <2>2. /\ Len(down) \in Nat \ {0} /\ DOMAIN down = 1..Len(down)
        /\ DOMAIN down' = 1..(Len(down) - 1) /\ Head(down) = down[1]
        /\ \A i \in DOMAIN down' : i + 1 \in DOMAIN down /\ down'[i] = down[i + 1]
        /\ \A i \in DOMAIN down : i # 1 => i - 1 \in DOMAIN down' /\ down'[i - 1] = down[i]
    BY <1>0, <2>1, DeliveryShifts
  <2>4. filled' = "no" => filled = "no" /\ (IsAnswer(1) => down[1].chat # route)
    BY <1>8, <2>2 DEF DeliverChange, DeliverHistory, DeliverError, ghosts, IsAnswer
  <2>5. conn = "up"
    BY <1>0, <2>1 DEF OfflineIsEmpty, TypeOK
  <2>6. OfflineIsEmpty' /\ OneRoomAtATime' /\ OnePageAtATime'
    BY <1>0, <2>1, <2>5 DEF OfflineIsEmpty, OneRoomAtATime, OnePageAtATime
  <2>7. ASSUME NEW i \in DOMAIN down', LastAnswer(i)'
        PROVE  i + 1 \in DOMAIN down /\ LastAnswer(i + 1) /\ down'[i] = down[i + 1]
    <3>1. i + 1 \in DOMAIN down /\ down'[i] = down[i + 1]
      BY <2>2
    <3>2. ASSUME NEW n \in DOMAIN down, n > i + 1
          PROVE  ~IsAnswer(n)
      <4>1. n - 1 \in DOMAIN down' /\ n - 1 > i /\ down'[n - 1] = down[n]
        BY <2>2, <3>2
      <4> QED
        BY <2>7, <4>1 DEF LastAnswer, IsAnswer
    <3> QED
      BY <2>7, <3>1, <3>2 DEF LastAnswer, IsAnswer
  <2>8. ASSUME NEW i \in DOMAIN down, IsAnswer(i), down[i].chat = route, filled' = "no"
        PROVE  \E n \in DOMAIN down' : IsAnswer(n)' /\ down'[n].chat = route
    <3>1. i # 1
      BY <2>4, <2>8
    <3> QED
      BY <2>2, <2>8, <3>1 DEF IsAnswer
  <2>9. RoomIsJoined'
    BY <1>0, <2>1, <2>4, <2>7, <2>8 DEF RoomIsJoined, NoJoin
  <2> QED
    BY <2>6, <2>9
<1>9. ASSUME NEW p \in PageIds,
             LoadOlder(p) \/ ReadOlder(p) \/ OlderArrives(p) \/ OlderFails(p)
      PROVE  Goal
  <2>1. UNCHANGED <<conn, inRooms, down, joins, route, resolves, chatId, filled, hasty, stranded>>
    BY <1>9 DEF LoadOlder, ReadOlder, OlderArrives, OlderFails, link, ghosts
  <2>2. OfflineIsEmpty' /\ OneRoomAtATime' /\ RoomIsJoined'
    BY <1>0, <2>1 DEF OfflineIsEmpty, OneRoomAtATime, RoomIsJoined, NoJoin, LastAnswer, IsAnswer
  <2>3. OnePageAtATime'
    <3>1. CASE LoadOlder(p)
      <4>1. /\ ~loading /\ loading' /\ oldest' = oldest /\ chatId # None /\ oldest # None
            /\ pages' = [pages EXCEPT ![p] =
                          [chat |-> chatId, before |-> oldest, at |-> "read", val |-> <<>>]]
        BY <3>1 DEF LoadOlder
      <4> DEFINE r == [chat |-> chatId, before |-> oldest, at |-> "read", val |-> <<>>]
      <4>2. r.chat = chatId
        OBVIOUS
      <4> HIDE DEF r
      <4>3. pages'[p] = r /\ \A q \in PageIds \ {p} : pages'[q] = pages[q]
        BY <1>0, <4>1 DEF TypeOK, r
      <4>4. ~hasty => \A q \in PageIds : pages[q] = Idle
        BY <1>0, <4>1 DEF OnePageAtATime
      <4> QED
        BY <2>1, <4>1, <4>2, <4>3, <4>4 DEF OnePageAtATime
    <3>2. CASE ReadOlder(p)
      <4> DEFINE r == [chat |-> pages[p].chat, before |-> pages[p].before, at |-> "apply",
                       val |-> Messages(pages[p].chat, pages[p].before)]
      <4>1. pages[p] # Idle /\ pages' = [pages EXCEPT ![p] = r] /\ UNCHANGED <<loading, oldest>>
        BY <1>0, <3>2, ReadOlderEffect DEF ReadOlder
      <4>2. r.chat = pages[p].chat
        OBVIOUS
      <4> HIDE DEF r
      <4>3. pages'[p] = r /\ \A q \in PageIds \ {p} : pages'[q] = pages[q]
        BY <1>0, <4>1 DEF TypeOK
      <4> QED
        BY <1>0, <2>1, <4>1, <4>2, <4>3 DEF OnePageAtATime
    <3>3. CASE OlderArrives(p) \/ OlderFails(p)
      <4>1. pages[p] # Idle /\ pages' = [pages EXCEPT ![p] = Idle]
        BY <3>3 DEF OlderArrives, OlderFails
      <4>2. pages'[p] = Idle /\ \A q \in PageIds \ {p} : pages'[q] = pages[q]
        BY <1>0, <4>1 DEF TypeOK
      <4> QED
        BY <1>0, <2>1, <4>1, <4>2 DEF OnePageAtATime
    <3> QED
      BY <1>9, <3>1, <3>2, <3>3
  <2> QED
    BY <2>2, <2>3
<1>10. CASE Disconnect \/ Restart
  <2>1. /\ UNCHANGED <<hasty, stranded, route, resolves, chatId, oldest, loading, pages>>
        /\ conn' = "down" /\ inRooms' = {} /\ down' = <<>> /\ filled' = "no"
        /\ joins' = [j \in JoinIds |-> Idle]
    BY <1>10 DEF Disconnect, Restart, Lost, view
  <2> QED
    BY <1>0, <2>1 DEF OfflineIsEmpty, OneRoomAtATime, OnePageAtATime, RoomIsJoined, NoJoin
<1>11. CASE Reconnect
  <2>1. /\ UNCHANGED <<inRooms, down, filled, hasty, route, resolves, chatId, loading, pages>>
        /\ conn = "down" /\ conn' = "up"
        /\ IF chatId # None THEN Joining(chatId) ELSE UNCHANGED joins
    BY <1>11 DEF Reconnect, view
  <2>6. ~stranded' => ~stranded \/ chatId = route
    <3>1. stranded' = (stranded /\ chatId # route)
      BY <1>11, Zenon DEF Reconnect
    <3> QED
      BY <3>1, Zenon
  <2>2. NoJoin /\ inRooms = {}
    BY <1>0, <2>1 DEF OfflineIsEmpty
  <2>3. OfflineIsEmpty' /\ OnePageAtATime'
    BY <1>0, <2>1 DEF OfflineIsEmpty, OnePageAtATime
  <2>4. CASE chatId = None
    BY <1>0, <2>1, <2>2, <2>3, <2>4, <2>6 DEF OneRoomAtATime, RoomIsJoined, NoJoin
  <2>5. CASE chatId # None
    <3>1. chatId \in Chats
      BY <1>0, <2>5 DEF TypeOK
    <3>2. PICK j \in JoinIds : /\ joins[j] = Idle
                               /\ joins'[j] = [chat |-> chatId, at |-> "enter", val |-> <<>>]
                               /\ \A i \in JoinIds \ {j} : joins'[i] = joins[i]
      BY <1>0, <2>1, <2>5, <3>1, JoinTyped
    <3>3. joins'[j] # Idle /\ joins'[j].chat = chatId /\ joins'[j].at = "enter"
      <4>1. [chat |-> chatId, at |-> "enter", val |-> <<>>] \in Join
        BY <3>1 DEF Join
      <4> QED
        BY <3>2, <4>1, NullsAssumption
    <3>4. \A i \in JoinIds : joins'[i] # Idle => i = j
      BY <2>2, <3>2 DEF NoJoin
    <3>5. OneRoomAtATime'
      BY <1>0, <2>1, <2>2, <2>6, <3>3, <3>4 DEF OneRoomAtATime
    <3>6. RoomIsJoined'
      BY <2>1, <3>3 DEF RoomIsJoined, NoJoin
    <3> QED
      BY <2>3, <3>5, <3>6
  <2> QED
    BY <2>4, <2>5
<1> QED
  BY <1>1, <1>2, <1>3, <1>4, <1>5, <1>6, <1>7, <1>8, <1>9, <1>10, <1>11, <1>12, <1>13, <1>14, Zenon
     DEF Next, Writers, WriterStep

\* A socket at rest hears no room but the one its page listens to, and unless
\* a look-up or a join came to nothing that is the room in the address, it is in
\* it, and the page has been answered about it: through navigations, failures,
\* lost connections and restarts, with joins and histories of several rooms on
\* their way.
THEOREM PageHearsItsRoom == Spec => []RestingPageHearsItsRoom
<1>1. Init => HearInv
  <2> SUFFICES ASSUME Init
               PROVE  HearInv
    OBVIOUS
  <2>1. TypeOK
    BY InitTyped
  <2>2. OfflineIsEmpty /\ OneRoomAtATime /\ OnePageAtATime /\ RoomIsJoined
    BY NullsAssumption DEF Init, OfflineIsEmpty, OneRoomAtATime, OnePageAtATime, RoomIsJoined, NoJoin
  <2> QED
    BY <2>1, <2>2 DEF HearInv
<1>2. HearInv /\ [Next]_vars => HearInv'
  <2> SUFFICES ASSUME HearInv, [Next]_vars
               PROVE  HearInv'
    OBVIOUS
  <2>1. TypeOK'
    BY StepTyped DEF HearInv
  <2> QED
    BY <2>1, HearStep DEF HearInv
<1>3. HearInv => RestingPageHearsItsRoom
  <2>5. HearInv /\ ~hasty => inRooms \subseteq {chatId}
    BY DEF HearInv, OneRoomAtATime
  <2> SUFFICES ASSUME HearInv, Quiet, ~hasty, ~stranded
               PROVE  chatId = route /\ inRooms = {route} /\ filled # "no"
    BY <2>5 DEF RestingPageHearsItsRoom
  <2>1. NoJoin /\ resolves = {} /\ down = <<>> /\ conn = "up"
    BY DEF Quiet, NoJoin
  <2>2. chatId = route /\ inRooms \subseteq {chatId}
    BY <2>1 DEF HearInv, OneRoomAtATime
  <2>3. chatId # None
    BY <2>2, NullsAssumption DEF HearInv, TypeOK
  <2>4. chatId \in inRooms /\ filled # "no"
    BY <2>1, <2>2, <2>3 DEF HearInv, RoomIsJoined, NoJoin
  <2> QED
    BY <2>2, <2>4
<1> QED
  BY <1>1, <1>2, <1>3, PTL DEF Spec

-----------------------------------------------------------------------------
(* The writers: what their calls say of the table. *)

CallFor(op, m) == \E k \in CallIds : At(k, op, "emit") /\ calls[k].msg = m
Counting(m) == \E k \in CallIds : At(k, "react", "count") /\ calls[k].msg = m
ClearingNow(c) == \E k \in CallIds : At(k, "clear", "emit") /\ calls[k].chat = c

Gone(m) == rows[m].timed \in {"over", "purged"}

RowsInOrder == \A m, n \in MsgIds : n < m /\ rows[m] # None => rows[n] # None

CallsKnowTheirRow ==
  \A k \in CallIds : Open(k) /\ calls[k].op # "clear" =>
    rows[calls[k].msg] # None /\ rows[calls[k].msg].chat = calls[k].chat

\* What is about to be announced of a message nobody crossed is how it is.
CallsAreCurrent ==
  \A m \in MsgIds \ crossed : rows[m] # None =>
    /\ CallFor("new", m) => ~rows[m].deleted /\ rows[m].body = 0 /\ rows[m].liked = FALSE
    /\ \A k \in CallIds :
         /\ At(k, "edit", "emit") /\ calls[k].msg = m => calls[k].val = rows[m].body
         /\ At(k, "react", "emit") /\ calls[k].msg = m /\ Exists(m) => calls[k].val = rows[m].liked
    /\ ClearingNow(rows[m].chat) /\ Exists(m) => rows[m].deleted

DeletesAreDone == \A m \in MsgIds : CallFor("delete", m) => rows[m] # None /\ rows[m].deleted

WriteInv == RowsInOrder /\ CallsKnowTheirRow /\ CallsAreCurrent /\ DeletesAreDone

-----------------------------------------------------------------------------
(* A read of the room c that has been answered by the table and not yet      *)
(* applied: the messages L before a message.                                 *)

Snapshot(L, before, c) ==
  /\ \A i, j \in DOMAIN L : i < j => L[i].id < L[j].id
  /\ \A i \in DOMAIN L : LET m == L[i].id IN
       /\ m < before /\ rows[m] # None /\ rows[m].chat = c
       /\ m \notin crossed => L[i] = EntryOf(m) /\ ~rows[m].deleted
  /\ \A m \in MsgIds \ crossed :
       Visible(m) /\ rows[m].chat = c /\ m < before /\ (L # <<>> => L[1].id <= m) => Shows(L, m)

\* No message still to be announced is older than the history.
Newer(L, c) ==
  \A m \in MsgIds \ crossed :
    CallFor("new", m) /\ rows[m].chat = c /\ ~Gone(m) /\ L # <<>> => L[1].id <= m

ReadInv ==
  /\ \A j \in JoinIds : joins[j] # Idle /\ joins[j].at = "emit" =>
       Snapshot(joins[j].val, MaxMsgs + 1, joins[j].chat) /\ Newer(joins[j].val, joins[j].chat)
  /\ \A p \in PageIds : pages[p] # Idle /\ pages[p].at = "apply" =>
       Snapshot(pages[p].val, pages[p].before, pages[p].chat)

-----------------------------------------------------------------------------
(* A list L of the page's room whose oldest message read is o, with the      *)
(* events after position p still to be applied to it, and after them those   *)
(* of the calls in progress.                                                 *)

IsNew(i, m) == down[i].type = "new" /\ down[i].msg.id = m
Is(i, type, m) == down[i].type = type /\ down[i].msg = m
NewAfter(p, m) == \E i \in DOMAIN down : i > p /\ IsNew(i, m)
After(p, type, m) == \E i \in DOMAIN down : i > p /\ Is(i, type, m)
ClearAfter(p) == \E i \in DOMAIN down : i > p /\ down[i].type = "clear"
RemovedAfter(p, m) == \/ After(p, "delete", m) \/ ClearAfter(p)
                      \/ CallFor("delete", m) \/ ClearingNow(route)
NewSoon(p, m) == NewAfter(p, m) \/ CallFor("new", m)

EventsAreSound(p) ==
  \A i \in DOMAIN down : i > p =>
    /\ ~IsAnswer(i)
    /\ down[i].type = "new" => /\ rows[down[i].msg.id] # None
                               /\ rows[down[i].msg.id].chat = route
                               /\ down[i].msg.body = 0 /\ down[i].msg.liked = FALSE
    /\ down[i].type \in {"edit", "react"} => /\ rows[down[i].msg] # None
                                             /\ rows[down[i].msg].chat = route
    /\ down[i].type = "delete" => /\ rows[down[i].msg] # None
                                  /\ rows[down[i].msg].deleted \/ Gone(down[i].msg)

EntriesAreSound(L, o) ==
  /\ \A n \in DOMAIN L : rows[L[n].id] # None /\ rows[L[n].id].chat = route
  /\ o # None => rows[o] # None
  /\ \A m \in MsgIds \ crossed : \A i, j \in DOMAIN L : L[i].id = m /\ L[j].id = m => i = j

NothingOlder(L, o, p) ==
  \A m \in MsgIds \ crossed :
    /\ o # None
    /\ Shows(L, m) \/ (NewSoon(p, m) /\ rows[m].chat = route)
    /\ ~Gone(m)
    => o <= m

NothingMissing(L, o, p) ==
  \A m \in MsgIds \ crossed : Visible(m) /\ rows[m].chat = route =>
    /\ (o # None => o <= m) => Shows(L, m) \/ NewSoon(p, m)
    /\ \A i \in DOMAIN down : i > p /\ down[i].type = "clear" => NewSoon(i, m)

NothingRevived(L, p) ==
  \A m \in MsgIds \ crossed : rows[m] # None /\ rows[m].deleted =>
    /\ Shows(L, m) => RemovedAfter(p, m)
    /\ \A i \in DOMAIN down : i > p /\ IsNew(i, m) => RemovedAfter(i, m)

BodiesAgree(L, p) ==
  \A m \in MsgIds \ crossed : rows[m] # None /\ ~CallFor("edit", m) =>
    /\ ~After(p, "edit", m) => \A n \in DOMAIN L : L[n].id = m => L[n].body = rows[m].body
    /\ \A i \in DOMAIN down : i > p /\ ~After(i, "edit", m) =>
         /\ IsNew(i, m) => rows[m].body = 0
         /\ Is(i, "edit", m) => down[i].val = rows[m].body

LikesAgree(L, p) ==
  \A m \in MsgIds \ crossed : Exists(m) /\ ~CallFor("react", m) /\ ~Counting(m) =>
    /\ ~After(p, "react", m) => \A n \in DOMAIN L : L[n].id = m => L[n].liked = rows[m].liked
    /\ \A i \in DOMAIN down : i > p /\ ~After(i, "react", m) =>
         /\ IsNew(i, m) => rows[m].liked = FALSE
         /\ Is(i, "react", m) => down[i].val = rows[m].liked

Converges(L, o, p) ==
  /\ EventsAreSound(p) /\ EntriesAreSound(L, o) /\ NothingOlder(L, o, p)
  /\ NothingMissing(L, o, p) /\ NothingRevived(L, p) /\ BodiesAgree(L, p) /\ LikesAgree(L, p)

OldestOf(L) == IF L = <<>> THEN None ELSE L[1].id

\* The page has been answered about the room in its address, or will be by what
\* is on its way.
Settled == ~hasty /\ ~stranded /\ chatId = route /\ NoJoin

ListInv ==
  Settled =>
    /\ filled = "yes" /\ ~overtaken /\ (\A i \in DOMAIN down : ~IsAnswer(i)) =>
         /\ Converges(list, oldest, 0)
         /\ \A n \in DOMAIN list : ~Gone(list[n].id)
    /\ \A i \in DOMAIN down : LastAnswer(i) /\ down[i].type = "history" =>
         Converges(down[i].list, OldestOf(down[i].list), i)

-----------------------------------------------------------------------------
(* What a step of the writers amounts to: a call goes on in silence, writes   *)
(* the messages M, creates one, counts reactions or tells the room.           *)

OthersStay(k) == \A j \in CallIds \ {k} : calls'[j] = calls[j]
Saying(k) == Open(k) /\ calls[k].at \in {"count", "emit"}

Silent(k) == OthersStay(k) /\ ~Saying(k) /\ ~Saying(k)' /\ UNCHANGED <<rows, crossed, down>>
             /\ (Open(k)' => \/ calls'[k].op = "clear"
                             \/ /\ rows[calls'[k].msg] # None
                                /\ rows[calls'[k].msg].chat = calls'[k].chat)

Writes(k, op, M, c) ==
  /\ OthersStay(k) /\ ~Saying(k) /\ UNCHANGED down
  /\ op \in {"edit", "delete", "clear", "react"} /\ M \subseteq MsgIds
  /\ Open(k)' /\ calls'[k].op = op /\ calls'[k].chat = c
  /\ calls'[k].at = (IF op = "react" THEN "count" ELSE "emit")
  /\ op # "clear" => M = {calls'[k].msg}
  /\ \A n \in MsgIds \ M : rows'[n] = rows[n]
  /\ \A n \in M :
       /\ Exists(n) /\ rows[n].chat = c
       /\ rows'[n] # None /\ rows'[n].chat = c /\ rows'[n].timed = rows[n].timed
       /\ IF op = "edit" THEN rows'[n].body = calls'[k].val ELSE rows'[n].body = rows[n].body
       /\ op # "react" => rows'[n].liked = rows[n].liked
       /\ IF op \in {"delete", "clear"} THEN rows'[n].deleted = TRUE
                                        ELSE rows'[n].deleted = rows[n].deleted
  /\ op = "clear" => \A n \in MsgIds \ M : Exists(n) /\ rows[n].chat = c => rows[n].deleted
  /\ crossed' = crossed \cup {n \in M : Clash(op, n, c)}

Sends(k, m, c) ==
  /\ OthersStay(k) /\ ~Open(k) /\ UNCHANGED down
  /\ m \in MsgIds /\ rows[m] = None /\ \A n \in MsgIds : n < m => rows[n] # None
  /\ Open(k)' /\ calls'[k].op = "new" /\ calls'[k].msg = m /\ calls'[k].chat = c
  /\ calls'[k].at = "emit"
  /\ \A n \in MsgIds \ {m} : rows'[n] = rows[n]
  /\ rows'[m] # None /\ rows'[m].chat = c /\ rows'[m].body = 0
  /\ rows'[m].liked = FALSE /\ rows'[m].deleted = FALSE /\ rows'[m].timed \in {"no", "running"}
  /\ crossed' = crossed \cup {n \in {m} : Clash("new", n, c)}

Counts(k) ==
  /\ OthersStay(k) /\ UNCHANGED <<rows, crossed, down>> /\ At(k, "react", "count")
  /\ Open(k)' /\ calls'[k].op = "react" /\ calls'[k].at = "emit"
  /\ calls'[k].msg = calls[k].msg /\ calls'[k].chat = calls[k].chat
  /\ Exists(calls[k].msg) => calls'[k].val = rows[calls[k].msg].liked

\* A call that wrote and never says so.
Quits(k) ==
  /\ OthersStay(k) /\ UNCHANGED <<rows, down>> /\ Saying(k) /\ calls'[k] = Done
  /\ calls[k].op = (IF calls[k].at = "emit" THEN "new" ELSE "react")
  /\ crossed' = crossed \cup {calls[k].msg}

Tells(k, e) ==
  /\ OthersStay(k) /\ UNCHANGED <<rows, crossed>> /\ e \in Event
  /\ Open(k) /\ calls[k].at = "emit" /\ calls'[k] = Done
  /\ Emit(calls[k].chat, e)
  /\ e.type = calls[k].op
  /\ IF e.type = "new" THEN e.msg.id = calls[k].msg /\ e.msg.body = 0 /\ e.msg.liked = FALSE
                       ELSE e.msg = calls[k].msg /\ e.val = calls[k].val

\* Messages run out.
Fades(M) ==
  /\ UNCHANGED <<calls, crossed>> /\ M \subseteq MsgIds
  /\ \A n \in MsgIds \ M : rows'[n] = rows[n]
  /\ \A n \in M :
       /\ rows[n] # None /\ rows'[n] # None /\ rows'[n].chat = rows[n].chat
       /\ rows'[n].body = rows[n].body /\ rows'[n].liked = rows[n].liked
       /\ rows'[n].deleted = rows[n].deleted
       /\ \/ rows[n].timed = "running" /\ rows'[n].timed = "over"
          \/ rows[n].timed = "over" /\ rows'[n].timed = "purged"

LEMMA ColumnsChanged ==
  ASSUME TypeOK, NEW m \in MsgIds, rows[m] # None
  PROVE  /\ \A b : LET r == [rows[m] EXCEPT !.body = b] IN
              /\ r.chat = rows[m].chat /\ r.body = b /\ r.liked = rows[m].liked
              /\ r.deleted = rows[m].deleted /\ r.timed = rows[m].timed
         /\ \A b : LET r == [rows[m] EXCEPT !.liked = b] IN
              /\ r.chat = rows[m].chat /\ r.body = rows[m].body
              /\ r.deleted = rows[m].deleted /\ r.timed = rows[m].timed
         /\ LET r == [rows[m] EXCEPT !.deleted = TRUE] IN
              /\ r.chat = rows[m].chat /\ r.body = rows[m].body /\ r.liked = rows[m].liked
              /\ r.deleted = TRUE /\ r.timed = rows[m].timed
         /\ \A b : LET r == [rows[m] EXCEPT !.timed = b] IN
              /\ r.chat = rows[m].chat /\ r.body = rows[m].body /\ r.liked = rows[m].liked
              /\ r.deleted = rows[m].deleted /\ r.timed = b
<1>1. rows[m] \in Row
  BY RowFields
<1> QED
  BY <1>1 DEF Row

LEMMA NotNull ==
  ASSUME TypeOK
  PROVE  /\ None \notin Row
         /\ \A k \in CallIds : calls[k] \in Call => Open(k)
         /\ calls' \in [CallIds -> Call \cup {Idle, Done}] =>
              \A k \in CallIds : calls'[k] \in Call => Open(k)'
BY NullsAssumption DEF Open

LEMMA SendKind ==
  ASSUME TypeOK, NEW k \in CallIds, NEW c \in Chats, NEW t \in BOOLEAN, SendMessage(k, c, t)
  PROVE  \E m \in MsgIds : Sends(k, m, c)
<1>1. PICK m \in MsgIds :
        /\ rows[m] = None /\ \A n \in 1..(m - 1) : rows[n] # None
        /\ Start(k, "new", m, c, "emit")
        /\ rows' = [rows EXCEPT ![m] = NewRow(c, IF t THEN "running" ELSE "no")]
        /\ Mark("new", {m}, c)
  BY DEF SendMessage
<1> DEFINE r == [op |-> "new", msg |-> m, chat |-> c, at |-> "emit", val |-> 0]
           row == NewRow(c, IF t THEN "running" ELSE "no")
<1>2. calls' \in [CallIds -> Call \cup {Idle, Done}] /\ calls'[k] = r /\ OthersStay(k)
  BY <1>1, StartTyped DEF OthersStay
<1>3. r \in Call /\ 0 \in 0..MaxCalls
  BY BoundsAssumption DEF Call
<1>4. row \in Row /\ row.chat = c /\ row.body = 0 /\ row.liked = FALSE /\ row.deleted = FALSE
      /\ row.timed \in {"no", "running"}
  BY <1>3 DEF NewRow, Row
<1>5. ~Open(k)
  BY <1>1 DEF Start, Next1, Open
<1>6. Open(k)'
  BY <1>2, <1>3, NotNull
<1>7. r.op = "new" /\ r.msg = m /\ r.chat = c /\ r.at = "emit"
  OBVIOUS
<1>8. \A n \in MsgIds : n < m => rows[n] # None
  BY <1>1, BoundsAssumption DEF MsgIds
<1>9. UNCHANGED down
  BY DEF SendMessage, link
<1>10. crossed' = crossed \cup {n \in {m} : Clash("new", n, c)}
  BY <1>1 DEF Mark
<1> HIDE DEF r, row
<1>11. rows'[m] = row /\ \A n \in MsgIds \ {m} : rows'[n] = rows[n]
  BY <1>1 DEF TypeOK, row
<1>12. rows'[m] # None
  BY <1>4, <1>11, NullsAssumption
<1> QED
  BY <1>1, <1>2, <1>4, <1>5, <1>6, <1>7, <1>8, <1>9, <1>10, <1>11, <1>12 DEF Sends

\* A call at its end, or before what it does can be seen.
LEMMA Quietly ==
  ASSUME TypeOK, NEW k \in CallIds, calls' = [calls EXCEPT ![k] = Done], Open(k), ~Saying(k),
         UNCHANGED <<rows, crossed, down>>
  PROVE  Silent(k)
<1>1. calls'[k] = Done /\ OthersStay(k)
  BY DoneTyped DEF OthersStay
<1> QED
  BY <1>1 DEF Silent, Saying, Open

LEMMA StartKind ==
  ASSUME TypeOK, NEW k \in CallIds, NEW m \in MsgIds,
         EditMessage(k, m) \/ DeleteMessage(k, m) \/ ReactMessage(k, m)
  PROVE  Silent(k)
<1>1. UNCHANGED <<rows, crossed, down>> /\ Exists(m)
  BY DEF EditMessage, DeleteMessage, ReactMessage, link, ghosts
<1>2. PICK op \in {"edit", "delete", "react"} :
        Start(k, op, m, rows[m].chat, IF op = "react" THEN "find" ELSE "write")
  BY DEF EditMessage, DeleteMessage, ReactMessage
<1> DEFINE c == rows[m].chat
           at == IF op = "react" THEN "find" ELSE "write"
           r == [op |-> op, msg |-> m, chat |-> c, at |-> at, val |-> 0]
<1>3. c \in Chats
  BY <1>1, RowFields DEF Exists
<1>4. calls' \in [CallIds -> Call \cup {Idle, Done}] /\ calls'[k] = r /\ OthersStay(k)
  BY <1>2, <1>3, StartTyped DEF OthersStay
<1>5. ~Open(k)
  BY <1>2 DEF Start, Next1, Open
<1>6. r.msg = m /\ r.chat = c /\ r.at = at /\ at \in {"find", "write"}
  OBVIOUS
<1> HIDE DEF r, at
<1>7. ~Saying(k) /\ ~Saying(k)'
  BY <1>4, <1>5, <1>6 DEF Saying
<1> QED
  BY <1>1, <1>4, <1>6, <1>7 DEF Silent, Exists

\* An update of one message by its id.
LEMMA UpdateKind ==
  ASSUME TypeOK, CallsKnowTheirRow, NEW k \in CallIds, NEW op \in {"edit", "delete", "react"},
         At(k, op, "write"), NEW m, m = calls[k].msg, Exists(m),
         NEW at, NEW val, Phase(k, at, val), at = (IF op = "react" THEN "count" ELSE "emit"),
         op = "edit" => val \in 0..MaxCalls, op # "edit" => val = 0,
         NEW row \in Row, rows' = [rows EXCEPT ![m] = row],
         row.chat = rows[m].chat, row.timed = rows[m].timed,
         IF op = "edit" THEN row.body = val ELSE row.body = rows[m].body,
         op # "react" => row.liked = rows[m].liked,
         IF op = "delete" THEN row.deleted = TRUE ELSE row.deleted = rows[m].deleted,
         Mark(op, {m}, calls[k].chat), UNCHANGED down
  PROVE  \E M, c : Writes(k, op, M, c)
<1> DEFINE c == calls[k].chat
           r == [op |-> op, msg |-> m, chat |-> c, at |-> at, val |-> val]
<1>1. Open(k) /\ calls[k].op = op /\ m \in MsgIds /\ c \in Chats /\ ~Saying(k)
  BY CallFields DEF At, Saying
<1>2. calls' \in [CallIds -> Call \cup {Idle, Done}] /\ calls'[k] = r /\ OthersStay(k)
  <2>1. \/ calls[k].op = "delete" /\ at = "emit" /\ val = 0
        \/ calls[k].op = "edit" /\ at = "emit" /\ val \in 0..MaxCalls
        \/ calls[k].op = "react" /\ at = "count" /\ val = 0
    BY <1>1
  <2> QED
    BY <1>1, <2>1, PhaseTyped DEF OthersStay
<1>3. Open(k)'
  <2>1. r \in Call
    BY <1>1 DEF Call
  <2> HIDE DEF r
  <2> QED
    BY <1>2, <2>1, NotNull
<1>4. r.op = op /\ r.msg = m /\ r.chat = c /\ r.at = at /\ r.val = val
  OBVIOUS
<1>5. rows[m].chat = c /\ row # None
  BY <1>1, NotNull DEF CallsKnowTheirRow
<1>6. rows'[m] = row /\ \A n \in MsgIds \ {m} : rows'[n] = rows[n]
  BY <1>1 DEF TypeOK
<1>7. crossed' = crossed \cup {n \in {m} : Clash(op, n, c)}
  BY DEF Mark
<1> HIDE DEF c, r
<1>8. Writes(k, op, {m}, c)
  BY <1>1, <1>2, <1>3, <1>4, <1>5, <1>6, <1>7 DEF Writes
<1> QED
  BY <1>8

LEMMA EditKind ==
  ASSUME TypeOK, CallsKnowTheirRow, NEW k \in CallIds, ApplyMessageEdit(k)
  PROVE  Silent(k) \/ \E op, M, c : Writes(k, op, M, c)
<1> DEFINE m == calls[k].msg
<1>1. At(k, "edit", "write") /\ UNCHANGED down
  BY DEF ApplyMessageEdit, link
<1>2. Open(k) /\ m \in MsgIds /\ k \in 0..MaxCalls /\ ~Saying(k)
  BY <1>1, CallFields DEF At, CallIds, Saying
<1>3. CASE Exists(m)
  <2> DEFINE row == [rows[m] EXCEPT !.body = k]
  <2>1. /\ rows' = [rows EXCEPT ![m] = row] /\ Phase(k, "emit", k) /\ Mark("edit", {m}, calls[k].chat)
    BY <1>3 DEF ApplyMessageEdit
  <2>2. row \in Row
    BY <1>2, <1>3, RowChanged DEF Exists
  <2>3. row.chat = rows[m].chat /\ row.body = k /\ row.liked = rows[m].liked
        /\ row.deleted = rows[m].deleted /\ row.timed = rows[m].timed
    BY <1>2, <1>3, ColumnsChanged DEF Exists
  <2> HIDE DEF row, m
  <2>4. \E M, c : Writes(k, "edit", M, c)
    BY <1>1, <1>2, <1>3, <2>1, <2>2, <2>3, UpdateKind DEF m
  <2> QED
    BY <2>4
<1>4. CASE ~Exists(m)
  <2>1. calls' = [calls EXCEPT ![k] = Done] /\ UNCHANGED <<rows, crossed, down>>
    BY <1>1, <1>4 DEF ApplyMessageEdit
  <2> QED
    BY <1>2, <2>1, Quietly
<1> QED
  BY <1>3, <1>4

LEMMA DeleteKind ==
  ASSUME TypeOK, CallsKnowTheirRow, NEW k \in CallIds, ApplyDelete(k)
  PROVE  Silent(k) \/ \E op, M, c : Writes(k, op, M, c)
<1> DEFINE m == calls[k].msg
<1>1. At(k, "delete", "write") /\ UNCHANGED down
  BY DEF ApplyDelete, link
<1>2. Open(k) /\ m \in MsgIds /\ ~Saying(k)
  BY <1>1, CallFields DEF At, CallIds, Saying
<1>3. CASE Exists(m)
  <2> DEFINE row == [rows[m] EXCEPT !.deleted = TRUE]
  <2>1. /\ rows' = [rows EXCEPT ![m] = row] /\ Phase(k, "emit", 0) /\ Mark("delete", {m}, calls[k].chat)
    BY <1>3 DEF ApplyDelete
  <2>2. row \in Row
    BY <1>2, <1>3, RowChanged DEF Exists
  <2>3. row.chat = rows[m].chat /\ row.body = rows[m].body /\ row.liked = rows[m].liked
        /\ row.deleted = TRUE /\ row.timed = rows[m].timed
    BY <1>2, <1>3, ColumnsChanged DEF Exists
  <2> HIDE DEF row, m
  <2>4. \E M, c : Writes(k, "delete", M, c)
    BY <1>1, <1>2, <1>3, <2>1, <2>2, <2>3, UpdateKind DEF m
  <2> QED
    BY <2>4
<1>4. CASE ~Exists(m)
  <2>1. calls' = [calls EXCEPT ![k] = Done] /\ UNCHANGED <<rows, crossed, down>>
    BY <1>1, <1>4 DEF ApplyDelete
  <2> QED
    BY <1>2, <2>1, Quietly
<1> QED
  BY <1>3, <1>4

LEMMA ReactionKind ==
  ASSUME TypeOK, CallsKnowTheirRow, NEW k \in CallIds, WriteReaction(k)
  PROVE  Silent(k) \/ \E op, M, c : Writes(k, op, M, c)
<1> DEFINE m == calls[k].msg
           found == Exists(m) /\ rows[m].liked = calls[k].val
<1>1. At(k, "react", "write") /\ UNCHANGED down
  BY DEF WriteReaction, link
<1>2. Open(k) /\ m \in MsgIds /\ ~Saying(k)
  BY <1>1, CallFields DEF At, CallIds, Saying
<1>3. CASE found
  <2> DEFINE b == ~rows[m].liked
             row == [rows[m] EXCEPT !.liked = b]
  <2>1. /\ rows' = [rows EXCEPT ![m] = row] /\ Phase(k, "count", 0) /\ Mark("react", {m}, calls[k].chat)
    BY <1>3 DEF WriteReaction
  <2>2. b \in BOOLEAN
    OBVIOUS
  <2> HIDE DEF b
  <2>3. row \in Row
    BY <1>2, <1>3, <2>2, RowChanged DEF Exists
  <2>4. row.chat = rows[m].chat /\ row.body = rows[m].body
        /\ row.deleted = rows[m].deleted /\ row.timed = rows[m].timed
    BY <1>2, <1>3, ColumnsChanged DEF Exists
  <2> HIDE DEF row, m
  <2>5. \E M, c : Writes(k, "react", M, c)
    BY <1>1, <1>2, <1>3, <2>1, <2>3, <2>4, UpdateKind DEF m
  <2> QED
    BY <2>5
<1>4. CASE ~found
  <2>1. calls' = [calls EXCEPT ![k] = Done] /\ UNCHANGED <<rows, crossed, down>>
    BY <1>1, <1>4 DEF WriteReaction
  <2> QED
    BY <1>2, <2>1, Quietly
<1> QED
  BY <1>3, <1>4

LEMMA ClearKind ==
  ASSUME TypeOK, NEW k \in CallIds, NEW c \in Chats, ClearRoom(k, c)
  PROVE  \E op, M, d : Writes(k, op, M, d)
<1> DEFINE M == {m \in MsgIds : Exists(m) /\ ~rows[m].deleted /\ rows[m].chat = c}
           r == [op |-> "clear", msg |-> None, chat |-> c, at |-> "emit", val |-> 0]
<1>1. /\ Start(k, "clear", None, c, "emit") /\ Mark("clear", M, c) /\ UNCHANGED down
      /\ rows' = [m \in MsgIds |-> IF m \in M THEN [rows[m] EXCEPT !.deleted = TRUE] ELSE rows[m]]
  BY DEF ClearRoom, link
<1>2. calls' \in [CallIds -> Call \cup {Idle, Done}] /\ calls'[k] = r /\ OthersStay(k)
  BY <1>1, StartTyped DEF OthersStay
<1>3. Open(k)' /\ ~Saying(k)
  <2>1. r \in Call
    BY DEF Call
  <2> HIDE DEF r
  <2> QED
    BY <1>1, <1>2, <2>1, NotNull DEF Start, Next1, Open, Saying
<1>4. r.op = "clear" /\ r.chat = c /\ r.at = "emit"
  OBVIOUS
<1>5. \A n \in MsgIds \ M : rows'[n] = rows[n]
  BY <1>1
<1>6. M \subseteq MsgIds /\ \A n \in M : Exists(n) /\ rows[n].chat = c /\ rows[n] # None
  BY DEF Exists
<1>7. \A n \in M : /\ rows'[n] # None /\ rows'[n].chat = c /\ rows'[n].timed = rows[n].timed
                   /\ rows'[n].body = rows[n].body /\ rows'[n].liked = rows[n].liked
                   /\ rows'[n].deleted = TRUE
  <2> TAKE n \in M
  <2> DEFINE row == [rows[n] EXCEPT !.deleted = TRUE]
  <2>1. rows'[n] = row
    BY <1>1, <1>6
  <2>2. row \in Row /\ row.chat = rows[n].chat /\ row.body = rows[n].body
        /\ row.liked = rows[n].liked /\ row.deleted = TRUE /\ row.timed = rows[n].timed
    BY <1>6, RowChanged, ColumnsChanged
  <2> HIDE DEF row, M
  <2> QED
    BY <1>6, <2>1, <2>2, NotNull
<1>8. \A n \in MsgIds \ M : Exists(n) /\ rows[n].chat = c => rows[n].deleted
  OBVIOUS
<1>9. crossed' = crossed \cup {n \in M : Clash("clear", n, c)}
  BY <1>1 DEF Mark
<1> HIDE DEF M, r
<1>10. Writes(k, "clear", M, c)
  BY <1>1, <1>2, <1>3, <1>4, <1>5, <1>6, <1>7, <1>8, <1>9 DEF Writes
<1> QED
  BY <1>10

LEMMA ReadingKind ==
  ASSUME TypeOK, CallsKnowTheirRow, NEW k \in CallIds, FindReaction(k) \/ CountReactions(k)
  PROVE  Silent(k) \/ Counts(k)
<1> DEFINE m == calls[k].msg
           c == calls[k].chat
           v == Exists(m) /\ rows[m].liked
<1>1. PICK at \in {"write", "emit"} :
        /\ At(k, "react", IF at = "write" THEN "find" ELSE "count") /\ Phase(k, at, v)
        /\ UNCHANGED <<rows, crossed, down>>
  BY Zenon DEF FindReaction, CountReactions, link, ghosts
<1>2. Open(k) /\ calls[k].op = "react" /\ m \in MsgIds /\ c \in Chats
  BY <1>1, CallFields DEF At
<1>3. v \in BOOLEAN /\ (Exists(m) => v = rows[m].liked)
  <2>1. Exists(m) => rows[m].liked \in BOOLEAN
    BY <1>2, RowFields DEF Exists
  <2> QED
    BY <2>1
<1> HIDE DEF v
<1> DEFINE r == [op |-> calls[k].op, msg |-> m, chat |-> c, at |-> at, val |-> v]
<1>4. calls' \in [CallIds -> Call \cup {Idle, Done}] /\ calls'[k] = r /\ OthersStay(k)
  BY <1>1, <1>2, <1>3, PhaseTyped DEF OthersStay
<1>5. Open(k)'
  <2>1. r \in Call
    BY <1>2, <1>3 DEF Call
  <2> HIDE DEF r
  <2> QED
    BY <1>4, <2>1, NotNull
<1>6. r.op = "react" /\ r.msg = m /\ r.chat = c /\ r.at = at /\ r.val = v
  BY <1>2
<1>7. rows[m] # None /\ rows[m].chat = c
  BY <1>2 DEF CallsKnowTheirRow
<1> HIDE DEF r, m, c
<1>8. CASE at = "write"
  BY <1>1, <1>2, <1>4, <1>5, <1>6, <1>7, <1>8 DEF Silent, Saying, At
<1>9. CASE at = "emit"
  BY <1>1, <1>2, <1>3, <1>4, <1>5, <1>6, <1>7, <1>9 DEF Counts, m, c
<1> QED
  BY <1>8, <1>9

LEMMA TellKind ==
  ASSUME TypeOK, NEW k \in CallIds, NewMessage(k) \/ Announce(k)
  PROVE  \E e \in Event : Tells(k, e)
<1>1. CASE NewMessage(k)
  <2> DEFINE m == calls[k].msg
             entry == [id |-> m, body |-> 0, liked |-> FALSE]
             e == [type |-> "new", msg |-> entry]
  <2>1. At(k, "new", "emit") /\ Emit(calls[k].chat, e) /\ calls' = [calls EXCEPT ![k] = Done]
        /\ UNCHANGED <<rows, crossed>>
    BY <1>1 DEF NewMessage, ghosts
  <2>2. m \in MsgIds
    BY <2>1, CallFields DEF At
  <2>3. e \in Event /\ e.type = "new" /\ e.msg.id = m /\ e.msg.body = 0 /\ e.msg.liked = FALSE
    BY <2>2, BoundsAssumption DEF Event, Entry
  <2> HIDE DEF e
  <2>4. calls'[k] = Done /\ OthersStay(k)
    BY <2>1, DoneTyped DEF OthersStay
  <2>5. Tells(k, e)
    BY <2>1, <2>3, <2>4 DEF Tells, At
  <2> QED
    BY <2>3, <2>5
<1>2. CASE Announce(k)
  <2> DEFINE e == [type |-> calls[k].op, msg |-> calls[k].msg, val |-> calls[k].val]
  <2>1. /\ Open(k) /\ calls[k].at = "emit" /\ calls[k].op # "new"
        /\ Emit(calls[k].chat, e) /\ calls' = [calls EXCEPT ![k] = Done]
        /\ UNCHANGED <<rows, crossed>>
    BY <1>2 DEF Announce, ghosts
  <2>2. e \in Event /\ e.type = calls[k].op /\ e.msg = calls[k].msg /\ e.val = calls[k].val
    BY <2>1, CallFields DEF Event
  <2> HIDE DEF e
  <2>3. calls'[k] = Done /\ OthersStay(k)
    BY <2>1, DoneTyped DEF OthersStay
  <2>4. Tells(k, e)
    BY <2>1, <2>2, <2>3 DEF Tells
  <2> QED
    BY <2>2, <2>4
<1> QED
  BY <1>1, <1>2

LEMMA FailKind ==
  ASSUME TypeOK, NEW k \in CallIds, CallFails(k)
  PROVE  Silent(k) \/ Quits(k)
<1>1. /\ Open(k) /\ (calls[k].at = "emit" => calls[k].op = "new")
      /\ calls' = [calls EXCEPT ![k] = Done] /\ UNCHANGED <<rows, down>>
      /\ crossed' = IF calls[k].at \in {"emit", "count"} THEN crossed \cup {calls[k].msg} ELSE crossed
  BY DEF CallFails, link
<1>2. CASE Saying(k)
  <2>1. calls'[k] = Done /\ OthersStay(k)
    BY <1>1, DoneTyped DEF OthersStay
  <2>2. calls[k].at = "count" => calls[k].op = "react"
    BY <1>1, CallFields DEF Call
  <2> QED
    BY <1>1, <1>2, <2>1, <2>2 DEF Quits, Saying
<1>3. CASE ~Saying(k)
  <2>1. UNCHANGED <<rows, crossed, down>>
    BY <1>1, <1>3 DEF Saying
  <2> QED
    BY <1>1, <1>3, <2>1, Quietly
<1> QED
  BY <1>2, <1>3

LEMMA WriterKinds ==
  ASSUME TypeOK, CallsKnowTheirRow, NEW k \in CallIds, WriterStep(k)
  PROVE  \/ Silent(k) \/ Counts(k) \/ Quits(k) \/ \E m, c : Sends(k, m, c)
         \/ \E op, M, c : Writes(k, op, M, c)
         \/ \E e \in Event : Tells(k, e)
<1> DEFINE Goal == \/ Silent(k) \/ Counts(k) \/ Quits(k) \/ \E m, c : Sends(k, m, c)
                   \/ \E op, M, c : Writes(k, op, M, c)
                   \/ \E e \in Event : Tells(k, e)
<1>1. ASSUME NEW c \in Chats, NEW t \in BOOLEAN, SendMessage(k, c, t)
      PROVE  Goal
  BY <1>1, SendKind, Zenon
<1>2. ASSUME NEW c \in Chats, ClearRoom(k, c)
      PROVE  Goal
  BY <1>2, ClearKind, Zenon
<1>3. ASSUME NEW m \in MsgIds, EditMessage(k, m) \/ DeleteMessage(k, m) \/ ReactMessage(k, m)
      PROVE  Goal
  BY <1>3, StartKind, Zenon
<1>4. CASE NewMessage(k) \/ Announce(k)
  BY <1>4, TellKind, Zenon
<1>5. CASE ApplyMessageEdit(k)
  BY <1>5, EditKind, Zenon
<1>6. CASE ApplyDelete(k)
  BY <1>6, DeleteKind, Zenon
<1>7. CASE WriteReaction(k)
  BY <1>7, ReactionKind, Zenon
<1>8. CASE FindReaction(k) \/ CountReactions(k)
  BY <1>8, ReadingKind, Zenon
<1>9. CASE CallFails(k)
  BY <1>9, FailKind, Zenon
<1> QED
  BY <1>1, <1>2, <1>3, <1>4, <1>5, <1>6, <1>7, <1>8, <1>9, Zenon DEF WriterStep

-----------------------------------------------------------------------------
(* What is due to be announced, and how the steps of the writers change it.   *)

LEMMA SilentDue ==
  ASSUME NEW k \in CallIds, Silent(k)
  PROVE  /\ \A op, n : CallFor(op, n)' <=> CallFor(op, n)
         /\ \A n : Counting(n)' <=> Counting(n)
         /\ \A c : ClearingNow(c)' <=> ClearingNow(c)
<1>1. \A j \in CallIds : \A op, at : at \in {"emit", "count"} =>
        /\ At(j, op, at)' <=> At(j, op, at)
        /\ At(j, op, at) => calls'[j].msg = calls[j].msg /\ calls'[j].chat = calls[j].chat
  BY DEF Silent, OthersStay, Saying, At, Open
<1> QED
  BY <1>1 DEF CallFor, Counting, ClearingNow

LEMMA WritesDue ==
  ASSUME NEW k \in CallIds, NEW op, NEW M, NEW c, Writes(k, op, M, c)
  PROVE  /\ \A o, n : CallFor(o, n)' <=>
              CallFor(o, n) \/ (o = op /\ op \in {"edit", "delete"} /\ n \in M)
                            \/ (o = op /\ op = "clear" /\ n = calls'[k].msg)
         /\ \A n : Counting(n)' <=> Counting(n) \/ (op = "react" /\ n \in M)
         /\ \A d : ClearingNow(d)' <=> ClearingNow(d) \/ (op = "clear" /\ d = c)
<1>1. \A j \in CallIds \ {k} : \A o, at : At(j, o, at)' <=> At(j, o, at)
  BY DEF Writes, OthersStay, At, Open
<1>2. \A o, at : at \in {"emit", "count"} => ~At(k, o, at)
  BY DEF Writes, Saying, At
<1>3. \A o, at : At(k, o, at)' <=> o = op /\ at = (IF op = "react" THEN "count" ELSE "emit")
  BY DEF Writes, At
<1>4. /\ \A j \in CallIds \ {k} : calls'[j] = calls[j]
      /\ op # "clear" => M = {calls'[k].msg}
      /\ calls'[k].chat = c /\ op \in {"edit", "delete", "clear", "react"}
  BY DEF Writes, OthersStay
<1>5. \A o, n : CallFor(o, n)' <=>
              CallFor(o, n) \/ (o = op /\ op \in {"edit", "delete"} /\ n \in M)
                            \/ (o = op /\ op = "clear" /\ n = calls'[k].msg)
  BY <1>1, <1>2, <1>3, <1>4 DEF CallFor
<1>6. \A n : Counting(n)' <=> Counting(n) \/ (op = "react" /\ n \in M)
  BY <1>1, <1>2, <1>3, <1>4 DEF Counting
<1>7. \A d : ClearingNow(d)' <=> ClearingNow(d) \/ (op = "clear" /\ d = c)
  BY <1>1, <1>2, <1>3, <1>4 DEF ClearingNow
<1> QED
  BY <1>5, <1>6, <1>7

LEMMA SendsDue ==
  ASSUME NEW k \in CallIds, NEW m, NEW c, Sends(k, m, c)
  PROVE  /\ \A o, n : CallFor(o, n)' <=> CallFor(o, n) \/ (o = "new" /\ n = m)
         /\ \A n : Counting(n)' <=> Counting(n)
         /\ \A d : ClearingNow(d)' <=> ClearingNow(d)
<1>1. \A j \in CallIds \ {k} : \A o, at : At(j, o, at)' <=> At(j, o, at)
  BY DEF Sends, OthersStay, At, Open
<1>2. \A o, at : ~At(k, o, at)
  BY DEF Sends, At
<1>3. \A o, at : At(k, o, at)' <=> o = "new" /\ at = "emit"
  BY DEF Sends, At
<1>4. /\ \A j \in CallIds \ {k} : calls'[j] = calls[j]
      /\ calls'[k].msg = m /\ calls'[k].chat = c
  BY DEF Sends, OthersStay
<1> QED
  BY <1>1, <1>2, <1>3, <1>4 DEF CallFor, Counting, ClearingNow

LEMMA CountsDue ==
  ASSUME NEW k \in CallIds, Counts(k)
  PROVE  /\ \A o, n : CallFor(o, n)' <=> CallFor(o, n) \/ (o = "react" /\ n = calls[k].msg)
         /\ \A n : /\ Counting(n)' => Counting(n)
                   /\ Counting(n) => Counting(n)' \/ n = calls[k].msg
         /\ \A d : ClearingNow(d)' <=> ClearingNow(d)
<1>1. \A j \in CallIds \ {k} : \A o, at : At(j, o, at)' <=> At(j, o, at)
  BY DEF Counts, OthersStay, At, Open
<1>2. \A o, at : At(k, o, at) <=> o = "react" /\ at = "count"
  BY DEF Counts, At
<1>3. \A o, at : At(k, o, at)' <=> o = "react" /\ at = "emit"
  BY DEF Counts, At
<1>4. /\ \A j \in CallIds \ {k} : calls'[j] = calls[j]
      /\ calls'[k].msg = calls[k].msg /\ calls'[k].chat = calls[k].chat
  BY DEF Counts, OthersStay
<1> QED
  BY <1>1, <1>2, <1>3, <1>4 DEF CallFor, Counting, ClearingNow

LEMMA QuitsDue ==
  ASSUME NEW k \in CallIds, Quits(k)
  PROVE  /\ \A o, n : /\ CallFor(o, n)' => CallFor(o, n)
                      /\ n \notin crossed' => (CallFor(o, n)' <=> CallFor(o, n))
         /\ \A n : n \notin crossed' => (Counting(n)' <=> Counting(n))
         /\ \A d : ClearingNow(d)' <=> ClearingNow(d)
<1>1. \A j \in CallIds \ {k} : \A o, at : At(j, o, at)' <=> At(j, o, at)
  BY DEF Quits, OthersStay, At, Open
<1>2. \A at : ~At(k, "clear", at)
  BY DEF Quits, At
<1>3. \A o, at : ~At(k, o, at)'
  BY DEF Quits, At, Open
<1>4. (\A j \in CallIds \ {k} : calls'[j] = calls[j]) /\ calls[k].msg \in crossed'
  BY DEF Quits, OthersStay
<1> QED
  BY <1>1, <1>2, <1>3, <1>4 DEF CallFor, Counting, ClearingNow

LEMMA TellsDue ==
  ASSUME NEW k \in CallIds, NEW e, Tells(k, e)
  PROVE  /\ CallFor(e.type, calls[k].msg) /\ (e.type = "clear" => ClearingNow(calls[k].chat))
         /\ \A o, n : /\ CallFor(o, n)' => CallFor(o, n)
                      /\ CallFor(o, n) => CallFor(o, n)' \/ (o = e.type /\ n = calls[k].msg)
         /\ \A n : Counting(n)' <=> Counting(n)
         /\ \A d : /\ ClearingNow(d)' => ClearingNow(d)
                   /\ ClearingNow(d) => ClearingNow(d)' \/ (e.type = "clear" /\ d = calls[k].chat)
<1>1. \A j \in CallIds \ {k} : \A o, at : At(j, o, at)' <=> At(j, o, at)
  BY DEF Tells, OthersStay, At, Open
<1>2. \A o, at : At(k, o, at) <=> o = e.type /\ at = "emit"
  BY DEF Tells, At
<1>3. \A o, at : ~At(k, o, at)'
  BY DEF Tells, At, Open
<1>4. \A j \in CallIds \ {k} : calls'[j] = calls[j]
  BY DEF Tells, OthersStay
<1> QED
  BY <1>1, <1>2, <1>3, <1>4 DEF CallFor, Counting, ClearingNow

-----------------------------------------------------------------------------
(* The calls and the table. *)

\* A write that crossed nothing.
LEMMA NoClash ==
  ASSUME TypeOK, CallsKnowTheirRow, NEW n \in MsgIds, NEW op, NEW c, ~Clash(op, n, c),
         rows[n] # None => rows[n].chat = c
  PROVE  /\ ~CallFor("new", n) /\ (op # "clear" => ~CallFor(op, n))
         /\ op = "new" => ~ClearingNow(c)
         /\ \A j \in JoinIds : joins[j] # Idle /\ joins[j].at = "emit" => joins[j].chat # c
         /\ \A p \in PageIds : pages[p] # Idle /\ pages[p].at = "apply" => pages[p].chat # c
<1>1. \A k \in CallIds : Open(k) /\ calls[k].op # "clear" /\ calls[k].msg = n => calls[k].chat = c
  BY DEF CallsKnowTheirRow
<1> QED
  BY <1>1 DEF Clash, CallFor, ClearingNow, At

LEMMA WritesRows ==
  ASSUME NEW k \in CallIds, NEW op, NEW M, NEW c, Writes(k, op, M, c), NEW n \in MsgIds
  PROVE  /\ rows'[n] # None <=> rows[n] # None
         /\ rows[n] # None => rows'[n].chat = rows[n].chat /\ rows'[n].timed = rows[n].timed
         /\ Exists(n)' <=> Exists(n)
<1>1. CASE n \in M
  <2>1. /\ Exists(n) /\ rows[n].chat = c /\ rows'[n] # None /\ rows'[n].chat = c
        /\ rows'[n].timed = rows[n].timed
    BY <1>1 DEF Writes
  <2> QED
    BY <2>1 DEF Exists
<1>2. CASE n \notin M
  <2>1. rows'[n] = rows[n]
    BY <1>2 DEF Writes
  <2> QED
    BY <2>1 DEF Exists
<1> QED
  BY <1>1, <1>2

LEMMA WritesKeep ==
  ASSUME TypeOK, WriteInv, NEW k \in CallIds, NEW op, NEW M, NEW c, Writes(k, op, M, c)
  PROVE  WriteInv'
<1>0. RowsInOrder /\ CallsKnowTheirRow /\ CallsAreCurrent /\ DeletesAreDone
  BY DEF WriteInv
<1>1. RowsInOrder'
  BY <1>0, WritesRows DEF RowsInOrder
<1>2. /\ \A j \in CallIds \ {k} : calls'[j] = calls[j]
      /\ op # "clear" => M = {calls'[k].msg}
      /\ calls'[k].chat = c /\ calls'[k].op = op /\ op \in {"edit", "delete", "clear", "react"}
      /\ M \subseteq MsgIds
      /\ \A n \in MsgIds \ M : rows'[n] = rows[n]
      /\ \A n \in M : Exists(n) /\ rows[n].chat = c /\ rows'[n] # None /\ rows'[n].chat = c
  BY DEF Writes, OthersStay
<1>3. CallsKnowTheirRow'
  <2> SUFFICES ASSUME NEW j \in CallIds, Open(j)', calls'[j].op # "clear"
               PROVE  rows'[calls'[j].msg] # None /\ rows'[calls'[j].msg].chat = calls'[j].chat
    BY DEF CallsKnowTheirRow
  <2>1. CASE j = k
    BY <1>2, <2>1
  <2>2. CASE j # k
    <3>1. calls'[j] = calls[j] /\ Open(j)
      BY <1>2, <2>2 DEF Open
    <3>2. calls[j].msg \in MsgIds
      BY <3>1, CallFields
    <3>3. rows[calls[j].msg] # None /\ rows[calls[j].msg].chat = calls[j].chat
      BY <1>0, <3>1 DEF CallsKnowTheirRow
    <3> QED
      BY <3>1, <3>2, <3>3, WritesRows
  <2> QED
    BY <2>1, <2>2
<1>4. crossed' = crossed \cup {n \in M : Clash(op, n, c)}
  BY DEF Writes
<1>5. \A j \in CallIds : j # k => /\ At(j, "edit", "emit")' <=> At(j, "edit", "emit")
                                  /\ At(j, "react", "emit")' <=> At(j, "react", "emit")
  BY <1>2 DEF At, Open
<1>6. ~At(k, "react", "emit")' /\ (At(k, "edit", "emit")' => op = "edit" /\ M = {calls'[k].msg})
  BY DEF Writes, At
<1>7. CallsAreCurrent'
  <2> SUFFICES ASSUME NEW n \in MsgIds \ crossed', rows'[n] # None
               PROVE  /\ CallFor("new", n)' => /\ ~rows'[n].deleted /\ rows'[n].body = 0
                                               /\ rows'[n].liked = FALSE
                      /\ \A j \in CallIds :
                           /\ At(j, "edit", "emit")' /\ calls'[j].msg = n => calls'[j].val = rows'[n].body
                           /\ At(j, "react", "emit")' /\ calls'[j].msg = n /\ Exists(n)' =>
                                calls'[j].val = rows'[n].liked
                      /\ ClearingNow(rows[n].chat)' /\ Exists(n)' => rows'[n].deleted
    BY DEF CallsAreCurrent
  <2>1. n \in MsgIds \ crossed /\ rows[n] # None /\ rows'[n].chat = rows[n].chat
        /\ (Exists(n)' <=> Exists(n))
    BY <1>4, WritesRows
  <2>2. /\ CallFor("new", n) => ~rows[n].deleted /\ rows[n].body = 0 /\ rows[n].liked = FALSE
        /\ \A j \in CallIds :
             /\ At(j, "edit", "emit") /\ calls[j].msg = n => calls[j].val = rows[n].body
             /\ At(j, "react", "emit") /\ calls[j].msg = n /\ Exists(n) => calls[j].val = rows[n].liked
        /\ ClearingNow(rows[n].chat) /\ Exists(n) => rows[n].deleted
    BY <1>0, <2>1 DEF CallsAreCurrent
  <2>3. CallFor("new", n)' <=> CallFor("new", n)
    BY <1>2, WritesDue
  <2>4. ClearingNow(rows[n].chat)' <=> ClearingNow(rows[n].chat) \/ (op = "clear" /\ rows[n].chat = c)
    <3>1. PICK d : d = rows[n].chat
      OBVIOUS
    <3>2. ClearingNow(d)' <=> ClearingNow(d) \/ (op = "clear" /\ d = c)
      BY WritesDue
    <3>3. ClearingNow(rows[n].chat)' <=> ClearingNow(d)'
      BY <2>1, <3>1, Zenon DEF ClearingNow
    <3> QED
      BY <3>1, <3>2, <3>3
  <2>5. CASE n \notin M
    <3>1. rows'[n] = rows[n]
      BY <1>2, <2>5
    <3>2. op = "clear" /\ rows[n].chat = c /\ Exists(n) => rows[n].deleted
      BY <2>5 DEF Writes
    <3> QED
      BY <1>2, <1>5, <1>6, <2>1, <2>2, <2>3, <2>4, <2>5, <3>1, <3>2
  <2>6. CASE n \in M
    <3>1. ~Clash(op, n, c) /\ rows[n].chat = c
      BY <1>2, <1>4, <2>6
    <3>2. ~CallFor("new", n) /\ (op # "clear" => ~CallFor(op, n))
      BY <1>0, <3>1, NoClash
    <3>3. /\ IF op = "edit" THEN rows'[n].body = calls'[k].val ELSE rows'[n].body = rows[n].body
          /\ op # "react" => rows'[n].liked = rows[n].liked
          /\ IF op \in {"delete", "clear"} THEN rows'[n].deleted = TRUE
                                           ELSE rows'[n].deleted = rows[n].deleted
      BY <2>6 DEF Writes
    <3>4. ASSUME NEW j \in CallIds, At(j, "edit", "emit")', calls'[j].msg = n
          PROVE  calls'[j].val = rows'[n].body
      <4>1. CASE j = k
        BY <1>6, <3>3, <3>4, <4>1
      <4>2. CASE j # k
        <5>1. At(j, "edit", "emit") /\ calls'[j] = calls[j]
          BY <1>2, <1>5, <3>4, <4>2
        <5>2. op # "edit"
          BY <3>2, <3>4, <5>1 DEF CallFor
        <5> QED
          BY <2>2, <3>3, <3>4, <5>1, <5>2
      <4> QED
        BY <4>1, <4>2
    <3>5. ASSUME NEW j \in CallIds, At(j, "react", "emit")', calls'[j].msg = n, Exists(n)'
          PROVE  calls'[j].val = rows'[n].liked
      <4>1. j # k
        BY <1>6, <3>5
      <4>2. At(j, "react", "emit") /\ calls'[j] = calls[j]
        BY <1>2, <1>5, <3>5, <4>1
      <4>3. op # "react"
        BY <3>2, <3>5, <4>2 DEF CallFor
      <4>4. rows'[n].liked = rows[n].liked
        BY <3>3, <4>3
      <4>5. calls[j].val = rows[n].liked
        BY <2>1, <2>2, <3>5, <4>2
      <4> QED
        BY <4>2, <4>4, <4>5
    <3>6. ClearingNow(rows[n].chat)' /\ Exists(n)' => rows'[n].deleted
      BY <2>1, <2>2, <2>4, <3>3
    <3> QED
      BY <2>3, <3>2, <3>4, <3>5, <3>6
  <2> QED
    BY <2>5, <2>6
<1>8. DeletesAreDone'
  <2> SUFFICES ASSUME NEW n \in MsgIds, CallFor("delete", n)'
               PROVE  rows'[n] # None /\ rows'[n].deleted
    BY DEF DeletesAreDone
  <2>1. CallFor("delete", n) \/ (op = "delete" /\ n \in M)
    BY <1>2, WritesDue
  <2>2. CASE n \in M
    <3>1. IF op \in {"delete", "clear"} THEN rows'[n].deleted = TRUE
                                        ELSE rows'[n].deleted = rows[n].deleted
      BY <2>2 DEF Writes
    <3> QED
      BY <1>0, <1>2, <2>1, <2>2, <3>1 DEF DeletesAreDone
  <2>3. CASE n \notin M
    BY <1>0, <1>2, <2>1, <2>3 DEF DeletesAreDone
  <2> QED
    BY <2>2, <2>3
<1> QED
  BY <1>1, <1>3, <1>7, <1>8 DEF WriteInv

LEMMA SendsKeep ==
  ASSUME TypeOK, WriteInv, NEW k \in CallIds, NEW m, NEW c, Sends(k, m, c)
  PROVE  WriteInv'
<1>0. RowsInOrder /\ CallsKnowTheirRow /\ CallsAreCurrent /\ DeletesAreDone
  BY DEF WriteInv
<1>1. /\ \A j \in CallIds \ {k} : calls'[j] = calls[j]
      /\ m \in MsgIds /\ rows[m] = None /\ \A n \in MsgIds : n < m => rows[n] # None
      /\ calls'[k].op = "new" /\ calls'[k].msg = m /\ calls'[k].chat = c
      /\ \A n \in MsgIds \ {m} : rows'[n] = rows[n]
      /\ rows'[m] # None /\ rows'[m].chat = c /\ rows'[m].body = 0
      /\ rows'[m].liked = FALSE /\ rows'[m].deleted = FALSE
      /\ crossed' = crossed \cup {n \in {m} : Clash("new", n, c)}
  BY DEF Sends, OthersStay
<1>2. RowsInOrder'
  <2> SUFFICES ASSUME NEW n \in MsgIds, NEW i \in MsgIds, i < n, rows'[n] # None
               PROVE  rows'[i] # None
    BY DEF RowsInOrder
  <2>1. CASE n = m
    BY <1>1, <2>1
  <2>2. CASE n # m
    <3>1. rows[n] # None
      BY <1>1, <2>2
    <3> QED
      BY <1>0, <1>1, <3>1 DEF RowsInOrder
  <2> QED
    BY <2>1, <2>2
<1>3. \A j \in CallIds : Open(j) /\ calls[j].op # "clear" =>
        calls[j].msg \in MsgIds /\ calls[j].msg # m
  BY <1>0, <1>1, CallFields DEF CallsKnowTheirRow
<1>4. CallsKnowTheirRow'
  <2> SUFFICES ASSUME NEW j \in CallIds, Open(j)', calls'[j].op # "clear"
               PROVE  rows'[calls'[j].msg] # None /\ rows'[calls'[j].msg].chat = calls'[j].chat
    BY DEF CallsKnowTheirRow
  <2>1. CASE j = k
    BY <1>1, <2>1
  <2>2. CASE j # k
    <3>1. calls'[j] = calls[j] /\ Open(j)
      BY <1>1, <2>2 DEF Open
    <3> QED
      BY <1>0, <1>1, <1>3, <3>1 DEF CallsKnowTheirRow
  <2> QED
    BY <2>1, <2>2
<1>5. \A o : ~CallFor(o, m) \/ o = "clear"
  BY <1>3 DEF CallFor, At
<1>6. /\ \A o, n : CallFor(o, n)' <=> CallFor(o, n) \/ (o = "new" /\ n = m)
      /\ \A d : ClearingNow(d)' <=> ClearingNow(d)
  BY SendsDue
<1>7. \A j \in CallIds : \A o : o # "new" /\ At(j, o, "emit")' => At(j, o, "emit") /\ calls'[j] = calls[j]
  BY <1>1 DEF At, Open
<1>8. CallsAreCurrent'
  <2> SUFFICES ASSUME NEW n \in MsgIds \ crossed', rows'[n] # None
               PROVE  /\ CallFor("new", n)' => /\ ~rows'[n].deleted /\ rows'[n].body = 0
                                               /\ rows'[n].liked = FALSE
                      /\ \A j \in CallIds :
                           /\ At(j, "edit", "emit")' /\ calls'[j].msg = n => calls'[j].val = rows'[n].body
                           /\ At(j, "react", "emit")' /\ calls'[j].msg = n /\ Exists(n)' =>
                                calls'[j].val = rows'[n].liked
                      /\ ClearingNow(rows[n].chat)' /\ Exists(n)' => rows'[n].deleted
    BY DEF CallsAreCurrent
  <2>1. CASE n = m
    <3>1. ~Clash("new", m, c)
      BY <1>1, <2>1
    <3>2. ~ClearingNow(c)
      BY <1>0, <1>1, <3>1, NoClash
    <3>3. ~ClearingNow(rows[n].chat)'
      <4>1. PICK d : d = c
        OBVIOUS
      <4>2. ~ClearingNow(d)'
        BY <1>6, <3>2, <4>1
      <4> QED
        BY <1>1, <2>1, <4>1, <4>2 DEF ClearingNow
    <3>4. \A j \in CallIds : \A o : o # "new" /\ o # "clear" /\ At(j, o, "emit")' => calls'[j].msg # n
      BY <1>3, <1>7, <2>1 DEF At
    <3> QED
      BY <1>1, <2>1, <3>3, <3>4
  <2>2. CASE n # m
    <3>1. rows'[n] = rows[n] /\ n \in MsgIds \ crossed /\ rows[n] # None
      BY <1>1, <2>2
    <3>2. Exists(n)' <=> Exists(n)
      BY <3>1 DEF Exists
    <3>3. ClearingNow(rows[n].chat)' <=> ClearingNow(rows[n].chat)
      <4>1. PICK d : d = rows[n].chat
        OBVIOUS
      <4>2. ClearingNow(rows[n].chat)' <=> ClearingNow(d)'
        BY <3>1, <4>1, Zenon DEF ClearingNow
      <4> QED
        BY <1>6, <4>1, <4>2
    <3>4. CallFor("new", n)' <=> CallFor("new", n)
      BY <1>6, <2>2
    <3> QED
      BY <1>0, <1>7, <3>1, <3>2, <3>3, <3>4 DEF CallsAreCurrent
  <2> QED
    BY <2>1, <2>2
<1>9. DeletesAreDone'
  <2>1. \A n \in MsgIds : CallFor("delete", n)' => CallFor("delete", n) /\ n # m
    BY <1>5, <1>6
  <2> QED
    BY <1>0, <1>1, <2>1 DEF DeletesAreDone
<1> QED
  BY <1>2, <1>4, <1>8, <1>9 DEF WriteInv

\* The rows stay, and what is said of them was said before or is so.
LEMMA OtherCallsKeep ==
  ASSUME TypeOK, WriteInv, UNCHANGED rows, crossed \subseteq crossed',
         \A j \in CallIds : Open(j)' /\ calls'[j].op # "clear" =>
           rows[calls'[j].msg] # None /\ rows[calls'[j].msg].chat = calls'[j].chat,
         \A n : CallFor("new", n)' => CallFor("new", n),
         \A n : CallFor("delete", n)' => CallFor("delete", n),
         \A c : ClearingNow(c)' => ClearingNow(c),
         \A j \in CallIds : At(j, "edit", "emit")' => At(j, "edit", "emit") /\ calls'[j] = calls[j],
         \A j \in CallIds : At(j, "react", "emit")' =>
           \/ At(j, "react", "emit") /\ calls'[j] = calls[j]
           \/ Exists(calls'[j].msg) => calls'[j].val = rows[calls'[j].msg].liked
  PROVE  WriteInv'
<1>0. RowsInOrder /\ CallsKnowTheirRow /\ CallsAreCurrent /\ DeletesAreDone
  BY DEF WriteInv
<1>1. RowsInOrder' /\ CallsKnowTheirRow' /\ DeletesAreDone'
  BY <1>0 DEF RowsInOrder, CallsKnowTheirRow, DeletesAreDone
<1>2. CallsAreCurrent'
  <2> SUFFICES ASSUME NEW n \in MsgIds \ crossed', rows'[n] # None
               PROVE  /\ CallFor("new", n)' => /\ ~rows'[n].deleted /\ rows'[n].body = 0
                                               /\ rows'[n].liked = FALSE
                      /\ \A j \in CallIds :
                           /\ At(j, "edit", "emit")' /\ calls'[j].msg = n => calls'[j].val = rows'[n].body
                           /\ At(j, "react", "emit")' /\ calls'[j].msg = n /\ Exists(n)' =>
                                calls'[j].val = rows'[n].liked
                      /\ ClearingNow(rows[n].chat)' /\ Exists(n)' => rows'[n].deleted
    BY DEF CallsAreCurrent
  <2>1. n \in MsgIds \ crossed /\ rows'[n] = rows[n] /\ (Exists(n)' <=> Exists(n))
    BY DEF Exists
  <2>2. ClearingNow(rows[n].chat)' => ClearingNow(rows[n].chat)
    <3>1. PICK d : d = rows[n].chat
      OBVIOUS
    <3>2. ClearingNow(rows[n].chat)' <=> ClearingNow(d)'
      BY <2>1, <3>1, Zenon DEF ClearingNow
    <3> QED
      BY <3>1, <3>2
  <2> QED
    BY <1>0, <2>1, <2>2 DEF CallsAreCurrent
<1> QED
  BY <1>1, <1>2 DEF WriteInv

LEMMA SilentKeep ==
  ASSUME TypeOK, WriteInv, NEW k \in CallIds,
         Silent(k) \/ Counts(k) \/ Quits(k) \/ \E e : Tells(k, e)
  PROVE  WriteInv'
<1>0. RowsInOrder /\ CallsKnowTheirRow /\ CallsAreCurrent /\ DeletesAreDone
  BY DEF WriteInv
<1>1. \A j \in CallIds \ {k} : calls'[j] = calls[j]
  BY DEF Silent, Counts, Quits, Tells, OthersStay
<1>2. /\ \A n : CallFor("new", n)' => CallFor("new", n)
      /\ \A n : CallFor("delete", n)' => CallFor("delete", n)
      /\ \A c : ClearingNow(c)' => ClearingNow(c)
  BY SilentDue, CountsDue, QuitsDue, TellsDue
<1>3. UNCHANGED rows /\ crossed \subseteq crossed'
  BY DEF Silent, Counts, Quits, Tells
<1>4. Open(k)' /\ calls'[k].op # "clear" =>
        rows[calls'[k].msg] # None /\ rows[calls'[k].msg].chat = calls'[k].chat
  <2>1. CASE Silent(k)
    BY <2>1 DEF Silent
  <2>2. CASE Counts(k)
    BY <1>0, <2>2 DEF Counts, CallsKnowTheirRow, At
  <2>3. CASE Quits(k) \/ \E e : Tells(k, e)
    BY <2>3 DEF Quits, Tells, Open
  <2> QED
    BY <2>1, <2>2, <2>3
<1>5. \A j \in CallIds : Open(j)' /\ calls'[j].op # "clear" =>
           rows[calls'[j].msg] # None /\ rows[calls'[j].msg].chat = calls'[j].chat
  BY <1>0, <1>1, <1>3, <1>4 DEF CallsKnowTheirRow, Open
<1>6. ~At(k, "edit", "emit")' /\ (At(k, "react", "emit")' =>
        (Exists(calls'[k].msg) => calls'[k].val = rows[calls'[k].msg].liked))
  BY DEF Silent, Counts, Quits, Tells, At, Saying, Open
<1>7. \A j \in CallIds \ {k} : \A o : At(j, o, "emit")' => At(j, o, "emit")
  BY <1>1 DEF At, Open
<1> QED
  BY <1>1, <1>2, <1>3, <1>5, <1>6, <1>7, OtherCallsKeep

LEMMA FadesRows ==
  ASSUME NEW M, Fades(M), NEW n \in MsgIds
  PROVE  /\ rows'[n] # None <=> rows[n] # None
         /\ rows[n] # None => /\ rows'[n].chat = rows[n].chat /\ rows'[n].body = rows[n].body
                              /\ rows'[n].liked = rows[n].liked /\ rows'[n].deleted = rows[n].deleted
                              /\ Gone(n) => Gone(n)'
         /\ Exists(n)' => Exists(n)
         /\ Visible(n)' => Visible(n)
<1>1. CASE n \in M
  <2>1. /\ rows[n] # None /\ rows'[n] # None /\ rows'[n].chat = rows[n].chat
        /\ rows'[n].body = rows[n].body /\ rows'[n].liked = rows[n].liked
        /\ rows'[n].deleted = rows[n].deleted
        /\ \/ rows[n].timed = "running" /\ rows'[n].timed = "over"
           \/ rows[n].timed = "over" /\ rows'[n].timed = "purged"
    BY <1>1 DEF Fades
  <2> QED
    BY <2>1 DEF Exists, Visible, Gone
<1>2. CASE n \notin M
  <2>1. rows'[n] = rows[n]
    BY <1>2 DEF Fades
  <2> QED
    BY <2>1 DEF Exists, Visible, Gone
<1> QED
  BY <1>1, <1>2

LEMMA FadesDue ==
  ASSUME NEW M, Fades(M)
  PROVE  /\ \A op, n : CallFor(op, n)' <=> CallFor(op, n)
         /\ \A n : Counting(n)' <=> Counting(n)
         /\ \A c : ClearingNow(c)' <=> ClearingNow(c)
         /\ \A j \in CallIds : \A op, at : At(j, op, at)' <=> At(j, op, at)
         /\ \A j \in CallIds : Open(j)' <=> Open(j)
         /\ UNCHANGED <<calls, crossed>>
BY DEF Fades, CallFor, Counting, ClearingNow, At, Open

LEMMA FadesKeep ==
  ASSUME TypeOK, WriteInv, NEW M, Fades(M)
  PROVE  WriteInv'
<1>0. RowsInOrder /\ CallsKnowTheirRow /\ CallsAreCurrent /\ DeletesAreDone
  BY DEF WriteInv
<1>1. RowsInOrder'
  BY <1>0, FadesRows DEF RowsInOrder
<1>2. CallsKnowTheirRow'
  BY <1>0, FadesRows, FadesDue, CallFields DEF CallsKnowTheirRow
<1>3. CallsAreCurrent'
  <2> SUFFICES ASSUME NEW n \in MsgIds \ crossed', rows'[n] # None
               PROVE  /\ CallFor("new", n)' => /\ ~rows'[n].deleted /\ rows'[n].body = 0
                                               /\ rows'[n].liked = FALSE
                      /\ \A j \in CallIds :
                           /\ At(j, "edit", "emit")' /\ calls'[j].msg = n => calls'[j].val = rows'[n].body
                           /\ At(j, "react", "emit")' /\ calls'[j].msg = n /\ Exists(n)' =>
                                calls'[j].val = rows'[n].liked
                      /\ ClearingNow(rows[n].chat)' /\ Exists(n)' => rows'[n].deleted
    BY DEF CallsAreCurrent
  <2>1. /\ n \in MsgIds \ crossed /\ rows[n] # None /\ (Exists(n)' => Exists(n))
        /\ rows'[n].chat = rows[n].chat /\ rows'[n].body = rows[n].body
        /\ rows'[n].liked = rows[n].liked /\ rows'[n].deleted = rows[n].deleted
    BY FadesRows, FadesDue
  <2>2. ClearingNow(rows[n].chat)' => ClearingNow(rows[n].chat)
    <3>1. PICK d : d = rows[n].chat
      OBVIOUS
    <3>2. ClearingNow(rows[n].chat)' <=> ClearingNow(d)'
      BY <2>1, <3>1, Zenon DEF ClearingNow
    <3> QED
      BY <3>1, <3>2, FadesDue
  <2>3. CallFor("new", n)' => CallFor("new", n)
    BY FadesDue
  <2>4. UNCHANGED calls /\ \A j \in CallIds : \A op, at : At(j, op, at)' <=> At(j, op, at)
    BY FadesDue
  <2> QED
    BY <1>0, <2>1, <2>2, <2>3, <2>4 DEF CallsAreCurrent
<1>4. DeletesAreDone'
  BY <1>0, FadesRows, FadesDue DEF DeletesAreDone
<1> QED
  BY <1>1, <1>2, <1>3, <1>4 DEF WriteInv

LEMMA ExpiryKind ==
  ASSUME TypeOK, NEW m \in MsgIds, Expire(m)
  PROVE  Fades({m}) /\ Gone(m)'
<1>1. /\ rows[m] # None /\ rows[m].timed = "running"
      /\ rows' = [rows EXCEPT ![m].timed = "over"] /\ UNCHANGED <<calls, crossed>>
  BY DEF Expire, ghosts
<1> DEFINE row == [rows[m] EXCEPT !.timed = "over"]
<1>2. row \in Row /\ row.chat = rows[m].chat /\ row.body = rows[m].body
      /\ row.liked = rows[m].liked /\ row.deleted = rows[m].deleted /\ row.timed = "over"
  BY <1>1, RowChanged, ColumnsChanged
<1>3. rows' = [rows EXCEPT ![m] = row]
  BY <1>1
<1> HIDE DEF row
<1>4. rows'[m] = row /\ \A n \in MsgIds \ {m} : rows'[n] = rows[n]
  BY <1>3 DEF TypeOK
<1>5. rows'[m] # None
  BY <1>2, <1>4, NotNull
<1> QED
  BY <1>1, <1>2, <1>4, <1>5 DEF Fades, Gone

LEMMA PurgeKind ==
  ASSUME TypeOK, Purge
  PROVE  \E M : Fades(M)
<1> DEFINE M == {m \in MsgIds : rows[m] # None /\ rows[m].timed = "over"}
<1>1. /\ rows' = [m \in MsgIds |-> IF m \in M THEN [rows[m] EXCEPT !.timed = "purged"] ELSE rows[m]]
      /\ UNCHANGED <<calls, crossed>>
  BY DEF Purge, ghosts
<1>2. M \subseteq MsgIds /\ \A n \in M : rows[n] # None /\ rows[n].timed = "over"
  OBVIOUS
<1> HIDE DEF M
<1>3. \A n \in MsgIds \ M : rows'[n] = rows[n]
  BY <1>1
<1>4. ASSUME NEW n \in M
      PROVE  /\ rows[n] # None /\ rows'[n] # None /\ rows'[n].chat = rows[n].chat
             /\ rows'[n].body = rows[n].body /\ rows'[n].liked = rows[n].liked
             /\ rows'[n].deleted = rows[n].deleted
             /\ rows[n].timed = "over" /\ rows'[n].timed = "purged"
  <2> DEFINE row == [rows[n] EXCEPT !.timed = "purged"]
  <2>1. row \in Row /\ row.chat = rows[n].chat /\ row.body = rows[n].body
        /\ row.liked = rows[n].liked /\ row.deleted = rows[n].deleted /\ row.timed = "purged"
    <3>1. n \in MsgIds /\ rows[n] # None
      BY <1>2
    <3>2. row \in Row
      BY <3>1, RowChanged
    <3> QED
      BY <3>1, <3>2, ColumnsChanged
  <2>2. rows'[n] = row
    BY <1>1, <1>2
  <2> HIDE DEF row
  <2> QED
    BY <1>2, <2>1, <2>2, NotNull
<1>5. Fades(M)
  BY <1>1, <1>2, <1>3, <1>4, Zenon DEF Fades
<1> QED
  BY <1>5

\* The steps that leave the table and the writers alone.
StillTable == UNCHANGED <<rows, calls>> /\ crossed \subseteq crossed'

LEMMA TableKinds ==
  ASSUME TypeOK, [Next]_vars
  PROVE  \/ \E k \in CallIds : WriterStep(k)
         \/ (\E m \in MsgIds : Expire(m)) \/ Purge
         \/ Restart
         \/ StillTable
<1>1. ASSUME NEW j \in JoinIds,
             \/ EnterRoom(j) \/ ReadHistory(j) \/ EmitHistory(j)
             \/ HistoryFails(j) \/ JoinFails(j)
      PROVE  StillTable
  BY <1>1 DEF EnterRoom, ReadHistory, EmitHistory, HistoryFails, JoinFails, StillTable, server, ghosts
<1>2. ASSUME NEW c \in Chats, Navigate(c) \/ Resolve(c) \/ ResolveFails(c)
      PROVE  StillTable
  BY <1>2 DEF Navigate, Resolve, ResolveFails, StillTable, server, ghosts
<1>3. CASE DeliverChange \/ DeliverHistory \/ DeliverError
  BY <1>3 DEF DeliverChange, DeliverHistory, DeliverError, StillTable, server, ghosts
<1>4. ASSUME NEW p \in PageIds, LoadOlder(p) \/ ReadOlder(p) \/ OlderArrives(p) \/ OlderFails(p)
      PROVE  StillTable
  BY <1>4 DEF LoadOlder, ReadOlder, OlderArrives, OlderFails, StillTable, server, ghosts
<1>5. CASE Disconnect \/ Reconnect
  BY <1>5 DEF Disconnect, Reconnect, Lost, StillTable, server, ghosts
<1>6. CASE UNCHANGED vars
  BY <1>6 DEF vars, StillTable, server, ghosts
<1> QED
  BY <1>1, <1>2, <1>3, <1>4, <1>5, <1>6, Zenon DEF Next, Writers, WriterStep

LEMMA WriteStep ==
  ASSUME TypeOK, WriteInv, [Next]_vars
  PROVE  WriteInv'
<1>1. ASSUME NEW k \in CallIds, WriterStep(k)
      PROVE  WriteInv'
  BY <1>1, WriterKinds, SilentKeep, SendsKeep, WritesKeep, Zenon DEF WriteInv
<1>2. ASSUME NEW m \in MsgIds, Expire(m)
      PROVE  WriteInv'
  BY <1>2, ExpiryKind, FadesKeep
<1>3. CASE Purge
  BY <1>3, PurgeKind, FadesKeep
<1>4. CASE Restart
  <2>1. UNCHANGED <<rows, crossed>> /\ \A k \in CallIds : ~Open(k)'
    BY <1>4 DEF Restart, Lost, Open
  <2>2. \A k \in CallIds : \A op, at : ~At(k, op, at)'
    BY <2>1 DEF At
  <2> QED
    BY <2>1, <2>2, OtherCallsKeep DEF CallFor, ClearingNow
<1>5. CASE StillTable
  <2>1. \A k \in CallIds : \A op, at : (At(k, op, at)' <=> At(k, op, at)) /\ (Open(k)' <=> Open(k))
    BY <1>5 DEF StillTable, At, Open
  <2> QED
    BY <1>5, <2>1, OtherCallsKeep
       DEF StillTable, CallFor, ClearingNow, WriteInv, CallsKnowTheirRow
<1> QED
  BY <1>1, <1>2, <1>3, <1>4, <1>5, TableKinds, Zenon

-----------------------------------------------------------------------------
(* What has been read of a room and not yet applied.                         *)

Read(c) ==
  \/ \E j \in JoinIds : joins[j] # Idle /\ joins[j].at = "emit" /\ joins[j].chat = c
  \/ \E p \in PageIds : pages[p] # Idle /\ pages[p].at = "apply" /\ pages[p].chat = c

LEMMA ReadsClash ==
  ASSUME NEW c, Read(c)
  PROVE  \A op, n : Clash(op, n, c)
BY DEF Read, Clash

LEMMA EntryIds ==
  ASSUME NEW L \in Seq(Entry)
  PROVE  \A i \in DOMAIN L : L[i] \in Entry /\ L[i].id \in MsgIds
<1>1. \A i \in DOMAIN L : L[i] \in Entry
  OBVIOUS
<1> QED
  BY <1>1 DEF Entry

\* A read stands as long as the messages nobody crossed stay as they are.
LEMMA SnapshotStays ==
  ASSUME NEW L \in Seq(Entry), NEW before, NEW c, Snapshot(L, before, c), crossed \subseteq crossed',
         \A m \in MsgIds : rows[m] # None => rows'[m] # None /\ rows'[m].chat = rows[m].chat,
         \A m \in MsgIds \ crossed' : rows[m] # None /\ rows[m].chat = c =>
           /\ rows'[m].body = rows[m].body /\ rows'[m].liked = rows[m].liked
           /\ rows'[m].deleted = rows[m].deleted,
         \A m \in MsgIds \ crossed' : Visible(m)' /\ rows'[m].chat = c => Visible(m) /\ rows[m].chat = c
  PROVE  Snapshot(L, before, c)'
<1>1. \A i \in DOMAIN L : L[i].id \in MsgIds
  BY EntryIds
<1>2. ASSUME NEW i \in DOMAIN L, NEW m, m = L[i].id
      PROVE  /\ m < before /\ rows'[m] # None /\ rows'[m].chat = c
             /\ m \notin crossed' => L[i] = EntryOf(m)' /\ ~rows'[m].deleted
  <2>1. /\ m \in MsgIds /\ m < before /\ rows[m] # None /\ rows[m].chat = c
        /\ m \notin crossed => L[i] = EntryOf(m) /\ ~rows[m].deleted
    BY <1>1, <1>2 DEF Snapshot
  <2>2. rows'[m] # None /\ rows'[m].chat = c
    BY <2>1
  <2>3. ASSUME m \notin crossed'
        PROVE  L[i] = EntryOf(m)' /\ ~rows'[m].deleted
    <3>1. /\ rows'[m].body = rows[m].body /\ rows'[m].liked = rows[m].liked
          /\ rows'[m].deleted = rows[m].deleted
      BY <2>1, <2>3
    <3> QED
      BY <2>1, <2>3, <3>1 DEF EntryOf
  <2> QED
    BY <2>1, <2>2, <2>3
<1>3. \A m \in MsgIds \ crossed' :
        Visible(m)' /\ rows'[m].chat = c /\ m < before /\ (L # <<>> => L[1].id <= m) => Shows(L, m)'
  BY DEF Snapshot, Shows
<1>4. \A i, j \in DOMAIN L : i < j => L[i].id < L[j].id
  BY DEF Snapshot
<1> QED
  BY <1>2, <1>3, <1>4, Zenon DEF Snapshot

LEMMA NewerStays ==
  ASSUME NEW L, NEW c, Newer(L, c), crossed \subseteq crossed',
         \A m \in MsgIds \ crossed' : CallFor("new", m)' /\ rows'[m].chat = c /\ ~Gone(m)' =>
           CallFor("new", m) /\ rows[m].chat = c /\ ~Gone(m)
  PROVE  Newer(L, c)'
BY DEF Newer

LEMMA ReadsStay ==
  ASSUME NEW L \in Seq(Entry), NEW before, NEW c, Snapshot(L, before, c),
         UNCHANGED rows, crossed \subseteq crossed'
  PROVE  /\ Snapshot(L, before, c)'
         /\ Newer(L, c) /\ (\A n : CallFor("new", n)' => CallFor("new", n)) => Newer(L, c)'
<1>1. \A m : Visible(m)' <=> Visible(m)
  BY DEF Visible, Exists
<1>2. \A m : Gone(m)' <=> Gone(m)
  BY DEF Gone
<1> QED
  BY <1>1, <1>2, SnapshotStays, NewerStays

LEMMA ReadsFade ==
  ASSUME NEW L \in Seq(Entry), NEW before, NEW c, Snapshot(L, before, c),
         NEW M, Fades(M), CallsKnowTheirRow, TypeOK
  PROVE  Snapshot(L, before, c)' /\ (Newer(L, c) => Newer(L, c)')
<1>1. UNCHANGED crossed /\ \A n : CallFor("new", n)' <=> CallFor("new", n)
  BY FadesDue
<1>2. \A m \in MsgIds : CallFor("new", m) => rows[m] # None
  BY DEF CallFor, At, CallsKnowTheirRow
<1>3. \A m \in MsgIds : Visible(m) => rows[m] # None
  BY DEF Visible, Exists
<1>4. Snapshot(L, before, c)'
  BY <1>1, <1>3, FadesRows, SnapshotStays
<1>5. Newer(L, c) => Newer(L, c)'
  BY <1>1, <1>2, FadesRows, NewerStays
<1> QED
  BY <1>4, <1>5

LEMMA ReadsOutlastWrites ==
  ASSUME NEW L \in Seq(Entry), NEW before, NEW c, Snapshot(L, before, c), Read(c),
         NEW k \in CallIds, NEW op, NEW M, NEW d, Writes(k, op, M, d), CallsKnowTheirRow, TypeOK
  PROVE  Snapshot(L, before, c)' /\ (Newer(L, c) => Newer(L, c)')
<1>1. /\ crossed' = crossed \cup {n \in M : Clash(op, n, d)}
      /\ \A n \in MsgIds \ M : rows'[n] = rows[n]
      /\ \A n \in M : Exists(n) /\ rows[n].chat = d /\ rows'[n].chat = d
      /\ op \in {"edit", "delete", "clear", "react"}
  BY DEF Writes
<1>2. \A n \in MsgIds \ crossed' : n \in M => d # c
  BY <1>1, ReadsClash
<1>3. \A n \in MsgIds : /\ rows'[n] # None <=> rows[n] # None
                        /\ rows[n] # None => rows'[n].chat = rows[n].chat /\ rows'[n].timed = rows[n].timed
  BY WritesRows
<1>4. \A m \in MsgIds : CallFor("new", m)' <=> CallFor("new", m)
  BY <1>1, WritesDue
<1>5. \A m \in MsgIds : CallFor("new", m) => rows[m] # None
  BY DEF CallFor, At, CallsKnowTheirRow
<1>6. \A m \in MsgIds \ crossed' : rows[m] # None /\ rows[m].chat = c => rows'[m] = rows[m]
  BY <1>1, <1>2
<1>7. \A m \in MsgIds \ crossed' : Visible(m)' /\ rows'[m].chat = c => Visible(m) /\ rows[m].chat = c
  <2> SUFFICES ASSUME NEW m \in MsgIds \ crossed', Visible(m)', rows'[m].chat = c
               PROVE  Visible(m) /\ rows[m].chat = c
    OBVIOUS
  <2>1. rows'[m] # None
    BY DEF Visible, Exists
  <2>2. rows[m] # None /\ rows[m].chat = c
    BY <1>3, <2>1
  <2>3. rows'[m] = rows[m]
    BY <1>6, <2>2
  <2> QED
    BY <2>2, <2>3 DEF Visible, Exists
<1>8. Snapshot(L, before, c)'
  <2>1. crossed \subseteq crossed'
    BY <1>1
  <2> QED
    BY <1>3, <1>6, <1>7, <2>1, SnapshotStays
<1>9. Newer(L, c) => Newer(L, c)'
  <2>1. crossed \subseteq crossed'
    BY <1>1
  <2>2. \A m \in MsgIds : rows[m] # None => (Gone(m)' <=> Gone(m))
    BY <1>3 DEF Gone
  <2> QED
    BY <1>3, <1>4, <1>5, <2>1, <2>2, NewerStays
<1> QED
  BY <1>8, <1>9

LEMMA ReadsOutlastSends ==
  ASSUME NEW L \in Seq(Entry), NEW before, NEW c, Snapshot(L, before, c), Read(c),
         NEW k \in CallIds, NEW m, NEW d, Sends(k, m, d)
  PROVE  Snapshot(L, before, c)' /\ (Newer(L, c) => Newer(L, c)')
<1>1. /\ crossed' = crossed \cup {n \in {m} : Clash("new", n, d)}
      /\ m \in MsgIds /\ rows[m] = None /\ rows'[m].chat = d
      /\ \A n \in MsgIds \ {m} : rows'[n] = rows[n]
  BY DEF Sends
<1>2. m \in crossed' \/ d # c
  BY <1>1, ReadsClash
<1>3. \A n \in MsgIds \ crossed' : rows'[n].chat = c =>
        n # m /\ rows'[n] = rows[n] /\ (Visible(n)' <=> Visible(n)) /\ (Gone(n)' <=> Gone(n))
  BY <1>1, <1>2 DEF Visible, Exists, Gone
<1>4. \A o, n : CallFor(o, n)' <=> CallFor(o, n) \/ (o = "new" /\ n = m)
  BY SendsDue
<1>5. crossed \subseteq crossed' /\ \A n \in MsgIds : rows[n] # None => n # m /\ rows'[n] = rows[n]
  BY <1>1
<1>6. Snapshot(L, before, c)'
  BY <1>3, <1>5, SnapshotStays
<1>7. Newer(L, c) => Newer(L, c)'
  BY <1>3, <1>4, <1>5, NewerStays
<1> QED
  BY <1>6, <1>7

LEMMA ReadsHold ==
  ASSUME TypeOK, ReadInv, UNCHANGED <<joins, pages>>,
         \A L \in Seq(Entry) : \A before, c : Snapshot(L, before, c) /\ Read(c) =>
           Snapshot(L, before, c)' /\ (Newer(L, c) => Newer(L, c)')
  PROVE  ReadInv'
<1>1. ASSUME NEW j \in JoinIds, joins[j] # Idle, joins[j].at = "emit"
      PROVE  /\ Snapshot(joins[j].val, MaxMsgs + 1, joins[j].chat)'
             /\ Newer(joins[j].val, joins[j].chat)'
  <2>1. PICK L, c : L = joins[j].val /\ c = joins[j].chat
    OBVIOUS
  <2>2. L \in Seq(Entry) /\ Snapshot(L, MaxMsgs + 1, c) /\ Newer(L, c) /\ Read(c)
    BY <1>1, <2>1, JoinFields DEF ReadInv, Read
  <2>3. Snapshot(L, MaxMsgs + 1, c)' /\ Newer(L, c)'
    BY <2>2
  <2>4. joins'[j].val = L /\ joins'[j].chat = c
    BY <2>1
  <2> QED
    BY <2>3, <2>4 DEF Snapshot, Newer, Shows
<1>2. ASSUME NEW p \in PageIds, pages[p] # Idle, pages[p].at = "apply"
      PROVE  Snapshot(pages[p].val, pages[p].before, pages[p].chat)'
  <2>1. PICK L, b, c : L = pages[p].val /\ b = pages[p].before /\ c = pages[p].chat
    OBVIOUS
  <2>2. L \in Seq(Entry) /\ Snapshot(L, b, c) /\ Read(c)
    BY <1>2, <2>1, PageFields DEF ReadInv, Read
  <2>3. Snapshot(L, b, c)'
    BY <2>2
  <2>4. pages'[p].val = L /\ pages'[p].chat = c /\ pages'[p].before = b
    BY <2>1
  <2> QED
    BY <2>3, <2>4 DEF Snapshot, Shows
<1> QED
  BY <1>1, <1>2 DEF ReadInv

\* Reads are dropped, or go on as they were, while the table stays.
LEMMA ReadsEnd ==
  ASSUME TypeOK, ReadInv, UNCHANGED rows, crossed \subseteq crossed',
         \A n : CallFor("new", n)' => CallFor("new", n),
         \A j \in JoinIds : joins'[j] # Idle /\ joins'[j].at = "emit" =>
           joins[j] # Idle /\ joins'[j] = joins[j],
         \A p \in PageIds : pages'[p] # Idle /\ pages'[p].at = "apply" =>
           pages[p] # Idle /\ pages'[p] = pages[p]
  PROVE  ReadInv'
<1>1. ASSUME NEW j \in JoinIds, joins'[j] # Idle, joins'[j].at = "emit"
      PROVE  /\ Snapshot(joins[j].val, MaxMsgs + 1, joins[j].chat)'
             /\ Newer(joins[j].val, joins[j].chat)'
  <2>1. PICK L, c : L = joins[j].val /\ c = joins[j].chat
    OBVIOUS
  <2>2. L \in Seq(Entry) /\ Snapshot(L, MaxMsgs + 1, c) /\ Newer(L, c)
    BY <1>1, <2>1, JoinFields DEF ReadInv
  <2>3. Snapshot(L, MaxMsgs + 1, c)' /\ Newer(L, c)'
    BY <2>2, ReadsStay
  <2>4. joins'[j].val = L /\ joins'[j].chat = c
    BY <1>1, <2>1
  <2> QED
    BY <2>3, <2>4 DEF Snapshot, Newer, Shows
<1>2. ASSUME NEW p \in PageIds, pages'[p] # Idle, pages'[p].at = "apply"
      PROVE  Snapshot(pages[p].val, pages[p].before, pages[p].chat)'
  <2>1. PICK L, b, c : L = pages[p].val /\ b = pages[p].before /\ c = pages[p].chat
    OBVIOUS
  <2>2. L \in Seq(Entry) /\ Snapshot(L, b, c)
    BY <1>2, <2>1, PageFields DEF ReadInv
  <2>3. Snapshot(L, b, c)'
    BY <2>2, ReadsStay
  <2>4. pages'[p].val = L /\ pages'[p].chat = c /\ pages'[p].before = b
    BY <1>2, <2>1
  <2> QED
    BY <2>3, <2>4 DEF Snapshot, Shows
<1> QED
  BY <1>1, <1>2 DEF ReadInv

\* What the table answers is what it holds.
LEMMA MessagesAreSnapshot ==
  ASSUME TypeOK, NEW c, NEW before \in Nat
  PROVE  Messages(c, before) \in Seq(Entry) /\ Snapshot(Messages(c, before), before, c)
<1> DEFINE L == Messages(c, before)
<1>1. RowsOK
  BY DEF TypeOK, RowsOK
<1>2. /\ L \in Seq(Entry)
      /\ \A i, j \in DOMAIN L : i < j => L[i].id < L[j].id
      /\ \A i \in DOMAIN L : /\ L[i].id < before /\ Visible(L[i].id)
                             /\ rows[L[i].id].chat = c /\ L[i] = EntryOf(L[i].id)
      /\ \A m \in MsgIds : Visible(m) /\ rows[m].chat = c /\ m < before =>
           L # <<>> /\ (L[1].id <= m => Shows(L, m))
  BY <1>1, MessagesSound
<1> HIDE DEF L
<1>3. Snapshot(L, before, c)
  BY <1>2 DEF Snapshot, Visible, Exists
<1> QED
  BY <1>2, <1>3 DEF L

LEMMA HistoryIsNewer ==
  ASSUME TypeOK, WriteInv, NEW j \in JoinIds, ReadHistory(j), NEW c, c = joins[j].chat,
         NEW L, L = Messages(c, MaxMsgs + 1)
  PROVE  Newer(L, c)'
<1>1. crossed' = crossed \cup {m \in MsgIds : ~Shows(L, m) /\ Visible(m) /\ rows[m].chat = c
                                 /\ \E k \in CallIds : At(k, "new", "emit") /\ calls[k].msg = m}
      /\ UNCHANGED <<rows, calls>>
  BY DEF ReadHistory, server
<1>2. RowsOK /\ MaxMsgs + 1 \in Nat /\ \A m \in MsgIds : m < MaxMsgs + 1
  BY BoundsAssumption DEF TypeOK, RowsOK, MsgIds
<1>3. \A m \in MsgIds : Visible(m) /\ rows[m].chat = c /\ m < MaxMsgs + 1 =>
        L # <<>> /\ (L[1].id <= m => Shows(L, m))
  BY <1>2, MessagesSound
<1>4. /\ L \in Seq(Entry)
      /\ \A i, k \in DOMAIN L : i < k => L[i].id < L[k].id
  BY <1>2, MessagesSound
<1> SUFFICES ASSUME NEW m \in MsgIds \ crossed', CallFor("new", m)', rows'[m].chat = c, ~Gone(m)',
                    L # <<>>
             PROVE  L[1].id <= m
  BY DEF Newer
<1>5. CallFor("new", m) /\ rows[m].chat = c /\ ~Gone(m) /\ m \in MsgIds \ crossed
  BY <1>1 DEF CallFor, At, Open, Gone
<1>6. rows[m] # None
  BY <1>5 DEF CallFor, At, WriteInv, CallsKnowTheirRow
<1>7. ~rows[m].deleted
  BY <1>5, <1>6 DEF WriteInv, CallsAreCurrent
<1>8. Visible(m)
  BY <1>5, <1>6, <1>7 DEF Visible, Exists, Gone
<1>9. Shows(L, m)
  BY <1>1, <1>5, <1>8 DEF CallFor
<1>10. PICK i \in DOMAIN L : L[i].id = m
  BY <1>9 DEF Shows
<1>11. 1 \in DOMAIN L /\ L[1].id \in MsgIds /\ (1 = i \/ 1 < i)
  BY <1>4, <1>10, EntryIds
<1> QED
  BY <1>4, <1>10, <1>11 DEF MsgIds

LEMMA ReadStep ==
  ASSUME TypeOK, WriteInv, ReadInv, [Next]_vars
  PROVE  ReadInv'
<1>0. CallsKnowTheirRow
  BY DEF WriteInv
<1>1. ASSUME NEW k \in CallIds, WriterStep(k)
      PROVE  ReadInv'
  <2>1. UNCHANGED <<joins, pages>>
    BY <1>1, WritersStay DEF Elsewhere, view
  <2>2. CASE Silent(k) \/ Counts(k) \/ Quits(k) \/ \E e \in Event : Tells(k, e)
    <3>1. \A n : CallFor("new", n)' => CallFor("new", n)
      BY <2>2, SilentDue, CountsDue, QuitsDue, TellsDue
    <3>2. UNCHANGED rows /\ crossed \subseteq crossed'
      BY <2>2 DEF Silent, Counts, Quits, Tells
    <3> QED
      BY <2>1, <3>1, <3>2, ReadsStay, ReadsHold
  <2>3. ASSUME NEW m, NEW c, Sends(k, m, c)
        PROVE  ReadInv'
    BY <2>1, <2>3, ReadsOutlastSends, ReadsHold
  <2>4. ASSUME NEW op, NEW M, NEW c, Writes(k, op, M, c)
        PROVE  ReadInv'
    BY <1>0, <2>1, <2>4, ReadsOutlastWrites, ReadsHold
  <2> QED
    BY <1>0, <1>1, <2>2, <2>3, <2>4, WriterKinds, Zenon
<1>2. ASSUME NEW M, Fades(M), UNCHANGED <<joins, pages>>
      PROVE  ReadInv'
  BY <1>0, <1>2, ReadsFade, ReadsHold
<1>3. ASSUME NEW m \in MsgIds, Expire(m)
      PROVE  ReadInv'
  BY <1>2, <1>3, ExpiryKind DEF Expire
<1>4. CASE Purge
  BY <1>2, <1>4, PurgeKind DEF Purge, link, view
<1>5. ASSUME UNCHANGED <<rows, crossed>>, \A n : CallFor("new", n)' => CallFor("new", n),
             \A j \in JoinIds : joins'[j] # Idle /\ joins'[j].at = "emit" =>
               joins[j] # Idle /\ joins'[j] = joins[j],
             \A p \in PageIds : pages'[p] # Idle /\ pages'[p].at = "apply" =>
               pages[p] # Idle /\ pages'[p] = pages[p]
      PROVE  ReadInv'
  <2>1. crossed \subseteq crossed' /\ UNCHANGED rows
    BY <1>5
  <2> QED
    BY <1>5, <2>1, ReadsEnd
<1>6. UNCHANGED calls => \A n : CallFor("new", n)' => CallFor("new", n)
  BY DEF CallFor, At, Open
<1>7. CASE Disconnect \/ Restart
  <2>1. UNCHANGED <<rows, crossed, pages>> /\ \A j \in JoinIds : joins'[j] = Idle
    BY <1>7 DEF Disconnect, Restart, Lost, view
  <2>2. \A n : CallFor("new", n)' => CallFor("new", n)
    BY <1>6, <1>7 DEF Disconnect, Restart, CallFor, At, Open
  <2> QED
    BY <1>5, <2>1, <2>2
<1>8. ASSUME NEW c \in Chats, Joining(c), UNCHANGED <<rows, calls, crossed, pages>>
      PROVE  ReadInv'
  <2>1. PICK j \in JoinIds : /\ joins[j] = Idle
                             /\ joins'[j] = [chat |-> c, at |-> "enter", val |-> <<>>]
                             /\ \A i \in JoinIds \ {j} : joins'[i] = joins[i]
    BY <1>8, JoinTyped
  <2>2. joins'[j].at = "enter"
    BY <2>1
  <2> QED
    BY <1>5, <1>6, <1>8, <2>1, <2>2
<1>9. ASSUME UNCHANGED <<rows, calls, crossed, joins, pages>>
      PROVE  ReadInv'
  BY <1>5, <1>6, <1>9
<1>10. ASSUME NEW c \in Chats, Resolve(c) \/ ResolveFails(c)
       PROVE  ReadInv'
  BY <1>8, <1>9, <1>10 DEF Resolve, ResolveFails, server, link
<1>11. CASE Reconnect
  BY <1>8, <1>9, <1>11 DEF Reconnect, server, view, ghosts, TypeOK
<1>12. ASSUME NEW c \in Chats, Navigate(c)
       PROVE  ReadInv'
  BY <1>9, <1>12 DEF Navigate, link
<1>13. CASE DeliverChange \/ DeliverHistory \/ DeliverError
  BY <1>9, <1>13 DEF DeliverChange, DeliverHistory, DeliverError, server, view, ghosts
<1>14. CASE UNCHANGED vars
  BY <1>9, <1>14 DEF vars, server, link, view, ghosts
<1>15. ASSUME NEW j \in JoinIds, EmitHistory(j) \/ HistoryFails(j) \/ JoinFails(j)
       PROVE  ReadInv'
  <2>1. joins' = [joins EXCEPT ![j] = Idle] /\ UNCHANGED <<rows, calls, crossed, pages>>
    BY <1>15 DEF EmitHistory, HistoryFails, JoinFails, server, view, ghosts
  <2>2. joins'[j] = Idle /\ \A i \in JoinIds \ {j} : joins'[i] = joins[i]
    BY <2>1 DEF TypeOK
  <2> QED
    BY <1>5, <1>6, <2>1, <2>2
<1>16. ASSUME NEW j \in JoinIds, EnterRoom(j)
       PROVE  ReadInv'
  <2>1. UNCHANGED <<rows, calls, crossed, pages>>
    BY <1>16 DEF EnterRoom, server, view, ghosts
  <2>2. joins' = [joins EXCEPT ![j] = [chat |-> joins[j].chat, at |-> "read", val |-> joins[j].val]]
    BY <1>16, EnterRoomEffect
  <2>3. joins'[j].at = "read" /\ \A i \in JoinIds \ {j} : joins'[i] = joins[i]
    BY <2>2 DEF TypeOK
  <2> QED
    BY <1>5, <1>6, <2>1, <2>3
<1>17. ASSUME NEW p \in PageIds, LoadOlder(p)
       PROVE  ReadInv'
  <2>1. UNCHANGED <<rows, calls, crossed, joins>>
        /\ pages' = [pages EXCEPT ![p] = [chat |-> chatId, before |-> oldest, at |-> "read", val |-> <<>>]]
    BY <1>17 DEF LoadOlder, server, link, ghosts
  <2>2. pages'[p].at = "read" /\ \A i \in PageIds \ {p} : pages'[i] = pages[i]
    BY <2>1 DEF TypeOK
  <2> QED
    BY <1>5, <1>6, <2>1, <2>2
<1>18. ASSUME NEW p \in PageIds, OlderArrives(p) \/ OlderFails(p)
       PROVE  ReadInv'
  <2>1. UNCHANGED <<rows, calls, crossed, joins>> /\ pages' = [pages EXCEPT ![p] = Idle]
    BY <1>18 DEF OlderArrives, OlderFails, server, link, ghosts
  <2>2. pages'[p] = Idle /\ \A i \in PageIds \ {p} : pages'[i] = pages[i]
    BY <2>1 DEF TypeOK
  <2> QED
    BY <1>5, <1>6, <2>1, <2>2
<1>19. ASSUME NEW j \in JoinIds, ReadHistory(j)
       PROVE  ReadInv'
  <2>1. PICK c : c = joins[j].chat
    OBVIOUS
  <2>2. PICK L : L = Messages(c, MaxMsgs + 1)
    OBVIOUS
  <2>3. /\ joins' = [joins EXCEPT ![j] = [chat |-> c, at |-> "emit", val |-> L]]
    BY <1>19, <2>1, <2>2, ReadHistoryEffect
  <2>4. /\ UNCHANGED <<rows, calls, pages>> /\ crossed \subseteq crossed'
    BY <1>19 DEF ReadHistory, server, view
  <2>5. MaxMsgs + 1 \in Nat
    BY BoundsAssumption
  <2>6. L \in Seq(Entry) /\ Snapshot(L, MaxMsgs + 1, c)
    BY <2>2, <2>5, MessagesAreSnapshot
  <2>7. Snapshot(L, MaxMsgs + 1, c)'
    BY <2>4, <2>6, ReadsStay
  <2>8. Newer(L, c)'
    BY <1>19, <2>1, <2>2, HistoryIsNewer
  <2>9. joins'[j].chat = c /\ joins'[j].val = L /\ \A i \in JoinIds \ {j} : joins'[i] = joins[i]
    BY <2>3 DEF TypeOK
  <2>10. Snapshot(joins[j].val, MaxMsgs + 1, joins[j].chat)' /\ Newer(joins[j].val, joins[j].chat)'
    BY <2>7, <2>8, <2>9 DEF Snapshot, Newer, Shows
  <2>11. ASSUME NEW i \in JoinIds \ {j}, joins'[i] # Idle, joins'[i].at = "emit"
         PROVE  Snapshot(joins[i].val, MaxMsgs + 1, joins[i].chat)' /\ Newer(joins[i].val, joins[i].chat)'
    <3>1. PICK K, d : K = joins[i].val /\ d = joins[i].chat
      OBVIOUS
    <3>2. joins'[i] = joins[i]
      BY <2>9
    <3>3. K \in Seq(Entry) /\ Snapshot(K, MaxMsgs + 1, d) /\ Newer(K, d)
      BY <2>11, <3>1, <3>2, JoinFields DEF ReadInv
    <3>4. Snapshot(K, MaxMsgs + 1, d)' /\ Newer(K, d)'
      BY <1>6, <2>4, <3>3, ReadsStay
    <3> QED
      BY <3>1, <3>2, <3>4 DEF Snapshot, Newer, Shows
  <2>12. ASSUME NEW p \in PageIds, pages[p] # Idle, pages[p].at = "apply"
         PROVE  Snapshot(pages[p].val, pages[p].before, pages[p].chat)'
    <3>1. PICK K, b, d : K = pages[p].val /\ b = pages[p].before /\ d = pages[p].chat
      OBVIOUS
    <3>2. K \in Seq(Entry) /\ Snapshot(K, b, d)
      BY <2>12, <3>1, PageFields DEF ReadInv
    <3>3. Snapshot(K, b, d)'
      BY <2>4, <3>2, ReadsStay
    <3> QED
      BY <2>4, <3>1, <3>3 DEF Snapshot, Shows
  <2> QED
    BY <2>4, <2>10, <2>11, <2>12 DEF ReadInv
<1>20. ASSUME NEW p \in PageIds, ReadOlder(p)
       PROVE  ReadInv'
  <2>1. PICK c, b : c = pages[p].chat /\ b = pages[p].before
    OBVIOUS
  <2>2. PICK L : L = Messages(c, b)
    OBVIOUS
  <2>3. pages[p] # Idle /\ pages' = [pages EXCEPT ![p] = [chat |-> c, before |-> b, at |-> "apply",
                                                         val |-> L]]
    BY <1>20, <2>1, <2>2, ReadOlderEffect
  <2>4. UNCHANGED <<rows, calls, joins, crossed>>
    BY <1>20 DEF ReadOlder, server, link, ghosts
  <2>5. b \in Nat
    BY <2>1, <2>3, PageFields DEF MsgIds
  <2>6. L \in Seq(Entry) /\ Snapshot(L, b, c)
    BY <2>2, <2>5, MessagesAreSnapshot
  <2>7. UNCHANGED rows /\ crossed \subseteq crossed'
    BY <2>4
  <2>8. Snapshot(L, b, c)'
    BY <2>6, <2>7, ReadsStay
  <2>9. /\ pages'[p].chat = c /\ pages'[p].before = b /\ pages'[p].val = L
        /\ \A i \in PageIds \ {p} : pages'[i] = pages[i]
    BY <2>3 DEF TypeOK
  <2>10. Snapshot(pages[p].val, pages[p].before, pages[p].chat)'
    BY <2>8, <2>9 DEF Snapshot, Shows
  <2>11. ASSUME NEW i \in PageIds \ {p}, pages'[i] # Idle, pages'[i].at = "apply"
         PROVE  Snapshot(pages[i].val, pages[i].before, pages[i].chat)'
    <3>1. PICK K, e, d : K = pages[i].val /\ e = pages[i].before /\ d = pages[i].chat
      OBVIOUS
    <3>2. pages'[i] = pages[i]
      BY <2>9
    <3>3. K \in Seq(Entry) /\ Snapshot(K, e, d)
      BY <2>11, <3>1, <3>2, PageFields DEF ReadInv
    <3>4. Snapshot(K, e, d)'
      BY <2>7, <3>3, ReadsStay
    <3> QED
      BY <3>1, <3>2, <3>4 DEF Snapshot, Shows
  <2>12. ASSUME NEW j \in JoinIds, joins[j] # Idle, joins[j].at = "emit"
         PROVE  Snapshot(joins[j].val, MaxMsgs + 1, joins[j].chat)' /\ Newer(joins[j].val, joins[j].chat)'
    <3>1. PICK K, d : K = joins[j].val /\ d = joins[j].chat
      OBVIOUS
    <3>2. K \in Seq(Entry) /\ Snapshot(K, MaxMsgs + 1, d) /\ Newer(K, d)
      BY <2>12, <3>1, JoinFields DEF ReadInv
    <3>3. Snapshot(K, MaxMsgs + 1, d)' /\ Newer(K, d)'
      BY <1>6, <2>4, <2>7, <3>2, ReadsStay
    <3> QED
      BY <2>4, <3>1, <3>3 DEF Snapshot, Newer, Shows
  <2> QED
    BY <2>4, <2>10, <2>11, <2>12 DEF ReadInv
<1> QED
  BY <1>1, <1>3, <1>4, <1>7, <1>10, <1>11, <1>12, <1>13, <1>14, <1>15, <1>16, <1>17, <1>18,
     <1>19, <1>20, Zenon DEF Next, Writers, WriterStep

-----------------------------------------------------------------------------
(* An event applied to a list, and entries dropped from it.                  *)

\* K is the list L after the event e, each entry from one of L or of e itself.
Applied(K, L, e) ==
  /\ \E f \in [DOMAIN K -> DOMAIN L \cup {0}] :
       /\ \A i, j \in DOMAIN K : f[i] = f[j] => i = j
       /\ \A n \in DOMAIN K :
            \/ f[n] = 0 /\ e.type = "new" /\ K[n] = e.msg /\ ~Shows(L, e.msg.id)
            \/ /\ f[n] \in DOMAIN L /\ K[n].id = L[f[n]].id
               /\ e.type # "clear" /\ (e.type = "delete" => K[n].id # e.msg)
               /\ K[n].body = IF e.type = "edit" /\ K[n].id = e.msg THEN e.val ELSE L[f[n]].body
               /\ K[n].liked = IF e.type = "react" /\ K[n].id = e.msg THEN e.val
                                                                      ELSE L[f[n]].liked
  /\ e.type = "new" => Shows(K, e.msg.id)
  /\ \A m : Shows(L, m) => Shows(K, m) \/ e.type = "clear" \/ (e.type = "delete" /\ e.msg = m)

\* K is L without some messages that are not to be shown.
Thinned(K, L) ==
  /\ \E f \in [DOMAIN K -> DOMAIN L] :
       /\ \A i, j \in DOMAIN K : f[i] = f[j] => i = j
       /\ \A n \in DOMAIN K : K[n] = L[f[n]]
  /\ \A m \in MsgIds : Visible(m) /\ Shows(L, m) => Shows(K, m)

\* What is kept of a list, with the place in the list that each entry had.
LEMMA KeptSome ==
  ASSUME NEW L \in Seq(Entry), NEW I \in SUBSET (DOMAIN L), NEW K, K = Kept(L, I)
  PROVE  \E f \in [DOMAIN K -> DOMAIN L] :
           /\ \A i, j \in DOMAIN K : f[i] = f[j] => i = j
           /\ \A n \in DOMAIN K : K[n] = L[f[n]] /\ f[n] \in I
           /\ \A i \in I : \E n \in DOMAIN K : f[n] = i
<1>1. /\ K \in Seq(Entry)
      /\ \E f \in [DOMAIN K -> I] :
           /\ \A n \in DOMAIN K : K[n] = L[f[n]]
           /\ \A i, j \in DOMAIN K : i < j => f[i] < f[j]
           /\ \A i \in I : \E n \in DOMAIN K : f[n] = i
  BY KeptSound
<1>2. PICK f \in [DOMAIN K -> I] :
           /\ \A n \in DOMAIN K : K[n] = L[f[n]]
           /\ \A i, j \in DOMAIN K : i < j => f[i] < f[j]
           /\ \A i \in I : \E n \in DOMAIN K : f[n] = i
  BY <1>1
<1>3. \A i, j \in DOMAIN K : f[i] = f[j] => i = j
  <2>1. \A i \in DOMAIN K : i \in Nat /\ f[i] \in Nat
    BY <1>1
  <2> QED
    BY <1>2, <2>1
<1>4. f \in [DOMAIN K -> DOMAIN L]
  OBVIOUS
<1> QED
  BY <1>2, <1>3, <1>4

LEMMA WithoutApplies ==
  ASSUME NEW L \in Seq(Entry), NEW e, e.type = "delete"
  PROVE  Applied(Without(L, e.msg), L, e)
<1> DEFINE I == {i \in DOMAIN L : L[i].id # e.msg}
           K == Kept(L, I)
<1>1. I \in SUBSET (DOMAIN L)
  OBVIOUS
<1>2. \A i \in DOMAIN L : i \in I <=> L[i].id # e.msg
  OBVIOUS
<1>3. Without(L, e.msg) = K
  BY DEF Without
<1> HIDE DEF I
<1>4. PICK f \in [DOMAIN K -> DOMAIN L] :
           /\ \A i, j \in DOMAIN K : f[i] = f[j] => i = j
           /\ \A n \in DOMAIN K : K[n] = L[f[n]] /\ f[n] \in I
           /\ \A i \in I : \E n \in DOMAIN K : f[n] = i
  BY <1>1, KeptSome
<1> HIDE DEF K
<1>5. f \in [DOMAIN K -> DOMAIN L \cup {0}]
  BY <1>2
<1>6. \A n \in DOMAIN K : f[n] \in DOMAIN L /\ K[n].id = L[f[n]].id /\ K[n].id # e.msg
                          /\ K[n].body = L[f[n]].body /\ K[n].liked = L[f[n]].liked
  BY <1>2, <1>4
<1>7. \A m : Shows(L, m) => Shows(K, m) \/ e.msg = m
  BY <1>2, <1>4 DEF Shows
<1> QED
  BY <1>3, <1>4, <1>5, <1>6, <1>7 DEF Applied

LEMMA ChangeApplies ==
  ASSUME NEW L \in Seq(Entry), NEW e \in Event, e.type \notin {"history", "error"}
  PROVE  Applied(Changed(L, e), L, e)
<1>0. DOMAIN L = 1..Len(L) /\ Len(L) \in Nat
  OBVIOUS
<1>1. CASE e.type = "new" /\ Shows(L, e.msg.id)
  <2>1. Changed(L, e) = L
    BY <1>1 DEF Changed, Appended
  <2> DEFINE f == [n \in DOMAIN L |-> n]
  <2>2. f \in [DOMAIN L -> DOMAIN L \cup {0}] /\ \A n \in DOMAIN L : f[n] = n
    OBVIOUS
  <2> HIDE DEF f
  <2> QED
    BY <1>1, <2>1, <2>2 DEF Applied
<1>2. CASE e.type = "new" /\ ~Shows(L, e.msg.id)
  <2>1. Changed(L, e) = Append(L, e.msg)
    BY <1>2 DEF Changed, Appended
  <2> DEFINE K == Append(L, e.msg)
             f == [n \in DOMAIN K |-> IF n = Len(L) + 1 THEN 0 ELSE n]
  <2>2. /\ DOMAIN K = 1..(Len(L) + 1) /\ K[Len(L) + 1] = e.msg
        /\ \A n \in DOMAIN L : n \in DOMAIN K /\ K[n] = L[n]
    OBVIOUS
  <2>3. /\ f \in [DOMAIN K -> DOMAIN L \cup {0}]
        /\ \A n \in DOMAIN K : f[n] = IF n = Len(L) + 1 THEN 0 ELSE n
    BY <1>0, <2>2
  <2> HIDE DEF f, K
  <2>4. \A i, j \in DOMAIN K : f[i] = f[j] => i = j
    BY <1>0, <2>2, <2>3
  <2>5. ASSUME NEW n \in DOMAIN K
        PROVE  \/ f[n] = 0 /\ K[n] = e.msg
               \/ f[n] \in DOMAIN L /\ K[n] = L[f[n]]
    BY <1>0, <2>2, <2>3
  <2>6. Shows(K, e.msg.id) /\ \A m : Shows(L, m) => Shows(K, m)
    BY <1>0, <2>2 DEF Shows
  <2>7. Applied(K, L, e)
    BY <1>2, <2>3, <2>4, <2>5, <2>6 DEF Applied
  <2> QED
    BY <2>1, <2>7 DEF K
<1>3. CASE e.type = "edit"
  <2> DEFINE K == [i \in DOMAIN L |-> IF L[i].id = e.msg THEN [L[i] EXCEPT !.body = e.val] ELSE L[i]]
             f == [n \in DOMAIN L |-> n]
  <2>1. Changed(L, e) = K
    BY <1>3 DEF Changed
  <2>2. f \in [DOMAIN L -> DOMAIN L \cup {0}] /\ \A n \in DOMAIN L : f[n] = n
    OBVIOUS
  <2>3. ASSUME NEW n \in DOMAIN L
        PROVE  /\ K[n].id = L[n].id /\ K[n].liked = L[n].liked
               /\ K[n].body = IF L[n].id = e.msg THEN e.val ELSE L[n].body
    <3>1. L[n] \in Entry
      OBVIOUS
    <3> QED
      BY <3>1 DEF Entry
  <2>4. DOMAIN K = DOMAIN L
    OBVIOUS
  <2> HIDE DEF f, K
  <2>5. \A m : Shows(L, m) => Shows(K, m)
    BY <2>3, <2>4 DEF Shows
  <2> QED
    BY <1>3, <2>1, <2>2, <2>3, <2>4, <2>5 DEF Applied
<1>4. CASE e.type = "react"
  <2> DEFINE K == [i \in DOMAIN L |-> IF L[i].id = e.msg THEN [L[i] EXCEPT !.liked = e.val] ELSE L[i]]
             f == [n \in DOMAIN L |-> n]
  <2>1. Changed(L, e) = K
    BY <1>4 DEF Changed
  <2>2. f \in [DOMAIN L -> DOMAIN L \cup {0}] /\ \A n \in DOMAIN L : f[n] = n
    OBVIOUS
  <2>3. ASSUME NEW n \in DOMAIN L
        PROVE  /\ K[n].id = L[n].id /\ K[n].body = L[n].body
               /\ K[n].liked = IF L[n].id = e.msg THEN e.val ELSE L[n].liked
    <3>1. L[n] \in Entry
      OBVIOUS
    <3> QED
      BY <3>1 DEF Entry
  <2>4. DOMAIN K = DOMAIN L
    OBVIOUS
  <2> HIDE DEF f, K
  <2>5. \A m : Shows(L, m) => Shows(K, m)
    BY <2>3, <2>4 DEF Shows
  <2> QED
    BY <1>4, <2>1, <2>2, <2>3, <2>4, <2>5 DEF Applied
<1>5. CASE e.type = "delete"
  <2>1. Changed(L, e) = Without(L, e.msg)
    BY <1>5 DEF Changed
  <2> QED
    BY <1>5, <2>1, WithoutApplies
<1>6. CASE e.type = "clear"
  <2>1. Changed(L, e) = <<>>
    BY <1>6 DEF Changed
  <2>2. DOMAIN <<>> = {}
    OBVIOUS
  <2> DEFINE f == [n \in {} |-> 0]
  <2>3. f \in [{} -> DOMAIN L \cup {0}]
    OBVIOUS
  <2> HIDE DEF f
  <2> QED
    BY <1>6, <2>1, <2>2, <2>3 DEF Applied
<1>7. e.type \in {"new", "edit", "react", "delete", "clear", "history", "error"}
  BY DEF Event
<1> QED
  BY <1>1, <1>2, <1>3, <1>4, <1>5, <1>6, <1>7

LEMMA LocalExpiryThins ==
  ASSUME TypeOK, NEW L \in Seq(Entry), \A n \in DOMAIN L : rows[L[n].id] # None
  PROVE  /\ Thinned(LocalExpiry(L), L)
         /\ \A n \in DOMAIN LocalExpiry(L) : ~Gone(LocalExpiry(L)[n].id)
<1> DEFINE I == {i \in DOMAIN L : rows[L[i].id].timed \notin {"over", "purged"}}
           K == Kept(L, I)
<1>1. I \in SUBSET (DOMAIN L)
  OBVIOUS
<1>2. \A i \in DOMAIN L : i \in I <=> ~Gone(L[i].id)
  BY DEF Gone
<1>3. LocalExpiry(L) = K
  BY DEF LocalExpiry
<1> HIDE DEF I
<1>4. PICK f \in [DOMAIN K -> DOMAIN L] :
           /\ \A i, j \in DOMAIN K : f[i] = f[j] => i = j
           /\ \A n \in DOMAIN K : K[n] = L[f[n]] /\ f[n] \in I
           /\ \A i \in I : \E n \in DOMAIN K : f[n] = i
  BY <1>1, KeptSome
<1> HIDE DEF K
<1>5. \A m \in MsgIds : Visible(m) => ~Gone(m)
  BY DEF Visible, Exists, Gone
<1>6. \A m \in MsgIds : Visible(m) /\ Shows(L, m) => Shows(K, m)
  BY <1>2, <1>4, <1>5 DEF Shows
<1>7. Thinned(K, L)
  BY <1>4, <1>6 DEF Thinned
<1>8. \A n \in DOMAIN K : ~Gone(K[n].id)
  BY <1>2, <1>4
<1> QED
  BY <1>3, <1>7, <1>8

LEMMA WithoutThins ==
  ASSUME TypeOK, NEW L \in Seq(Entry), NEW m \in MsgIds, ~Visible(m)
  PROVE  /\ Thinned(Without(L, m), L)
         /\ \A n \in DOMAIN Without(L, m) : Without(L, m)[n].id # m
                                            /\ Shows(L, Without(L, m)[n].id)
<1> DEFINE I == {i \in DOMAIN L : L[i].id # m}
           K == Kept(L, I)
<1>1. I \in SUBSET (DOMAIN L)
  OBVIOUS
<1>2. \A i \in DOMAIN L : i \in I <=> L[i].id # m
  OBVIOUS
<1>3. Without(L, m) = K
  BY DEF Without
<1> HIDE DEF I
<1>4. PICK f \in [DOMAIN K -> DOMAIN L] :
           /\ \A i, j \in DOMAIN K : f[i] = f[j] => i = j
           /\ \A n \in DOMAIN K : K[n] = L[f[n]] /\ f[n] \in I
           /\ \A i \in I : \E n \in DOMAIN K : f[n] = i
  BY <1>1, KeptSome
<1> HIDE DEF K
<1>5. \A n \in MsgIds : Visible(n) /\ Shows(L, n) => Shows(K, n)
  BY <1>2, <1>4 DEF Shows
<1>6. Thinned(K, L)
  BY <1>4, <1>5 DEF Thinned
<1>7. \A n \in DOMAIN K : K[n].id # m /\ Shows(L, K[n].id)
  BY <1>2, <1>4 DEF Shows
<1> QED
  BY <1>3, <1>6, <1>7

LEMMA ThinnedConverges ==
  ASSUME NEW L \in Seq(Entry), NEW K, NEW o, NEW p, Converges(L, o, p), Thinned(K, L)
  PROVE  Converges(K, o, p)
<1>1. PICK f \in [DOMAIN K -> DOMAIN L] :
       /\ \A i, j \in DOMAIN K : f[i] = f[j] => i = j
       /\ \A n \in DOMAIN K : K[n] = L[f[n]]
  BY DEF Thinned
<1>2. \A n \in DOMAIN K : f[n] \in DOMAIN L /\ K[n] = L[f[n]]
  BY <1>1
<1>3. \A m : Shows(K, m) => Shows(L, m)
  BY <1>2 DEF Shows
<1>4. \A m \in MsgIds : Visible(m) /\ Shows(L, m) => Shows(K, m)
  BY DEF Thinned
<1>5. /\ EventsAreSound(p) /\ EntriesAreSound(L, o) /\ NothingOlder(L, o, p)
      /\ NothingMissing(L, o, p) /\ NothingRevived(L, p) /\ BodiesAgree(L, p) /\ LikesAgree(L, p)
  BY DEF Converges
<1>6. EntriesAreSound(K, o)
  BY <1>1, <1>2, <1>5 DEF EntriesAreSound
<1>7. NothingOlder(K, o, p)
  BY <1>3, <1>5 DEF NothingOlder
<1>8. NothingMissing(K, o, p)
  BY <1>4, <1>5 DEF NothingMissing
<1>9. NothingRevived(K, p)
  BY <1>3, <1>5 DEF NothingRevived
<1>10. BodiesAgree(K, p)
  BY <1>2, <1>5 DEF BodiesAgree
<1>11. LikesAgree(K, p)
  BY <1>2, <1>5 DEF LikesAgree
<1> QED
  BY <1>5, <1>6, <1>7, <1>8, <1>9, <1>10, <1>11 DEF Converges

LEMMA AfterSplits ==
  ASSUME TypeOK, NEW p \in Nat, NEW q, q = p + 1, q \in DOMAIN down
  PROVE  /\ \A i \in DOMAIN down : i > p <=> i = q \/ i > q
         /\ \A t, m : After(p, t, m) <=> After(q, t, m) \/ Is(q, t, m)
         /\ \A m : NewAfter(p, m) <=> NewAfter(q, m) \/ IsNew(q, m)
         /\ ClearAfter(p) <=> ClearAfter(q) \/ down[q].type = "clear"
<1>1. \A i \in DOMAIN down : i \in Nat
  BY DEF TypeOK
<1>2. \A i \in DOMAIN down : i > p <=> i = q \/ i > q
  BY <1>1
<1> QED
  BY <1>2 DEF After, NewAfter, ClearAfter

LEMMA AppliedConverges ==
  ASSUME TypeOK, NEW L \in Seq(Entry), NEW K, NEW o, NEW p \in Nat, NEW q, q = p + 1,
         q \in DOMAIN down, Converges(L, o, p), Applied(K, L, down[q])
  PROVE  Converges(K, o, q)
<1> DEFINE e == down[q]
<1>0. /\ EventsAreSound(p) /\ EntriesAreSound(L, o) /\ NothingOlder(L, o, p)
      /\ NothingMissing(L, o, p) /\ NothingRevived(L, p) /\ BodiesAgree(L, p) /\ LikesAgree(L, p)
  BY DEF Converges
<1>1. /\ \A i \in DOMAIN down : i > p <=> i = q \/ i > q
      /\ \A t, m : After(p, t, m) <=> After(q, t, m) \/ Is(q, t, m)
      /\ \A m : NewAfter(p, m) <=> NewAfter(q, m) \/ IsNew(q, m)
      /\ ClearAfter(p) <=> ClearAfter(q) \/ e.type = "clear"
  BY AfterSplits
<1>2. PICK f \in [DOMAIN K -> DOMAIN L \cup {0}] :
       /\ \A i, j \in DOMAIN K : f[i] = f[j] => i = j
       /\ \A n \in DOMAIN K :
            \/ f[n] = 0 /\ e.type = "new" /\ K[n] = e.msg /\ ~Shows(L, e.msg.id)
            \/ /\ f[n] \in DOMAIN L /\ K[n].id = L[f[n]].id
               /\ e.type # "clear" /\ (e.type = "delete" => K[n].id # e.msg)
               /\ K[n].body = IF e.type = "edit" /\ K[n].id = e.msg THEN e.val ELSE L[f[n]].body
               /\ K[n].liked = IF e.type = "react" /\ K[n].id = e.msg THEN e.val
                                                                      ELSE L[f[n]].liked
  BY DEF Applied
<1>3. /\ e.type = "new" => Shows(K, e.msg.id)
      /\ \A m : Shows(L, m) => Shows(K, m) \/ e.type = "clear" \/ (e.type = "delete" /\ e.msg = m)
  BY DEF Applied
<1>4. \A m : Shows(K, m) => \/ IsNew(q, m)
                            \/ /\ Shows(L, m) /\ e.type # "clear"
                               /\ (e.type = "delete" => m # e.msg)
  BY <1>2 DEF Shows, IsNew
<1>5. /\ ~IsAnswer(q)
      /\ e.type = "new" => /\ rows[e.msg.id] # None /\ rows[e.msg.id].chat = route
                           /\ e.msg.body = 0 /\ e.msg.liked = FALSE
      /\ e.type = "delete" => rows[e.msg] # None /\ (rows[e.msg].deleted \/ Gone(e.msg))
  BY <1>0, <1>1 DEF EventsAreSound
<1> HIDE DEF e
<1>6. EventsAreSound(q)
  BY <1>0, <1>1 DEF EventsAreSound
<1>7. EntriesAreSound(K, o)
  <2>1. \A n \in DOMAIN K : rows[K[n].id] # None /\ rows[K[n].id].chat = route
    BY <1>0, <1>2, <1>5 DEF EntriesAreSound
  <2>2. ASSUME NEW m \in MsgIds \ crossed, NEW i \in DOMAIN K, NEW j \in DOMAIN K,
               K[i].id = m, K[j].id = m
        PROVE  i = j
    <3>1. f[i] \in DOMAIN L /\ f[j] \in DOMAIN L => f[i] = f[j]
      BY <1>0, <1>2, <2>2 DEF EntriesAreSound
    <3>2. f[i] \in DOMAIN L <=> f[j] \in DOMAIN L
      BY <1>2, <2>2 DEF Shows
    <3> QED
      BY <1>2, <3>1, <3>2
  <2> QED
    BY <1>0, <2>1, <2>2 DEF EntriesAreSound
<1>8. NothingOlder(K, o, q)
  <2> SUFFICES ASSUME NEW m \in MsgIds \ crossed, o # None,
                      Shows(K, m) \/ (NewSoon(q, m) /\ rows[m].chat = route), ~Gone(m)
               PROVE  o <= m
    BY DEF NothingOlder
  <2>1. Shows(L, m) \/ (NewSoon(p, m) /\ rows[m].chat = route)
    BY <1>1, <1>4, <1>5 DEF NewSoon, IsNew, e
  <2> QED
    BY <1>0, <2>1 DEF NothingOlder
<1>9. NothingMissing(K, o, q)
  <2> SUFFICES ASSUME NEW m \in MsgIds \ crossed, Visible(m), rows[m].chat = route
               PROVE  /\ (o # None => o <= m) => Shows(K, m) \/ NewSoon(q, m)
                      /\ \A i \in DOMAIN down : i > q /\ down[i].type = "clear" => NewSoon(i, m)
    BY DEF NothingMissing
  <2>1. /\ (o # None => o <= m) => Shows(L, m) \/ NewSoon(p, m)
        /\ \A i \in DOMAIN down : i > p /\ down[i].type = "clear" => NewSoon(i, m)
    BY <1>0 DEF NothingMissing
  <2>2. ~(e.type = "delete" /\ e.msg = m)
    BY <1>5 DEF Visible, Exists, Gone
  <2>3. e.type = "clear" => NewSoon(q, m)
    BY <1>1, <2>1 DEF e
  <2>4. NewSoon(p, m) => NewSoon(q, m) \/ Shows(K, m)
    BY <1>1, <1>3 DEF NewSoon, IsNew, e
  <2> QED
    BY <1>1, <1>3, <2>1, <2>2, <2>3, <2>4
<1>10. NothingRevived(K, q)
  <2> SUFFICES ASSUME NEW m \in MsgIds \ crossed, rows[m] # None, rows[m].deleted
               PROVE  /\ Shows(K, m) => RemovedAfter(q, m)
                      /\ \A i \in DOMAIN down : i > q /\ IsNew(i, m) => RemovedAfter(i, m)
    BY DEF NothingRevived
  <2>1. /\ Shows(L, m) => RemovedAfter(p, m)
        /\ \A i \in DOMAIN down : i > p /\ IsNew(i, m) => RemovedAfter(i, m)
    BY <1>0 DEF NothingRevived
  <2>2. e.type # "clear" /\ (e.type = "delete" => m # e.msg) =>
          (RemovedAfter(p, m) => RemovedAfter(q, m))
    BY <1>1 DEF RemovedAfter, Is, e
  <2> QED
    BY <1>1, <1>4, <2>1, <2>2
<1>11. BodiesAgree(K, q)
  <2> SUFFICES ASSUME NEW m \in MsgIds \ crossed, rows[m] # None, ~CallFor("edit", m)
               PROVE  /\ ~After(q, "edit", m) =>
                           \A n \in DOMAIN K : K[n].id = m => K[n].body = rows[m].body
                      /\ \A i \in DOMAIN down : i > q /\ ~After(i, "edit", m) =>
                           /\ IsNew(i, m) => rows[m].body = 0
                           /\ Is(i, "edit", m) => down[i].val = rows[m].body
    BY DEF BodiesAgree
  <2>1. /\ ~After(p, "edit", m) => \A n \in DOMAIN L : L[n].id = m => L[n].body = rows[m].body
        /\ \A i \in DOMAIN down : i > p /\ ~After(i, "edit", m) =>
             /\ IsNew(i, m) => rows[m].body = 0
             /\ Is(i, "edit", m) => down[i].val = rows[m].body
    BY <1>0 DEF BodiesAgree
  <2>2. ASSUME ~After(q, "edit", m), NEW n \in DOMAIN K, K[n].id = m
        PROVE  K[n].body = rows[m].body
    <3>1. CASE f[n] \in DOMAIN L /\ e.type = "edit" /\ e.msg = m
      <4>1. K[n].body = e.val
        BY <1>0, <1>2, <2>2, <3>1
      <4>2. Is(q, "edit", m)
        BY <3>1 DEF Is, e
      <4> QED
        BY <1>1, <2>1, <2>2, <4>1, <4>2 DEF e
    <3>2. CASE f[n] \in DOMAIN L /\ ~(e.type = "edit" /\ e.msg = m)
      <4>1. ~After(p, "edit", m)
        BY <1>1, <2>2, <3>2 DEF Is, e
      <4> QED
        BY <1>2, <2>1, <2>2, <3>2, <4>1
    <3>3. CASE f[n] \notin DOMAIN L
      <4>1. e.type = "new" /\ K[n] = e.msg
        BY <1>2, <3>3
      <4>2. IsNew(q, m)
        BY <2>2, <4>1 DEF IsNew, e
      <4> QED
        BY <1>1, <1>5, <2>1, <2>2, <4>1, <4>2
    <3> QED
      BY <3>1, <3>2, <3>3
  <2> QED
    BY <1>1, <2>1, <2>2
<1>12. LikesAgree(K, q)
  <2> SUFFICES ASSUME NEW m \in MsgIds \ crossed, Exists(m), ~CallFor("react", m), ~Counting(m)
               PROVE  /\ ~After(q, "react", m) =>
                           \A n \in DOMAIN K : K[n].id = m => K[n].liked = rows[m].liked
                      /\ \A i \in DOMAIN down : i > q /\ ~After(i, "react", m) =>
                           /\ IsNew(i, m) => rows[m].liked = FALSE
                           /\ Is(i, "react", m) => down[i].val = rows[m].liked
    BY DEF LikesAgree
  <2>1. /\ ~After(p, "react", m) => \A n \in DOMAIN L : L[n].id = m => L[n].liked = rows[m].liked
        /\ \A i \in DOMAIN down : i > p /\ ~After(i, "react", m) =>
             /\ IsNew(i, m) => rows[m].liked = FALSE
             /\ Is(i, "react", m) => down[i].val = rows[m].liked
    BY <1>0 DEF LikesAgree
  <2>2. ASSUME ~After(q, "react", m), NEW n \in DOMAIN K, K[n].id = m
        PROVE  K[n].liked = rows[m].liked
    <3>1. CASE f[n] \in DOMAIN L /\ e.type = "react" /\ e.msg = m
      <4>1. K[n].liked = e.val
        BY <1>0, <1>2, <2>2, <3>1
      <4>2. Is(q, "react", m)
        BY <3>1 DEF Is, e
      <4> QED
        BY <1>1, <2>1, <2>2, <4>1, <4>2 DEF e
    <3>2. CASE f[n] \in DOMAIN L /\ ~(e.type = "react" /\ e.msg = m)
      <4>1. ~After(p, "react", m)
        BY <1>1, <2>2, <3>2 DEF Is, e
      <4> QED
        BY <1>2, <2>1, <2>2, <3>2, <4>1
    <3>3. CASE f[n] \notin DOMAIN L
      <4>1. e.type = "new" /\ K[n] = e.msg
        BY <1>2, <3>3
      <4>2. IsNew(q, m)
        BY <2>2, <4>1 DEF IsNew, e
      <4> QED
        BY <1>1, <1>5, <2>1, <2>2, <4>1, <4>2
    <3> QED
      BY <3>1, <3>2, <3>3
  <2> QED
    BY <1>1, <2>1, <2>2
<1> QED
  BY <1>6, <1>7, <1>8, <1>9, <1>10, <1>11, <1>12 DEF Converges

-----------------------------------------------------------------------------
(* A list converges through every step of the writers and of time.           *)

LEMMA EventIds ==
  ASSUME TypeOK, NEW i \in DOMAIN down
  PROVE  /\ down[i] \in Event
         /\ down[i].type = "new" => down[i].msg \in Entry /\ down[i].msg.id \in MsgIds
         /\ down[i].type \in {"edit", "react", "delete"} => down[i].msg \in MsgIds
         /\ down[i].type = "history" => down[i].list \in Seq(Entry) /\ down[i].chat \in Chats
<1>1. down[i] \in Event
  BY DEF TypeOK
<1> QED
  BY <1>1 DEF Event, Entry

LEMMA SameEvents ==
  ASSUME UNCHANGED down
  PROVE  /\ \A i, t, m : Is(i, t, m)' <=> Is(i, t, m)
         /\ \A i, m : IsNew(i, m)' <=> IsNew(i, m)
         /\ \A i : IsAnswer(i)' <=> IsAnswer(i)
         /\ \A p, t, m : After(p, t, m)' <=> After(p, t, m)
         /\ \A p, m : NewAfter(p, m)' <=> NewAfter(p, m)
         /\ \A p : ClearAfter(p)' <=> ClearAfter(p)
BY DEF Is, IsNew, IsAnswer, After, NewAfter, ClearAfter

\* Nothing that a list is judged by changes.
LEMMA NothingChanges ==
  ASSUME UNCHANGED <<rows, down, route>>, crossed \subseteq crossed',
         NEW L, NEW o, NEW p, Converges(L, o, p),
         \A op, n : n \notin crossed' => (CallFor(op, n)' <=> CallFor(op, n)),
         \A n : n \notin crossed' => (Counting(n)' <=> Counting(n)),
         \A c : ClearingNow(c)' <=> ClearingNow(c)
  PROVE  Converges(L, o, p)'
<1>1. /\ EventsAreSound(p) /\ EntriesAreSound(L, o) /\ NothingOlder(L, o, p)
      /\ NothingMissing(L, o, p) /\ NothingRevived(L, p) /\ BodiesAgree(L, p) /\ LikesAgree(L, p)
  BY DEF Converges
<1>2. /\ \A i, t, m : Is(i, t, m)' <=> Is(i, t, m)
      /\ \A i, m : IsNew(i, m)' <=> IsNew(i, m)
      /\ \A i : IsAnswer(i)' <=> IsAnswer(i)
      /\ \A q, t, m : After(q, t, m)' <=> After(q, t, m)
      /\ \A q, m : NewAfter(q, m)' <=> NewAfter(q, m)
      /\ \A q : ClearAfter(q)' <=> ClearAfter(q)
  BY SameEvents
<1>3. \A n : (Gone(n)' <=> Gone(n)) /\ (Exists(n)' <=> Exists(n)) /\ (Visible(n)' <=> Visible(n))
  BY DEF Gone, Exists, Visible
<1>4. \A m : Shows(L, m)' <=> Shows(L, m)
  BY DEF Shows
<1>5. \A q, m : m \notin crossed' => (NewSoon(q, m)' <=> NewSoon(q, m))
  BY <1>2 DEF NewSoon
<1>6. \A q, m : m \notin crossed' => (RemovedAfter(q, m)' <=> RemovedAfter(q, m))
  <2>1. PICK r : r = route
    OBVIOUS
  <2>2. ClearingNow(route)' <=> ClearingNow(r)'
    BY <2>1, Zenon DEF ClearingNow
  <2> QED
    BY <1>2, <2>1, <2>2 DEF RemovedAfter
<1>7. EventsAreSound(p)'
  BY <1>1, <1>2, <1>3 DEF EventsAreSound, Gone
<1>8. EntriesAreSound(L, o)'
  BY <1>1 DEF EntriesAreSound
<1>9. NothingOlder(L, o, p)'
  BY <1>1, <1>3, <1>4, <1>5 DEF NothingOlder
<1>10. NothingMissing(L, o, p)'
  BY <1>1, <1>3, <1>4, <1>5 DEF NothingMissing
<1>11. NothingRevived(L, p)'
  BY <1>1, <1>2, <1>4, <1>6 DEF NothingRevived
<1>12. BodiesAgree(L, p)'
  BY <1>1, <1>2 DEF BodiesAgree
<1>13. LikesAgree(L, p)'
  BY <1>1, <1>2, <1>3 DEF LikesAgree
<1> QED
  BY <1>7, <1>8, <1>9, <1>10, <1>11, <1>12, <1>13 DEF Converges

LEMMA WritesConverge ==
  ASSUME TypeOK, WriteInv, UNCHANGED route, NEW L \in Seq(Entry), NEW o \in MsgIds \cup {None},
         NEW p, Converges(L, o, p),
         NEW k \in CallIds, NEW op, NEW M, NEW c, Writes(k, op, M, c)
  PROVE  Converges(L, o, p)'
<1>1. /\ EventsAreSound(p) /\ EntriesAreSound(L, o) /\ NothingOlder(L, o, p)
      /\ NothingMissing(L, o, p) /\ NothingRevived(L, p) /\ BodiesAgree(L, p) /\ LikesAgree(L, p)
  BY DEF Converges
<1>2. UNCHANGED down /\ op \in {"edit", "delete", "clear", "react"} /\ M \subseteq MsgIds
      /\ crossed' = crossed \cup {n \in M : Clash(op, n, c)}
  BY DEF Writes
<1>3. /\ \A i, t, m : Is(i, t, m)' <=> Is(i, t, m)
      /\ \A i, m : IsNew(i, m)' <=> IsNew(i, m)
      /\ \A i : IsAnswer(i)' <=> IsAnswer(i)
      /\ \A q, t, m : After(q, t, m)' <=> After(q, t, m)
      /\ \A q, m : NewAfter(q, m)' <=> NewAfter(q, m)
      /\ \A q : ClearAfter(q)' <=> ClearAfter(q)
  BY <1>2, SameEvents
<1>4. \A n \in MsgIds : /\ rows'[n] # None <=> rows[n] # None
                        /\ rows[n] # None => rows'[n].chat = rows[n].chat /\ rows'[n].timed = rows[n].timed
                        /\ Exists(n)' <=> Exists(n)
  BY WritesRows
<1>5. /\ \A n \in MsgIds \ M : rows'[n] = rows[n]
      /\ \A n \in M : rows[n] # None /\ rows[n].chat = c
      /\ \A n \in M : IF op = "edit" THEN TRUE ELSE rows'[n].body = rows[n].body
      /\ \A n \in M : op # "react" => rows'[n].liked = rows[n].liked
      /\ \A n \in M : IF op \in {"delete", "clear"} THEN rows'[n].deleted = TRUE
                                                    ELSE rows'[n].deleted = rows[n].deleted
  BY DEF Writes, Exists
<1>6. /\ \A o1, n : CallFor(o1, n)' <=>
           CallFor(o1, n) \/ (o1 = op /\ op \in {"edit", "delete"} /\ n \in M)
                          \/ (o1 = op /\ op = "clear" /\ n = calls'[k].msg)
      /\ \A n : Counting(n)' <=> Counting(n) \/ (op = "react" /\ n \in M)
      /\ \A d : ClearingNow(d)' <=> ClearingNow(d) \/ (op = "clear" /\ d = c)
  BY WritesDue
<1>7. /\ \A n : CallFor("new", n)' <=> CallFor("new", n)
      /\ \A n : CallFor("react", n)' <=> CallFor("react", n)
  BY <1>2, <1>6
<1>8. \A q, m : NewSoon(q, m)' <=> NewSoon(q, m)
  BY <1>3, <1>7 DEF NewSoon
<1>9. \A n \in MsgIds : rows[n] # None => (Gone(n)' <=> Gone(n))
  BY <1>4 DEF Gone
<1>10. \A n \in MsgIds : rows[n] # None /\ rows[n].deleted => rows'[n].deleted
  BY <1>5
<1>11. \A n \in MsgIds : Visible(n)' => Visible(n) /\ rows[n] # None
  BY <1>4, <1>10 DEF Visible, Exists
<1>12. \A m : Shows(L, m)' <=> Shows(L, m)
  BY DEF Shows
<1>13. ClearingNow(route)' <=> ClearingNow(route) \/ (op = "clear" /\ route = c)
  <2>1. PICK r : r = route
    OBVIOUS
  <2>2. ClearingNow(route)' <=> ClearingNow(r)'
    BY <2>1, Zenon DEF ClearingNow
  <2> QED
    BY <1>6, <2>1, <2>2
<1>14. \A q, m : RemovedAfter(q, m) => RemovedAfter(q, m)'
  BY <1>3, <1>6, <1>13 DEF RemovedAfter
<1>15. EventsAreSound(p)'
  <2> SUFFICES ASSUME NEW i \in DOMAIN down, i > p
               PROVE  /\ ~IsAnswer(i)
                      /\ down[i].type = "new" => /\ rows'[down[i].msg.id] # None
                                                 /\ rows'[down[i].msg.id].chat = route
                                                 /\ down[i].msg.body = 0 /\ down[i].msg.liked = FALSE
                      /\ down[i].type \in {"edit", "react"} => /\ rows'[down[i].msg] # None
                                                               /\ rows'[down[i].msg].chat = route
                      /\ down[i].type = "delete" => /\ rows'[down[i].msg] # None
                                                    /\ rows'[down[i].msg].deleted \/ Gone(down[i].msg)'
    BY <1>2, <1>3 DEF EventsAreSound, Gone
  <2>1. /\ ~IsAnswer(i)
        /\ down[i].type = "new" => /\ rows[down[i].msg.id] # None
                                   /\ rows[down[i].msg.id].chat = route
                                   /\ down[i].msg.body = 0 /\ down[i].msg.liked = FALSE
        /\ down[i].type \in {"edit", "react"} => /\ rows[down[i].msg] # None
                                                 /\ rows[down[i].msg].chat = route
        /\ down[i].type = "delete" => /\ rows[down[i].msg] # None
                                      /\ rows[down[i].msg].deleted \/ Gone(down[i].msg)
    BY <1>1 DEF EventsAreSound
  <2>2. PICK n : n = down[i].msg
    OBVIOUS
  <2>3. down[i].type = "delete" => /\ rows'[n] # None /\ (rows'[n].deleted \/ Gone(n)')
    BY <1>4, <1>9, <1>10, <2>1, <2>2, EventIds
  <2>4. Gone(down[i].msg)' <=> Gone(n)'
    BY <1>2, <2>2 DEF Gone
  <2> QED
    BY <1>4, <2>1, <2>2, <2>3, <2>4, EventIds
<1>16. EntriesAreSound(L, o)'
  BY <1>1, <1>2, <1>4, EntryIds DEF EntriesAreSound
<1>17. \A n : (Shows(L, n) => rows[n] # None /\ rows[n].chat = route)
  BY <1>1 DEF Shows, EntriesAreSound
<1>18. NothingOlder(L, o, p)'
  <2> SUFFICES ASSUME NEW m \in MsgIds \ crossed', o # None,
                      Shows(L, m) \/ (NewSoon(p, m) /\ rows'[m].chat = route), ~Gone(m)'
               PROVE  o <= m
    BY <1>8, <1>12 DEF NothingOlder
  <2>1. m \in MsgIds \ crossed
    BY <1>2
  <2>2. NewSoon(p, m) => rows[m] # None
    <3>1. CallFor("new", m) => rows[m] # None
      BY DEF CallFor, At, WriteInv, CallsKnowTheirRow
    <3>2. NewAfter(p, m) => rows[m] # None
      BY <1>1 DEF NewAfter, IsNew, EventsAreSound
    <3> QED
      BY <3>1, <3>2 DEF NewSoon
  <2>3. rows[m] # None
    BY <1>17, <2>2
  <2> QED
    BY <1>1, <1>4, <1>9, <2>1, <2>3 DEF NothingOlder
<1>19. NothingMissing(L, o, p)'
  BY <1>1, <1>2, <1>4, <1>8, <1>11, <1>12 DEF NothingMissing
<1>20. \A i, m : i \in DOMAIN down /\ i > p /\ IsNew(i, m) => rows[m] # None /\ rows[m].chat = route
  BY <1>1 DEF EventsAreSound, IsNew
<1>21. NothingRevived(L, p)'
  <2> SUFFICES ASSUME NEW m \in MsgIds \ crossed', rows'[m] # None, rows'[m].deleted
               PROVE  /\ Shows(L, m) => RemovedAfter(p, m)'
                      /\ \A i \in DOMAIN down : i > p /\ IsNew(i, m) => RemovedAfter(i, m)'
    BY <1>2, <1>3, <1>12 DEF NothingRevived
  <2>1. m \in MsgIds \ crossed /\ rows[m] # None
    BY <1>2, <1>4
  <2>2. CASE rows[m].deleted
    BY <1>1, <1>14, <2>1, <2>2 DEF NothingRevived
  <2>3. CASE ~rows[m].deleted
    <3>1. m \in M /\ op \in {"delete", "clear"} /\ rows[m].chat = c
      BY <1>5, <2>1, <2>3
    <3>2. c = route => \A q : RemovedAfter(q, m)'
      BY <1>6, <1>13, <3>1 DEF RemovedAfter
    <3> QED
      BY <1>17, <1>20, <3>1, <3>2
  <2> QED
    BY <2>2, <2>3
<1>22. BodiesAgree(L, p)'
  <2> SUFFICES ASSUME NEW m \in MsgIds \ crossed', rows'[m] # None, ~CallFor("edit", m)'
               PROVE  /\ ~After(p, "edit", m) =>
                           \A n \in DOMAIN L : L[n].id = m => L[n].body = rows'[m].body
                      /\ \A i \in DOMAIN down : i > p /\ ~After(i, "edit", m) =>
                           /\ IsNew(i, m) => rows'[m].body = 0
                           /\ Is(i, "edit", m) => down[i].val = rows'[m].body
    BY <1>2, <1>3 DEF BodiesAgree
  <2>1. m \in MsgIds \ crossed /\ rows[m] # None /\ ~CallFor("edit", m)
    BY <1>2, <1>4, <1>6
  <2>2. rows'[m].body = rows[m].body
    BY <1>5, <1>6
  <2> QED
    BY <1>1, <2>1, <2>2 DEF BodiesAgree
<1>23. LikesAgree(L, p)'
  <2> SUFFICES ASSUME NEW m \in MsgIds \ crossed', Exists(m)', ~CallFor("react", m)', ~Counting(m)'
               PROVE  /\ ~After(p, "react", m) =>
                           \A n \in DOMAIN L : L[n].id = m => L[n].liked = rows'[m].liked
                      /\ \A i \in DOMAIN down : i > p /\ ~After(i, "react", m) =>
                           /\ IsNew(i, m) => rows'[m].liked = FALSE
                           /\ Is(i, "react", m) => down[i].val = rows'[m].liked
    BY <1>2, <1>3 DEF LikesAgree
  <2>1. m \in MsgIds \ crossed /\ Exists(m) /\ ~CallFor("react", m) /\ ~Counting(m)
    BY <1>2, <1>4, <1>6
  <2>2. rows'[m].liked = rows[m].liked
    BY <1>5, <1>6
  <2> QED
    BY <1>1, <2>1, <2>2 DEF LikesAgree
<1> QED
  BY <1>15, <1>16, <1>18, <1>19, <1>21, <1>22, <1>23 DEF Converges

LEMMA SilentConverges ==
  ASSUME UNCHANGED route, NEW L, NEW o, NEW p, Converges(L, o, p), NEW k \in CallIds,
         Silent(k) \/ Quits(k)
  PROVE  Converges(L, o, p)'
<1>1. UNCHANGED <<rows, down, route>> /\ crossed \subseteq crossed'
  BY DEF Silent, Quits
<1>2. \A d : ClearingNow(d)' <=> ClearingNow(d)
  BY SilentDue, QuitsDue
<1>3. \A op, n : n \notin crossed' => (CallFor(op, n)' <=> CallFor(op, n))
  BY SilentDue, QuitsDue
<1>4. \A n : n \notin crossed' => (Counting(n)' <=> Counting(n))
  BY SilentDue, QuitsDue
<1> QED
  BY <1>1, <1>2, <1>3, <1>4, NothingChanges

LEMMA SendsConverge ==
  ASSUME TypeOK, WriteInv, UNCHANGED route, NEW L \in Seq(Entry), NEW o \in MsgIds \cup {None},
         NEW p, Converges(L, o, p),
         NEW k \in CallIds, NEW m, NEW c, Sends(k, m, c)
  PROVE  Converges(L, o, p)'
<1>1. /\ EventsAreSound(p) /\ EntriesAreSound(L, o) /\ NothingOlder(L, o, p)
      /\ NothingMissing(L, o, p) /\ NothingRevived(L, p) /\ BodiesAgree(L, p) /\ LikesAgree(L, p)
  BY DEF Converges
<1>2. /\ UNCHANGED down /\ m \in MsgIds /\ rows[m] = None
      /\ \A n \in MsgIds \ {m} : rows'[n] = rows[n]
      /\ rows'[m] # None /\ rows'[m].chat = c /\ rows'[m].deleted = FALSE
      /\ crossed \subseteq crossed'
  BY DEF Sends
<1>3. /\ \A i, t, n : Is(i, t, n)' <=> Is(i, t, n)
      /\ \A i, n : IsNew(i, n)' <=> IsNew(i, n)
      /\ \A i : IsAnswer(i)' <=> IsAnswer(i)
      /\ \A q, t, n : After(q, t, n)' <=> After(q, t, n)
      /\ \A q, n : NewAfter(q, n)' <=> NewAfter(q, n)
      /\ \A q : ClearAfter(q)' <=> ClearAfter(q)
  BY <1>2, SameEvents
<1>4. /\ \A o1, n : CallFor(o1, n)' <=> CallFor(o1, n) \/ (o1 = "new" /\ n = m)
      /\ \A n : Counting(n)' <=> Counting(n)
      /\ \A d : ClearingNow(d)' <=> ClearingNow(d)
  BY SendsDue
<1>5. \A n \in MsgIds : rows[n] # None => n # m /\ rows'[n] = rows[n]
  BY <1>2
<1>6. \A n \in MsgIds \ {m} : /\ Gone(n)' <=> Gone(n)
                              /\ Exists(n)' <=> Exists(n)
                              /\ Visible(n)' <=> Visible(n)
  BY <1>2 DEF Gone, Exists, Visible
<1>7. \A n : Shows(L, n)' <=> Shows(L, n)
  BY DEF Shows
<1>8. \A n : Shows(L, n) => n \in MsgIds /\ rows[n] # None /\ n # m
  BY <1>1, <1>2, EntryIds DEF Shows, EntriesAreSound
<1>9. \A i \in DOMAIN down : i > p =>
        /\ \A n : IsNew(i, n) => n \in MsgIds /\ rows[n] # None /\ n # m
        /\ \A n : Is(i, "edit", n) \/ Is(i, "react", n) \/ Is(i, "delete", n) =>
             n \in MsgIds /\ rows[n] # None /\ n # m
  BY <1>1, <1>2, EventIds DEF EventsAreSound, IsNew, Is
<1>10. /\ \A q, n : NewSoon(q, n)' <=> NewSoon(q, n) \/ n = m
       /\ \A q, n : n # m => (RemovedAfter(q, n)' <=> RemovedAfter(q, n))
  <2>1. ClearingNow(route)' <=> ClearingNow(route)
    <3>1. PICK r : r = route
      OBVIOUS
    <3>2. ClearingNow(route)' <=> ClearingNow(r)'
      BY <3>1, Zenon DEF ClearingNow
    <3> QED
      BY <1>4, <3>1, <3>2
  <2>2. \A q, n : NewSoon(q, n)' <=> NewSoon(q, n) \/ n = m
    BY <1>3, <1>4 DEF NewSoon
  <2>3. \A q, n : n # m => (RemovedAfter(q, n)' <=> RemovedAfter(q, n))
    BY <1>3, <1>4, <2>1 DEF RemovedAfter
  <2> QED
    BY <2>2, <2>3
<1>11. EventsAreSound(p)'
  <2> SUFFICES ASSUME NEW i \in DOMAIN down, i > p
               PROVE  /\ ~IsAnswer(i)
                      /\ down[i].type = "new" => /\ rows'[down[i].msg.id] # None
                                                 /\ rows'[down[i].msg.id].chat = route
                                                 /\ down[i].msg.body = 0 /\ down[i].msg.liked = FALSE
                      /\ down[i].type \in {"edit", "react"} => /\ rows'[down[i].msg] # None
                                                               /\ rows'[down[i].msg].chat = route
                      /\ down[i].type = "delete" => /\ rows'[down[i].msg] # None
                                                    /\ rows'[down[i].msg].deleted \/ Gone(down[i].msg)'
    BY <1>2, <1>3 DEF EventsAreSound, Gone
  <2>1. /\ ~IsAnswer(i)
        /\ down[i].type = "new" => /\ rows[down[i].msg.id] # None
                                   /\ rows[down[i].msg.id].chat = route
                                   /\ down[i].msg.body = 0 /\ down[i].msg.liked = FALSE
        /\ down[i].type \in {"edit", "react"} => /\ rows[down[i].msg] # None
                                                 /\ rows[down[i].msg].chat = route
        /\ down[i].type = "delete" => /\ rows[down[i].msg] # None
                                      /\ rows[down[i].msg].deleted \/ Gone(down[i].msg)
    BY <1>1 DEF EventsAreSound
  <2>2. PICK n : n = down[i].msg
    OBVIOUS
  <2>3. down[i].type = "delete" => /\ rows'[n] # None /\ (rows'[n].deleted \/ Gone(n)')
    BY <1>2, <1>5, <1>6, <2>1, <2>2, EventIds
  <2>4. Gone(down[i].msg)' <=> Gone(n)'
    BY <1>2, <2>2 DEF Gone
  <2> QED
    BY <1>5, <2>1, <2>2, <2>3, <2>4, EventIds
<1>12. EntriesAreSound(L, o)'
  <2>1. \A n \in DOMAIN L : L[n].id \in MsgIds
    BY EntryIds
  <2>2. \A n \in DOMAIN L : rows'[L[n].id] # None /\ rows'[L[n].id].chat = route
    BY <1>1, <1>5, <2>1 DEF EntriesAreSound
  <2>3. o # None => rows'[o] # None
    BY <1>1, <1>5 DEF EntriesAreSound
  <2> QED
    BY <1>1, <1>2, <2>2, <2>3 DEF EntriesAreSound
<1>13. o # None => o <= m
  <2> SUFFICES ASSUME o # None
               PROVE  o <= m
    OBVIOUS
  <2>1. o \in MsgIds /\ rows[o] # None
    BY <1>1 DEF EntriesAreSound
  <2>2. ~(m < o)
    BY <1>2, <2>1 DEF WriteInv, RowsInOrder
  <2> QED
    BY <1>2, <2>1, <2>2 DEF MsgIds
<1>14. NothingOlder(L, o, p)'
  <2> SUFFICES ASSUME NEW n \in MsgIds \ crossed', o # None,
                      Shows(L, n) \/ (NewSoon(p, n)' /\ rows'[n].chat = route), ~Gone(n)'
               PROVE  o <= n
    BY <1>7 DEF NothingOlder
  <2>1. CASE n = m
    BY <1>13, <2>1
  <2>2. CASE n # m
    BY <1>1, <1>2, <1>6, <1>10, <2>2 DEF NothingOlder
  <2> QED
    BY <2>1, <2>2
<1>15. NothingMissing(L, o, p)'
  <2> SUFFICES ASSUME NEW n \in MsgIds \ crossed', Visible(n)', rows'[n].chat = route
               PROVE  /\ (o # None => o <= n) => Shows(L, n) \/ NewSoon(p, n)'
                      /\ \A i \in DOMAIN down : i > p /\ down[i].type = "clear" => NewSoon(i, n)'
    BY <1>2, <1>7 DEF NothingMissing
  <2>1. CASE n = m
    BY <1>10, <2>1
  <2>2. CASE n # m
    <3>1. n \in MsgIds \ crossed /\ Visible(n) /\ rows[n].chat = route
      BY <1>2, <1>6, <2>2
    <3>2. \A q : NewSoon(q, n)' <=> NewSoon(q, n)
      BY <1>10, <2>2
    <3> QED
      BY <1>1, <3>1, <3>2 DEF NothingMissing
  <2> QED
    BY <2>1, <2>2
<1>16. NothingRevived(L, p)'
  <2> SUFFICES ASSUME NEW n \in MsgIds \ crossed', rows'[n] # None, rows'[n].deleted
               PROVE  /\ Shows(L, n) => RemovedAfter(p, n)'
                      /\ \A i \in DOMAIN down : i > p /\ IsNew(i, n) => RemovedAfter(i, n)'
    BY <1>2, <1>3, <1>7 DEF NothingRevived
  <2>1. n # m /\ n \in MsgIds \ crossed /\ rows'[n] = rows[n]
    BY <1>2
  <2> QED
    BY <1>1, <1>10, <2>1 DEF NothingRevived
<1>17. BodiesAgree(L, p)'
  <2> SUFFICES ASSUME NEW n \in MsgIds \ crossed', rows'[n] # None, ~CallFor("edit", n)'
               PROVE  /\ ~After(p, "edit", n) =>
                           \A i \in DOMAIN L : L[i].id = n => L[i].body = rows'[n].body
                      /\ \A i \in DOMAIN down : i > p /\ ~After(i, "edit", n) =>
                           /\ IsNew(i, n) => rows'[n].body = 0
                           /\ Is(i, "edit", n) => down[i].val = rows'[n].body
    BY <1>2, <1>3 DEF BodiesAgree
  <2>1. CASE n = m
    BY <1>8, <1>9, <2>1 DEF Shows
  <2>2. CASE n # m
    <3>1. n \in MsgIds \ crossed /\ rows'[n] = rows[n] /\ ~CallFor("edit", n)
      BY <1>2, <1>4, <2>2
    <3> QED
      BY <1>1, <3>1 DEF BodiesAgree
  <2> QED
    BY <2>1, <2>2
<1>18. LikesAgree(L, p)'
  <2> SUFFICES ASSUME NEW n \in MsgIds \ crossed', Exists(n)', ~CallFor("react", n)', ~Counting(n)'
               PROVE  /\ ~After(p, "react", n) =>
                           \A i \in DOMAIN L : L[i].id = n => L[i].liked = rows'[n].liked
                      /\ \A i \in DOMAIN down : i > p /\ ~After(i, "react", n) =>
                           /\ IsNew(i, n) => rows'[n].liked = FALSE
                           /\ Is(i, "react", n) => down[i].val = rows'[n].liked
    BY <1>2, <1>3 DEF LikesAgree
  <2>1. CASE n = m
    BY <1>8, <1>9, <2>1 DEF Shows
  <2>2. CASE n # m
    <3>1. n \in MsgIds \ crossed /\ rows'[n] = rows[n] /\ Exists(n)
          /\ ~CallFor("react", n) /\ ~Counting(n)
      BY <1>2, <1>4, <1>6, <2>2
    <3> QED
      BY <1>1, <3>1 DEF LikesAgree
  <2> QED
    BY <2>1, <2>2
<1> QED
  BY <1>11, <1>12, <1>14, <1>15, <1>16, <1>17, <1>18 DEF Converges

LEMMA CountsConverge ==
  ASSUME UNCHANGED route, NEW L, NEW o, NEW p, Converges(L, o, p), NEW k \in CallIds, Counts(k)
  PROVE  Converges(L, o, p)'
<1>1. /\ EventsAreSound(p) /\ EntriesAreSound(L, o) /\ NothingOlder(L, o, p)
      /\ NothingMissing(L, o, p) /\ NothingRevived(L, p) /\ BodiesAgree(L, p) /\ LikesAgree(L, p)
  BY DEF Converges
<1>2. UNCHANGED <<rows, crossed, down>>
  BY DEF Counts
<1>3. /\ \A i, t, m : Is(i, t, m)' <=> Is(i, t, m)
      /\ \A i, m : IsNew(i, m)' <=> IsNew(i, m)
      /\ \A i : IsAnswer(i)' <=> IsAnswer(i)
      /\ \A q, t, m : After(q, t, m)' <=> After(q, t, m)
      /\ \A q, m : NewAfter(q, m)' <=> NewAfter(q, m)
      /\ \A q : ClearAfter(q)' <=> ClearAfter(q)
  BY <1>2, SameEvents
<1>4. /\ \A op, n : CallFor(op, n)' <=> CallFor(op, n) \/ (op = "react" /\ n = calls[k].msg)
      /\ \A n : Counting(n) => Counting(n)' \/ n = calls[k].msg
      /\ \A d : ClearingNow(d)' <=> ClearingNow(d)
  BY CountsDue
<1>5. \A n : (Gone(n)' <=> Gone(n)) /\ (Exists(n)' <=> Exists(n)) /\ (Visible(n)' <=> Visible(n))
  BY <1>2 DEF Gone, Exists, Visible
<1>6. \A m : Shows(L, m)' <=> Shows(L, m)
  BY DEF Shows
<1>7. \A q, m : NewSoon(q, m)' <=> NewSoon(q, m)
  BY <1>3, <1>4 DEF NewSoon
<1>8. \A q, m : RemovedAfter(q, m)' <=> RemovedAfter(q, m)
  <2>1. PICK r : r = route
    OBVIOUS
  <2>2. ClearingNow(route)' <=> ClearingNow(r)'
    BY <2>1, Zenon DEF ClearingNow
  <2> QED
    BY <1>3, <1>4, <2>1, <2>2 DEF RemovedAfter
<1>9. EventsAreSound(p)'
  BY <1>1, <1>2, <1>3, <1>5 DEF EventsAreSound, Gone
<1>10. EntriesAreSound(L, o)'
  BY <1>1, <1>2 DEF EntriesAreSound
<1>11. NothingOlder(L, o, p)'
  BY <1>1, <1>2, <1>5, <1>6, <1>7 DEF NothingOlder
<1>12. NothingMissing(L, o, p)'
  BY <1>1, <1>2, <1>5, <1>6, <1>7 DEF NothingMissing
<1>13. NothingRevived(L, p)'
  BY <1>1, <1>2, <1>3, <1>6, <1>8 DEF NothingRevived
<1>14. BodiesAgree(L, p)'
  BY <1>1, <1>2, <1>3, <1>4 DEF BodiesAgree
<1>15. LikesAgree(L, p)'
  <2> SUFFICES ASSUME NEW m \in MsgIds \ crossed, Exists(m), ~CallFor("react", m)', ~Counting(m)'
               PROVE  /\ ~After(p, "react", m) =>
                           \A n \in DOMAIN L : L[n].id = m => L[n].liked = rows[m].liked
                      /\ \A i \in DOMAIN down : i > p /\ ~After(i, "react", m) =>
                           /\ IsNew(i, m) => rows[m].liked = FALSE
                           /\ Is(i, "react", m) => down[i].val = rows[m].liked
    BY <1>2, <1>3, <1>5 DEF LikesAgree
  <2>1. ~CallFor("react", m) /\ ~Counting(m)
    BY <1>4
  <2> QED
    BY <1>1, <2>1 DEF LikesAgree
<1> QED
  BY <1>9, <1>10, <1>11, <1>12, <1>13, <1>14, <1>15 DEF Converges

\* An event was added to those on their way.
LEMMA MoreEvents ==
  ASSUME TypeOK, NEW e \in Event, down' = Append(down, e), NEW z, z = Len(down) + 1
  PROVE  /\ z \in Nat /\ DOMAIN down' = DOMAIN down \cup {z} /\ down'[z] = e
         /\ \A i \in DOMAIN down : i \in Nat /\ i < z /\ down'[i] = down[i]
         /\ \A i \in DOMAIN down : /\ \A t, m : Is(i, t, m)' <=> Is(i, t, m)
                                   /\ \A m : IsNew(i, m)' <=> IsNew(i, m)
                                   /\ IsAnswer(i)' <=> IsAnswer(i)
         /\ \A q \in Nat : q < z =>
              /\ \A t, m : After(q, t, m)' <=> After(q, t, m) \/ (e.type = t /\ e.msg = m)
              /\ \A m : NewAfter(q, m)' <=> NewAfter(q, m) \/ (e.type = "new" /\ e.msg.id = m)
              /\ ClearAfter(q)' <=> ClearAfter(q) \/ e.type = "clear"
         /\ \A i \in DOMAIN down' : i = z \/ i \in DOMAIN down
         /\ \A t, m : ~After(z, t, m)'
<1>1. /\ Len(down) \in Nat /\ DOMAIN down = 1..Len(down) /\ DOMAIN down' = 1..(Len(down) + 1)
      /\ \A i \in DOMAIN down : i \in DOMAIN down' /\ down'[i] = down[i]
      /\ down'[Len(down) + 1] = e
  BY TellingAdds
<1>2. /\ z \in Nat /\ DOMAIN down' = DOMAIN down \cup {z} /\ down'[z] = e
      /\ \A i \in DOMAIN down : i \in Nat /\ i < z /\ down'[i] = down[i]
  BY <1>1
<1>3. \A i \in DOMAIN down : /\ \A t, m : Is(i, t, m)' <=> Is(i, t, m)
                             /\ \A m : IsNew(i, m)' <=> IsNew(i, m)
                             /\ IsAnswer(i)' <=> IsAnswer(i)
  BY <1>2 DEF Is, IsNew, IsAnswer
<1>4. (\A t, m : Is(z, t, m)' <=> e.type = t /\ e.msg = m)
      /\ (\A m : IsNew(z, m)' <=> e.type = "new" /\ e.msg.id = m)
  BY <1>2 DEF Is, IsNew
<1>5. ASSUME NEW q \in Nat, q < z
      PROVE  /\ \A t, m : After(q, t, m)' <=> After(q, t, m) \/ (e.type = t /\ e.msg = m)
             /\ \A m : NewAfter(q, m)' <=> NewAfter(q, m) \/ (e.type = "new" /\ e.msg.id = m)
             /\ ClearAfter(q)' <=> ClearAfter(q) \/ e.type = "clear"
  <2>1. \A t, m : After(q, t, m)' <=> After(q, t, m) \/ (e.type = t /\ e.msg = m)
    BY <1>2, <1>3, <1>4, <1>5 DEF After
  <2>2. \A m : NewAfter(q, m)' <=> NewAfter(q, m) \/ (e.type = "new" /\ e.msg.id = m)
    BY <1>2, <1>3, <1>4, <1>5 DEF NewAfter
  <2>3. ClearAfter(q)' <=> ClearAfter(q) \/ e.type = "clear"
    BY <1>2, <1>5 DEF ClearAfter
  <2> QED
    BY <2>1, <2>2, <2>3
<1>6. \A t, m : ~After(z, t, m)'
  BY <1>2 DEF After
<1> QED
  BY <1>2, <1>3, <1>5, <1>6

LEMMA TellsElsewhereConverge ==
  ASSUME TypeOK, WriteInv, UNCHANGED route, NEW L, NEW o, NEW p, Converges(L, o, p),
         NEW k \in CallIds, NEW e \in Event, Tells(k, e), UNCHANGED down, calls[k].chat # route
  PROVE  Converges(L, o, p)'
<1>1. /\ EventsAreSound(p) /\ EntriesAreSound(L, o) /\ NothingOlder(L, o, p)
      /\ NothingMissing(L, o, p) /\ NothingRevived(L, p) /\ BodiesAgree(L, p) /\ LikesAgree(L, p)
  BY DEF Converges
<1>2. UNCHANGED <<rows, crossed, down>>
  BY DEF Tells
<1>3. /\ \A i, t, m : Is(i, t, m)' <=> Is(i, t, m)
      /\ \A i, m : IsNew(i, m)' <=> IsNew(i, m)
      /\ \A i : IsAnswer(i)' <=> IsAnswer(i)
      /\ \A q, t, m : After(q, t, m)' <=> After(q, t, m)
      /\ \A q, m : NewAfter(q, m)' <=> NewAfter(q, m)
      /\ \A q : ClearAfter(q)' <=> ClearAfter(q)
  BY <1>2, SameEvents
<1>4. /\ \A op, n : /\ CallFor(op, n)' => CallFor(op, n)
                    /\ CallFor(op, n) => CallFor(op, n)' \/ (op = e.type /\ n = calls[k].msg)
      /\ \A n : Counting(n)' <=> Counting(n)
      /\ \A d : /\ ClearingNow(d)' => ClearingNow(d)
                /\ ClearingNow(d) => ClearingNow(d)' \/ (e.type = "clear" /\ d = calls[k].chat)
  BY TellsDue
<1>5. /\ e.type # "clear" => rows[calls[k].msg].chat # route
      /\ e.type = "clear" => calls[k].msg = None
  BY CallFields DEF Tells, WriteInv, CallsKnowTheirRow
<1>6. \A op, n : n \in MsgIds /\ rows[n].chat = route => (CallFor(op, n)' <=> CallFor(op, n))
  <2>1. None \notin MsgIds
    BY NullsAssumption
  <2> QED
    BY <1>4, <1>5, <2>1
<1>7. ClearingNow(route)' <=> ClearingNow(route)
  <2>1. PICK r : r = route
    OBVIOUS
  <2>2. ClearingNow(route)' <=> ClearingNow(r)'
    BY <2>1, Zenon DEF ClearingNow
  <2> QED
    BY <1>4, <2>1, <2>2
<1>8. \A n : (Gone(n)' <=> Gone(n)) /\ (Exists(n)' <=> Exists(n)) /\ (Visible(n)' <=> Visible(n))
  BY <1>2 DEF Gone, Exists, Visible
<1>9. \A m : Shows(L, m)' <=> Shows(L, m)
  BY DEF Shows
<1>10. \A q, n : n \in MsgIds /\ rows[n].chat = route =>
         (NewSoon(q, n)' <=> NewSoon(q, n)) /\ (RemovedAfter(q, n)' <=> RemovedAfter(q, n))
  BY <1>3, <1>6, <1>7 DEF NewSoon, RemovedAfter
<1>11. /\ \A n : Shows(L, n) => rows[n].chat = route
       /\ \A i \in DOMAIN L : rows[L[i].id].chat = route
       /\ \A i \in DOMAIN down : i > p =>
            \A n : IsNew(i, n) \/ Is(i, "edit", n) \/ Is(i, "react", n) => rows[n].chat = route
  BY <1>1 DEF Shows, EntriesAreSound, EventsAreSound, IsNew, Is
<1>12. EventsAreSound(p)'
  BY <1>1, <1>2, <1>3, <1>8 DEF EventsAreSound, Gone
<1>13. EntriesAreSound(L, o)'
  BY <1>1, <1>2 DEF EntriesAreSound
<1>14. NothingOlder(L, o, p)'
  BY <1>1, <1>2, <1>8, <1>9, <1>10 DEF NothingOlder
<1>15. NothingMissing(L, o, p)'
  BY <1>1, <1>2, <1>8, <1>9, <1>10 DEF NothingMissing
<1>16. NothingRevived(L, p)'
  BY <1>1, <1>2, <1>3, <1>9, <1>10, <1>11 DEF NothingRevived
<1>17. BodiesAgree(L, p)'
  <2> SUFFICES ASSUME NEW m \in MsgIds \ crossed, rows[m] # None, ~CallFor("edit", m)'
               PROVE  /\ ~After(p, "edit", m) =>
                           \A n \in DOMAIN L : L[n].id = m => L[n].body = rows[m].body
                      /\ \A i \in DOMAIN down : i > p /\ ~After(i, "edit", m) =>
                           /\ IsNew(i, m) => rows[m].body = 0
                           /\ Is(i, "edit", m) => down[i].val = rows[m].body
    BY <1>2, <1>3 DEF BodiesAgree
  <2>1. CASE CallFor("edit", m)
    <3>1. rows[m].chat # route
      BY <1>6, <2>1
    <3> QED
      BY <1>11, <3>1
  <2>2. CASE ~CallFor("edit", m)
    BY <1>1, <2>2 DEF BodiesAgree
  <2> QED
    BY <2>1, <2>2
<1>18. LikesAgree(L, p)'
  <2> SUFFICES ASSUME NEW m \in MsgIds \ crossed, Exists(m), ~CallFor("react", m)', ~Counting(m)
               PROVE  /\ ~After(p, "react", m) =>
                           \A n \in DOMAIN L : L[n].id = m => L[n].liked = rows[m].liked
                      /\ \A i \in DOMAIN down : i > p /\ ~After(i, "react", m) =>
                           /\ IsNew(i, m) => rows[m].liked = FALSE
                           /\ Is(i, "react", m) => down[i].val = rows[m].liked
    BY <1>2, <1>3, <1>4, <1>8 DEF LikesAgree
  <2>1. CASE CallFor("react", m)
    <3>1. rows[m].chat # route
      BY <1>6, <2>1
    <3> QED
      BY <1>11, <3>1
  <2>2. CASE ~CallFor("react", m)
    BY <1>1, <2>2 DEF LikesAgree
  <2> QED
    BY <2>1, <2>2
<1> QED
  BY <1>12, <1>13, <1>14, <1>15, <1>16, <1>17, <1>18 DEF Converges

\* The announcement joins what is on its way to the page.
LEMMA TellsConverge ==
  ASSUME TypeOK, WriteInv, UNCHANGED route, NEW L, NEW o, NEW p \in Nat, p <= Len(down),
         Converges(L, o, p),
         NEW k \in CallIds, NEW e \in Event, Tells(k, e), down' = Append(down, e),
         calls[k].chat = route
  PROVE  Converges(L, o, p)'
<1>0. PICK z, n0 : z = Len(down) + 1 /\ n0 = calls[k].msg
  OBVIOUS
<1>1. /\ EventsAreSound(p) /\ EntriesAreSound(L, o) /\ NothingOlder(L, o, p)
      /\ NothingMissing(L, o, p) /\ NothingRevived(L, p) /\ BodiesAgree(L, p) /\ LikesAgree(L, p)
  BY DEF Converges
<1>2. UNCHANGED <<rows, crossed>>
  BY DEF Tells
<1>3. /\ z \in Nat /\ DOMAIN down' = DOMAIN down \cup {z} /\ down'[z] = e
      /\ \A i \in DOMAIN down : i \in Nat /\ i < z /\ down'[i] = down[i]
      /\ \A i \in DOMAIN down : /\ \A t, m : Is(i, t, m)' <=> Is(i, t, m)
                                /\ \A m : IsNew(i, m)' <=> IsNew(i, m)
                                /\ IsAnswer(i)' <=> IsAnswer(i)
      /\ \A q \in Nat : q < z =>
           /\ \A t, m : After(q, t, m)' <=> After(q, t, m) \/ (e.type = t /\ e.msg = m)
           /\ \A m : NewAfter(q, m)' <=> NewAfter(q, m) \/ (e.type = "new" /\ e.msg.id = m)
           /\ ClearAfter(q)' <=> ClearAfter(q) \/ e.type = "clear"
      /\ \A i \in DOMAIN down' : i = z \/ i \in DOMAIN down
      /\ \A t, m : ~After(z, t, m)'
  BY <1>0, MoreEvents
<1>4. p < z
  BY <1>0 DEF TypeOK
<1>5. /\ CallFor(e.type, n0) /\ (e.type = "clear" => ClearingNow(route))
      /\ \A op, n : /\ CallFor(op, n)' => CallFor(op, n)
                    /\ CallFor(op, n) => CallFor(op, n)' \/ (op = e.type /\ n = n0)
      /\ \A n : Counting(n)' <=> Counting(n)
      /\ \A d : /\ ClearingNow(d)' => ClearingNow(d)
                /\ ClearingNow(d) => ClearingNow(d)' \/ (e.type = "clear" /\ d = route)
  BY <1>0, TellsDue
<1>6. /\ At(k, e.type, "emit")
      /\ e.type \in {"new", "edit", "delete", "clear", "react"}
      /\ e.type # "clear" => n0 \in MsgIds /\ rows[n0] # None /\ rows[n0].chat = route
      /\ IF e.type = "new" THEN e.msg.id = n0 /\ e.msg.body = 0 /\ e.msg.liked = FALSE
                           ELSE e.msg = n0 /\ e.val = calls[k].val
  BY <1>0, CallFields DEF Tells, At, WriteInv, CallsKnowTheirRow
<1>7. /\ \A t, m : (Is(z, t, m)' <=> e.type = t /\ e.msg = m)
      /\ \A m : (IsNew(z, m)' <=> e.type = "new" /\ n0 = m)
      /\ ~IsAnswer(z)'
  BY <1>3, <1>6 DEF Is, IsNew, IsAnswer
<1>8. \A q, m : q \in Nat /\ q < z /\ NewSoon(q, m) => NewSoon(q, m)'
  BY <1>3, <1>5, <1>6 DEF NewSoon
<1>9. \A q, m : q \in Nat /\ q < z /\ NewSoon(q, m)' => NewSoon(q, m)
  BY <1>3, <1>5, <1>6 DEF NewSoon
<1>10. ClearingNow(route) => ClearingNow(route)' \/ e.type = "clear"
  <2>1. PICK r : r = route
    OBVIOUS
  <2>2. ClearingNow(route)' <=> ClearingNow(r)'
    BY <2>1, Zenon DEF ClearingNow
  <2> QED
    BY <1>5, <2>1, <2>2
<1>11. \A q, m : q \in Nat /\ q < z /\ RemovedAfter(q, m) => RemovedAfter(q, m)'
  BY <1>3, <1>5, <1>6, <1>10 DEF RemovedAfter
<1>12. \A n : (Gone(n)' <=> Gone(n)) /\ (Exists(n)' <=> Exists(n)) /\ (Visible(n)' <=> Visible(n))
  BY <1>2 DEF Gone, Exists, Visible
<1>13. \A m : Shows(L, m)' <=> Shows(L, m)
  BY DEF Shows
<1>14. EventsAreSound(p)'
  <2> SUFFICES ASSUME NEW i \in DOMAIN down', i > p
               PROVE  /\ ~IsAnswer(i)'
                      /\ down'[i].type = "new" => /\ rows[down'[i].msg.id] # None
                                                  /\ rows[down'[i].msg.id].chat = route
                                                  /\ down'[i].msg.body = 0 /\ down'[i].msg.liked = FALSE
                      /\ down'[i].type \in {"edit", "react"} => /\ rows[down'[i].msg] # None
                                                                /\ rows[down'[i].msg].chat = route
                      /\ down'[i].type = "delete" => /\ rows[down'[i].msg] # None
                                                     /\ \/ rows[down'[i].msg].deleted
                                                        \/ rows[down'[i].msg].timed \in {"over", "purged"}
    BY <1>2 DEF EventsAreSound, Gone
  <2>1. CASE i = z
    <3>1. e.type = "delete" => rows[n0].deleted
      BY <1>5, <1>6 DEF WriteInv, DeletesAreDone
    <3> QED
      BY <1>3, <1>6, <1>7, <2>1, <3>1
  <2>2. CASE i \in DOMAIN down
    BY <1>1, <1>3, <2>2 DEF EventsAreSound, Gone
  <2> QED
    BY <1>3, <2>1, <2>2
<1>15. EntriesAreSound(L, o)'
  BY <1>1, <1>2 DEF EntriesAreSound
<1>16. NothingOlder(L, o, p)'
  BY <1>1, <1>2, <1>4, <1>9, <1>12, <1>13 DEF NothingOlder
<1>17. NothingMissing(L, o, p)'
  <2> SUFFICES ASSUME NEW m \in MsgIds \ crossed, Visible(m), rows[m].chat = route
               PROVE  /\ (o # None => o <= m) => Shows(L, m) \/ NewSoon(p, m)'
                      /\ \A i \in DOMAIN down' : i > p /\ down'[i].type = "clear" => NewSoon(i, m)'
    BY <1>2, <1>12, <1>13 DEF NothingMissing
  <2>1. /\ (o # None => o <= m) => Shows(L, m) \/ NewSoon(p, m)
        /\ \A i \in DOMAIN down : i > p /\ down[i].type = "clear" => NewSoon(i, m)
    BY <1>1 DEF NothingMissing
  <2>2. e.type # "clear"
    BY <1>5 DEF WriteInv, CallsAreCurrent, Visible, Exists
  <2> QED
    BY <1>3, <1>4, <1>8, <2>1, <2>2
<1>18. NothingRevived(L, p)'
  <2> SUFFICES ASSUME NEW m \in MsgIds \ crossed, rows[m] # None, rows[m].deleted
               PROVE  /\ Shows(L, m) => RemovedAfter(p, m)'
                      /\ \A i \in DOMAIN down' : i > p /\ IsNew(i, m)' => RemovedAfter(i, m)'
    BY <1>2, <1>13 DEF NothingRevived
  <2>1. /\ Shows(L, m) => RemovedAfter(p, m)
        /\ \A i \in DOMAIN down : i > p /\ IsNew(i, m) => RemovedAfter(i, m)
    BY <1>1 DEF NothingRevived
  <2>2. ~IsNew(z, m)'
    BY <1>5, <1>7 DEF WriteInv, CallsAreCurrent
  <2> QED
    BY <1>3, <1>4, <1>11, <2>1, <2>2
<1>19. BodiesAgree(L, p)'
  <2> SUFFICES ASSUME NEW m \in MsgIds \ crossed, rows[m] # None, ~CallFor("edit", m)'
               PROVE  /\ ~After(p, "edit", m)' =>
                           \A n \in DOMAIN L : L[n].id = m => L[n].body = rows[m].body
                      /\ \A i \in DOMAIN down' : i > p /\ ~After(i, "edit", m)' =>
                           /\ IsNew(i, m)' => rows[m].body = 0
                           /\ Is(i, "edit", m)' => down'[i].val = rows[m].body
    BY <1>2 DEF BodiesAgree
  <2>1. (IsNew(z, m)' => rows[m].body = 0) /\ (Is(z, "edit", m)' => down'[z].val = rows[m].body)
    BY <1>0, <1>3, <1>5, <1>6, <1>7 DEF WriteInv, CallsAreCurrent
  <2>2. CASE CallFor("edit", m)
    <3>1. e.type = "edit" /\ e.msg = m
      BY <1>5, <1>6, <2>2
    <3>2. \A i \in DOMAIN down' : i # z => After(i, "edit", m)'
      BY <1>3, <3>1
    <3>3. After(p, "edit", m)'
      BY <1>3, <1>4, <3>1
    <3> QED
      BY <2>1, <3>2, <3>3
  <2>3. CASE ~CallFor("edit", m)
    <3>1. /\ ~After(p, "edit", m) => \A n \in DOMAIN L : L[n].id = m => L[n].body = rows[m].body
          /\ \A i \in DOMAIN down : i > p /\ ~After(i, "edit", m) =>
               /\ IsNew(i, m) => rows[m].body = 0
               /\ Is(i, "edit", m) => down[i].val = rows[m].body
      BY <1>1, <2>3 DEF BodiesAgree
    <3> QED
      BY <1>3, <1>4, <2>1, <3>1
  <2> QED
    BY <2>2, <2>3
<1>20. LikesAgree(L, p)'
  <2> SUFFICES ASSUME NEW m \in MsgIds \ crossed, Exists(m), ~CallFor("react", m)', ~Counting(m)
               PROVE  /\ ~After(p, "react", m)' =>
                           \A n \in DOMAIN L : L[n].id = m => L[n].liked = rows[m].liked
                      /\ \A i \in DOMAIN down' : i > p /\ ~After(i, "react", m)' =>
                           /\ IsNew(i, m)' => rows[m].liked = FALSE
                           /\ Is(i, "react", m)' => down'[i].val = rows[m].liked
    BY <1>2, <1>5, <1>12 DEF LikesAgree
  <2>0. rows[m] # None
    BY DEF Exists
  <2>1. (IsNew(z, m)' => rows[m].liked = FALSE) /\ (Is(z, "react", m)' => down'[z].val = rows[m].liked)
    BY <1>0, <1>3, <1>5, <1>6, <1>7, <2>0 DEF WriteInv, CallsAreCurrent
  <2>2. CASE CallFor("react", m)
    <3>1. e.type = "react" /\ e.msg = m
      BY <1>5, <1>6, <2>2
    <3>2. \A i \in DOMAIN down' : i # z => After(i, "react", m)'
      BY <1>3, <3>1
    <3>3. After(p, "react", m)'
      BY <1>3, <1>4, <3>1
    <3> QED
      BY <2>1, <3>2, <3>3
  <2>3. CASE ~CallFor("react", m)
    <3>1. /\ ~After(p, "react", m) => \A n \in DOMAIN L : L[n].id = m => L[n].liked = rows[m].liked
          /\ \A i \in DOMAIN down : i > p /\ ~After(i, "react", m) =>
               /\ IsNew(i, m) => rows[m].liked = FALSE
               /\ Is(i, "react", m) => down[i].val = rows[m].liked
      BY <1>1, <2>3 DEF LikesAgree
    <3> QED
      BY <1>3, <1>4, <2>1, <3>1
  <2> QED
    BY <2>2, <2>3
<1> QED
  BY <1>14, <1>15, <1>16, <1>17, <1>18, <1>19, <1>20 DEF Converges

\* The events at D were added, all of them of messages that are gone.
Departures(D) ==
  /\ DOMAIN down' = DOMAIN down \cup D
  /\ \A i \in DOMAIN down : /\ i \in Nat /\ i <= Len(down) /\ down'[i] = down[i]
                            /\ \A t, m : Is(i, t, m)' <=> Is(i, t, m)
                            /\ \A m : IsNew(i, m)' <=> IsNew(i, m)
                            /\ IsAnswer(i)' <=> IsAnswer(i)
  /\ \A i \in D : /\ down'[i].type = "delete" /\ down'[i].msg \in MsgIds
                  /\ rows[down'[i].msg] # None /\ Gone(down[i].msg)'
  /\ \A q \in Nat : q <= Len(down) =>
       /\ \A t, m : After(q, t, m) => After(q, t, m)'
       /\ \A t, m : t # "delete" => (After(q, t, m)' => After(q, t, m))
       /\ \A m : NewAfter(q, m)' <=> NewAfter(q, m)
       /\ ClearAfter(q) => ClearAfter(q)'

LEMMA FadesTell ==
  ASSUME TypeOK,
         \/ UNCHANGED down
         \/ \E e \in Event : /\ down' = Append(down, e) /\ e.type = "delete" /\ e.msg \in MsgIds
                             /\ rows[e.msg] # None /\ Gone(e.msg)'
  PROVE  \E D : Departures(D)
<1>1. ASSUME UNCHANGED down
      PROVE  Departures({})
  BY <1>1, SameEvents DEF TypeOK, Departures
<1>2. ASSUME NEW e \in Event, down' = Append(down, e), e.type = "delete", e.msg \in MsgIds,
             rows[e.msg] # None, Gone(e.msg)'
      PROVE  \E D : Departures(D)
  <2>1. PICK z : z = Len(down) + 1
    OBVIOUS
  <2>2. /\ z \in Nat /\ DOMAIN down' = DOMAIN down \cup {z} /\ down'[z] = e
        /\ \A i \in DOMAIN down : i \in Nat /\ i < z /\ down'[i] = down[i]
        /\ \A i \in DOMAIN down : /\ \A t, m : Is(i, t, m)' <=> Is(i, t, m)
                                  /\ \A m : IsNew(i, m)' <=> IsNew(i, m)
                                  /\ IsAnswer(i)' <=> IsAnswer(i)
        /\ \A q \in Nat : q < z =>
             /\ \A t, m : After(q, t, m)' <=> After(q, t, m) \/ (e.type = t /\ e.msg = m)
             /\ \A m : NewAfter(q, m)' <=> NewAfter(q, m) \/ (e.type = "new" /\ e.msg.id = m)
             /\ ClearAfter(q)' <=> ClearAfter(q) \/ e.type = "clear"
    BY <1>2, <2>1, MoreEvents
  <2>3. Gone(down[z].msg)'
    BY <1>2, <2>2 DEF Gone
  <2>4. \A i \in Nat : i <= Len(down) <=> i < z
    BY <2>1 DEF TypeOK
  <2>5. \A q \in Nat : q <= Len(down) =>
          /\ \A t, m : After(q, t, m) => After(q, t, m)'
          /\ \A t, m : t # "delete" => (After(q, t, m)' => After(q, t, m))
          /\ \A m : NewAfter(q, m)' <=> NewAfter(q, m)
          /\ ClearAfter(q) => ClearAfter(q)'
    BY <1>2, <2>2, <2>4
  <2>6. Departures({z})
    BY <1>2, <2>2, <2>3, <2>4, <2>5 DEF Departures
  <2> QED
    BY <2>6
<1> QED
  BY <1>1, <1>2

LEMMA FadesConverge ==
  ASSUME TypeOK, WriteInv, UNCHANGED route, NEW L \in Seq(Entry), NEW o \in MsgIds \cup {None},
         NEW p \in Nat, p <= Len(down), Converges(L, o, p), NEW M, Fades(M),
         \/ UNCHANGED down
         \/ \E e \in Event : /\ down' = Append(down, e) /\ e.type = "delete" /\ e.msg \in MsgIds
                             /\ rows[e.msg] # None /\ Gone(e.msg)'
  PROVE  Converges(L, o, p)'
<1>1. /\ EventsAreSound(p) /\ EntriesAreSound(L, o) /\ NothingOlder(L, o, p)
      /\ NothingMissing(L, o, p) /\ NothingRevived(L, p) /\ BodiesAgree(L, p) /\ LikesAgree(L, p)
  BY DEF Converges
<1>2. /\ \A op, n : CallFor(op, n)' <=> CallFor(op, n)
      /\ \A n : Counting(n)' <=> Counting(n)
      /\ \A c : ClearingNow(c)' <=> ClearingNow(c)
      /\ UNCHANGED <<calls, crossed>>
  BY FadesDue
<1>3. \A n \in MsgIds :
        /\ rows'[n] # None <=> rows[n] # None
        /\ rows[n] # None => /\ rows'[n].chat = rows[n].chat /\ rows'[n].body = rows[n].body
                             /\ rows'[n].liked = rows[n].liked /\ rows'[n].deleted = rows[n].deleted
                             /\ Gone(n) => Gone(n)'
        /\ Exists(n)' => Exists(n) /\ rows[n] # None
        /\ Visible(n)' => Visible(n) /\ rows[n] # None
  BY FadesRows DEF Visible, Exists
<1>0. PICK D : Departures(D)
  BY FadesTell
<1>4. /\ DOMAIN down' = DOMAIN down \cup D
      /\ \A i \in DOMAIN down : /\ i \in Nat /\ i <= Len(down) /\ down'[i] = down[i]
                                /\ \A t, m : Is(i, t, m)' <=> Is(i, t, m)
                                /\ \A m : IsNew(i, m)' <=> IsNew(i, m)
                                /\ IsAnswer(i)' <=> IsAnswer(i)
      /\ \A i \in D : /\ down'[i].type = "delete" /\ down'[i].msg \in MsgIds
                      /\ rows[down'[i].msg] # None /\ Gone(down[i].msg)'
      /\ \A q \in Nat : q <= Len(down) =>
           /\ \A t, m : After(q, t, m) => After(q, t, m)'
           /\ \A t, m : t # "delete" => (After(q, t, m)' => After(q, t, m))
           /\ \A m : NewAfter(q, m)' <=> NewAfter(q, m)
           /\ ClearAfter(q) => ClearAfter(q)'
  BY <1>0 DEF Departures
<1>5. \A i \in D : /\ ~IsAnswer(i)' /\ (\A m : ~IsNew(i, m)')
                  /\ (\A t, m : t # "delete" => ~Is(i, t, m)')
  BY <1>4 DEF IsAnswer, IsNew, Is
<1>6. /\ \A q \in Nat : q <= Len(down) => \A m : NewSoon(q, m)' <=> NewSoon(q, m)
      /\ \A q \in Nat : q <= Len(down) => \A m : RemovedAfter(q, m) => RemovedAfter(q, m)'
  <2>1. ClearingNow(route)' <=> ClearingNow(route)
    <3>1. PICK r : r = route
      OBVIOUS
    <3>2. ClearingNow(route)' <=> ClearingNow(r)'
      BY <3>1, Zenon DEF ClearingNow
    <3> QED
      BY <1>2, <3>1, <3>2
  <2>2. \A q \in Nat : q <= Len(down) => \A m : NewSoon(q, m)' <=> NewSoon(q, m)
    BY <1>2, <1>4 DEF NewSoon
  <2>3. \A q \in Nat : q <= Len(down) => \A m : RemovedAfter(q, m) => RemovedAfter(q, m)'
    BY <1>2, <1>4, <2>1 DEF RemovedAfter
  <2> QED
    BY <2>2, <2>3
<1>7. \A m : Shows(L, m)' <=> Shows(L, m)
  BY DEF Shows
<1>8. /\ \A n : Shows(L, n) => n \in MsgIds /\ rows[n] # None
      /\ \A i \in DOMAIN down : \A n : i > p /\ IsNew(i, n) => n \in MsgIds /\ rows[n] # None
  <2>1. \A n : Shows(L, n) => n \in MsgIds /\ rows[n] # None
    BY <1>1, EntryIds DEF Shows, EntriesAreSound
  <2>2. \A i \in DOMAIN down : \A n : i > p /\ IsNew(i, n) => n \in MsgIds /\ rows[n] # None
    BY <1>1, EventIds DEF IsNew, EventsAreSound
  <2> QED
    BY <2>1, <2>2
<1>9. \A m \in MsgIds : NewSoon(p, m) => rows[m] # None
  <2>1. \A m \in MsgIds : CallFor("new", m) => rows[m] # None
    BY DEF CallFor, At, WriteInv, CallsKnowTheirRow
  <2> QED
    BY <1>8, <2>1 DEF NewSoon, NewAfter
<1>10. EventsAreSound(p)'
  <2> SUFFICES ASSUME NEW i \in DOMAIN down', i > p
               PROVE  /\ ~IsAnswer(i)'
                      /\ down'[i].type = "new" => /\ rows'[down'[i].msg.id] # None
                                                  /\ rows'[down'[i].msg.id].chat = route
                                                  /\ down'[i].msg.body = 0 /\ down'[i].msg.liked = FALSE
                      /\ down'[i].type \in {"edit", "react"} => /\ rows'[down'[i].msg] # None
                                                                /\ rows'[down'[i].msg].chat = route
                      /\ down'[i].type = "delete" => /\ rows'[down'[i].msg] # None
                                                     /\ rows'[down'[i].msg].deleted \/ Gone(down[i].msg)'
    BY DEF EventsAreSound
  <2>1. CASE i \in D
    BY <1>3, <1>4, <1>5, <2>1
  <2>2. CASE i \in DOMAIN down
    <3>1. PICK n : n = down[i].msg
      OBVIOUS
    <3>2. down'[i] = down[i] /\ (IsAnswer(i)' <=> IsAnswer(i))
      BY <1>4, <2>2
    <3>3. Gone(down[i].msg)' <=> Gone(n)'
      BY <3>1, <3>2 DEF Gone
    <3>4. /\ ~IsAnswer(i)
          /\ down[i].type = "new" => /\ rows[down[i].msg.id] # None
                                     /\ rows[down[i].msg.id].chat = route
                                     /\ down[i].msg.body = 0 /\ down[i].msg.liked = FALSE
          /\ down[i].type \in {"edit", "react"} => /\ rows[down[i].msg] # None
                                                   /\ rows[down[i].msg].chat = route
          /\ down[i].type = "delete" => /\ rows[down[i].msg] # None
                                        /\ rows[down[i].msg].deleted \/ Gone(down[i].msg)
      BY <1>1, <2>2 DEF EventsAreSound
    <3>5. down[i].type = "delete" => rows'[n] # None /\ (rows'[n].deleted \/ Gone(n)')
      BY <1>3, <2>2, <3>1, <3>4, EventIds
    <3> QED
      BY <1>3, <2>2, <3>1, <3>2, <3>3, <3>4, <3>5, EventIds
  <2> QED
    BY <1>4, <2>1, <2>2
<1>11. EntriesAreSound(L, o)'
  BY <1>1, <1>2, <1>3, EntryIds DEF EntriesAreSound
<1>12. NothingOlder(L, o, p)'
  <2> SUFFICES ASSUME NEW m \in MsgIds \ crossed, o # None,
                      Shows(L, m) \/ (NewSoon(p, m) /\ rows'[m].chat = route), ~Gone(m)'
               PROVE  o <= m
    BY <1>2, <1>6, <1>7 DEF NothingOlder
  <2>1. rows[m] # None
    BY <1>8, <1>9
  <2> QED
    BY <1>1, <1>3, <2>1 DEF NothingOlder
<1>13. NothingMissing(L, o, p)'
  <2> SUFFICES ASSUME NEW m \in MsgIds \ crossed, Visible(m)', rows'[m].chat = route
               PROVE  /\ (o # None => o <= m) => Shows(L, m) \/ NewSoon(p, m)'
                      /\ \A i \in DOMAIN down' : i > p /\ down'[i].type = "clear" => NewSoon(i, m)'
    BY <1>2, <1>7 DEF NothingMissing
  <2>1. Visible(m) /\ rows[m].chat = route
    BY <1>3
  <2>2. /\ (o # None => o <= m) => Shows(L, m) \/ NewSoon(p, m)
        /\ \A i \in DOMAIN down : i > p /\ down[i].type = "clear" => NewSoon(i, m)
    BY <1>1, <2>1 DEF NothingMissing
  <2> QED
    BY <1>4, <1>6, <2>2
<1>14. NothingRevived(L, p)'
  <2> SUFFICES ASSUME NEW m \in MsgIds \ crossed, rows'[m] # None, rows'[m].deleted
               PROVE  /\ Shows(L, m) => RemovedAfter(p, m)'
                      /\ \A i \in DOMAIN down' : i > p /\ IsNew(i, m)' => RemovedAfter(i, m)'
    BY <1>2, <1>7 DEF NothingRevived
  <2>1. rows[m] # None /\ rows[m].deleted
    BY <1>3
  <2> QED
    BY <1>1, <1>4, <1>5, <1>6, <2>1 DEF NothingRevived
<1>15. BodiesAgree(L, p)'
  <2> SUFFICES ASSUME NEW m \in MsgIds \ crossed, rows'[m] # None, ~CallFor("edit", m)'
               PROVE  /\ ~After(p, "edit", m)' =>
                           \A n \in DOMAIN L : L[n].id = m => L[n].body = rows'[m].body
                      /\ \A i \in DOMAIN down' : i > p /\ ~After(i, "edit", m)' =>
                           /\ IsNew(i, m)' => rows'[m].body = 0
                           /\ Is(i, "edit", m)' => down'[i].val = rows'[m].body
    BY <1>2 DEF BodiesAgree
  <2>1. rows[m] # None /\ ~CallFor("edit", m) /\ rows'[m].body = rows[m].body
    BY <1>2, <1>3
  <2>2. /\ ~After(p, "edit", m) => \A n \in DOMAIN L : L[n].id = m => L[n].body = rows[m].body
        /\ \A i \in DOMAIN down : i > p /\ ~After(i, "edit", m) =>
             /\ IsNew(i, m) => rows[m].body = 0
             /\ Is(i, "edit", m) => down[i].val = rows[m].body
    BY <1>1, <2>1 DEF BodiesAgree
  <2> QED
    BY <1>4, <1>5, <2>1, <2>2
<1>16. LikesAgree(L, p)'
  <2> SUFFICES ASSUME NEW m \in MsgIds \ crossed, Exists(m)', ~CallFor("react", m)', ~Counting(m)'
               PROVE  /\ ~After(p, "react", m)' =>
                           \A n \in DOMAIN L : L[n].id = m => L[n].liked = rows'[m].liked
                      /\ \A i \in DOMAIN down' : i > p /\ ~After(i, "react", m)' =>
                           /\ IsNew(i, m)' => rows'[m].liked = FALSE
                           /\ Is(i, "react", m)' => down'[i].val = rows'[m].liked
    BY <1>2 DEF LikesAgree
  <2>1. Exists(m) /\ ~CallFor("react", m) /\ ~Counting(m) /\ rows'[m].liked = rows[m].liked
    BY <1>2, <1>3
  <2>2. /\ ~After(p, "react", m) => \A n \in DOMAIN L : L[n].id = m => L[n].liked = rows[m].liked
        /\ \A i \in DOMAIN down : i > p /\ ~After(i, "react", m) =>
             /\ IsNew(i, m) => rows[m].liked = FALSE
             /\ Is(i, "react", m) => down[i].val = rows[m].liked
    BY <1>1, <2>1 DEF LikesAgree
  <2> QED
    BY <1>4, <1>5, <2>1, <2>2
<1> QED
  BY <1>10, <1>11, <1>12, <1>13, <1>14, <1>15, <1>16 DEF Converges

-----------------------------------------------------------------------------
(* What the page does with its list.                                         *)

LEMMA EventsShift ==
  ASSUME TypeOK, down # <<>>, down' = Tail(down)
  PROVE  /\ \A i \in DOMAIN down' : i \in Nat /\ i + 1 \in DOMAIN down /\ down'[i] = down[i + 1]
         /\ \A i \in DOMAIN down' : /\ \A t, m : Is(i, t, m)' <=> Is(i + 1, t, m)
                                    /\ \A m : IsNew(i, m)' <=> IsNew(i + 1, m)
                                    /\ IsAnswer(i)' <=> IsAnswer(i + 1)
         /\ \A q \in Nat : /\ \A t, m : After(q, t, m)' <=> After(q + 1, t, m)
                           /\ \A m : NewAfter(q, m)' <=> NewAfter(q + 1, m)
                           /\ ClearAfter(q)' <=> ClearAfter(q + 1)
<1>1. /\ Len(down) \in Nat \ {0} /\ DOMAIN down = 1..Len(down)
      /\ DOMAIN down' = 1..(Len(down) - 1)
      /\ \A i \in DOMAIN down' : i + 1 \in DOMAIN down /\ down'[i] = down[i + 1]
      /\ \A i \in DOMAIN down : i # 1 => i - 1 \in DOMAIN down' /\ down'[i - 1] = down[i]
  BY DeliveryShifts
<1>2. \A i \in DOMAIN down' : /\ \A t, m : Is(i, t, m)' <=> Is(i + 1, t, m)
                              /\ \A m : IsNew(i, m)' <=> IsNew(i + 1, m)
                              /\ IsAnswer(i)' <=> IsAnswer(i + 1)
  BY <1>1 DEF Is, IsNew, IsAnswer
<1>3. \A i \in DOMAIN down' : i \in Nat
  BY <1>1
<1>4. \A q \in Nat : \A i \in DOMAIN down : i > q + 1 =>
        i - 1 \in DOMAIN down' /\ i - 1 > q /\ (i - 1) + 1 = i
  BY <1>1
<1>5. \A q \in Nat : \A i \in DOMAIN down' : i > q => i + 1 \in DOMAIN down /\ i + 1 > q + 1
  BY <1>1, <1>3
<1>6. ASSUME NEW q \in Nat
      PROVE  /\ \A t, m : After(q, t, m)' <=> After(q + 1, t, m)
             /\ \A m : NewAfter(q, m)' <=> NewAfter(q + 1, m)
             /\ ClearAfter(q)' <=> ClearAfter(q + 1)
  <2>1. ASSUME NEW t, NEW m
        PROVE  After(q, t, m)' <=> After(q + 1, t, m)
    <3>1. ASSUME After(q, t, m)'
          PROVE  After(q + 1, t, m)
      <4>1. PICK i \in DOMAIN down' : i > q /\ Is(i, t, m)'
        BY <3>1 DEF After
      <4> QED
        BY <1>2, <1>5, <4>1 DEF After
    <3>2. ASSUME After(q + 1, t, m)
          PROVE  After(q, t, m)'
      <4>1. PICK i \in DOMAIN down : i > q + 1 /\ Is(i, t, m)
        BY <3>2 DEF After
      <4>2. i - 1 \in DOMAIN down' /\ i - 1 > q /\ Is(i - 1, t, m)'
        BY <1>2, <1>4, <4>1
      <4> QED
        BY <4>2 DEF After
    <3> QED
      BY <3>1, <3>2
  <2>2. ASSUME NEW m
        PROVE  NewAfter(q, m)' <=> NewAfter(q + 1, m)
    <3>1. ASSUME NewAfter(q, m)'
          PROVE  NewAfter(q + 1, m)
      <4>1. PICK i \in DOMAIN down' : i > q /\ IsNew(i, m)'
        BY <3>1 DEF NewAfter
      <4> QED
        BY <1>2, <1>5, <4>1 DEF NewAfter
    <3>2. ASSUME NewAfter(q + 1, m)
          PROVE  NewAfter(q, m)'
      <4>1. PICK i \in DOMAIN down : i > q + 1 /\ IsNew(i, m)
        BY <3>2 DEF NewAfter
      <4>2. i - 1 \in DOMAIN down' /\ i - 1 > q /\ IsNew(i - 1, m)'
        BY <1>2, <1>4, <4>1
      <4> QED
        BY <4>2 DEF NewAfter
    <3> QED
      BY <3>1, <3>2
  <2>3. ClearAfter(q)' <=> ClearAfter(q + 1)
    <3>1. ASSUME ClearAfter(q)'
          PROVE  ClearAfter(q + 1)
      <4>1. PICK i \in DOMAIN down' : i > q /\ down'[i].type = "clear"
        BY <3>1 DEF ClearAfter
      <4> QED
        BY <1>1, <1>5, <4>1 DEF ClearAfter
    <3>2. ASSUME ClearAfter(q + 1)
          PROVE  ClearAfter(q)'
      <4>1. PICK i \in DOMAIN down : i > q + 1 /\ down[i].type = "clear"
        BY <3>2 DEF ClearAfter
      <4>2. i - 1 \in DOMAIN down' /\ i - 1 > q /\ down'[i - 1].type = "clear"
        BY <1>1, <1>4, <4>1
      <4> QED
        BY <4>2 DEF ClearAfter
    <3> QED
      BY <3>1, <3>2
  <2> QED
    BY <2>1, <2>2, <2>3
<1> QED
  BY <1>1, <1>2, <1>3, <1>6

LEMMA ShiftConverges ==
  ASSUME TypeOK, UNCHANGED <<rows, calls, crossed, route>>, down # <<>>, down' = Tail(down),
         NEW L, NEW o, NEW p \in Nat, Converges(L, o, p + 1)
  PROVE  Converges(L, o, p)'
<1>0. PICK q : q = p + 1
  OBVIOUS
<1>1. /\ EventsAreSound(q) /\ EntriesAreSound(L, o) /\ NothingOlder(L, o, q)
      /\ NothingMissing(L, o, q) /\ NothingRevived(L, q) /\ BodiesAgree(L, q) /\ LikesAgree(L, q)
  BY <1>0 DEF Converges
<1>2. /\ \A i \in DOMAIN down' : i \in Nat /\ i + 1 \in DOMAIN down /\ down'[i] = down[i + 1]
      /\ \A i \in DOMAIN down' : /\ \A t, m : Is(i, t, m)' <=> Is(i + 1, t, m)
                                 /\ \A m : IsNew(i, m)' <=> IsNew(i + 1, m)
                                 /\ IsAnswer(i)' <=> IsAnswer(i + 1)
      /\ \A n \in Nat : /\ \A t, m : After(n, t, m)' <=> After(n + 1, t, m)
                        /\ \A m : NewAfter(n, m)' <=> NewAfter(n + 1, m)
                        /\ ClearAfter(n)' <=> ClearAfter(n + 1)
  BY EventsShift
<1>3. \A i \in DOMAIN down' : i > p => i + 1 > q
  BY <1>0, <1>2
<1>4. /\ \A op, n : CallFor(op, n)' <=> CallFor(op, n)
      /\ \A n : Counting(n)' <=> Counting(n)
      /\ ClearingNow(route)' <=> ClearingNow(route)
  BY DEF CallFor, Counting, ClearingNow, At, Open
<1>5. \A n : (Gone(n)' <=> Gone(n)) /\ (Exists(n)' <=> Exists(n)) /\ (Visible(n)' <=> Visible(n))
  BY DEF Gone, Exists, Visible
<1>6. \A m : Shows(L, m)' <=> Shows(L, m)
  BY DEF Shows
<1>7. \A n \in Nat : \A m : /\ NewSoon(n, m)' <=> NewSoon(n + 1, m)
                            /\ RemovedAfter(n, m)' <=> RemovedAfter(n + 1, m)
  BY <1>2, <1>4 DEF NewSoon, RemovedAfter
<1>8. EventsAreSound(p)'
  <2> SUFFICES ASSUME NEW i \in DOMAIN down', i > p
               PROVE  (/\ ~IsAnswer(i)
                       /\ down[i].type = "new" => /\ rows[down[i].msg.id] # None
                                                  /\ rows[down[i].msg.id].chat = route
                                                  /\ down[i].msg.body = 0 /\ down[i].msg.liked = FALSE
                       /\ down[i].type \in {"edit", "react"} => /\ rows[down[i].msg] # None
                                                                /\ rows[down[i].msg].chat = route
                       /\ down[i].type = "delete" => /\ rows[down[i].msg] # None
                                                     /\ rows[down[i].msg].deleted \/ Gone(down[i].msg))'
    BY DEF EventsAreSound
  <2>1. PICK n : n = down[i + 1].msg
    OBVIOUS
  <2>2. i + 1 \in DOMAIN down /\ i + 1 > q /\ down'[i] = down[i + 1] /\ down'[i].msg = n
    BY <1>2, <1>3, <2>1
  <2>3. Gone(down[i].msg)' <=> Gone(n)
    BY <2>2 DEF Gone
  <2> QED
    BY <1>1, <1>2, <2>1, <2>2, <2>3 DEF EventsAreSound
<1>9. EntriesAreSound(L, o)'
  BY <1>1 DEF EntriesAreSound
<1>10. NothingOlder(L, o, p)'
  BY <1>0, <1>1, <1>5, <1>6, <1>7 DEF NothingOlder
<1>11. NothingMissing(L, o, p)'
  <2> SUFFICES ASSUME NEW m \in MsgIds \ crossed, Visible(m), rows[m].chat = route
               PROVE  /\ (o # None => o <= m) => Shows(L, m) \/ NewSoon(p, m)'
                      /\ \A i \in DOMAIN down' : i > p /\ down'[i].type = "clear" => NewSoon(i, m)'
    BY <1>5, <1>6 DEF NothingMissing
  <2>1. /\ (o # None => o <= m) => Shows(L, m) \/ NewSoon(q, m)
        /\ \A i \in DOMAIN down : i > q /\ down[i].type = "clear" => NewSoon(i, m)
    BY <1>1 DEF NothingMissing
  <2> QED
    BY <1>0, <1>2, <1>3, <1>7, <2>1
<1>12. NothingRevived(L, p)'
  <2> SUFFICES ASSUME NEW m \in MsgIds \ crossed, rows[m] # None, rows[m].deleted
               PROVE  /\ Shows(L, m) => RemovedAfter(p, m)'
                      /\ \A i \in DOMAIN down' : i > p /\ IsNew(i, m)' => RemovedAfter(i, m)'
    BY <1>6 DEF NothingRevived
  <2>1. /\ Shows(L, m) => RemovedAfter(q, m)
        /\ \A i \in DOMAIN down : i > q /\ IsNew(i, m) => RemovedAfter(i, m)
    BY <1>1 DEF NothingRevived
  <2> QED
    BY <1>0, <1>2, <1>3, <1>7, <2>1
<1>13. BodiesAgree(L, p)'
  <2> SUFFICES ASSUME NEW m \in MsgIds \ crossed, rows[m] # None, ~CallFor("edit", m)
               PROVE  /\ ~After(p, "edit", m)' =>
                           \A n \in DOMAIN L : L[n].id = m => L[n].body = rows[m].body
                      /\ \A i \in DOMAIN down' : i > p /\ ~After(i, "edit", m)' =>
                           /\ IsNew(i, m)' => rows[m].body = 0
                           /\ Is(i, "edit", m)' => down'[i].val = rows[m].body
    BY <1>4 DEF BodiesAgree
  <2>1. /\ ~After(q, "edit", m) => \A n \in DOMAIN L : L[n].id = m => L[n].body = rows[m].body
        /\ \A i \in DOMAIN down : i > q /\ ~After(i, "edit", m) =>
             /\ IsNew(i, m) => rows[m].body = 0
             /\ Is(i, "edit", m) => down[i].val = rows[m].body
    BY <1>1 DEF BodiesAgree
  <2> QED
    BY <1>0, <1>2, <1>3, <2>1
<1>14. LikesAgree(L, p)'
  <2> SUFFICES ASSUME NEW m \in MsgIds \ crossed, Exists(m), ~CallFor("react", m), ~Counting(m)
               PROVE  /\ ~After(p, "react", m)' =>
                           \A n \in DOMAIN L : L[n].id = m => L[n].liked = rows[m].liked
                      /\ \A i \in DOMAIN down' : i > p /\ ~After(i, "react", m)' =>
                           /\ IsNew(i, m)' => rows[m].liked = FALSE
                           /\ Is(i, "react", m)' => down'[i].val = rows[m].liked
    BY <1>4, <1>5 DEF LikesAgree
  <2>1. /\ ~After(q, "react", m) => \A n \in DOMAIN L : L[n].id = m => L[n].liked = rows[m].liked
        /\ \A i \in DOMAIN down : i > q /\ ~After(i, "react", m) =>
             /\ IsNew(i, m) => rows[m].liked = FALSE
             /\ Is(i, "react", m) => down[i].val = rows[m].liked
    BY <1>1 DEF LikesAgree
  <2> QED
    BY <1>0, <1>2, <1>3, <2>1
<1> QED
  BY <1>8, <1>9, <1>10, <1>11, <1>12, <1>13, <1>14 DEF Converges

\* Older messages in front of a list that begins with the oldest read so far.
LEMMA OlderConverges ==
  ASSUME TypeOK, NEW V \in Seq(Entry), NEW L \in Seq(Entry), NEW o \in MsgIds, NEW p \in Nat,
         Converges(L, o, p), \A n \in DOMAIN L : ~Gone(L[n].id), Snapshot(V, o, route),
         NEW u, u = (IF V = <<>> THEN o ELSE V[1].id)
  PROVE  Converges(V \o L, u, p)
<1>1. /\ EventsAreSound(p) /\ EntriesAreSound(L, o) /\ NothingOlder(L, o, p)
      /\ NothingMissing(L, o, p) /\ NothingRevived(L, p) /\ BodiesAgree(L, p) /\ LikesAgree(L, p)
  BY DEF Converges
<1>2. PICK K, k : K = V \o L /\ k = Len(V)
  OBVIOUS
<1>3. /\ k \in Nat /\ DOMAIN V = 1..k /\ DOMAIN L = 1..Len(L) /\ Len(L) \in Nat
      /\ DOMAIN K = 1..(k + Len(L))
      /\ \A i \in DOMAIN K : K[i] = IF i <= k THEN V[i] ELSE L[i - k]
      /\ \A i \in DOMAIN K : IF i <= k THEN i \in DOMAIN V ELSE i - k \in DOMAIN L
  BY <1>2
<1>4. /\ \A i \in DOMAIN V : i \in DOMAIN K /\ K[i] = V[i]
      /\ \A i \in DOMAIN L : i + k \in DOMAIN K /\ K[i + k] = L[i]
  BY <1>3
<1>5. \A m : Shows(K, m) <=> Shows(V, m) \/ Shows(L, m)
  <2>1. \A m : Shows(K, m) => Shows(V, m) \/ Shows(L, m)
    BY <1>3 DEF Shows
  <2>2. \A m : Shows(V, m) \/ Shows(L, m) => Shows(K, m)
    BY <1>4 DEF Shows
  <2> QED
    BY <2>1, <2>2
<1>6. /\ \A i, j \in DOMAIN V : i < j => V[i].id < V[j].id
      /\ \A i \in DOMAIN V : /\ V[i].id \in MsgIds /\ V[i].id < o
                             /\ rows[V[i].id] # None /\ rows[V[i].id].chat = route
                             /\ V[i].id \notin crossed => V[i] = EntryOf(V[i].id) /\ ~rows[V[i].id].deleted
      /\ \A m \in MsgIds \ crossed :
           Visible(m) /\ rows[m].chat = route /\ m < o /\ (V # <<>> => V[1].id <= m) => Shows(V, m)
  BY EntryIds DEF Snapshot
<1>7. /\ u \in MsgIds /\ rows[u] # None /\ u <= o
      /\ \A i \in DOMAIN V : u <= V[i].id
      /\ V # <<>> => u = V[1].id
  <2>1. CASE V = <<>>
    <3>1. u = o /\ DOMAIN V = {}
      BY <2>1
    <3>2. o # None /\ o \in Nat
      BY NullsAssumption DEF MsgIds
    <3> QED
      BY <1>1, <2>1, <3>1, <3>2 DEF EntriesAreSound
  <2>2. CASE V # <<>>
    <3>1. 1 \in DOMAIN V /\ u = V[1].id
      BY <2>2
    <3>2. u \in MsgIds /\ rows[u] # None /\ u < o
      BY <1>6, <3>1
    <3>3. ASSUME NEW i \in DOMAIN V
          PROVE  u <= V[i].id
      <4>1. i = 1 \/ 1 < i
        BY <1>3
      <4> QED
        BY <1>6, <3>1, <4>1 DEF MsgIds
    <3> QED
      BY <3>1, <3>2, <3>3 DEF MsgIds
  <2> QED
    BY <2>1, <2>2
<1>8. o # None /\ u # None
  BY <1>7, NullsAssumption
<1>9. \A m \in MsgIds \ crossed : Shows(L, m) => o <= m
  BY <1>1, <1>8 DEF NothingOlder, Shows
<1>10. EntriesAreSound(K, u)
  <2>1. \A n \in DOMAIN K : rows[K[n].id] # None /\ rows[K[n].id].chat = route
    BY <1>1, <1>3, <1>6 DEF EntriesAreSound
  <2>2. ASSUME NEW m \in MsgIds \ crossed, NEW i \in DOMAIN K, NEW j \in DOMAIN K,
               K[i].id = m, K[j].id = m
        PROVE  i = j
    <3>1. i \in Int /\ j \in Int /\ m \in Int /\ o \in Int
      BY <1>3 DEF MsgIds
    <3>2. CASE i <= k /\ j <= k
      <4>1. i \in DOMAIN V /\ j \in DOMAIN V /\ V[i].id = m /\ V[j].id = m
        BY <1>3, <2>2, <3>2
      <4>2. ~(i < j) /\ ~(j < i)
        BY <1>6, <3>1, <4>1
      <4> QED
        BY <3>1, <4>2
    <3>3. CASE ~(i <= k) /\ ~(j <= k)
      <4>1. i - k \in DOMAIN L /\ j - k \in DOMAIN L /\ L[i - k].id = m /\ L[j - k].id = m
        BY <1>3, <2>2, <3>3
      <4>2. i - k = j - k
        BY <1>1, <4>1 DEF EntriesAreSound
      <4> QED
        BY <1>3, <3>1, <4>2
    <3>4. CASE i <= k /\ ~(j <= k)
      <4>1. i \in DOMAIN V /\ V[i].id = m /\ Shows(L, m)
        BY <1>3, <2>2, <3>4 DEF Shows
      <4> QED
        BY <1>6, <1>9, <3>1, <4>1
    <3>5. CASE ~(i <= k) /\ j <= k
      <4>1. j \in DOMAIN V /\ V[j].id = m /\ Shows(L, m)
        BY <1>3, <2>2, <3>5 DEF Shows
      <4> QED
        BY <1>6, <1>9, <3>1, <4>1
    <3> QED
      BY <3>2, <3>3, <3>4, <3>5
  <2> QED
    BY <1>7, <2>1, <2>2 DEF EntriesAreSound
<1>11. NothingOlder(K, u, p)
  <2> SUFFICES ASSUME NEW m \in MsgIds \ crossed,
                      Shows(K, m) \/ (NewSoon(p, m) /\ rows[m].chat = route), ~Gone(m)
               PROVE  u <= m
    BY DEF NothingOlder
  <2>1. CASE Shows(V, m)
    BY <1>7, <2>1 DEF Shows
  <2>2. CASE Shows(L, m) \/ (NewSoon(p, m) /\ rows[m].chat = route)
    <3>1. o <= m
      BY <1>1, <1>8, <2>2 DEF NothingOlder
    <3> QED
      BY <1>7, <3>1 DEF MsgIds
  <2> QED
    BY <1>5, <2>1, <2>2
<1>12. NothingMissing(K, u, p)
  <2> SUFFICES ASSUME NEW m \in MsgIds \ crossed, Visible(m), rows[m].chat = route
               PROVE  /\ u <= m => Shows(K, m) \/ NewSoon(p, m)
                      /\ \A i \in DOMAIN down : i > p /\ down[i].type = "clear" => NewSoon(i, m)
    BY <1>8 DEF NothingMissing
  <2>1. /\ o <= m => Shows(L, m) \/ NewSoon(p, m)
        /\ \A i \in DOMAIN down : i > p /\ down[i].type = "clear" => NewSoon(i, m)
    BY <1>1, <1>8 DEF NothingMissing
  <2>2. ASSUME u <= m, ~(o <= m)
        PROVE  Shows(V, m)
    <3>1. m < o
      BY <2>2 DEF MsgIds
    <3> QED
      BY <1>6, <1>7, <2>2, <3>1
  <2> QED
    BY <1>5, <2>1, <2>2
<1>13. NothingRevived(K, p)
  <2>1. \A m \in MsgIds \ crossed : rows[m].deleted => ~Shows(V, m)
    BY <1>6 DEF Shows
  <2> QED
    BY <1>1, <1>5, <2>1 DEF NothingRevived
<1>14. \A m \in MsgIds \ crossed : \A n \in DOMAIN K : K[n].id = m =>
         \/ K[n].body = rows[m].body /\ K[n].liked = rows[m].liked
         \/ \E i \in DOMAIN L : K[n] = L[i]
  <2> SUFFICES ASSUME NEW m \in MsgIds \ crossed, NEW n \in DOMAIN K, K[n].id = m
               PROVE  \/ K[n].body = rows[m].body /\ K[n].liked = rows[m].liked
                      \/ \E i \in DOMAIN L : K[n] = L[i]
    OBVIOUS
  <2>1. CASE n <= k
    <3>1. n \in DOMAIN V /\ K[n] = V[n]
      BY <1>3, <2>1
    <3>2. V[n] = EntryOf(m)
      BY <1>6, <3>1
    <3> QED
      BY <3>1, <3>2 DEF EntryOf
  <2>2. CASE ~(n <= k)
    BY <1>3, <2>2
  <2> QED
    BY <2>1, <2>2
<1>15. BodiesAgree(K, p)
  BY <1>1, <1>14 DEF BodiesAgree
<1>16. LikesAgree(K, p)
  BY <1>1, <1>14 DEF LikesAgree
<1> QED
  BY <1>1, <1>2, <1>10, <1>11, <1>12, <1>13, <1>15, <1>16 DEF Converges

\* The history sent to the page, with nothing behind it yet.
LEMMA HistoryConverges ==
  ASSUME TypeOK, UNCHANGED <<rows, calls, crossed, route>>, NEW V \in Seq(Entry),
         Snapshot(V, MaxMsgs + 1, route), Newer(V, route),
         NEW p, \A i \in DOMAIN down' : ~(i > p)
  PROVE  Converges(V, OldestOf(V), p)'
<1>1. PICK o : o = OldestOf(V)
  OBVIOUS
<1>2. /\ \A i, j \in DOMAIN V : i < j => V[i].id < V[j].id
      /\ \A i \in DOMAIN V : /\ V[i].id \in MsgIds
                             /\ rows[V[i].id] # None /\ rows[V[i].id].chat = route
                             /\ V[i].id \notin crossed => V[i] = EntryOf(V[i].id) /\ ~rows[V[i].id].deleted
      /\ \A m \in MsgIds \ crossed :
           Visible(m) /\ rows[m].chat = route /\ m < MaxMsgs + 1 /\ (V # <<>> => V[1].id <= m) => Shows(V, m)
  BY EntryIds DEF Snapshot
<1>3. \A m \in MsgIds : m < MaxMsgs + 1
  BY BoundsAssumption DEF MsgIds
<1>4. /\ o # None => V # <<>> /\ o = V[1].id /\ 1 \in DOMAIN V
      /\ V # <<>> => o = V[1].id /\ o # None
  <2>1. V # <<>> => 1 \in DOMAIN V
    OBVIOUS
  <2> QED
    BY <1>1, <1>2, <2>1, NullsAssumption DEF OldestOf
<1>5. /\ \A q, m : NewSoon(q, m)' => CallFor("new", m) \/ NewAfter(q, m)'
      /\ \A m : ~NewAfter(p, m)'
  BY DEF NewSoon, NewAfter, CallFor, At, Open
<1>6. \A m : Shows(V, m)' <=> Shows(V, m)
  BY DEF Shows
<1>7. \A n : (Gone(n)' <=> Gone(n)) /\ (Visible(n)' <=> Visible(n)) /\ (Exists(n)' => rows[n] # None)
  BY DEF Gone, Exists, Visible
<1>8. EventsAreSound(p)'
  BY DEF EventsAreSound
<1>9. EntriesAreSound(V, o)'
  <2>1. ASSUME NEW i \in DOMAIN V, NEW j \in DOMAIN V, V[i].id = V[j].id
        PROVE  i = j
    <3>1. i \in Int /\ j \in Int
      OBVIOUS
    <3>2. V[i].id \in Int /\ ~(i < j) /\ ~(j < i)
      BY <1>2, <2>1 DEF MsgIds
    <3> QED
      BY <3>1, <3>2
  <2> QED
    BY <1>2, <1>4, <2>1 DEF EntriesAreSound
<1>10. \A m : Shows(V, m) /\ o # None => o <= m
  <2> SUFFICES ASSUME NEW i \in DOMAIN V, o # None
               PROVE  o <= V[i].id
    BY DEF Shows
  <2>1. i = 1 \/ 1 < i
    OBVIOUS
  <2>2. V[1].id \in Nat /\ V[i].id \in Nat
    BY <1>2, <1>4 DEF MsgIds
  <2> QED
    BY <1>2, <1>4, <2>1, <2>2
<1>11. NothingOlder(V, o, p)'
  BY <1>4, <1>5, <1>6, <1>7, <1>10 DEF NothingOlder, Newer
<1>12. NothingMissing(V, o, p)'
  BY <1>2, <1>3, <1>4, <1>6, <1>7 DEF NothingMissing
<1>13. NothingRevived(V, p)'
  BY <1>2 DEF NothingRevived, Shows
<1>14. \A m \in MsgIds \ crossed : \A n \in DOMAIN V : V[n].id = m =>
         V[n].body = rows[m].body /\ V[n].liked = rows[m].liked
  BY <1>2 DEF EntryOf
<1>15. BodiesAgree(V, p)'
  BY <1>14 DEF BodiesAgree
<1>16. LikesAgree(V, p)'
  BY <1>14 DEF LikesAgree
<1>17. Converges(V, o, p)'
  BY <1>8, <1>9, <1>11, <1>12, <1>13, <1>15, <1>16 DEF Converges
<1>18. OldestOf(V)' = o
  BY <1>1 DEF OldestOf
<1> QED
  BY <1>17, <1>18, Zenon DEF Converges, EventsAreSound, EntriesAreSound, NothingOlder, NothingMissing

-----------------------------------------------------------------------------
(* The list and the history on its way, step by step.                        *)

\* What holds of every state holds of the next one.
LEMMA ThinnedNext ==
  /\ (\A L \in Seq(Entry) : \A K, o, p : Converges(L, o, p) /\ Thinned(K, L) => Converges(K, o, p))'
  /\ (TypeOK => \A L \in Seq(Entry) : \A m \in MsgIds : ~Visible(m) =>
        /\ Thinned(Without(L, m), L)
        /\ \A n \in DOMAIN Without(L, m) : Without(L, m)[n].id # m
                                           /\ Shows(L, Without(L, m)[n].id))'
<1>1. \A L \in Seq(Entry) : \A K, o, p : Converges(L, o, p) /\ Thinned(K, L) => Converges(K, o, p)
  BY ThinnedConverges
<1>2. TypeOK => \A L \in Seq(Entry) : \A m \in MsgIds : ~Visible(m) =>
        /\ Thinned(Without(L, m), L)
        /\ \A n \in DOMAIN Without(L, m) : Without(L, m)[n].id # m
                                           /\ Shows(L, Without(L, m)[n].id)
  BY WithoutThins
<1> QED
  BY <1>1, <1>2, PTL

LEMMA ListNext ==
  ASSUME NEW L, NEW o, L = list', o = oldest',
         filled' = "yes" /\ ~overtaken' /\ (\A i \in DOMAIN down' : ~IsAnswer(i)') =>
           Converges(L, o, 0)' /\ \A n \in DOMAIN L : ~Gone(L[n].id)',
         \A i \in DOMAIN down' : LastAnswer(i)' /\ down'[i].type = "history" =>
           \E V, u : V = down'[i].list /\ u = OldestOf(V) /\ Converges(V, u, i)'
  PROVE  ListInv'
<1>1. Converges(list, oldest, 0)' <=> Converges(L, o, 0)'
  BY Zenon DEF Converges, EventsAreSound, EntriesAreSound, NothingOlder, NothingMissing,
     NothingRevived, BodiesAgree, LikesAgree, Shows
<1>2. ASSUME \A n \in DOMAIN L : ~Gone(L[n].id)'
      PROVE  \A n \in DOMAIN list' : ~Gone(list[n].id)'
  BY <1>2 DEF Gone
<1>3. ASSUME NEW i \in DOMAIN down', NEW V, NEW u, V = down'[i].list, u = OldestOf(V),
             Converges(V, u, i)'
      PROVE  Converges(down[i].list, OldestOf(down[i].list), i)'
  <2>1. OldestOf(down[i].list)' = u
    BY <1>3 DEF OldestOf
  <2> QED
    BY <1>3, <2>1, Zenon DEF Converges, EventsAreSound, EntriesAreSound, NothingOlder,
       NothingMissing, NothingRevived, BodiesAgree, LikesAgree, Shows
<1>4. filled' = "yes" /\ ~overtaken' /\ (\A i \in DOMAIN down' : ~IsAnswer(i)') =>
        Converges(list, oldest, 0)' /\ \A n \in DOMAIN list' : ~Gone(list[n].id)'
  BY <1>1, <1>2
<1>5. \A i \in DOMAIN down' : LastAnswer(i)' /\ down'[i].type = "history" =>
        Converges(down[i].list, OldestOf(down[i].list), i)'
  BY <1>3
<1> QED
  BY <1>4, <1>5 DEF ListInv

LEMMA ListOffline ==
  ASSUME HearInv', conn' = "down"
  PROVE  ListInv'
<1>1. filled' = "no" /\ down' = <<>>
  BY DEF HearInv, OfflineIsEmpty
<1> QED
  BY <1>1 DEF ListInv, LastAnswer

LEMMA RestingHears ==
  ASSUME HearInv, Settled
  PROVE  conn = "up" => /\ inRooms = {route}
                        /\ \A i \in DOMAIN down : LastAnswer(i) => down[i].chat = route
<1>1. chatId = route /\ inRooms \subseteq {chatId} /\ chatId # None
  BY NullsAssumption DEF HearInv, OneRoomAtATime, TypeOK, Settled
<1> QED
  BY <1>1 DEF HearInv, RoomIsJoined, NoJoin, Settled

\* What the invariant says of a page at rest.
LEMMA ListHolds ==
  ASSUME ListInv, Settled
  PROVE  /\ filled = "yes" /\ ~overtaken /\ (\A i \in DOMAIN down : ~IsAnswer(i)) =>
              Converges(list, oldest, 0) /\ \A n \in DOMAIN list : ~Gone(list[n].id)
         /\ \A i \in DOMAIN down : LastAnswer(i) /\ down[i].type = "history" =>
              Converges(down[i].list, OldestOf(down[i].list), i)
BY DEF ListInv

LEMMA ListLengths ==
  ASSUME TypeOK
  PROVE  /\ list \in Seq(Entry) /\ oldest \in MsgIds \cup {None}
         /\ Len(down) \in Nat /\ DOMAIN down = 1..Len(down)
         /\ \A i \in DOMAIN down : down[i].type = "history" =>
              down[i].list \in Seq(Entry) /\ OldestOf(down[i].list) \in MsgIds \cup {None}
<1>1. list \in Seq(Entry) /\ oldest \in MsgIds \cup {None} /\ Len(down) \in Nat
      /\ DOMAIN down = 1..Len(down)
  BY DEF TypeOK
<1>2. \A i \in DOMAIN down : down[i].type = "history" => down[i].list \in Seq(Entry)
  BY EventIds
<1> QED
  BY <1>1, <1>2, FirstIdTyped DEF OldestOf

\* A step that leaves the page alone, and what is on its way to it up to its end.
LEMMA HistoriesStay ==
  ASSUME TypeOK, ListInv, Settled,
         \/ UNCHANGED down
         \/ \E e \in Event : e.type \notin {"history", "error"} /\ down' = Append(down, e),
         \A L \in Seq(Entry) : \A o \in MsgIds \cup {None} : \A p \in Nat :
           p <= Len(down) /\ Converges(L, o, p) => Converges(L, o, p)'
  PROVE  /\ \A i \in DOMAIN down : i \in DOMAIN down' /\ (IsAnswer(i)' <=> IsAnswer(i))
         /\ \A i \in DOMAIN down' : LastAnswer(i)' /\ down'[i].type = "history" =>
              \E V, u : V = down'[i].list /\ u = OldestOf(V) /\ Converges(V, u, i)'
<1>1. /\ \A i \in DOMAIN down : i \in DOMAIN down' /\ down'[i] = down[i]
      /\ \A i \in DOMAIN down' : i \in DOMAIN down \/ ~IsAnswer(i)'
  <2>1. CASE UNCHANGED down
    BY <2>1
  <2>2. ASSUME NEW e \in Event, e.type \notin {"history", "error"}, down' = Append(down, e)
        PROVE  /\ \A i \in DOMAIN down : i \in DOMAIN down' /\ down'[i] = down[i]
               /\ \A i \in DOMAIN down' : i \in DOMAIN down \/ ~IsAnswer(i)'
    <3>1. PICK z : z = Len(down) + 1
      OBVIOUS
    <3>2. DOMAIN down' = DOMAIN down \cup {z} /\ down'[z] = e
          /\ \A i \in DOMAIN down : down'[i] = down[i]
      BY <2>2, <3>1, MoreEvents
    <3> QED
      BY <2>2, <3>2 DEF IsAnswer
  <2> QED
    BY <2>1, <2>2
<1>2. \A i \in DOMAIN down : IsAnswer(i)' <=> IsAnswer(i)
  BY <1>1 DEF IsAnswer
<1>3. ASSUME NEW i \in DOMAIN down', LastAnswer(i)', down'[i].type = "history"
      PROVE  \E V, u : V = down'[i].list /\ u = OldestOf(V) /\ Converges(V, u, i)'
  <2>1. i \in DOMAIN down /\ down'[i] = down[i]
    BY <1>1, <1>3 DEF LastAnswer
  <2>2. LastAnswer(i)
    BY <1>1, <1>2, <1>3, <2>1 DEF LastAnswer
  <2>3. PICK V, u : V = down[i].list /\ u = OldestOf(V)
    OBVIOUS
  <2>4. Converges(V, u, i)
    BY <1>3, <2>1, <2>2, <2>3, ListHolds
  <2>5. i \in Nat /\ i <= Len(down) /\ V \in Seq(Entry) /\ u \in MsgIds \cup {None}
    BY <1>3, <2>1, <2>3, ListLengths
  <2> QED
    BY <2>1, <2>3, <2>4, <2>5
<1> QED
  BY <1>1, <1>2, <1>3

LEMMA ListFrame ==
  ASSUME TypeOK, ListInv, UNCHANGED <<list, oldest, filled, joins, chatId, route>>,
         UNCHANGED <<hasty, stranded, overtaken>>,
         Settled =>
           /\ \/ UNCHANGED down
              \/ \E e \in Event : e.type \notin {"history", "error"} /\ down' = Append(down, e)
           /\ \A L \in Seq(Entry) : \A o \in MsgIds \cup {None} : \A p \in Nat :
                p <= Len(down) /\ Converges(L, o, p) => Converges(L, o, p)',
         \A m \in MsgIds : rows[m] # None /\ ~Gone(m) => ~Gone(m)'
  PROVE  ListInv'
<1> SUFFICES ASSUME Settled
             PROVE  ListInv'
  BY DEF ListInv, NoJoin, Settled
<1>1. PICK L, o : L = list /\ o = oldest
  OBVIOUS
<1>2. L = list' /\ o = oldest' /\ L \in Seq(Entry) /\ o \in MsgIds \cup {None}
      /\ Len(down) \in Nat /\ 0 <= Len(down) /\ 0 \in Nat
  BY <1>1, ListLengths
<1>3. /\ \A i \in DOMAIN down : i \in DOMAIN down' /\ (IsAnswer(i)' <=> IsAnswer(i))
      /\ \A i \in DOMAIN down' : LastAnswer(i)' /\ down'[i].type = "history" =>
           \E V, u : V = down'[i].list /\ u = OldestOf(V) /\ Converges(V, u, i)'
  BY HistoriesStay
<1>4. ASSUME filled' = "yes", ~overtaken', \A i \in DOMAIN down' : ~IsAnswer(i)'
      PROVE  Converges(L, o, 0)' /\ \A n \in DOMAIN L : ~Gone(L[n].id)'
  <2>1. Converges(L, o, 0) /\ \A n \in DOMAIN L : ~Gone(L[n].id)
    BY <1>1, <1>3, <1>4, ListHolds
  <2>2. ASSUME NEW n \in DOMAIN L
        PROVE  ~Gone(L[n].id)'
    <3>1. PICK m : m = L[n].id
      OBVIOUS
    <3>2. m \in MsgIds /\ rows[m] # None /\ ~Gone(m)
      BY <1>2, <2>1, <3>1, EntryIds DEF Converges, EntriesAreSound
    <3>3. ~Gone(m)'
      BY <3>2
    <3> QED
      BY <3>1, <3>3
  <2> QED
    BY <1>2, <2>1, <2>2
<1> QED
  BY <1>2, <1>3, <1>4, ListNext

\* The gateway tells the room of the page, which a page at rest is in.
LEMMA TellsEverywhere ==
  ASSUME HearInv, WriteInv, Settled, UNCHANGED route, conn = "up",
         NEW k \in CallIds, NEW e \in Event, Tells(k, e)
  PROVE  \A L \in Seq(Entry) : \A o \in MsgIds \cup {None} : \A p \in Nat :
           p <= Len(down) /\ Converges(L, o, p) => Converges(L, o, p)'
<1>1. TypeOK /\ inRooms = {route}
  BY RestingHears DEF HearInv
<1>2. Emit(calls[k].chat, e)
  BY DEF Tells
<1>3. CASE calls[k].chat = route
  <2>1. down' = Append(down, e)
    BY <1>1, <1>2, <1>3 DEF Emit
  <2> QED
    BY <1>1, <1>3, <2>1, TellsConverge
<1>4. CASE calls[k].chat # route
  <2>1. UNCHANGED down
    BY <1>1, <1>2, <1>4 DEF Emit
  <2> QED
    BY <1>1, <1>4, <2>1, TellsElsewhereConverge
<1> QED
  BY <1>3, <1>4

LEMMA ListWriters ==
  ASSUME HearInv, HearInv', WriteInv, ListInv, NEW k \in CallIds, WriterStep(k)
  PROVE  ListInv'
<1>1. /\ UNCHANGED <<conn, list, oldest, filled, joins, chatId, route>> /\ TypeOK
      /\ UNCHANGED <<hasty, stranded, overtaken>>
  BY WritersStay DEF Elsewhere, view, HearInv
<1>2. CASE conn = "down"
  BY <1>1, <1>2, ListOffline
<1>3. CASE conn = "up"
  <2>1. \A m \in MsgIds : rows[m] # None /\ ~Gone(m) => ~Gone(m)'
    <3>1. CASE Silent(k) \/ Counts(k) \/ Quits(k) \/ \E e \in Event : Tells(k, e)
      BY <3>1 DEF Silent, Counts, Quits, Tells, Gone
    <3>2. ASSUME NEW m, NEW c, Sends(k, m, c)
          PROVE  \A n \in MsgIds : rows[n] # None /\ ~Gone(n) => ~Gone(n)'
      BY <3>2 DEF Sends, Gone
    <3>3. ASSUME NEW op, NEW M, NEW c, Writes(k, op, M, c)
          PROVE  \A n \in MsgIds : rows[n] # None /\ ~Gone(n) => ~Gone(n)'
      BY <3>3, WritesRows DEF Gone
    <3> QED
      BY <1>1, <3>1, <3>2, <3>3, WriterKinds, Zenon DEF WriteInv
  <2>2. \/ UNCHANGED down
        \/ \E e \in Event : e.type \notin {"history", "error"} /\ down' = Append(down, e)
    BY <1>1, WritersTell DEF Told
  <2>3. ASSUME Settled
        PROVE  \A L \in Seq(Entry) : \A o \in MsgIds \cup {None} : \A p \in Nat :
                 p <= Len(down) /\ Converges(L, o, p) => Converges(L, o, p)'
    <3>1. CASE Silent(k) \/ Quits(k)
      BY <1>1, <3>1, SilentConverges
    <3>2. CASE Counts(k)
      BY <1>1, <3>2, CountsConverge
    <3>3. ASSUME NEW m, NEW c, Sends(k, m, c)
          PROVE  \A L \in Seq(Entry) : \A o \in MsgIds \cup {None} : \A p \in Nat :
                   p <= Len(down) /\ Converges(L, o, p) => Converges(L, o, p)'
      BY <1>1, <3>3, SendsConverge
    <3>4. ASSUME NEW op, NEW M, NEW c, Writes(k, op, M, c)
          PROVE  \A L \in Seq(Entry) : \A o \in MsgIds \cup {None} : \A p \in Nat :
                   p <= Len(down) /\ Converges(L, o, p) => Converges(L, o, p)'
      BY <1>1, <3>4, WritesConverge
    <3>5. ASSUME NEW e \in Event, Tells(k, e)
          PROVE  \A L \in Seq(Entry) : \A o \in MsgIds \cup {None} : \A p \in Nat :
                   p <= Len(down) /\ Converges(L, o, p) => Converges(L, o, p)'
      BY <1>1, <1>3, <2>3, <3>5, TellsEverywhere
    <3> QED
      BY <1>1, <3>1, <3>2, <3>3, <3>4, <3>5, WriterKinds, Zenon DEF WriteInv
  <2> QED
    BY <1>1, <2>1, <2>2, <2>3, ListFrame
<1> QED
  BY <1>2, <1>3 DEF HearInv, TypeOK

LEMMA ListPurge ==
  ASSUME HearInv, WriteInv, ListInv, Purge
  PROVE  ListInv'
<1>1. /\ TypeOK /\ UNCHANGED <<down, list, oldest, filled, joins, chatId, route>>
      /\ UNCHANGED <<hasty, stranded, overtaken>>
  BY DEF HearInv, Purge, link, view, ghosts
<1>2. PICK M : Fades(M)
  BY <1>1, PurgeKind
<1>3. \A m \in MsgIds : rows[m] # None /\ ~Gone(m) => ~Gone(m)'
  <2> SUFFICES ASSUME NEW m \in MsgIds, rows[m] # None, ~Gone(m)
               PROVE  ~Gone(m)'
    OBVIOUS
  <2>1. rows'[m] = rows[m]
    BY DEF Purge, Gone
  <2> QED
    BY <2>1 DEF Gone
<1>4. \A L \in Seq(Entry) : \A o \in MsgIds \cup {None} : \A p \in Nat :
        p <= Len(down) /\ Converges(L, o, p) => Converges(L, o, p)'
  BY <1>1, <1>2, FadesConverge
<1> QED
  BY <1>1, <1>3, <1>4, ListFrame

\* Requests for older messages, until their answer arrives, and standing still.
LEMMA ListWaits ==
  ASSUME HearInv, ListInv, UNCHANGED <<rows, calls, crossed, down, joins, route, chatId, list, oldest,
                                       filled>>,
         UNCHANGED <<hasty, stranded, overtaken>>
  PROVE  ListInv'
<1>1. TypeOK
  BY DEF HearInv
<1>2. \A m \in MsgIds : Gone(m)' <=> Gone(m)
  BY DEF Gone
<1>3. /\ \A op, n : CallFor(op, n)' <=> CallFor(op, n)
      /\ \A n : Counting(n)' <=> Counting(n)
      /\ \A c : ClearingNow(c)' <=> ClearingNow(c)
  BY DEF CallFor, Counting, ClearingNow, At, Open
<1>4. \A L \in Seq(Entry) : \A o \in MsgIds \cup {None} : \A p \in Nat :
        p <= Len(down) /\ Converges(L, o, p) => Converges(L, o, p)'
  BY <1>1, <1>3, NothingChanges
<1> QED
  BY <1>1, <1>2, <1>4, ListFrame

LEMMA ListExpires ==
  ASSUME HearInv, HearInv', WriteInv, ListInv, NEW m \in MsgIds, Expire(m)
  PROVE  ListInv'
<1>1. /\ TypeOK /\ TypeOK' /\ UNCHANGED <<conn, oldest, filled, joins, chatId, route>>
      /\ rows[m] # None /\ list' = Without(list, m)
      /\ UNCHANGED <<hasty, stranded, overtaken>>
  BY DEF HearInv, Expire, ghosts
<1>2. Fades({m}) /\ Gone(m)'
  BY <1>1, ExpiryKind
<1>3. CASE conn = "down"
  BY <1>1, <1>3, ListOffline
<1>4. CASE conn = "up"
  <2> SUFFICES ASSUME Settled
               PROVE  ListInv'
    BY <1>1 DEF ListInv, NoJoin, Settled
  <2> DEFINE e == [type |-> "delete", msg |-> m, val |-> 0]
  <2>1. UNCHANGED down \/ Emit(rows[m].chat, e)
    BY DEF Expire
  <2>2. e \in Event /\ e.type = "delete" /\ e.msg = m
    BY DEF Event
  <2> HIDE DEF e
  <2>3. UNCHANGED down \/ down' = Append(down, e)
    BY <2>1 DEF Emit
  <2>4. Gone(e.msg)'
    BY <1>2, <2>2
  <2>5. \A L \in Seq(Entry) : \A o \in MsgIds \cup {None} : \A p \in Nat :
          p <= Len(down) /\ Converges(L, o, p) => Converges(L, o, p)'
    <3>1. \/ UNCHANGED down
          \/ \E d \in Event : /\ down' = Append(down, d) /\ d.type = "delete" /\ d.msg \in MsgIds
                              /\ rows[d.msg] # None /\ Gone(d.msg)'
      BY <1>1, <2>2, <2>3, <2>4
    <3> QED
      BY <1>1, <1>2, <3>1, FadesConverge
  <2>6. /\ \A i \in DOMAIN down : i \in DOMAIN down' /\ (IsAnswer(i)' <=> IsAnswer(i))
        /\ \A i \in DOMAIN down' : LastAnswer(i)' /\ down'[i].type = "history" =>
             \E V, u : V = down'[i].list /\ u = OldestOf(V) /\ Converges(V, u, i)'
    <3>1. \/ UNCHANGED down
          \/ \E d \in Event : d.type \notin {"history", "error"} /\ down' = Append(down, d)
      BY <2>2, <2>3
    <3> QED
      BY <1>1, <2>5, <3>1, HistoriesStay
  <2>7. PICK L, o, K : L = list /\ o = oldest /\ K = list'
    OBVIOUS
  <2>8. L \in Seq(Entry) /\ o \in MsgIds \cup {None} /\ Len(down) \in Nat /\ 0 <= Len(down)
        /\ K = Without(L, m) /\ o = oldest'
    BY <1>1, <2>7, ListLengths
  <2>9. ASSUME filled' = "yes", ~overtaken', \A i \in DOMAIN down' : ~IsAnswer(i)'
        PROVE  Converges(K, o, 0)' /\ \A n \in DOMAIN K : ~Gone(K[n].id)'
    <3>1. Converges(L, o, 0) /\ \A n \in DOMAIN L : ~Gone(L[n].id)
      BY <1>1, <2>6, <2>7, <2>9, ListHolds
    <3>2. Converges(L, o, 0)'
      BY <2>5, <2>8, <3>1
    <3>3. ~Visible(m)'
      BY <1>2 DEF Gone, Visible, Exists
    <3>4. Thinned(K, L)' /\ \A n \in DOMAIN K : K[n].id # m /\ Shows(L, K[n].id)
      <4>1. /\ Thinned(Without(L, m), L)'
            /\ \A n \in DOMAIN Without(L, m) : Without(L, m)[n].id # m
                                               /\ Shows(L, Without(L, m)[n].id)
        BY <1>1, <2>8, <3>3, ThinnedNext
      <4> QED
        BY <2>8, <4>1
    <3>5. Converges(K, o, 0)'
      BY <2>8, <3>2, <3>4, ThinnedNext
    <3>6. ASSUME NEW n \in DOMAIN K
          PROVE  ~Gone(K[n].id)'
      <4>1. PICK x : x = K[n].id
        OBVIOUS
      <4>2. PICK i \in DOMAIN L : L[i].id = x
        BY <3>4, <4>1 DEF Shows
      <4>3. x \in MsgIds \ {m} /\ ~Gone(x)
        BY <2>8, <3>1, <3>4, <4>1, <4>2, EntryIds
      <4>4. ~Gone(x)'
        BY <1>2, <4>3 DEF Fades, Gone
      <4> QED
        BY <4>1, <4>4
    <3> QED
      BY <3>5, <3>6
  <2> QED
    BY <2>6, <2>7, <2>8, <2>9, ListNext
<1> QED
  BY <1>3, <1>4 DEF HearInv, TypeOK

\* What the page makes of a list that converges, once it has dropped what ran out.
LEMMA ExpiryConverges ==
  ASSUME TypeOK, NEW L \in Seq(Entry), NEW o, NEW p, Converges(L, o, p),
         NEW K, K = LocalExpiry(L)
  PROVE  Converges(K, o, p) /\ \A n \in DOMAIN K : ~Gone(K[n].id)
<1>1. \A n \in DOMAIN L : rows[L[n].id] # None
  BY DEF Converges, EntriesAreSound
<1> QED
  BY <1>1, LocalExpiryThins, ThinnedConverges

\* After the head of the queue is taken, the rest is as it was.
LEMMA RestIsAsItWas ==
  ASSUME TypeOK, ListInv, Settled,
         UNCHANGED <<rows, calls, crossed, route>>, down # <<>>, down' = Tail(down)
  PROVE  /\ \A i \in DOMAIN down : i = 1 \/ (IsAnswer(i) => \E n \in DOMAIN down' : IsAnswer(n)')
         /\ \A i \in DOMAIN down' : LastAnswer(i)' /\ down'[i].type = "history" =>
              \E V, u : V = down'[i].list /\ u = OldestOf(V) /\ Converges(V, u, i)'
<1>1. /\ Len(down) \in Nat \ {0} /\ DOMAIN down = 1..Len(down)
      /\ \A i \in DOMAIN down' : i + 1 \in DOMAIN down /\ down'[i] = down[i + 1]
      /\ \A i \in DOMAIN down : i # 1 => i - 1 \in DOMAIN down' /\ down'[i - 1] = down[i]
  BY DeliveryShifts
<1>2. \A i \in DOMAIN down' : i \in Nat
  BY EventsShift
<1>3. ASSUME NEW i \in DOMAIN down, i # 1, IsAnswer(i)
      PROVE  \E n \in DOMAIN down' : IsAnswer(n)'
  <2>1. i - 1 \in DOMAIN down' /\ down'[i - 1] = down[i]
    BY <1>1, <1>3
  <2>2. PICK n : n = i - 1
    OBVIOUS
  <2>3. n \in DOMAIN down' /\ down'[n] = down[i]
    BY <2>1, <2>2
  <2>4. IsAnswer(n)'
    BY <1>3, <2>3 DEF IsAnswer
  <2> QED
    BY <2>3, <2>4
<1>4. ASSUME NEW i \in DOMAIN down', LastAnswer(i)', down'[i].type = "history"
      PROVE  \E V, u : V = down'[i].list /\ u = OldestOf(V) /\ Converges(V, u, i)'
  <2>1. PICK q : q = i + 1
    OBVIOUS
  <2>2. i \in Nat /\ q \in DOMAIN down /\ down'[i] = down[q]
    BY <1>1, <1>2, <2>1
  <2>3. ASSUME NEW n \in DOMAIN down, n > q
        PROVE  ~IsAnswer(n)
    <3>1. n - 1 \in DOMAIN down' /\ n - 1 > i /\ down'[n - 1] = down[n]
      BY <1>1, <2>1, <2>2, <2>3
    <3> QED
      BY <1>4, <3>1 DEF LastAnswer, IsAnswer
  <2>4. LastAnswer(q)
    BY <1>4, <2>2, <2>3 DEF LastAnswer, IsAnswer
  <2>5. PICK V, u : V = down[q].list /\ u = OldestOf(V)
    OBVIOUS
  <2>6. Converges(V, u, i + 1)
    BY <1>4, <2>1, <2>2, <2>4, <2>5, ListHolds
  <2>7. Converges(V, u, i)'
    BY <2>2, <2>6, ShiftConverges
  <2> QED
    BY <2>2, <2>5, <2>7
<1> QED
  BY <1>3, <1>4

\* The list that the page shows after it took the first event.
LEMMA TakenConverges ==
  ASSUME TypeOK, UNCHANGED <<rows, calls, crossed, route>>, down # <<>>, down' = Tail(down),
         NEW L \in Seq(Entry), NEW o, Converges(L, o, 1), NEW K, K = LocalExpiry(L)
  PROVE  Converges(K, o, 0)' /\ \A n \in DOMAIN K : ~Gone(K[n].id)'
<1>1. Converges(K, o, 0 + 1) /\ \A n \in DOMAIN K : ~Gone(K[n].id)
  BY ExpiryConverges
<1>2. Converges(K, o, 0)'
  BY <1>1, ShiftConverges
<1> QED
  BY <1>1, <1>2 DEF Gone

LEMMA ListDelivers ==
  ASSUME HearInv, ListInv, DeliverChange \/ DeliverHistory \/ DeliverError
  PROVE  ListInv'
<1>1. /\ TypeOK /\ UNCHANGED <<conn, rows, calls, crossed, joins, route, chatId>>
      /\ down # <<>> /\ down' = Tail(down)
      /\ UNCHANGED <<hasty, stranded>>
  BY DEF DeliverChange, DeliverHistory, DeliverError, HearInv, server, view, ghosts
<1> SUFFICES ASSUME Settled
             PROVE  ListInv'
  BY <1>1 DEF ListInv, NoJoin, Settled
<1>2. Len(down) \in Nat \ {0} /\ DOMAIN down = 1..Len(down) /\ Head(down) = down[1] /\ 1 \in DOMAIN down
  BY <1>1, DeliveryShifts
<1>3. /\ \A i \in DOMAIN down : i = 1 \/ (IsAnswer(i) => \E n \in DOMAIN down' : IsAnswer(n)')
      /\ \A i \in DOMAIN down' : LastAnswer(i)' /\ down'[i].type = "history" =>
           \E V, u : V = down'[i].list /\ u = OldestOf(V) /\ Converges(V, u, i)'
  BY <1>1, RestIsAsItWas
<1>4. PICK K, u : K = list' /\ u = oldest'
  OBVIOUS
<1>5. ASSUME filled' = "yes", ~overtaken', \A i \in DOMAIN down' : ~IsAnswer(i)'
      PROVE  Converges(K, u, 0)' /\ \A n \in DOMAIN K : ~Gone(K[n].id)'
  <2>1. \A i \in DOMAIN down : i = 1 \/ ~IsAnswer(i)
    BY <1>3, <1>5
  <2>2. CASE DeliverChange
    <3>1. /\ down[1].type \notin {"history", "error"}
          /\ K = LocalExpiry(Changed(list, down[1])) /\ u = oldest /\ filled = "yes"
          /\ ~overtaken
      BY <1>2, <1>4, <1>5, <2>2 DEF DeliverChange, ghosts
    <3>2. Converges(list, oldest, 0) /\ list \in Seq(Entry) /\ down[1] \in Event
      BY <1>1, <1>2, <2>1, <3>1, ListHolds, ListLengths, EventIds DEF IsAnswer
    <3>3. PICK L : L = Changed(list, down[1])
      OBVIOUS
    <3>4. L \in Seq(Entry) /\ Applied(L, list, down[1])
      BY <3>1, <3>2, <3>3, ChangedTyped, ChangeApplies
    <3>5. Converges(L, oldest, 1)
      <4>1. 0 \in Nat /\ 1 = 0 + 1
        OBVIOUS
      <4> QED
        BY <1>1, <1>2, <3>2, <3>4, <4>1, AppliedConverges
    <3> QED
      BY <1>1, <3>1, <3>3, <3>4, <3>5, TakenConverges
  <2>3. CASE DeliverHistory
    <3>1. PICK L : L = down[1].list
      OBVIOUS
    <3>2. down[1].type = "history" /\ K = LocalExpiry(L) /\ u = OldestOf(L)
      BY <1>2, <1>4, <2>3, <3>1 DEF DeliverHistory, OldestOf
    <3>3. LastAnswer(1)
      BY <1>2, <2>1, <3>2 DEF LastAnswer, IsAnswer
    <3>4. Converges(L, u, 1) /\ L \in Seq(Entry)
      BY <1>1, <1>2, <3>1, <3>2, <3>3, ListHolds, ListLengths
    <3> QED
      BY <1>1, <3>2, <3>4, TakenConverges
  <2>4. CASE DeliverError
    <3>1. down[1].type = "error" /\ filled' = IF down[1].chat = route THEN "error" ELSE filled
      BY <1>2, <2>4 DEF DeliverError
    <3>2. LastAnswer(1)
      BY <1>2, <2>1, <3>1 DEF LastAnswer, IsAnswer
    <3>3. conn = "up"
      BY <1>1 DEF HearInv, OfflineIsEmpty, TypeOK
    <3>4. down[1].chat = route
      BY <1>2, <3>2, <3>3, RestingHears
    <3> QED
      BY <1>5, <3>1, <3>4
  <2> QED
    BY <2>2, <2>3, <2>4
<1> QED
  BY <1>3, <1>4, <1>5, ListNext

\* A history or an error is sent to the page.
LEMMA ListAnswers ==
  ASSUME HearInv, WriteInv, ReadInv, NEW j \in JoinIds, EmitHistory(j) \/ HistoryFails(j)
  PROVE  ListInv'
<1>1. TypeOK /\ UNCHANGED <<rows, calls, crossed, route, chatId, hasty, filled>>
      /\ joins[j] # Idle
  BY DEF HearInv, EmitHistory, HistoryFails, server, view, ghosts
<1> SUFFICES ASSUME ~hasty, chatId = route
             PROVE  ListInv'
  BY <1>1 DEF ListInv, Settled
<1>2. PICK c, V : c = joins[j].chat /\ V = joins[j].val
  OBVIOUS
<1>3. c = route /\ V \in Seq(Entry) /\ c \in Chats
  BY <1>1, <1>2, JoinFields DEF HearInv, OneRoomAtATime
<1> DEFINE h == [type |-> "history", chat |-> c, list |-> V]
           f == [type |-> "error", chat |-> c]
<1>4. h \in Event /\ f \in Event
  BY <1>3 DEF Event
<1>5. h.type = "history" /\ h.list = V /\ f.type = "error"
  OBVIOUS
<1>6. \/ down' = Append(down, h) /\ joins[j].at = "emit"
      \/ down' = Append(down, f)
  BY <1>2 DEF EmitHistory, HistoryFails
<1> HIDE DEF h, f
<1>7. PICK e \in Event : /\ down' = Append(down, e) /\ e.type \in {"history", "error"}
                         /\ e.type = "history" => e.list = V /\ joins[j].at = "emit"
  BY <1>4, <1>5, <1>6
<1>8. PICK z : z = Len(down) + 1
  OBVIOUS
<1>9. /\ z \in Nat /\ DOMAIN down' = DOMAIN down \cup {z} /\ down'[z] = e
      /\ \A i \in DOMAIN down : i \in Nat /\ i < z
  BY <1>1, <1>7, <1>8, MoreEvents
<1>10. IsAnswer(z)' /\ z \in DOMAIN down'
  BY <1>7, <1>9 DEF IsAnswer
<1>11. ASSUME NEW i \in DOMAIN down', LastAnswer(i)', down'[i].type = "history"
       PROVE  \E W, u : W = down'[i].list /\ u = OldestOf(W) /\ Converges(W, u, i)'
  <2>1. i = z
    BY <1>9, <1>10, <1>11 DEF LastAnswer
  <2>2. down'[i].list = V /\ joins[j].at = "emit"
    BY <1>7, <1>9, <1>11, <2>1
  <2>3. Snapshot(V, MaxMsgs + 1, route) /\ Newer(V, route)
    <3>1. Snapshot(V, MaxMsgs + 1, c) /\ Newer(V, c)
      BY <1>1, <1>2, <2>2 DEF ReadInv
    <3> QED
      BY <1>3, <3>1
  <2>4. \A n \in DOMAIN down' : ~(n > i)
    BY <1>9, <2>1
  <2>5. PICK u : u = OldestOf(V)
    OBVIOUS
  <2>6. Converges(V, u, i)'
    <3>1. Converges(V, OldestOf(V), i)'
      BY <1>1, <1>3, <2>3, <2>4, HistoryConverges
    <3>2. OldestOf(V)' = u
      BY <2>5 DEF OldestOf
    <3> QED
      BY <3>1, <3>2, Zenon DEF Converges, EventsAreSound, EntriesAreSound, NothingOlder,
         NothingMissing, NothingRevived, BodiesAgree, LikesAgree
  <2> QED
    BY <2>2, <2>5, <2>6
<1>12. PICK K, u : K = list' /\ u = oldest'
  OBVIOUS
<1> QED
  BY <1>10, <1>11, <1>12, ListNext

LEMMA ListGrows ==
  ASSUME HearInv, HearInv', ReadInv, ListInv, NEW p \in PageIds, OlderArrives(p)
  PROVE  ListInv'
<1>1. /\ TypeOK /\ UNCHANGED <<conn, rows, calls, crossed, down, joins, route, chatId, filled>>
      /\ UNCHANGED <<hasty, stranded>>
      /\ pages[p] # Idle /\ pages[p].at = "apply"
  BY DEF HearInv, OlderArrives, server, link
<1>0. overtaken' = (overtaken \/ (pages[p].val # <<>> /\ pages[p].before # oldest))
  BY DEF OlderArrives
<1> SUFFICES ASSUME Settled
             PROVE  ListInv'
  BY <1>1 DEF ListInv, NoJoin, Settled
<1>2. PICK V, L, o : V = pages[p].val /\ L = list /\ o = oldest
  OBVIOUS
<1>3. /\ V \in Seq(Entry) /\ L \in Seq(Entry) /\ pages[p].chat = route
      /\ pages[p].before \in MsgIds
  <2>1. pages[p].chat = chatId /\ chatId = route
    BY <1>1 DEF HearInv, OnePageAtATime, Settled
  <2> QED
    BY <1>1, <1>2, <2>1, PageFields, ListLengths
<1>4. Snapshot(V, pages[p].before, route)
  <2>1. Snapshot(pages[p].val, pages[p].before, pages[p].chat)
    BY <1>1 DEF ReadInv
  <2> QED
    BY <1>2, <1>3, <2>1
<1>5. PICK u, K : u = (IF V = <<>> THEN o ELSE V[1].id) /\ K = LocalExpiry(V \o L)
  OBVIOUS
<1>6. K = list' /\ u = oldest'
  BY <1>2, <1>5 DEF OlderArrives
<1>7. /\ \A op, n : CallFor(op, n)' <=> CallFor(op, n)
      /\ \A n : Counting(n)' <=> Counting(n)
      /\ \A c : ClearingNow(c)' <=> ClearingNow(c)
  BY <1>1 DEF CallFor, Counting, ClearingNow, At, Open
<1>8. ASSUME filled' = "yes", ~overtaken', \A i \in DOMAIN down' : ~IsAnswer(i)'
      PROVE  Converges(K, u, 0)' /\ \A n \in DOMAIN K : ~Gone(K[n].id)'
  <2>1. \A i \in DOMAIN down : ~IsAnswer(i)
    BY <1>1, <1>8 DEF IsAnswer
  <2>7. ~overtaken /\ (V = <<>> \/ pages[p].before = o)
    BY <1>0, <1>2, <1>8
  <2>2. Converges(L, o, 0) /\ \A n \in DOMAIN L : ~Gone(L[n].id)
    BY <1>1, <1>2, <1>8, <2>1, <2>7, ListHolds
  <2>3. V \o L \in Seq(Entry) /\ 0 \in Nat
    BY <1>3
  <2>4. Converges(V \o L, u, 0)
    <3>1. CASE V = <<>>
      <4>1. V \o L = L /\ u = o
        BY <1>3, <1>5, <3>1
      <4> QED
        BY <2>2, <4>1
    <3>2. CASE pages[p].before = o
      BY <1>1, <1>3, <1>4, <1>5, <2>2, <2>3, <3>2, OlderConverges
    <3> QED
      BY <2>7, <3>1, <3>2
  <2>5. Converges(K, u, 0) /\ \A n \in DOMAIN K : ~Gone(K[n].id)
    BY <1>1, <1>5, <2>3, <2>4, ExpiryConverges
  <2>6. Converges(K, u, 0)'
    BY <1>1, <1>7, <2>5, NothingChanges
  <2> QED
    BY <1>1, <2>5, <2>6 DEF Gone
<1>9. ASSUME NEW i \in DOMAIN down', LastAnswer(i)', down'[i].type = "history"
      PROVE  \E W, w : W = down'[i].list /\ w = OldestOf(W) /\ Converges(W, w, i)'
  <2>1. i \in DOMAIN down /\ LastAnswer(i) /\ down'[i] = down[i]
    BY <1>1, <1>9 DEF LastAnswer, IsAnswer
  <2>2. PICK W, w : W = down[i].list /\ w = OldestOf(W)
    OBVIOUS
  <2>3. Converges(W, w, i)
    BY <1>9, <2>1, <2>2, ListHolds
  <2>4. Converges(W, w, i)'
    BY <1>1, <1>7, <2>3, NothingChanges
  <2> QED
    BY <2>1, <2>2, <2>4
<1> QED
  BY <1>6, <1>8, <1>9, ListNext

LEMMA ListStep ==
  ASSUME HearInv, HearInv', WriteInv, ReadInv, ListInv, [Next]_vars
  PROVE  ListInv'
<1>0. TypeOK /\ OfflineIsEmpty /\ OneRoomAtATime
  BY DEF HearInv
<1>1. ASSUME NEW k \in CallIds, WriterStep(k)
      PROVE  ListInv'
  BY <1>1, ListWriters
<1>2. ASSUME NEW m \in MsgIds, Expire(m)
      PROVE  ListInv'
  BY <1>2, ListExpires
<1>3. CASE Purge
  BY <1>3, ListPurge
<1>4. ASSUME NEW j \in JoinIds, EnterRoom(j) \/ ReadHistory(j)
      PROVE  ListInv'
  <2>1. joins'[j] # Idle
    <3>1. joins[j] # Idle
      BY <1>4 DEF EnterRoom, ReadHistory
    <3>2. PICK at \in {"read", "emit"}, v \in Seq(Entry) :
            joins' = [joins EXCEPT ![j] = [chat |-> joins[j].chat, at |-> at, val |-> v]]
      <4>1. Messages(joins[j].chat, MaxMsgs + 1) \in Seq(Entry)
        BY <1>0, BoundsAssumption, MessagesAreSnapshot
      <4> QED
        BY <1>0, <1>4, <3>1, <4>1, EnterRoomEffect, ReadHistoryEffect, JoinFields
    <3>3. [chat |-> joins[j].chat, at |-> at, val |-> v] # Idle
      BY <1>0, <3>1, JoinFields, NullsAssumption
    <3> QED
      BY <1>0, <3>2, <3>3 DEF TypeOK
  <2> QED
    BY <2>1 DEF ListInv, NoJoin, Settled
<1>5. ASSUME NEW j \in JoinIds, EmitHistory(j) \/ HistoryFails(j)
      PROVE  ListInv'
  BY <1>5, ListAnswers
<1>6. ASSUME NEW c \in Chats, Navigate(c)
      PROVE  ListInv'
  <2>1. hasty' = (hasty \/ resolves # {} \/ (chatId # None /\ Awaited(chatId)))
    BY <1>6 DEF Navigate
  <2>2. ~hasty' => ~hasty /\ resolves = {}
    BY <2>1
  <2>3. UNCHANGED <<chatId, stranded>> /\ c # route /\ route' = c
    BY <1>6 DEF Navigate
  <2>4. ~hasty' /\ ~stranded => chatId' # route'
    BY <1>0, <2>2, <2>3 DEF OneRoomAtATime
  <2> QED
    BY <2>3, <2>4 DEF ListInv, Settled
<1>7. ASSUME NEW c \in Chats, Joining(c)
      PROVE  ListInv'
  <2>1. PICK j \in JoinIds : joins'[j] = [chat |-> c, at |-> "enter", val |-> <<>>]
    BY <1>0, <1>7, JoinTyped
  <2>2. [chat |-> c, at |-> "enter", val |-> <<>>] \in Join
    BY DEF Join
  <2>3. joins'[j] # Idle
    BY <2>1, <2>2, NullsAssumption
  <2> QED
    BY <2>3 DEF ListInv, NoJoin, Settled
<1>8. ASSUME NEW c \in Chats, Resolve(c)
      PROVE  ListInv'
  <2>1. /\ c \in resolves /\ conn' = conn
        /\ IF c # chatId /\ conn = "up" THEN Joining(c) ELSE UNCHANGED joins
    BY <1>8 DEF Resolve
  <2>3. CASE conn = "down"
    BY <2>1, <2>3, ListOffline
  <2>4. CASE c # chatId /\ conn = "up"
    BY <1>7, <2>1, <2>4
  <2>5. CASE c = chatId
    \* The room that the page has: nothing is left and nothing joined.
    <3>1. /\ UNCHANGED <<rows, calls, down, route, list, oldest, filled, crossed, overtaken>>
          /\ chatId' = c
      BY <1>8 DEF Resolve, server
    <3>2. hasty' = hasty
      <4>1. hasty' = (hasty \/ (c # chatId /\ chatId # None /\ Awaited(chatId)))
        BY <1>8 DEF Resolve
      <4>2. hasty \in BOOLEAN
        BY <1>0 DEF TypeOK
      <4> QED
        BY <2>5, <4>1, <4>2
    <3>3. stranded' = stranded
      <4>1. stranded' = (stranded /\ c = chatId)
        BY <1>8 DEF Resolve
      <4>2. stranded \in BOOLEAN
        BY <1>0 DEF TypeOK
      <4> QED
        BY <2>5, <4>1, <4>2
    <3> QED
      BY <2>1, <2>5, <3>1, <3>2, <3>3, ListWaits
  <2> QED
    BY <1>0, <2>3, <2>4, <2>5 DEF TypeOK
<1>9. CASE DeliverChange \/ DeliverHistory \/ DeliverError
  BY <1>9, ListDelivers
<1>10. ASSUME NEW p \in PageIds, LoadOlder(p) \/ ReadOlder(p) \/ OlderFails(p)
       PROVE  ListInv'
  <2>1. /\ UNCHANGED <<rows, calls, crossed, down, joins, route, chatId, list, oldest, filled>>
        /\ UNCHANGED <<hasty, stranded, overtaken>>
    BY <1>10 DEF LoadOlder, ReadOlder, OlderFails, server, link, ghosts
  <2> QED
    BY <2>1, ListWaits
<1>11. ASSUME NEW p \in PageIds, OlderArrives(p)
       PROVE  ListInv'
  BY <1>11, ListGrows
<1>12. CASE Disconnect \/ Restart
  <2>1. conn' = "down"
    BY <1>12 DEF Disconnect, Restart, Lost
  <2> QED
    BY <2>1, ListOffline
<1>13. CASE Reconnect
  <2>1. /\ UNCHANGED <<route, chatId>>
        /\ IF chatId # None THEN Joining(chatId) ELSE UNCHANGED joins
    BY <1>13 DEF Reconnect, view
  <2>2. CASE chatId = None
    BY <1>0, <2>1, <2>2, NullsAssumption DEF ListInv, Settled, TypeOK
  <2>3. CASE chatId # None
    BY <1>0, <1>7, <2>1, <2>3 DEF TypeOK
  <2> QED
    BY <2>2, <2>3
<1>14. CASE UNCHANGED vars
  <2>1. /\ UNCHANGED <<rows, calls, crossed, down, joins, route, chatId, list, oldest, filled>>
        /\ UNCHANGED <<hasty, stranded, overtaken>>
    BY <1>14 DEF vars, server, link, view, ghosts
  <2> QED
    BY <2>1, ListWaits
<1>15. ASSUME NEW j \in JoinIds, JoinFails(j)
       PROVE  ListInv'
  BY <1>15 DEF JoinFails, ListInv, Settled
<1>16. ASSUME NEW c \in Chats, ResolveFails(c)
       PROVE  ListInv'
  BY <1>16 DEF ResolveFails, ListInv, Settled
<1> QED
  BY <1>1, <1>2, <1>3, <1>4, <1>5, <1>6, <1>8, <1>9, <1>10, <1>11, <1>12, <1>13, <1>14, <1>15, <1>16,
     Zenon DEF Next, Writers, WriterStep

\* When every call has ended and every answer arrived, the page shows each
\* message of its room once, as the database has it, and no other: whatever the
\* order in which writes, announcements, histories, pages of older messages,
\* expiries, failures, lost connections and restarts happened.  The messages and
\* the pages that RestingListMatches excepts are excepted here.
THEOREM ListMatches == Spec => []RestingListMatches
<1> DEFINE Inv == HearInv /\ WriteInv /\ ReadInv /\ ListInv
<1>1. Init => Inv
  <2> SUFFICES ASSUME Init
               PROVE  Inv
    OBVIOUS
  <2>1. TypeOK
    BY InitTyped
  <2>2. OfflineIsEmpty /\ OneRoomAtATime /\ OnePageAtATime /\ RoomIsJoined
    BY NullsAssumption DEF Init, OfflineIsEmpty, OneRoomAtATime, OnePageAtATime, RoomIsJoined, NoJoin
  <2>3. \A k \in CallIds : ~Open(k)
    BY DEF Init, Open
  <2>4. \A m \in MsgIds : rows[m] # None <=> m <= Earlier
    <3>1. PICK c \in [1..Earlier -> Chats] :
            rows = [m \in MsgIds |-> IF m <= Earlier THEN NewRow(c[m], "no") ELSE None]
      BY DEF Init
    <3>2. ASSUME NEW m \in MsgIds, m <= Earlier
          PROVE  rows[m] # None
      <4>1. c[m] \in Chats /\ 0 \in 0..MaxCalls
        BY <3>2, BoundsAssumption DEF MsgIds
      <4>2. NewRow(c[m], "no") \in Row
        BY <4>1 DEF NewRow, Row
      <4> QED
        BY <3>1, <3>2, <4>2, NullsAssumption
    <3> QED
      BY <3>1, <3>2
  <2>5. WriteInv
    <3>1. RowsInOrder
      BY <2>4, BoundsAssumption DEF RowsInOrder, MsgIds
    <3> QED
      BY <2>3, <3>1 DEF WriteInv, CallsKnowTheirRow, CallsAreCurrent, DeletesAreDone, CallFor,
         ClearingNow, At
  <2>6. ReadInv
    BY DEF Init, ReadInv
  <2>7. ListInv
    BY DEF Init, ListInv
  <2> QED
    BY <2>1, <2>2, <2>5, <2>6, <2>7 DEF HearInv
<1>2. Inv /\ [Next]_vars => Inv'
  <2> SUFFICES ASSUME HearInv, WriteInv, ReadInv, ListInv, [Next]_vars
               PROVE  Inv'
    OBVIOUS
  <2>1. TypeOK /\ TypeOK'
    BY StepTyped DEF HearInv
  <2>2. HearInv'
    BY <2>1, HearStep DEF HearInv
  <2>3. WriteInv' /\ ReadInv'
    BY <2>1, WriteStep, ReadStep
  <2>4. ListInv'
    BY <2>2, ListStep
  <2> QED
    BY <2>2, <2>3, <2>4
<1>3. Inv => RestingListMatches
  <2> SUFFICES ASSUME HearInv, WriteInv, ListInv, Quiet, filled = "yes",
                      ~hasty, ~stranded, ~overtaken, NEW m \in MsgIds \ crossed
               PROVE  IF Due(m) THEN \E i \in DOMAIN list : Copies(m) = {i} /\ list[i] = EntryOf(m)
                                ELSE Copies(m) = {}
    BY DEF RestingListMatches
  <2>1. Settled /\ down = <<>> /\ DOMAIN down = {} /\ TypeOK
    BY DEF Quiet, NoJoin, HearInv, OneRoomAtATime, Settled
  <2>2. Converges(list, oldest, 0) /\ \A n \in DOMAIN list : ~Gone(list[n].id)
    BY <2>1, ListHolds
  <2>3. \A op, n : ~CallFor(op, n) /\ ~Counting(n) /\ ~ClearingNow(n)
    BY DEF Quiet, CallFor, Counting, ClearingNow, At
  <2>4. /\ \A n : ~NewSoon(0, n) /\ ~RemovedAfter(0, n)
        /\ \A t, n : ~After(0, t, n)
    BY <2>1, <2>3 DEF NewSoon, NewAfter, RemovedAfter, After, ClearAfter
  <2>5. \A n \in DOMAIN list : list[n] \in Entry /\ list[n].id \in MsgIds
    BY <2>1, ListLengths, EntryIds
  <2>6. CASE Shows(list, m)
    <3>1. PICK i \in DOMAIN list : list[i].id = m
      BY <2>6 DEF Shows
    <3>2. \A n \in DOMAIN list : list[n].id = m => n = i
      BY <2>2, <3>1 DEF Converges, EntriesAreSound
    <3>3. Copies(m) = {i}
      BY <3>1, <3>2 DEF Copies
    <3>4. rows[m] # None /\ rows[m].chat = route /\ ~Gone(m)
      BY <2>2, <3>1 DEF Converges, EntriesAreSound
    <3>5. ~rows[m].deleted
      BY <2>2, <2>4, <2>6, <3>4 DEF Converges, NothingRevived
    <3>6. oldest # None => m >= oldest
      <4>1. ASSUME oldest # None
            PROVE  oldest <= m
        BY <2>2, <2>6, <3>4, <4>1 DEF Converges, NothingOlder
      <4> QED
        BY <4>1
    <3>7. Due(m) /\ Exists(m)
      BY <3>4, <3>5, <3>6 DEF Due, Visible, Exists, Gone
    <3>8. list[i].body = rows[m].body
      BY <2>2, <2>3, <2>4, <3>1, <3>4 DEF Converges, BodiesAgree
    <3>9. list[i].liked = rows[m].liked
      BY <2>2, <2>3, <2>4, <3>1, <3>7 DEF Converges, LikesAgree
    <3>10. list[i] = EntryOf(m)
      BY <2>5, <3>1, <3>8, <3>9 DEF EntryOf, Entry
    <3> QED
      BY <3>3, <3>7, <3>10
  <2>7. CASE ~Shows(list, m)
    <3>1. Copies(m) = {}
      BY <2>7 DEF Shows, Copies
    <3>2. ~Due(m)
      <4> SUFFICES ASSUME Due(m)
                   PROVE  FALSE
        OBVIOUS
      <4>1. oldest # None => oldest <= m
        BY DEF Due
      <4> QED
        BY <2>2, <2>4, <2>7, <4>1 DEF Due, Converges, NothingMissing
    <3> QED
      BY <3>1, <3>2
  <2> QED
    BY <2>6, <2>7
<1> QED
  BY <1>1, <1>2, <1>3, PTL DEF Spec

=============================================================================
