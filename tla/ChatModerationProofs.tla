------------------------ MODULE ChatModerationProofs ------------------------
(***************************************************************************)
(* What the moderation of the chat guarantees for any number of calls of a   *)
(* member at once, any limits and any length of time.  Each guarantee has an *)
(* inductive invariant of its own beside the types.                         *)
(***************************************************************************)
EXTENDS ChatModeration, FiniteSetTheorems, SequenceTheorems, TLAPS

-----------------------------------------------------------------------------
(* Types. *)

\* A text is chosen by the time it is weighed.
TextsAreChosen ==
  \A k \in Calls : At(k, "last") \/ At(k, "limits") \/ At(k, "save") => calls[k].text \in Text

TypeInv == TypeOK /\ TextsAreChosen

\* Most steps move one call, out of the phases in which calls meet one another, or
\* before them.
Apart(r) ==
  r # Idle => r.at \notin {"log", "limits", "save"} /\ (r.at = "last" => r.text \in Text)
Moves(k) ==
  \E r \in Call \cup {Idle} : Apart(r) /\ calls' = [calls EXCEPT ![k] = r]

LEMMA CallEnds ==
  ASSUME NEW k \in Calls, End(k)
  PROVE  Moves(k)
BY DEF End, Moves, Apart

LEMMA CallGoes ==
  ASSUME NEW k \in Calls,
         NEW phase \in {"visit", "user", "liftVisit", "lift", "words", "count", "ban"},
         Go(k, phase)
  PROVE  Moves(k)
<1>1. Phase(phase) \in Call /\ Phase(phase).at = phase
  BY DEF Phase, Call
<1> QED
  BY <1>1 DEF Go, Moves, Apart

LEMMA CallIsJudged ==
  ASSUME NEW k \in Calls, NEW active \in BOOLEAN, Judge(k, active)
  PROVE  Moves(k)
<1>1. PICK t \in Text :
        \/ Go(k, "count")
        \/ End(k)
        \/ calls' = [calls EXCEPT ![k] = [Phase("last") EXCEPT !.text = t]]
  BY DEF Judge
<1>2. CASE calls' = [calls EXCEPT ![k] = [Phase("last") EXCEPT !.text = t]]
  <2> DEFINE r == [Phase("last") EXCEPT !.text = t]
  <2>1. r \in Call /\ r.at = "last" /\ r.text = t
    BY DEF Phase, Call
  <2> QED
    BY <1>2, <2>1 DEF Moves, Apart
<1> QED
  BY <1>1, <1>2, CallEnds, CallGoes

LEMMA StepMoves ==
  ASSUME TypeInv, NEW k \in Calls,
         \/ Begin(k) \/ ReadUser(k) \/ LiftBan(k) \/ CachedWords(k) \/ ReadWords(k)
         \/ StoreWords(k) \/ LogViolation(k) \/ ApplyChatBan(k) \/ Save(k) \/ CallFails(k)
  PROVE  Moves(k)
<1>1. CASE Begin(k)
  BY <1>1, CallGoes DEF Begin
<1>2. CASE ReadUser(k)
  BY <1>2, CallGoes, CallEnds DEF ReadUser
<1>3. CASE LiftBan(k)
  BY <1>3, CallGoes, CallEnds DEF LiftBan
<1>4. CASE CachedWords(k)
  BY <1>4, CallIsJudged DEF CachedWords, TypeInv, TypeOK
<1>5. CASE ReadWords(k)
  <2> DEFINE r == [Phase("store") EXCEPT !.val = word]
  <2>1. r \in Call /\ r.at = "store"
    BY DEF Phase, Call, TypeInv, TypeOK
  <2> QED
    BY <1>5, <2>1 DEF ReadWords, Moves, Apart
<1>6. CASE StoreWords(k)
  <2>1. calls[k].val \in BOOLEAN
    BY <1>6 DEF StoreWords, At, TypeInv, TypeOK, Call
  <2> QED
    BY <1>6, <2>1, CallIsJudged DEF StoreWords
<1>7. CASE LogViolation(k)
  BY <1>7, CallGoes, CallEnds DEF LogViolation
<1>8. CASE ApplyChatBan(k) \/ Save(k) \/ CallFails(k)
  BY <1>8, CallEnds DEF ApplyChatBan, Save, CallFails
<1> QED
  BY <1>1, <1>2, <1>3, <1>4, <1>5, <1>6, <1>7, <1>8

LEMMA MovedTypes ==
  ASSUME TypeInv, NEW k \in Calls, Moves(k)
  PROVE  calls' \in [Calls -> {Idle} \cup Call] /\ TextsAreChosen'
BY DEF Moves, Apart, TypeInv, TypeOK, TextsAreChosen, At

LEMMA Remarked ==
  ASSUME TypeInv, NEW marked \in BOOLEAN, NEW r \in Call
  PROVE  /\ [r EXCEPT !.val = marked] \in Call /\ [r EXCEPT !.shared = marked] \in Call
         /\ [r EXCEPT !.val = marked].at = r.at /\ [r EXCEPT !.shared = marked].at = r.at
         /\ [r EXCEPT !.val = marked].text = r.text /\ [r EXCEPT !.shared = marked].text = r.text
BY DEF Call

\* A message to the channel that another one meets is the same message, marked.
LEMMA UnsettledCalls ==
  ASSUME TypeInv
  PROVE  /\ Unsettled \in [Calls -> {Idle} \cup Call]
         /\ \A k \in Calls :
              /\ ~OnItsWay(k) => Unsettled[k] = calls[k]
              /\ OnItsWay(k) => /\ Unsettled[k] \in Call /\ Unsettled[k].val
                                /\ Unsettled[k].at = calls[k].at
                                /\ Unsettled[k].text = calls[k].text
<1>1. ASSUME NEW k \in Calls, OnItsWay(k)
      PROVE  calls[k] \in Call
  BY <1>1 DEF OnItsWay, At, TypeInv, TypeOK
<1>2. ASSUME NEW k \in Calls, OnItsWay(k)
      PROVE  /\ [calls[k] EXCEPT !.val = TRUE] \in Call /\ [calls[k] EXCEPT !.val = TRUE].val
             /\ [calls[k] EXCEPT !.val = TRUE].at = calls[k].at
             /\ [calls[k] EXCEPT !.val = TRUE].text = calls[k].text
  BY <1>1, <1>2 DEF Call
<1>3. \A k \in Calls :
        Unsettled[k] = IF OnItsWay(k) THEN [calls[k] EXCEPT !.val = TRUE] ELSE calls[k]
  BY Zenon DEF Unsettled
<1>4. Unsettled = [k \in Calls |-> Unsettled[k]]
  BY Zenon DEF Unsettled
<1> QED
  BY <1>2, <1>3, <1>4 DEF TypeInv, TypeOK

LEMMA UnsettledSame ==
  ASSUME TypeInv, NEW j \in Calls
  PROVE  \/ Unsettled[j] = calls[j]
         \/ /\ Unsettled[j].at = calls[j].at /\ Unsettled[j].text = calls[j].text
            /\ calls[j] # Idle /\ calls[j].at \in {"limits", "save"} /\ Unsettled[j].val
<1>1. OnItsWay(j) => calls[j] # Idle /\ calls[j].at \in {"limits", "save"}
  BY DEF OnItsWay, At
<1> QED
  BY <1>1, UnsettledCalls

\* What checkConsecutiveGuest leaves of the calls when it lets k pass.
LEMMA AskedCalls ==
  ASSUME TypeInv, NEW k \in Calls, At(k, "last")
  PROVE  /\ Asked(k) \in [Calls -> {Idle} \cup Call]
         /\ Asked(k)[k] \in Call /\ Asked(k)[k].at = "limits" /\ Asked(k)[k].text = calls[k].text
         /\ calls[k].text.channel =>
              /\ Asked(k)[k].val = \E j \in Calls : OnItsWay(j)
              /\ \A j \in Calls \ {k} : Asked(k)[j] = Unsettled[j]
         /\ ~calls[k].text.channel => \A j \in Calls \ {k} : Asked(k)[j] = calls[j]
<1>1. calls[k] \in Call /\ calls[k] # Idle /\ calls[k].text \in Text
  BY DEF At, TypeInv, TypeOK, TextsAreChosen
<1>2. CASE calls[k].text.channel
  <2> DEFINE met == \E j \in Calls : OnItsWay(j)
             r == [calls[k] EXCEPT !.at = "limits", !.val = met]
  <2>1. r \in Call /\ r.at = "limits" /\ r.text = calls[k].text /\ r.val = met
    BY <1>1 DEF Call
  <2>2. Unsettled[k] = calls[k]
    BY UnsettledCalls DEF OnItsWay, At
  <2>3. Asked(k) = [Unsettled EXCEPT ![k] = r]
    BY <1>2, <2>2, UnsettledCalls DEF Asked
  <2> HIDE DEF r
  <2> QED
    BY <1>2, <2>1, <2>3, UnsettledCalls
<1>3. CASE ~calls[k].text.channel
  <2> DEFINE r == [calls[k] EXCEPT !.at = "limits"]
  <2>1. r \in Call /\ r.at = "limits" /\ r.text = calls[k].text
    BY <1>1 DEF Call
  <2>2. Asked(k) = [calls EXCEPT ![k] = r]
    BY <1>3 DEF Asked
  <2> HIDE DEF r
  <2> QED
    BY <1>3, <2>1, <2>2 DEF TypeInv, TypeOK
<1> QED
  BY <1>2, <1>3

\* What the count of a use leaves of the calls.
LEMMA CountedCalls ==
  ASSUME TypeInv, NEW k \in Calls, CountPrior(k)
  PROVE  /\ calls' \in [Calls -> {Idle} \cup Call]
         /\ calls'[k].at = "log" /\ calls'[k].val = logged
         /\ calls'[k].shared = \E i \in Calls : At(i, "log")
         /\ \A j \in Calls \ {k} :
              /\ ~At(j, "log") => calls'[j] = calls[j]
              /\ At(j, "log") => calls'[j].at = "log" /\ calls'[j].shared
<1> DEFINE met == \E i \in Calls : At(i, "log")
           r == [Phase("log") EXCEPT !.val = logged, !.shared = met]
<1>1. r \in Call /\ r.at = "log" /\ r.val = logged /\ r.shared = met
  BY DEF Phase, Call, TypeInv, TypeOK
<1>2. ASSUME NEW j \in Calls, At(j, "log")
      PROVE  /\ [calls[j] EXCEPT !.shared = TRUE] \in Call
             /\ [calls[j] EXCEPT !.shared = TRUE].at = "log"
             /\ [calls[j] EXCEPT !.shared = TRUE].shared
  <2>1. calls[j] \in Call /\ calls[j].at = "log"
    BY <1>2 DEF At, TypeInv, TypeOK
  <2> QED
    BY <2>1 DEF Call
<1>3. calls' = [j \in Calls |->
        IF j = k THEN r
        ELSE IF At(j, "log") THEN [calls[j] EXCEPT !.shared = TRUE] ELSE calls[j]]
  BY Zenon DEF CountPrior, Counted
<1> HIDE DEF r
<1> QED
  BY <1>1, <1>2, <1>3 DEF TypeInv, TypeOK

Sent == [body : {"word", "link"}, old : BOOLEAN]
CallsKeep == calls' \in [Calls -> {Idle} \cup Call] /\ TextsAreChosen'

LEMMA TypeInitial == Init => TypeInv
<1>1. 0 \in 0..MaxTime /\ 0 \in 0..Forever
  BY BoundsAssumption DEF Forever
<1>2. <<>> \in Seq(Sent)
  OBVIOUS
<1> QED
  BY <1>1, <1>2 DEF Init, TypeInv, TypeOK, TextsAreChosen, At, Sent

\* The calls keep their types, and their texts, whatever happens.
LEMMA CallsStep == TypeInv /\ [Next]_vars => CallsKeep
<1> SUFFICES ASSUME TypeInv, [Next]_vars
             PROVE  CallsKeep
  OBVIOUS
<1>1. ASSUME NEW k \in Calls, Moves(k)
      PROVE  CallsKeep
  BY <1>1, MovedTypes DEF CallsKeep
<1>2. ASSUME NEW k \in Calls, CountPrior(k)
      PROVE  CallsKeep
  <2>1. calls' \in [Calls -> {Idle} \cup Call] /\ calls'[k].at = "log"
    BY <1>2, CountedCalls
  <2>2. \A j \in Calls \ {k} : calls'[j] = calls[j] \/ calls'[j].at = "log"
    BY <1>2, CountedCalls
  <2> QED
    BY <2>1, <2>2 DEF CallsKeep, TypeInv, TextsAreChosen, At
<1>3. ASSUME NEW k \in Calls, CheckConsecutive(k)
      PROVE  CallsKeep
  <2>1. CASE End(k)
    BY <1>1, <2>1, CallEnds
  <2>2. CASE calls' = Asked(k)
    <3>1. At(k, "last")
      BY <1>3 DEF CheckConsecutive
    <3>2. \A j \in Calls \ {k} : calls'[j] = calls[j] \/ calls'[j] = Unsettled[j]
      BY <2>2, <3>1, AskedCalls
    <3>3. ASSUME NEW j \in Calls \ {k}
          PROVE  \/ calls'[j] = calls[j]
                 \/ calls'[j].at = calls[j].at /\ calls'[j].text = calls[j].text /\ calls[j] # Idle
      BY <3>2, UnsettledSame
    <3>4. calls[k].text \in Text /\ calls'[k].text \in Text
      BY <2>2, <3>1, AskedCalls DEF TypeInv, TextsAreChosen
    <3> QED
      BY <2>2, <3>1, <3>3, <3>4, AskedCalls DEF CallsKeep, TypeInv, TextsAreChosen, At
  <2> QED
    BY <1>3, <2>1, <2>2 DEF CheckConsecutive
<1>4. ASSUME NEW k \in Calls, CheckAndTrack(k)
      PROVE  CallsKeep
  <2>1. CASE End(k)
    BY <1>1, <2>1, CallEnds
  <2>2. CASE calls' = [calls EXCEPT ![k].at = "save"]
    <3>1. calls[k] \in Call /\ calls[k].text \in Text
      BY <1>4 DEF CheckAndTrack, At, TypeInv, TypeOK, TextsAreChosen
    <3> DEFINE r == [calls[k] EXCEPT !.at = "save"]
    <3>2. r \in Call /\ r.text = calls[k].text
      BY <3>1 DEF Call
    <3>3. calls' = [calls EXCEPT ![k] = r]
      BY <2>2
    <3> HIDE DEF r
    <3> QED
      BY <3>1, <3>2, <3>3 DEF CallsKeep, TypeInv, TypeOK, TextsAreChosen, At
  <2> QED
    BY <1>4, <2>1, <2>2 DEF CheckAndTrack
<1>5. ASSUME calls' = Unsettled
      PROVE  CallsKeep
  <2>1. \A j \in Calls :
          \/ calls'[j] = calls[j]
          \/ calls'[j].at = calls[j].at /\ calls'[j].text = calls[j].text /\ calls[j] # Idle
    BY <1>5, UnsettledSame
  <2> QED
    BY <1>5, <2>1, UnsettledCalls DEF CallsKeep, TypeInv, TextsAreChosen, At
<1>6. CASE UNCHANGED calls
  BY <1>6 DEF CallsKeep, TypeInv, TypeOK, TextsAreChosen, At
<1>7. CASE Restart
  BY <1>7 DEF Restart, CallsKeep, TextsAreChosen, At
<1>8. CASE LastChanges
  BY <1>5, <1>6, <1>8 DEF LastChanges
<1>9. CASE \/ BanUser \/ SuspendUser \/ UnbanUser \/ LiftExpiredBans \/ ChangeWord
           \/ InvalidateBannedWordsCache \/ CacheExpires \/ OtherWrites \/ Age \/ Tick
           \/ UNCHANGED vars
  BY <1>6, <1>9 DEF BanUser, SuspendUser, UnbanUser, LiftExpiredBans, ChangeWord,
       InvalidateBannedWordsCache, CacheExpires, OtherWrites, Age, Tick, vars
<1> QED
  BY <1>1, <1>2, <1>3, <1>4, <1>7, <1>8, <1>9, StepMoves DEF Next

\* What a step changes besides the calls: one of these groups, or nothing.
RowStep ==
  \/ \E k \in Calls : LiftBan(k) \/ ApplyChatBan(k)
  \/ BanUser \/ SuspendUser \/ UnbanUser \/ LiftExpiredBans
WordStep ==
  (\E k \in Calls : StoreWords(k)) \/ ChangeWord \/ InvalidateBannedWordsCache \/ CacheExpires
RecentStep == (\E k \in Calls : CheckAndTrack(k)) \/ Age
LastStep == (\E k \in Calls : Save(k)) \/ OtherWrites \/ LastChanges

LEMMA Groups ==
  ASSUME [Next]_vars
  PROVE  \/ UNCHANGED <<now, row, words, logged, flow>>
         \/ RowStep /\ UNCHANGED <<now, words, logged, flow>>
         \/ WordStep /\ UNCHANGED <<now, row, logged, flow>>
         \/ (\E k \in Calls : LogViolation(k)) /\ UNCHANGED <<now, row, words, flow>>
         \/ RecentStep /\ UNCHANGED <<now, row, words, logged, last>>
         \/ LastStep /\ UNCHANGED <<now, row, words, logged, recent>>
         \/ Tick /\ UNCHANGED <<row, words, logged, flow, calls>>
         \/ Restart /\ UNCHANGED <<now, row, word, logged, last>>
<1>1. ASSUME NEW k \in Calls,
             \/ Begin(k) \/ ReadUser(k) \/ CachedWords(k) \/ ReadWords(k) \/ CountPrior(k)
             \/ CheckConsecutive(k) \/ CallFails(k)
      PROVE  UNCHANGED <<now, row, words, logged, flow>>
  BY <1>1 DEF Begin, ReadUser, CachedWords, ReadWords, CountPrior, CheckConsecutive, CallFails
<1>2. ASSUME NEW k \in Calls, LiftBan(k) \/ ApplyChatBan(k)
      PROVE  UNCHANGED <<now, words, logged, flow>>
  BY <1>2 DEF LiftBan, ApplyChatBan
<1>3. CASE BanUser \/ SuspendUser \/ UnbanUser \/ LiftExpiredBans
  BY <1>3 DEF BanUser, SuspendUser, UnbanUser, LiftExpiredBans, RowStep
<1>4. ASSUME NEW k \in Calls, StoreWords(k)
      PROVE  UNCHANGED <<now, row, logged, flow>>
  BY <1>4 DEF StoreWords
<1>5. CASE ChangeWord \/ InvalidateBannedWordsCache \/ CacheExpires
  BY <1>5 DEF ChangeWord, InvalidateBannedWordsCache, CacheExpires, WordStep
<1>6. ASSUME NEW k \in Calls, LogViolation(k)
      PROVE  UNCHANGED <<now, row, words, flow>>
  BY <1>6 DEF LogViolation
<1>7. ASSUME NEW k \in Calls, CheckAndTrack(k)
      PROVE  UNCHANGED <<now, row, words, logged, last>>
  BY <1>7 DEF CheckAndTrack
<1>8. CASE Age
  BY <1>8 DEF Age, RecentStep
<1>9. ASSUME NEW k \in Calls, Save(k)
      PROVE  UNCHANGED <<now, row, words, logged, recent>>
  BY <1>9 DEF Save
<1>10. CASE OtherWrites \/ LastChanges
  BY <1>10 DEF OtherWrites, LastChanges, LastStep
<1>11. CASE Tick \/ Restart
  BY <1>11 DEF Tick, Restart
<1>12. CASE UNCHANGED vars
  BY <1>12 DEF vars
<1> QED
  BY <1>1, <1>2, <1>3, <1>4, <1>5, <1>6, <1>7, <1>8, <1>9, <1>10, <1>11, <1>12
     DEF Next, RowStep, WordStep, RecentStep, LastStep

\* recentMessages stays a list of messages.
LEMMA RecentStays == TypeInv /\ RecentStep => recent' \in Seq(Sent)
<1> SUFFICES ASSUME TypeInv, RecentStep
             PROVE  recent' \in Seq(Sent)
  OBVIOUS
<1>1. recent \in Seq(Sent)
  BY DEF TypeInv, TypeOK, Sent
<1>2. ASSUME NEW k \in Calls, CheckAndTrack(k)
      PROVE  recent' \in Seq(Sent)
  <2> DEFINE e == [body |-> calls[k].text.body, old |-> FALSE]
  <2>1. calls[k].text \in Text
    BY <1>2 DEF CheckAndTrack, TypeInv, TextsAreChosen
  <2>2. e \in Sent
    BY <2>1 DEF Text, Sent
  <2>3. recent' = recent \/ recent' = Append(recent, e)
    BY <1>2 DEF CheckAndTrack
  <2> HIDE DEF e
  <2> QED
    BY <1>1, <2>2, <2>3
<1>3. CASE Age
  <2>1. CASE recent' = Tail(recent)
    BY <1>1, <1>3, <2>1 DEF Age
  <2>2. ASSUME NEW i \in DOMAIN recent, recent' = [recent EXCEPT ![i].old = TRUE]
        PROVE  recent' \in Seq(Sent)
    <3> DEFINE e == [recent[i] EXCEPT !.old = TRUE]
    <3>1. recent[i] \in Sent
      BY <1>1
    <3>2. e \in Sent
      BY <3>1 DEF Sent
    <3>3. recent' = [recent EXCEPT ![i] = e]
      BY <2>2
    <3> HIDE DEF e
    <3> QED
      BY <1>1, <3>2, <3>3
  <2>3. CASE recent' = recent
    BY <1>1, <2>3
  <2>4. ASSUME NEW i, recent' = [recent EXCEPT ![i].old = TRUE]
        PROVE  recent' \in Seq(Sent)
    <3>1. i \notin DOMAIN recent => recent' = recent
      BY <1>1, <2>4
    <3> QED
      BY <2>2, <2>3, <2>4, <3>1
  <2> QED
    BY <1>3, <2>1, <2>4 DEF Age
<1> QED
  BY <1>2, <1>3 DEF RecentStep

LEMMA TypeStep == TypeInv /\ [Next]_vars => TypeInv'
<1> SUFFICES ASSUME TypeInv, [Next]_vars
             PROVE  TypeInv'
  OBVIOUS
<1>1. calls' \in [Calls -> {Idle} \cup Call] /\ TextsAreChosen'
  BY CallsStep DEF CallsKeep
<1>2. ASSUME RowStep
      PROVE  /\ status' \in {"ACTIVE", "SUSPENDED"} /\ until' \in Ends \cup {None}
             /\ sentence' \in 0..Forever \cup {None}
  <2>1. ASSUME NEW end \in {now + 1, Forever}, Pass(end)
        PROVE  /\ status' \in {"ACTIVE", "SUSPENDED"} /\ until' \in Ends \cup {None}
               /\ sentence' \in 0..Forever \cup {None}
    BY <2>1, BoundsAssumption DEF Pass, TypeInv, TypeOK, Ends, Forever
  <2>2. ASSUME NEW k \in Calls, LiftBan(k)
        PROVE  status' = "ACTIVE" /\ until' = None /\ sentence' = sentence
    BY <2>2 DEF LiftBan
  <2>3. CASE SuspendUser
    BY <2>3, BoundsAssumption DEF SuspendUser, TypeInv, TypeOK, Forever
  <2>4. CASE UnbanUser \/ LiftExpiredBans
    BY <2>4, BoundsAssumption DEF UnbanUser, LiftExpiredBans, TypeInv, TypeOK, Forever
  <2> QED
    BY <1>2, <2>1, <2>2, <2>3, <2>4 DEF RowStep, ApplyChatBan, BanUser, TypeInv, TypeOK
<1>3. ASSUME WordStep
      PROVE  /\ word' \in BOOLEAN /\ cache' \in {TRUE, FALSE, None}
             /\ admin' \in BOOLEAN /\ lateWords' \in BOOLEAN
  <2>1. ASSUME NEW k \in Calls, StoreWords(k)
        PROVE  /\ word' \in BOOLEAN /\ cache' \in {TRUE, FALSE, None}
               /\ admin' \in BOOLEAN /\ lateWords' \in BOOLEAN
    BY <2>1 DEF StoreWords, At, TypeInv, TypeOK, Call
  <2> QED
    BY <1>3, <2>1 DEF WordStep, ChangeWord, InvalidateBannedWordsCache, CacheExpires, TypeInv, TypeOK
<1>4. ASSUME LastStep
      PROVE  last' \in {"nobody", "other", "member"}
  BY <1>4 DEF LastStep, Save, OtherWrites, LastChanges, TypeInv, TypeOK
<1>5. CASE UNCHANGED <<now, row, words, logged, flow>>
  BY <1>1, <1>5 DEF TypeInv, TypeOK, row, words, flow
<1>6. CASE RowStep /\ UNCHANGED <<now, words, logged, flow>>
  BY <1>1, <1>2, <1>6 DEF TypeInv, TypeOK, words, flow
<1>7. CASE WordStep /\ UNCHANGED <<now, row, logged, flow>>
  BY <1>1, <1>3, <1>7 DEF TypeInv, TypeOK, row, flow
<1>8. CASE (\E k \in Calls : LogViolation(k)) /\ UNCHANGED <<now, row, words, flow>>
  BY <1>1, <1>8 DEF TypeInv, TypeOK, LogViolation, row, words, flow
<1>9. CASE RecentStep /\ UNCHANGED <<now, row, words, logged, last>>
  BY <1>1, <1>9, RecentStays DEF TypeInv, TypeOK, row, words, Sent
<1>10. CASE LastStep /\ UNCHANGED <<now, row, words, logged, recent>>
  BY <1>1, <1>4, <1>10 DEF TypeInv, TypeOK, row, words
<1>11. CASE Tick
  <2>1. now' \in 0..MaxTime
    BY <1>11, BoundsAssumption DEF TypeInv, TypeOK, Tick
  <2>2. UNCHANGED <<status, until, sentence, word, cache, admin, lateWords, logged, recent, last>>
    BY <1>11 DEF Tick, row, words, flow
  <2> QED
    BY <1>1, <2>1, <2>2 DEF TypeInv, TypeOK
<1>12. CASE Restart
  <2>1. recent' \in Seq(Sent)
    BY <1>12 DEF Restart
  <2> QED
    BY <1>1, <1>12, <2>1 DEF TypeInv, TypeOK, Restart, row, Sent
<1> QED
  BY <1>5, <1>6, <1>7, <1>8, <1>9, <1>10, <1>11, <1>12, Groups

LEMMA TypeHolds == Spec => []TypeInv
BY TypeInitial, TypeStep, PTL DEF Spec

\* The tables, the caches and the calls keep their types, and every text is chosen
\* by the time it is weighed.
THEOREM TypeCorrect == Spec => []TypeOK
<1>1. TypeInv => TypeOK
  BY DEF TypeInv
<1> QED
  BY <1>1, TypeHolds, PTL

-----------------------------------------------------------------------------
(* The sentence. *)

\* The row says what the sentence says; whoever is free, or is about to be freed by
\* a call on its way, has served it.
RowSaysSentence ==
  sentence # None =>
    /\ status = "ACTIVE" \/ Lifting => sentence <= now
    /\ status = "SUSPENDED" => sentence = IF until = None THEN Forever ELSE until

SentenceInv == TypeInv /\ RowSaysSentence

LEMMA SentenceNumbers ==
  ASSUME TypeInv
  PROVE  /\ now \in Nat /\ now < Forever /\ now + 1 # None /\ Forever # None
         /\ until # None => until \in Nat
         /\ sentence # None => sentence \in Nat
BY BoundsAssumption, NoneAssumption DEF TypeInv, TypeOK, Ends, Forever

LEMMA NoNewLifting ==
  ASSUME TypeInv, [Next]_vars
  PROVE  Lifting' => Lifting \/ Expired(status, until)
<1>1. ASSUME NEW j \in Calls, At(j, "lift")' \/ At(j, "liftVisit")',
             ~(At(j, "lift") \/ At(j, "liftVisit"))
      PROVE  ReadUser(j) /\ Expired(status, until)
  <2>1. ASSUME NEW k \in Calls, Moves(k), j # k
        PROVE  FALSE
    BY <1>1, <2>1 DEF Moves, At, TypeInv, TypeOK
  <2>2. ASSUME NEW k \in Calls, CountPrior(k)
        PROVE  FALSE
    BY <1>1, <2>2, CountedCalls DEF At, TypeInv, TypeOK
  <2>3. ASSUME calls' = Unsettled
        PROVE  FALSE
    BY <1>1, <2>3, UnsettledSame DEF At
  <2>4. ASSUME NEW k \in Calls, CheckConsecutive(k)
        PROVE  FALSE
    <3>1. CASE End(k)
      BY <1>1, <3>1 DEF End, At, TypeInv, TypeOK
    <3>2. CASE calls' = Asked(k)
      BY <1>1, <2>4, <3>2, AskedCalls, UnsettledSame DEF CheckConsecutive, At
    <3> QED
      BY <2>4, <3>1, <3>2 DEF CheckConsecutive
  <2>5. ASSUME NEW k \in Calls, CheckAndTrack(k)
        PROVE  FALSE
    <3>1. CASE End(k)
      BY <1>1, <3>1 DEF End, At, TypeInv, TypeOK
    <3>2. CASE calls' = [calls EXCEPT ![k].at = "save"]
      BY <1>1, <2>5, <3>2 DEF CheckAndTrack, At, TypeInv, TypeOK, Call
    <3> QED
      BY <2>5, <3>1, <3>2 DEF CheckAndTrack
  <2>6. ~UNCHANGED calls
    BY <1>1 DEF At
  <2>7. ~Restart
    BY <1>1 DEF Restart, At
  <2>8. PICK k \in Calls :
          \/ Begin(k) \/ ReadUser(k) \/ LiftBan(k) \/ CachedWords(k) \/ ReadWords(k)
          \/ StoreWords(k) \/ LogViolation(k) \/ ApplyChatBan(k) \/ Save(k) \/ CallFails(k)
    BY <2>2, <2>3, <2>4, <2>5, <2>6, <2>7
       DEF Next, vars, BanUser, SuspendUser, UnbanUser, LiftExpiredBans, ChangeWord,
           InvalidateBannedWordsCache, CacheExpires, OtherWrites, LastChanges, Age, Tick
  <2>9. j = k
    BY <2>1, <2>8, StepMoves
  <2> QED
    BY <1>1, <2>8, <2>9
       DEF At, Phase, Go, End, Begin, ReadUser, LiftBan, CachedWords, ReadWords, StoreWords,
           LogViolation, ApplyChatBan, Save, CallFails, Judge, TypeInv, TypeOK
<1> QED
  BY <1>1 DEF Lifting

LEMMA SentenceStep == SentenceInv /\ [Next]_vars => SentenceInv'
<1> SUFFICES ASSUME SentenceInv, [Next]_vars
             PROVE  RowSaysSentence'
  BY TypeStep DEF SentenceInv
<1>1. TypeInv /\ TypeInv' /\ RowSaysSentence
  BY TypeStep DEF SentenceInv
<1>2. Expired(status, until) /\ sentence # None => sentence <= now
  BY <1>1, SentenceNumbers DEF RowSaysSentence, Expired
<1>3. Lifting' => Lifting \/ Expired(status, until)
  BY <1>1, NoNewLifting
<1>4. CASE UNCHANGED <<now, row>>
  BY <1>1, <1>2, <1>3, <1>4 DEF RowSaysSentence, row
<1>5. ASSUME NEW end \in {now + 1, Forever}, Pass(end), UNCHANGED now,
             Lifting' => Lifting
      PROVE  RowSaysSentence'
  BY <1>1, <1>5, SentenceNumbers DEF RowSaysSentence, Pass
<1>6. ASSUME NEW k \in Calls, LiftBan(k)
      PROVE  RowSaysSentence'
  <2>1. Lifting
    BY <1>6 DEF LiftBan, Lifting
  <2> QED
    BY <1>1, <1>6, <2>1 DEF LiftBan, RowSaysSentence
<1>7. ASSUME NEW k \in Calls, ApplyChatBan(k)
      PROVE  RowSaysSentence'
  <2>1. Lifting' => Lifting
    BY <1>1, <1>7 DEF ApplyChatBan, End, Lifting, At, TypeInv, TypeOK
  <2> QED
    BY <1>5, <1>7, <2>1 DEF ApplyChatBan
<1>8. CASE BanUser
  BY <1>5, <1>8 DEF BanUser, Lifting, At
<1>9. CASE SuspendUser
  <2>1. Lifting' => Lifting
    BY <1>9 DEF SuspendUser, Lifting, At
  <2> QED
    BY <1>1, <1>9, <2>1, SentenceNumbers DEF SuspendUser, RowSaysSentence
<1>10. CASE UnbanUser
  BY <1>1, <1>10, SentenceNumbers DEF UnbanUser, RowSaysSentence
<1>11. CASE LiftExpiredBans
  BY <1>1, <1>3, <1>11, SentenceNumbers DEF LiftExpiredBans, RowSaysSentence
<1>12. CASE Tick
  <2>1. Lifting' = Lifting /\ now' = now + 1 /\ UNCHANGED <<status, until, sentence>>
    BY <1>12 DEF Tick, row, Lifting, At
  <2> QED
    BY <1>1, <2>1, SentenceNumbers DEF RowSaysSentence
<1> QED
  BY <1>4, <1>6, <1>7, <1>8, <1>9, <1>10, <1>11, <1>12, Groups DEF RowStep

\* The row bars the member exactly while the last ban passed on it lasts, whatever
\* calls of the member read it, lift it or earn another.
THEOREM SentenceIsServed == Spec => []LastSentenceHolds
<1>1. Init => RowSaysSentence
  BY BoundsAssumption DEF Init, RowSaysSentence, Lifting, At
<1>2. SentenceInv => LastSentenceHolds
  <2> SUFFICES ASSUME SentenceInv, sentence # None
               PROVE  Barred(status, until) <=> sentence > now
    BY DEF LastSentenceHolds
  <2>1. now \in Nat /\ sentence \in Nat /\ now < Forever /\ Forever \in Nat
    BY SentenceNumbers, BoundsAssumption DEF SentenceInv, Forever
  <2>2. CASE status = "ACTIVE"
    BY <2>1, <2>2 DEF SentenceInv, RowSaysSentence, Barred
  <2>3. CASE status = "SUSPENDED"
    BY <2>1, <2>3 DEF SentenceInv, RowSaysSentence, Barred, Expired
  <2> QED
    BY <2>2, <2>3 DEF SentenceInv, TypeInv, TypeOK
<1> QED
  BY <1>1, <1>2, TypeInitial, SentenceStep, PTL DEF Spec, SentenceInv

-----------------------------------------------------------------------------
(* The cache of banned words. *)

\* Once a change of the word is through, the cache says what the table says, or a
\* read that the change overtook.
THEOREM WordsAreCurrent == Spec => []CachedWordsAreCurrent
<1>1. Init => CachedWordsAreCurrent
  BY DEF Init, CachedWordsAreCurrent
<1>2. TypeInv /\ CachedWordsAreCurrent /\ [Next]_vars => CachedWordsAreCurrent'
  <2> SUFFICES ASSUME CachedWordsAreCurrent, [Next]_vars
               PROVE  CachedWordsAreCurrent'
    OBVIOUS
  <2>1. CASE UNCHANGED words
    BY <2>1 DEF words, CachedWordsAreCurrent
  <2>2. CASE WordStep
    BY <2>2 DEF WordStep, StoreWords, ChangeWord, InvalidateBannedWordsCache, CacheExpires,
                CachedWordsAreCurrent
  <2>3. CASE Restart
    BY <2>3 DEF Restart, CachedWordsAreCurrent
  <2> QED
    BY <2>1, <2>2, <2>3, Groups
<1> QED
  BY <1>1, <1>2, TypeHolds, PTL DEF Spec

-----------------------------------------------------------------------------
(* Uses of the banned word. *)

\* Uses that were counted side by side know it, and a use counted by itself knows
\* whether the log had one before.
UsesAreCounted ==
  /\ \A j, k \in Calls : j # k /\ At(j, "log") /\ At(k, "log") => calls[k].shared
  /\ \A k \in Calls : At(k, "log") /\ ~calls[k].shared => calls[k].val = logged

LEMMA UsesStep ==
  ASSUME TypeInv, UsesAreCounted, [Next]_vars
  PROVE  UsesAreCounted'
<1>1. ASSUME NEW k \in Calls, Moves(k), UNCHANGED logged
      PROVE  UsesAreCounted'
  BY <1>1 DEF Moves, Apart, At, UsesAreCounted, TypeInv, TypeOK
<1>2. ASSUME NEW k \in Calls, LogViolation(k)
      PROVE  UsesAreCounted'
  <2>1. Moves(k) /\ At(k, "log")
    BY <1>2, StepMoves DEF LogViolation
  <2>2. ASSUME NEW j \in Calls, At(j, "log")'
        PROVE  j # k /\ calls'[j] = calls[j] /\ calls'[j].shared
    BY <2>1, <2>2 DEF Moves, Apart, At, UsesAreCounted, TypeInv, TypeOK
  <2> QED
    BY <2>2 DEF UsesAreCounted
<1>3. ASSUME NEW k \in Calls, CountPrior(k)
      PROVE  UsesAreCounted'
  <2>1. UNCHANGED logged /\ ~At(k, "log")
    BY <1>3 DEF CountPrior, At
  <2>2. ASSUME NEW j \in Calls \ {k}, At(j, "log")'
        PROVE  At(j, "log") /\ calls'[j].shared
    BY <1>3, <2>2, CountedCalls DEF At
  <2>3. calls'[k].val = logged /\ (calls'[k].shared <=> \E i \in Calls : At(i, "log"))
    BY <1>3, CountedCalls
  <2> QED
    BY <2>1, <2>2, <2>3 DEF UsesAreCounted
<1>4. ASSUME UNCHANGED logged,
             \A k \in Calls : At(k, "log")' => calls'[k] = calls[k] /\ At(k, "log")
      PROVE  UsesAreCounted'
  BY <1>4 DEF UsesAreCounted
<1>5. ASSUME NEW k \in Calls, CheckConsecutive(k)
      PROVE  UsesAreCounted'
  <2>1. UNCHANGED logged
    BY <1>5 DEF CheckConsecutive
  <2>2. CASE End(k)
    BY <1>1, <2>1, <2>2, CallEnds
  <2>3. CASE calls' = Asked(k)
    <3>1. At(k, "last")
      BY <1>5 DEF CheckConsecutive
    <3>2. ASSUME NEW j \in Calls \ {k}
          PROVE  calls'[j] = calls[j] \/ calls'[j].at # "log"
      <4>1. calls'[j] = calls[j] \/ calls'[j] = Unsettled[j]
        BY <2>3, <3>1, AskedCalls
      <4> QED
        BY <4>1, UnsettledSame
    <3>3. calls'[k].at # "log"
      BY <2>3, <3>1, AskedCalls
    <3> QED
      BY <1>4, <2>1, <3>2, <3>3 DEF At
  <2> QED
    BY <1>5, <2>2, <2>3 DEF CheckConsecutive
<1>6. ASSUME NEW k \in Calls, CheckAndTrack(k)
      PROVE  UsesAreCounted'
  <2>1. UNCHANGED logged
    BY <1>6 DEF CheckAndTrack
  <2>2. CASE End(k)
    BY <1>1, <2>1, <2>2, CallEnds
  <2>3. CASE calls' = [calls EXCEPT ![k].at = "save"]
    BY <1>4, <1>6, <2>1, <2>3 DEF CheckAndTrack, At, TypeInv, TypeOK, Call
  <2> QED
    BY <1>6, <2>2, <2>3 DEF CheckAndTrack
<1>7. ASSUME calls' = Unsettled, UNCHANGED logged
      PROVE  UsesAreCounted'
  <2>1. \A j \in Calls : calls'[j] = calls[j] \/ calls'[j].at # "log"
    BY <1>7, UnsettledCalls DEF OnItsWay, At
  <2> QED
    BY <1>4, <1>7, <2>1 DEF At
<1>8. CASE UNCHANGED <<calls, logged>>
  BY <1>4, <1>8 DEF At
<1>9. CASE Restart
  BY <1>4, <1>9 DEF Restart, At
<1>10. ASSUME NEW k \in Calls,
              \/ Begin(k) \/ ReadUser(k) \/ LiftBan(k) \/ CachedWords(k) \/ ReadWords(k)
              \/ StoreWords(k) \/ ApplyChatBan(k) \/ Save(k) \/ CallFails(k)
       PROVE  UsesAreCounted'
  <2>1. Moves(k)
    BY <1>10, StepMoves
  <2>2. UNCHANGED logged
    BY <1>10 DEF Begin, ReadUser, LiftBan, CachedWords, ReadWords, StoreWords, ApplyChatBan, Save,
                 CallFails
  <2> QED
    BY <1>1, <2>1, <2>2
<1> QED
  BY <1>2, <1>3, <1>5, <1>6, <1>7, <1>8, <1>9, <1>10
     DEF Next, vars, BanUser, SuspendUser, UnbanUser, LiftExpiredBans, ChangeWord,
         InvalidateBannedWordsCache, CacheExpires, OtherWrites, LastChanges, Age, Tick

\* A use of the word that is not the first in the log goes on to the ban, unless it
\* was counted together with another.
THEOREM SecondUseBans == Spec => SecondUseIsBanned
<1>1. Init => UsesAreCounted
  BY DEF Init, UsesAreCounted, At
<1>2. TypeInv /\ UsesAreCounted /\ [Next]_vars =>
        [\A k \in Calls : At(k, "log") /\ LogViolation(k) /\ logged /\ ~calls[k].shared
                            => calls'[k] = Phase("ban")]_vars
  <2> SUFFICES ASSUME TypeInv, UsesAreCounted, NEW k \in Calls, At(k, "log"), LogViolation(k),
                      logged, ~calls[k].shared
               PROVE  calls'[k] = Phase("ban")
    OBVIOUS
  <2>1. calls[k].val
    BY DEF UsesAreCounted
  <2> QED
    BY <2>1 DEF LogViolation, Go, TypeInv, TypeOK
<1>3. TypeInv /\ UsesAreCounted /\ [Next]_vars => UsesAreCounted'
  BY UsesStep
<1> QED
  BY <1>1, <1>2, <1>3, TypeHolds, PTL DEF Spec, SecondUseIsBanned

-----------------------------------------------------------------------------
(* The turn in a channel. *)

\* Messages on their way together know it, and one by itself has seen that the last
\* author is another.
TurnsAreTaken ==
  /\ \A j, k \in Calls : j # k /\ OnItsWay(j) /\ OnItsWay(k) => calls[k].val
  /\ \A k \in Calls : OnItsWay(k) /\ ~calls[k].val => last # "member"

LEMMA TurnsStep ==
  ASSUME TypeInv, TurnsAreTaken, [Next]_vars
  PROVE  TurnsAreTaken'
<1>1. ASSUME UNCHANGED last,
             \A k \in Calls : OnItsWay(k)' => OnItsWay(k) /\ (calls[k].val => calls'[k].val)
      PROVE  TurnsAreTaken'
  BY <1>1 DEF TurnsAreTaken
<1>2. ASSUME NEW k \in Calls, Moves(k)
      PROVE  \A j \in Calls : OnItsWay(j)' => j # k /\ OnItsWay(j) /\ calls'[j] = calls[j]
  BY <1>2 DEF Moves, Apart, OnItsWay, At, TypeInv, TypeOK
<1>3. ASSUME NEW k \in Calls,
             \/ Begin(k) \/ ReadUser(k) \/ LiftBan(k) \/ CachedWords(k) \/ ReadWords(k)
             \/ StoreWords(k) \/ LogViolation(k) \/ ApplyChatBan(k) \/ CallFails(k)
      PROVE  TurnsAreTaken'
  <2>1. Moves(k)
    BY <1>3, StepMoves
  <2>2. UNCHANGED last
    BY <1>3 DEF Begin, ReadUser, LiftBan, CachedWords, ReadWords, StoreWords, LogViolation,
                ApplyChatBan, CallFails, flow
  <2> QED
    BY <1>1, <1>2, <2>1, <2>2
<1>4. ASSUME NEW k \in Calls, Save(k)
      PROVE  TurnsAreTaken'
  <2>1. \A j \in Calls : OnItsWay(j)' => j # k /\ OnItsWay(j) /\ calls'[j] = calls[j]
    BY <1>2, <1>4, StepMoves
  <2>2. CASE calls[k].text.channel
    <3>1. OnItsWay(k)
      BY <1>4, <2>2 DEF Save, OnItsWay
    <3> QED
      BY <2>1, <3>1 DEF TurnsAreTaken
  <2>3. CASE ~calls[k].text.channel
    BY <1>1, <1>4, <2>1, <2>3 DEF Save
  <2> QED
    BY <2>2, <2>3
<1>5. ASSUME NEW k \in Calls, CountPrior(k)
      PROVE  TurnsAreTaken'
  <2>1. UNCHANGED last
    BY <1>5 DEF CountPrior, flow
  <2>2. \A j \in Calls : OnItsWay(j)' => calls'[j] = calls[j] /\ OnItsWay(j)
    BY <1>5, CountedCalls DEF OnItsWay, At
  <2> QED
    BY <1>1, <2>1, <2>2
<1>6. ASSUME NEW k \in Calls, CheckConsecutive(k)
      PROVE  TurnsAreTaken'
  <2>1. UNCHANGED last /\ At(k, "last")
    BY <1>6 DEF CheckConsecutive, flow
  <2>2. CASE End(k)
    BY <1>1, <1>2, <2>1, <2>2, CallEnds
  <2>3. CASE calls' = Asked(k) /\ ~calls[k].text.channel
    <3>1. \A j \in Calls \ {k} : calls'[j] = calls[j]
      BY <2>1, <2>3, AskedCalls
    <3>2. ~OnItsWay(k)'
      BY <2>1, <2>3, AskedCalls DEF OnItsWay
    <3> QED
      BY <1>1, <2>1, <3>1, <3>2 DEF OnItsWay, At
  <2>4. CASE calls' = Asked(k) /\ calls[k].text.channel /\ last # "member"
    <3>1. calls'[k].val <=> \E j \in Calls : OnItsWay(j)
      BY <2>1, <2>4, AskedCalls
    <3>2. ASSUME NEW j \in Calls \ {k}, OnItsWay(j)'
          PROVE  OnItsWay(j) /\ calls'[j].val
      <4>1. calls'[j] = Unsettled[j]
        BY <2>1, <2>4, AskedCalls
      <4>2. OnItsWay(j)
        BY <3>2, <4>1, UnsettledSame DEF OnItsWay, At
      <4> QED
        BY <4>1, <4>2, UnsettledCalls
    <3> QED
      BY <2>1, <2>4, <3>1, <3>2 DEF TurnsAreTaken
  <2> QED
    BY <1>6, <2>2, <2>3, <2>4 DEF CheckConsecutive
<1>7. ASSUME NEW k \in Calls, CheckAndTrack(k)
      PROVE  TurnsAreTaken'
  <2>1. UNCHANGED last
    BY <1>7 DEF CheckAndTrack
  <2>2. CASE End(k)
    BY <1>1, <1>2, <2>1, <2>2, CallEnds
  <2>3. CASE calls' = [calls EXCEPT ![k].at = "save"]
    <3> DEFINE r == [calls[k] EXCEPT !.at = "save"]
    <3>1. calls[k] \in Call /\ calls[k] # Idle /\ calls[k].at = "limits"
      BY <1>7 DEF CheckAndTrack, At, TypeInv, TypeOK
    <3>2. r.text = calls[k].text /\ r.val = calls[k].val
      BY <3>1 DEF Call
    <3>3. calls' = [calls EXCEPT ![k] = r]
      BY <2>3
    <3> HIDE DEF r
    <3> QED
      BY <1>1, <2>1, <3>1, <3>2, <3>3 DEF OnItsWay, At, TypeInv, TypeOK
  <2> QED
    BY <1>7, <2>2, <2>3 DEF CheckAndTrack
<1>8. CASE LastChanges
  <2>1. CASE UNCHANGED calls /\ last' = "nobody"
    BY <2>1 DEF TurnsAreTaken, OnItsWay, At
  <2>2. CASE calls' = Unsettled
    <3>1. \A j \in Calls : OnItsWay(j)' => OnItsWay(j) /\ calls'[j].val
      BY <2>2, UnsettledSame, UnsettledCalls DEF OnItsWay, At
    <3> QED
      BY <3>1 DEF TurnsAreTaken
  <2> QED
    BY <1>8, <2>1, <2>2 DEF LastChanges
<1>9. CASE OtherWrites
  BY <1>9 DEF OtherWrites, TurnsAreTaken, OnItsWay, At
<1>10. CASE Restart
  BY <1>10 DEF Restart, TurnsAreTaken, OnItsWay, At
<1>11. CASE UNCHANGED <<calls, last>>
  BY <1>11 DEF TurnsAreTaken, OnItsWay, At
<1> QED
  BY <1>3, <1>4, <1>5, <1>6, <1>7, <1>8, <1>9, <1>10, <1>11
     DEF Next, vars, flow, BanUser, SuspendUser, UnbanUser, LiftExpiredBans, ChangeWord,
         InvalidateBannedWordsCache, CacheExpires, Age, Tick

\* The member writes twice in a row in a channel only with messages on their way
\* together, or when what was written between is deleted meanwhile.
THEOREM TurnIsKept == Spec => TwiceInARowOnlyTogether
<1>1. Init => TurnsAreTaken
  BY DEF Init, TurnsAreTaken, OnItsWay, At
<1>2. TypeInv /\ TurnsAreTaken /\ [Next]_vars =>
        [\A k \in Calls : At(k, "save") /\ calls[k].text.channel /\ last = "member" /\ Save(k)
                            => calls[k].val]_vars
  BY DEF TurnsAreTaken, OnItsWay
<1>3. TypeInv /\ TurnsAreTaken /\ [Next]_vars => TurnsAreTaken'
  BY TurnsStep
<1> QED
  BY <1>1, <1>2, <1>3, TypeHolds, PTL DEF Spec, TwiceInARowOnlyTogether

-----------------------------------------------------------------------------
(* The limits. *)

\* Where a list has a member of a set.
Marks(s, A) == {i \in DOMAIN s : s[i] \in A}

LEMMA MarksAreFinite ==
  ASSUME NEW s \in Seq(Sent), NEW A
  PROVE  IsFiniteSet(Marks(s, A)) /\ Cardinality(Marks(s, A)) \in Nat
<1>1. Marks(s, A) \subseteq 1..Len(s) /\ Len(s) \in Nat
  BY DEF Marks
<1>2. IsFiniteSet(1..Len(s))
  BY <1>1, FS_Interval
<1>3. IsFiniteSet(Marks(s, A))
  BY <1>1, <1>2, FS_Subset
<1> QED
  BY <1>3, FS_CardinalityType

LEMMA OneMore ==
  ASSUME NEW S, NEW x, IsFiniteSet(S)
  PROVE  /\ IsFiniteSet(S \cup {x}) /\ Cardinality(S \cup {x}) \in Nat
         /\ Cardinality(S \cup {x}) <= Cardinality(S) + 1
<1>1. /\ IsFiniteSet(S \cup {x})
      /\ Cardinality(S \cup {x}) = IF x \in S THEN Cardinality(S) ELSE Cardinality(S) + 1
  BY FS_AddElement
<1>2. Cardinality(S) \in Nat /\ Cardinality(S \cup {x}) \in Nat
  BY <1>1, FS_CardinalityType
<1> QED
  BY <1>1, <1>2

LEMMA MarksAppended ==
  ASSUME NEW s \in Seq(Sent), NEW e \in Sent, NEW A
  PROVE  Cardinality(Marks(Append(s, e), A))
           <= IF e \in A THEN Cardinality(Marks(s, A)) + 1 ELSE Cardinality(Marks(s, A))
<1> DEFINE n == Len(s) + 1
<1>1. Append(s, e) \in Seq(Sent) /\ IsFiniteSet(Marks(s, A)) /\ Cardinality(Marks(s, A)) \in Nat
  BY MarksAreFinite
<1>2. e \in A => Marks(Append(s, e), A) \subseteq Marks(s, A) \cup {n}
  BY DEF Marks
<1>3. e \notin A => Marks(Append(s, e), A) \subseteq Marks(s, A)
  BY DEF Marks
<1>4. IsFiniteSet(Marks(s, A) \cup {n})
      /\ Cardinality(Marks(s, A) \cup {n}) <= Cardinality(Marks(s, A)) + 1
      /\ Cardinality(Marks(s, A) \cup {n}) \in Nat
  BY <1>1, OneMore
<1>5. Cardinality(Marks(Append(s, e), A)) \in Nat
  BY <1>1, MarksAreFinite
<1> HIDE DEF n
<1>6. CASE e \in A
  <2>1. Cardinality(Marks(Append(s, e), A)) <= Cardinality(Marks(s, A) \cup {n})
    BY <1>2, <1>4, <1>6, FS_Subset
  <2> QED
    BY <1>1, <1>4, <1>5, <1>6, <2>1
<1>7. CASE e \notin A
  BY <1>1, <1>3, <1>7, FS_Subset
<1> QED
  BY <1>6, <1>7

LEMMA MarksInTail ==
  ASSUME NEW s \in Seq(Sent), s # <<>>, NEW A
  PROVE  Cardinality(Marks(Tail(s), A)) <= Cardinality(Marks(s, A))
<1> DEFINE up == [i \in Marks(Tail(s), A) |-> i + 1]
<1>1. \A i \in Marks(Tail(s), A) : i \in Nat /\ i + 1 \in Marks(s, A)
  BY DEF Marks
<1>2. up \in [Marks(Tail(s), A) -> Marks(s, A)]
  BY <1>1
<1>3. \A i, j \in Marks(Tail(s), A) : up[i] = up[j] => i = j
  BY <1>1
<1>4. up \in Injection(Marks(Tail(s), A), Marks(s, A))
  BY <1>2, <1>3 DEF Injection, IsInjective
<1> HIDE DEF up
<1> QED
  BY <1>4, MarksAreFinite, FS_Injection

LEMMA MarksReplaced ==
  ASSUME NEW s \in Seq(Sent), NEW i \in DOMAIN s, NEW e \in Sent, NEW A, e \in A => s[i] \in A
  PROVE  Cardinality(Marks([s EXCEPT ![i] = e], A)) <= Cardinality(Marks(s, A))
<1>1. Marks([s EXCEPT ![i] = e], A) \subseteq Marks(s, A)
  BY DEF Marks
<1> QED
  BY <1>1, MarksAreFinite, FS_Subset

Fresh == {e \in Sent : ~e.old}
OfBody(b) == {e \in Sent : e.body = b}

LEMMA LimitsAreMarks ==
  ASSUME recent \in Seq(Sent)
  PROVE  /\ {i \in DOMAIN recent : ~recent[i].old} = Marks(recent, Fresh)
         /\ \A b : {i \in DOMAIN recent : recent[i].body = b} = Marks(recent, OfBody(b))
BY DEF Marks, Fresh, OfBody

WithinLimits(s) ==
  /\ Cardinality(Marks(s, Fresh)) <= RateCount
  /\ \A b \in {"word", "link"} : Cardinality(Marks(s, OfBody(b))) <= DupCount

LEMMA LimitsStep ==
  ASSUME TypeInv, LimitsHold, [Next]_vars
  PROVE  LimitsHold'
<1>1. recent \in Seq(Sent) /\ {RateCount, DupCount} \subseteq Nat
  BY BoundsAssumption DEF TypeInv, TypeOK, Sent
<1>2. recent' \in Seq(Sent)
  BY TypeStep DEF TypeInv, TypeOK, Sent
<1>3. WithinLimits(recent)
  BY <1>1, LimitsAreMarks DEF LimitsHold, WithinLimits
<1>4. WithinLimits(recent') => LimitsHold'
  <2>1. /\ {i \in DOMAIN recent' : ~recent'[i].old} = Marks(recent', Fresh)
        /\ \A b : {i \in DOMAIN recent' : recent'[i].body = b} = Marks(recent', OfBody(b))
    BY <1>2 DEF Marks, Fresh, OfBody
  <2> QED
    BY <2>1 DEF LimitsHold, WithinLimits
<1>5. ASSUME NEW s \in Seq(Sent), \A A : Cardinality(Marks(s, A)) <= Cardinality(Marks(recent, A))
      PROVE  WithinLimits(s)
  <2>1. \A A : Cardinality(Marks(s, A)) \in Nat /\ Cardinality(Marks(recent, A)) \in Nat
    BY <1>1, MarksAreFinite
  <2> QED
    BY <1>1, <1>3, <1>5, <2>1 DEF WithinLimits
<1>6. ASSUME NEW k \in Calls, CheckAndTrack(k), recent' # recent
      PROVE  WithinLimits(recent')
  <2> DEFINE b == calls[k].text.body
             e == [body |-> b, old |-> FALSE]
  <2>1. calls[k].text \in Text
    BY <1>6 DEF CheckAndTrack, TypeInv, TextsAreChosen
  <2>2. e \in Sent /\ b \in {"word", "link"} /\ e.body = b
    BY <2>1 DEF Text, Sent
  <2>3. recent' = Append(recent, e) /\ ~Exceeds(b)
    BY <1>6 DEF CheckAndTrack
  <2>4. ~(Cardinality(Marks(recent, Fresh)) >= RateCount)
        /\ ~(Cardinality(Marks(recent, OfBody(b))) >= DupCount)
    BY <1>1, <2>3, LimitsAreMarks DEF Exceeds
  <2> HIDE DEF b, e
  <2>5. \A A : /\ Cardinality(Marks(recent, A)) \in Nat /\ Cardinality(Marks(recent', A)) \in Nat
               /\ Cardinality(Marks(recent', A)) <= Cardinality(Marks(recent, A)) + 1
               /\ e \notin A => Cardinality(Marks(recent', A)) <= Cardinality(Marks(recent, A))
    <3> SUFFICES ASSUME NEW A
                 PROVE  /\ Cardinality(Marks(recent, A)) \in Nat /\ Cardinality(Marks(recent', A)) \in Nat
                        /\ Cardinality(Marks(recent', A)) <= Cardinality(Marks(recent, A)) + 1
                        /\ e \notin A => Cardinality(Marks(recent', A)) <= Cardinality(Marks(recent, A))
      OBVIOUS
    <3>1. Cardinality(Marks(recent, A)) \in Nat /\ Cardinality(Marks(recent', A)) \in Nat
      BY <1>1, <1>2, MarksAreFinite
    <3>2. Cardinality(Marks(recent', A))
            <= IF e \in A THEN Cardinality(Marks(recent, A)) + 1 ELSE Cardinality(Marks(recent, A))
      BY <1>1, <2>2, <2>3, MarksAppended
    <3> QED
      BY <3>1, <3>2
  <2>6. \A d : d # b => e \notin OfBody(d)
    BY <2>2 DEF OfBody
  <2>7. Cardinality(Marks(recent', Fresh)) <= RateCount
    BY <1>1, <2>4, <2>5
  <2>8. ASSUME NEW d \in {"word", "link"}
        PROVE  Cardinality(Marks(recent', OfBody(d))) <= DupCount
    <3>1. CASE d = b
      BY <1>1, <2>4, <2>5, <3>1
    <3>2. CASE d # b
      BY <1>1, <1>3, <2>5, <2>6, <3>2 DEF WithinLimits
    <3> QED
      BY <3>1, <3>2
  <2> QED
    BY <2>7, <2>8 DEF WithinLimits
<1>7. ASSUME Age
      PROVE  WithinLimits(recent')
  <2>1. CASE recent' = Tail(recent)
    <3>1. recent # <<>>
      BY <1>7 DEF Age
    <3>2. \A A : Cardinality(Marks(recent', A)) <= Cardinality(Marks(recent, A))
      BY <1>1, <2>1, <3>1, MarksInTail
    <3> QED
      BY <1>2, <1>5, <3>2
  <2>2. ASSUME NEW i, recent' = [recent EXCEPT ![i].old = TRUE], i \in DOMAIN recent
        PROVE  WithinLimits(recent')
    <3> DEFINE e == [recent[i] EXCEPT !.old = TRUE]
    <3>1. recent[i] \in Sent
      BY <1>1, <2>2
    <3>2. e \in Sent /\ e.old /\ e.body = recent[i].body
      BY <3>1 DEF Sent
    <3>3. recent' = [recent EXCEPT ![i] = e]
      BY <2>2
    <3> HIDE DEF e
    <3>4. Cardinality(Marks(recent', Fresh)) <= Cardinality(Marks(recent, Fresh))
      BY <1>1, <2>2, <3>2, <3>3, MarksReplaced DEF Fresh
    <3>5. \A b : Cardinality(Marks(recent', OfBody(b))) <= Cardinality(Marks(recent, OfBody(b)))
      <4> SUFFICES ASSUME NEW b
                   PROVE  Cardinality(Marks(recent', OfBody(b))) <= Cardinality(Marks(recent, OfBody(b)))
        OBVIOUS
      <4>1. e \in OfBody(b) => recent[i] \in OfBody(b)
        BY <3>1, <3>2 DEF OfBody
      <4> QED
        BY <1>1, <2>2, <3>2, <3>3, <4>1, MarksReplaced
    <3>6. \A A : Cardinality(Marks(recent', A)) \in Nat /\ Cardinality(Marks(recent, A)) \in Nat
      BY <1>1, <1>2, MarksAreFinite
    <3> QED
      BY <1>1, <1>3, <3>4, <3>5, <3>6 DEF WithinLimits
  <2>3. ASSUME NEW i, recent' = [recent EXCEPT ![i].old = TRUE], i \notin DOMAIN recent
        PROVE  WithinLimits(recent')
    <3>1. recent' = recent
      BY <1>1, <2>3
    <3> QED
      BY <1>3, <3>1
  <2>4. recent' = Tail(recent) \/ \E i : recent' = [recent EXCEPT ![i].old = TRUE]
    BY <1>7 DEF Age
  <2> QED
    BY <2>1, <2>2, <2>3, <2>4
<1>8. ASSUME Restart
      PROVE  WithinLimits(recent')
  <2>1. recent' = <<>>
    BY <1>8 DEF Restart
  <2>2. \A A : Marks(recent', A) = {}
    BY <2>1 DEF Marks
  <2>3. \A A : Cardinality(Marks(recent', A)) = 0
    BY <2>2, FS_EmptySet
  <2>4. 0 <= RateCount /\ 0 <= DupCount
    BY <1>1
  <2> QED
    BY <2>3, <2>4 DEF WithinLimits
<1>9. ASSUME UNCHANGED recent
      PROVE  WithinLimits(recent')
  BY <1>3, <1>9
<1>10. RecentStep => WithinLimits(recent')
  BY <1>6, <1>7, <1>9 DEF RecentStep
<1>11. UNCHANGED recent \/ RecentStep \/ Restart
  BY Groups DEF flow
<1> QED
  BY <1>4, <1>8, <1>9, <1>10, <1>11

\* However many calls run at once, the limits on messages are kept.
THEOREM LimitsAreKept == Spec => []LimitsHold
<1>1. Init => LimitsHold
  <2> SUFFICES ASSUME Init
               PROVE  LimitsHold
    OBVIOUS
  <2>1. /\ {i \in DOMAIN recent : ~recent[i].old} = {}
        /\ \A b : {i \in DOMAIN recent : recent[i].body = b} = {}
    BY DEF Init
  <2> QED
    BY <2>1, BoundsAssumption, FS_EmptySet DEF LimitsHold
<1>2. TypeInv /\ LimitsHold /\ [Next]_vars => LimitsHold'
  BY LimitsStep
<1> QED
  BY <1>1, <1>2, TypeHolds, PTL DEF Spec

=============================================================================
