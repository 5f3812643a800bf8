--------------------------- MODULE ChatModeration ---------------------------
(***************************************************************************)
(* What stands between a member and the chat                                *)
(* (api/src/chat/chat-moderation.service.ts, with the senders of            *)
(* chat.gateway.ts, the administration and the nightly tasks that share its *)
(* tables): bans and their expiry, the banned word and its log, the cache   *)
(* of banned words, the ban on writing twice in a row, the rate limits.     *)
(*                                                                          *)
(* One member without a privileged role, several of its calls at once, one  *)
(* channel and direct messages, one banned word.  Others write in the       *)
(* channel.  A ban lasts one unit of the clock or for ever; the automatic   *)
(* one is of the first kind.  Of a text only two things matter, whether it  *)
(* has the word and whether it has a link; it is chosen where it is first   *)
(* looked at.  Violations that are only logged and answered leave no state. *)
(***************************************************************************)
EXTENDS Naturals, Sequences, FiniteSets

CONSTANTS
  Calls,       \* bound: calls of the member in flight
  MaxTime,     \* bound of the clock
  RateCount,   \* messages per ten seconds (8 in the code)
  DupCount,    \* equal messages per minute (2)
  None, Idle

ASSUME BoundsAssumption == {MaxTime, RateCount, DupCount} \subseteq Nat

VARIABLES
  now,
  status, until,  \* the member's row: status and bannedUntil
  word, cache,    \* the word is active; what bannedWordsCache says
  admin,          \* an administrator changed the word, the cache not yet
  logged,         \* a use of the word is in the log
  recent,         \* recentMessages, oldest first
  last,           \* who wrote last in the channel, if within two minutes
  calls,
  sentence,       \* history: the end of the last ban passed, 0 when free, None
                  \* when it was written while the lifting of another was under
                  \* way, or over the date of another
  lateWords       \* history: the cache was filled with a read older than a change

row == <<status, until, sentence>>
words == <<word, cache, admin, lateWords>>
flow == <<recent, last>>
vars == <<now, row, words, logged, flow, calls>>

\* "word" is the word an administrator may ban; "link" a link, or a phone number.
Text == [op : {"send", "edit"}, body : {"word", "link"}, channel : BOOLEAN]
Call ==
  [at : {"visit", "user", "liftVisit", "lift", "words", "store", "count", "log", "ban", "last",
         "limits", "save"},
   text : Text \cup {None}, val : BOOLEAN, shared : BOOLEAN]
Forever == MaxTime + 2
Ends == 1..(MaxTime + 1)

ASSUME NoneAssumption == None \notin 0..Forever /\ None \notin Text

TypeOK ==
  /\ now \in 0..MaxTime
  /\ status \in {"ACTIVE", "SUSPENDED"} /\ until \in Ends \cup {None}
  /\ word \in BOOLEAN /\ cache \in {TRUE, FALSE, None} /\ admin \in BOOLEAN
  /\ logged \in BOOLEAN
  /\ recent \in Seq([body : {"word", "link"}, old : BOOLEAN])
  /\ last \in {"nobody", "other", "member"}
  /\ calls \in [Calls -> {Idle} \cup Call]
  /\ sentence \in 0..Forever \cup {None}
  /\ lateWords \in BOOLEAN

Init ==
  /\ now = 0
  /\ status = "ACTIVE" /\ until = None /\ sentence = 0
  /\ word = TRUE /\ cache = None /\ admin = FALSE /\ lateWords = FALSE
  /\ logged = FALSE
  /\ recent = <<>> /\ last = "nobody"
  /\ calls = [k \in Calls |-> Idle]

At(k, phase) == calls[k] # Idle /\ calls[k].at = phase
Phase(phase) == [at |-> phase, text |-> None, val |-> FALSE, shared |-> FALSE]
Go(k, phase) == calls' = [calls EXCEPT ![k] = Phase(phase)]
End(k) == calls' = [calls EXCEPT ![k] = Idle]

-----------------------------------------------------------------------------
(* Bans. *)

\* A mutated form of Expired: the last instant still counts as barred.
ExpiredLate(s, u) == s = "SUSPENDED" /\ u # None /\ u < now

\* The test of clearExpiredChatBan and of JwtStrategy.validate.
Expired(s, u) == s = "SUSPENDED" /\ u # None /\ u <= now

\* checkUserBan.
Barred(s, u) == s = "SUSPENDED" /\ ~Expired(s, u)

Lifting == \E k \in Calls : At(k, "lift") \/ At(k, "liftVisit")

Pass(end) ==
  /\ status' = "SUSPENDED"
  /\ until' = IF end = Forever THEN None ELSE end
  /\ sentence' = IF Lifting THEN None ELSE end

BanUser ==
  /\ \E end \in {now + 1, Forever} : Pass(end)
  /\ UNCHANGED <<now, words, logged, flow, calls>>

\* suspendUser leaves the date of an earlier ban where it is.
SuspendUser ==
  /\ status' = "SUSPENDED"
  /\ sentence' = IF Lifting \/ until # None THEN None ELSE Forever
  /\ UNCHANGED <<now, until, words, logged, flow, calls>>

\* unbanUser and unbanChatUser.
UnbanUser ==
  /\ status' = "ACTIVE" /\ until' = None /\ sentence' = 0
  /\ UNCHANGED <<now, words, logged, flow, calls>>

\* The nightly task tests and writes in one statement.
LiftExpiredBans ==
  /\ status = "SUSPENDED" /\ until # None /\ until < now
  /\ status' = "ACTIVE" /\ until' = None
  /\ UNCHANGED <<now, sentence, words, logged, flow, calls>>

-----------------------------------------------------------------------------
(* Calls of the member: a message to send or an edit, or a visit, which is a *)
(* join or a REST call.  A call that is refused just ends.                   *)

Begin(k) ==
  /\ calls[k] = Idle
  /\ Go(k, "user") \/ Go(k, "visit")
  /\ UNCHANGED <<now, row, words, logged, flow>>

\* The row of the member is read: a ban that is over will be lifted, a ban in
\* force refuses the call.  What a visit asks for ends here.
ReadUser(k) ==
  /\ At(k, "user") \/ At(k, "visit")
  /\ IF Expired(status, until) THEN Go(k, IF At(k, "visit") THEN "liftVisit" ELSE "lift")
     ELSE IF Barred(status, until) \/ At(k, "visit") THEN End(k)
     ELSE Go(k, "words")
  /\ UNCHANGED <<now, row, words, logged, flow>>

\* The update that lifts a ban looks for nothing but the id of the member.
LiftBan(k) ==
  /\ At(k, "lift") \/ At(k, "liftVisit")
  /\ status' = "ACTIVE" /\ until' = None
  /\ IF At(k, "liftVisit") THEN End(k) ELSE Go(k, "words")
  /\ UNCHANGED <<now, sentence, words, logged, flow>>

\* The rest of checkMessage once the words are known: the banned word, links in
\* a channel, then the author of the last message there or the rate limits.
Judge(k, active) ==
  \E t \in Text :
    IF t.body = "word" /\ active THEN Go(k, "count")
    ELSE IF t.channel /\ t.body = "link" THEN End(k)
    ELSE calls' = [calls EXCEPT ![k] = [Phase("last") EXCEPT !.text = t]]

CachedWords(k) ==
  /\ At(k, "words") /\ cache # None
  /\ Judge(k, cache)
  /\ UNCHANGED <<now, row, words, logged, flow>>

ReadWords(k) ==
  /\ At(k, "words") /\ cache = None
  /\ calls' = [calls EXCEPT ![k] = [Phase("store") EXCEPT !.val = word]]
  /\ UNCHANGED <<now, row, words, logged, flow>>

StoreWords(k) ==
  /\ At(k, "store")
  /\ cache' = calls[k].val
  /\ lateWords' = (calls[k].val # word)
  /\ Judge(k, calls[k].val)
  /\ UNCHANGED <<now, row, word, admin, logged, flow>>

\* Uses of the word that are counted while k counts are counted with it.
Counted(k, prior) ==
  [j \in Calls |->
     IF j = k THEN [Phase("log") EXCEPT !.val = prior, !.shared = \E i \in Calls : At(i, "log")]
     ELSE IF At(j, "log") THEN [calls[j] EXCEPT !.shared = TRUE] ELSE calls[j]]

\* A mutated form of CountPrior: the log is asked for another word.
CountNothing(k) ==
  /\ At(k, "count")
  /\ calls' = Counted(k, FALSE)
  /\ UNCHANGED <<now, row, words, logged, flow>>

\* handleBannedWordViolation: count, log, and ban on the second use.
CountPrior(k) ==
  /\ At(k, "count")
  /\ calls' = Counted(k, logged)
  /\ UNCHANGED <<now, row, words, logged, flow>>

LogViolation(k) ==
  /\ At(k, "log")
  /\ logged' = TRUE
  /\ IF calls[k].val THEN Go(k, "ban") ELSE End(k)
  /\ UNCHANGED <<now, row, words, flow>>

ApplyChatBan(k) ==
  /\ At(k, "ban")
  /\ Pass(now + 1)
  /\ End(k)
  /\ UNCHANGED <<now, words, logged, flow>>

\* Messages to the channel on their way, and the same with their question about
\* the last author out of date.
OnItsWay(k) == (At(k, "limits") \/ At(k, "save")) /\ calls[k].text.channel
Unsettled == [k \in Calls |-> IF OnItsWay(k) THEN [calls[k] EXCEPT !.val = TRUE] ELSE calls[k]]

Asked(k) ==
  IF calls[k].text.channel
  THEN [Unsettled EXCEPT ![k].at = "limits", ![k].val = \E j \in Calls : OnItsWay(j)]
  ELSE [calls EXCEPT ![k].at = "limits"]

\* A mutated form of CheckConsecutive: the answer is ignored.
CheckConsecutiveIgnored(k) ==
  /\ At(k, "last")
  /\ calls' = Asked(k)
  /\ UNCHANGED <<now, row, words, logged, flow>>

\* checkConsecutiveGuest, asked in a channel only.
CheckConsecutive(k) ==
  /\ At(k, "last")
  /\ IF calls[k].text.channel /\ last = "member" THEN End(k) ELSE calls' = Asked(k)
  /\ UNCHANGED <<now, row, words, logged, flow>>

\* A mutated form of Exceeds: one message more than the limits allow.
ExceedsByOne(b) ==
  \/ Cardinality({i \in DOMAIN recent : ~recent[i].old}) > RateCount
  \/ Cardinality({i \in DOMAIN recent : recent[i].body = b}) > DupCount

\* checkRateLimit and checkDuplicateSpam.
Exceeds(b) ==
  \/ Cardinality({i \in DOMAIN recent : ~recent[i].old}) >= RateCount
  \/ Cardinality({i \in DOMAIN recent : recent[i].body = b}) >= DupCount

\* The limits and trackMessage, which no await separates.
CheckAndTrack(k) ==
  /\ At(k, "limits")
  /\ LET t == calls[k].text
     IN  IF Exceeds(t.body)
         THEN End(k) /\ UNCHANGED recent
         ELSE /\ recent' = Append(recent, [body |-> t.body, old |-> FALSE])
              /\ IF t.op = "send" THEN calls' = [calls EXCEPT ![k].at = "save"] ELSE End(k)
  /\ UNCHANGED <<now, row, words, logged, last>>

\* saveMessage.
Save(k) ==
  /\ At(k, "save")
  /\ last' = IF calls[k].text.channel THEN "member" ELSE last
  /\ End(k)
  /\ UNCHANGED <<now, row, words, logged, recent>>

\* A statement of the database fails: the handler ends there.
CallFails(k) ==
  /\ calls[k] # Idle
  /\ End(k)
  /\ UNCHANGED <<now, row, words, logged, flow>>

-----------------------------------------------------------------------------
(* The administration of words, other members, time and restarts. *)

\* addChatBannedWord, removeChatBannedWord, toggleChatBannedWord: the row, then
\* the cache.
ChangeWord ==
  /\ ~admin
  /\ word' = ~word /\ admin' = TRUE /\ lateWords' = FALSE
  /\ UNCHANGED <<now, row, cache, logged, flow, calls>>

\* A mutated form of InvalidateBannedWordsCache: the cache is left to its age.
CacheKept ==
  /\ admin
  /\ admin' = FALSE
  /\ UNCHANGED <<now, row, word, cache, lateWords, logged, flow, calls>>

InvalidateBannedWordsCache ==
  /\ admin
  /\ admin' = FALSE /\ cache' = None /\ lateWords' = FALSE
  /\ UNCHANGED <<now, row, word, logged, flow, calls>>

\* The cache is thirty seconds old.
CacheExpires ==
  /\ cache # None
  /\ cache' = None /\ lateWords' = FALSE
  /\ UNCHANGED <<now, row, word, admin, logged, flow, calls>>

OtherWrites ==
  /\ last' = "other"
  /\ UNCHANGED <<now, row, words, logged, recent, calls>>

\* Two minutes pass, or the last message is deleted or expires: another one,
\* perhaps the member's, is the last again.
LastChanges ==
  /\ last' \in {"nobody", "member"}
  /\ calls' = IF last' = "member" THEN Unsettled ELSE calls
  /\ UNCHANGED <<now, row, words, logged, recent>>

\* Ten seconds, and later sixty, have passed since the oldest message.
Age ==
  /\ recent # <<>>
  /\ recent' = IF \E i \in DOMAIN recent : ~recent[i].old
               THEN LET i == CHOOSE i \in DOMAIN recent :
                               ~recent[i].old /\ \A j \in 1..(i - 1) : recent[j].old
                    IN  [recent EXCEPT ![i].old = TRUE]
               ELSE Tail(recent)
  /\ UNCHANGED <<now, row, words, logged, last, calls>>

Tick ==
  /\ now < MaxTime
  /\ now' = now + 1
  /\ UNCHANGED <<row, words, logged, flow, calls>>

\* The caches and the calls of the process go, the tables stay.
Restart ==
  /\ cache' = None /\ admin' = FALSE /\ lateWords' = FALSE
  /\ recent' = <<>>
  /\ calls' = [k \in Calls |-> Idle]
  /\ UNCHANGED <<now, row, word, logged, last>>

Next ==
  \/ \E k \in Calls :
       \/ Begin(k) \/ ReadUser(k) \/ LiftBan(k) \/ CachedWords(k) \/ ReadWords(k) \/ StoreWords(k)
       \/ CountPrior(k) \/ LogViolation(k) \/ ApplyChatBan(k)
       \/ CheckConsecutive(k) \/ CheckAndTrack(k) \/ Save(k) \/ CallFails(k)
  \/ BanUser \/ SuspendUser \/ UnbanUser \/ LiftExpiredBans
  \/ ChangeWord \/ InvalidateBannedWordsCache \/ CacheExpires
  \/ OtherWrites \/ LastChanges \/ Age \/ Tick \/ Restart

Spec == Init /\ [][Next]_vars

-----------------------------------------------------------------------------

\* The row of the member bars it exactly while the last ban passed on it lasts:
\* nobody lifts a ban early, none outlasts its end.  The exceptions are bans
\* written while a call was about to lift another, and suspensions over the date
\* of an earlier ban.
LastSentenceHolds == sentence # None => (Barred(status, until) <=> sentence > now)

\* "1. ihlal uyarı, aynı kelime 2. kez -> 1 saat ban" (chat-moderation.service.ts:271):
\* a use of the word that is not the first one in the log goes on to the ban,
\* unless it was counted together with another.
SecondUseIsBanned ==
  [][\A k \in Calls : At(k, "log") /\ LogViolation(k) /\ logged /\ ~calls[k].shared
                        => calls'[k] = Phase("ban")]_vars

\* The cache never says something else than the table once an administrator's
\* change is through, unless it was filled by a read that change overtook.
CachedWordsAreCurrent == cache \in {None, word} \/ admin \/ lateWords

\* "Ardışık mesaj göndermek yok" (chat-moderation.service.ts:446): in a channel
\* the member writes twice in a row only with messages on their way together,
\* or when what was written between is deleted meanwhile.
TwiceInARowOnlyTogether ==
  [][\A k \in Calls : At(k, "save") /\ calls[k].text.channel /\ last = "member" /\ Save(k)
                        => calls[k].val]_vars

\* However many calls run at once, no more messages than RateCount are let
\* through in ten seconds, and no more than DupCount equal ones in a minute.
LimitsHold ==
  /\ Cardinality({i \in DOMAIN recent : ~recent[i].old}) <= RateCount
  /\ \A b \in {"word", "link"} :
       Cardinality({i \in DOMAIN recent : recent[i].body = b}) <= DupCount

\* "gönderimden sonra 15 dakika içinde düzenlenebilir" (the web page of the room,
\* web/src/app/sohbet/[type]/[slug]/page.tsx:777): an edit that passes the word
\* and link checks is not refused because the member wrote last.
EditsAskNoTurn ==
  [][\A k \in Calls : At(k, "last") /\ calls[k].text.op = "edit" /\ CheckConsecutive(k)
                        => calls'[k] # Idle]_vars
=============================================================================
