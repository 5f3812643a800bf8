------------------------------- MODULE Forum -------------------------------
(***************************************************************************)
(* A forum topic, its replies and the one that solved it                     *)
(* (api/src/forum/forum.service.ts createReply, deleteReply, markSolved, and *)
(* the administrator's status of a topic).                                  *)
(***************************************************************************)
EXTENDS Calls

CONSTANTS Replies, NoReply

ASSUME NoReplyAssumption == NoReply \notin Replies

VARIABLES
  topicStatus, \* ForumTopic.status
  posted,      \* the replies
  best,        \* the replies with isBest
  solved,      \* the topic's solvedReplyId
  removed,     \* the replies with deletedAt
  torn         \* the last markSolved was cut short, or ran together with another

replyVars == <<posted, removed>>
markVars == <<best, solved, torn>>
forumVars == <<topicStatus, replyVars, markVars>>

TopicStatuses == {"OPEN", "ANSWERED", "SOLVED", "LOCKED", "UNDER_REVIEW"}

ForumCall ==
  [at : {"reply", "answered", "clear", "best", "topic"}, reply : Replies,
   status : TopicStatuses, together : BOOLEAN]

ASSUME ForumAssumption == Idle \notin ForumCall

ForumInit ==
  /\ topicStatus = "OPEN" /\ posted = {}
  /\ best = {} /\ solved = NoReply /\ removed = {} /\ torn = FALSE
  /\ calls = NoCalls

\* createReply reads the topic, its status too, then creates the reply.
CreateReply(c, r) ==
  /\ r \notin posted
  /\ Enter(c, [at |-> "reply", reply |-> r, status |-> topicStatus, together |-> InCompany]) /\ UNCHANGED forumVars

\* A mutated form of FirstReply: any reply makes the topic answered.
EveryReply(c) == TRUE
FirstReply(c) == calls[c].status = "OPEN"

PostReply(c) ==
  /\ At(c, "reply") /\ calls[c].reply \notin posted
  /\ posted' = posted \cup {calls[c].reply}
  /\ IF FirstReply(c) THEN GoOn(c, "answered") ELSE Return(c)
  /\ UNCHANGED <<topicStatus, removed, markVars>>

\* The topic's status, as it was read before the reply was created.
MarkAnswered(c) ==
  /\ At(c, "answered") /\ topicStatus' = "ANSWERED"
  /\ Return(c) /\ UNCHANGED <<replyVars, markVars>>

\* The administrator sets any status.
SetTopicStatus(s) ==
  /\ topicStatus' = s /\ calls' = Met
  /\ UNCHANGED <<replyVars, markVars>>

\* markSolved, by the topic's owner.
MarkSolved(c, r) ==
  /\ r \in posted \ removed
  /\ Enter(c, [at |-> "clear", reply |-> r, status |-> "SOLVED", together |-> InCompany])
  /\ UNCHANGED forumVars

\* A mutated form of Cleared: the former best reply stays marked.
ClearedNothing == best
Cleared == {}

ClearBest(c) ==
  /\ At(c, "clear") /\ best' = Cleared
  /\ GoOn(c, "best") /\ UNCHANGED <<topicStatus, replyVars, solved, torn>>

SetBest(c) ==
  /\ At(c, "best") /\ best' = best \cup {calls[c].reply}
  /\ GoOn(c, "topic") /\ UNCHANGED <<topicStatus, replyVars, solved, torn>>

UpdateSolved(c) ==
  /\ At(c, "topic") /\ solved' = calls[c].reply /\ topicStatus' = "SOLVED"
  /\ torn' = calls[c].together
  /\ Return(c) /\ UNCHANGED <<replyVars, best>>

DeleteReply(r) ==
  /\ r \in posted \ removed /\ removed' = removed \cup {r}
  /\ UNCHANGED <<topicStatus, posted, markVars, calls>>

Marking == {c \in Running : calls[c].at \in {"clear", "best", "topic"}}

ForumFails(c) ==
  /\ Throw(c) /\ torn' = (torn \/ c \in Marking)
  /\ UNCHANGED <<topicStatus, replyVars, best, solved>>

ForumRestart ==
  /\ CallsLost /\ torn' = (torn \/ Marking # {})
  /\ UNCHANGED <<topicStatus, replyVars, best, solved>>

ForumNext ==
  \/ \E c \in CallIds :
       \/ \E r \in Replies : MarkSolved(c, r) \/ CreateReply(c, r)
       \/ PostReply(c) \/ MarkAnswered(c)
       \/ ClearBest(c) \/ SetBest(c) \/ UpdateSolved(c)
       \/ ForumFails(c)
  \/ ForumRestart
  \/ \E r \in Replies : DeleteReply(r)
  \/ \E s \in TopicStatuses : SetTopicStatus(s)

ForumSpec == ForumInit /\ [][ForumNext]_<<forumVars, calls>>

\* Once nobody is marking, the reply marked best is the one the topic names, and no
\* other, unless the last marking was cut short or met another call.
OneBestReply ==
  Marking = {} /\ ~torn => best = IF solved = NoReply THEN {} ELSE {solved}

\* A topic that is solved or locked becomes merely answered only by a reply that
\* met another call on its way (it has read the topic before).
SolvedStays ==
  [][\A c \in CallIds : MarkAnswered(c) /\ topicStatus # "OPEN"
                          => calls[c].together]_<<forumVars, calls>>
=============================================================================
