----------------------------- MODULE ForumPoll -----------------------------
(* A poll of a forum topic (api/src/forum/forum.service.ts votePoll).         *)
EXTENDS Calls

CONSTANTS Voters, Options

VARIABLES
  votes,       \* forumPollVote: [user, option] and whether it was cast together
  pollOver     \* endsAt is past

pollVars == <<votes, pollOver>>

PollInit == votes = {} /\ pollOver = FALSE /\ calls = NoCalls

VotePoll(c, u, o) ==
  /\ ~pollOver
  /\ Enter(c, [at |-> "unvote", user |-> u, option |-> o, together |-> InCompany])
  /\ UNCHANGED pollVars

\* A mutated form of Others: the user's former vote stays.
OthersAndMine(u) == votes

\* deleteMany of the user's votes, whatever their option.
Others(u) == {v \in votes : v.user # u}

Unvote(c) ==
  /\ At(c, "unvote")
  /\ votes' = Others(calls[c].user)
  /\ GoOn(c, "vote") /\ UNCHANGED pollOver

\* The create, refused by the unique index on (option, user).
Vote(c) ==
  LET u == calls[c].user  o == calls[c].option IN
  /\ At(c, "vote") /\ \A v \in votes : v.user = u => v.option # o
  /\ votes' = votes \cup {[user |-> u, option |-> o, together |-> calls[c].together]}
  /\ Return(c) /\ UNCHANGED pollOver

EndPoll == pollOver' = TRUE /\ UNCHANGED <<votes, calls>>

PollNext ==
  \/ \E c \in CallIds :
       \/ \E u \in Voters, o \in Options : VotePoll(c, u, o)
       \/ Unvote(c) \/ Vote(c)
       \/ Throw(c) /\ UNCHANGED pollVars
  \/ EndPoll
  \/ CallsLost /\ UNCHANGED pollVars

PollSpec == PollInit /\ [][PollNext]_<<pollVars, calls>>

\* A user has one vote in the poll, a second only when each of them met another call
\* on its way: nothing but a vote in flight leaves a former vote behind.
OneVoteEach ==
  \A v, w \in votes : v.user = w.user /\ v # w => v.together /\ w.together
=============================================================================
