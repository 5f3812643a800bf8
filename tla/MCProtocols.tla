---------------------------- MODULE MCProtocols ----------------------------
(***************************************************************************)
(* Protocols of the API and of the clients that share no state: a            *)
(* behaviour is one of theirs, chosen at the start, and the others stay as   *)
(* they begin. Running them side by side would only multiply the states: no  *)
(* property speaks of two of them.                                          *)
(***************************************************************************)
EXTENDS Events, Friends, Courier, Memberships, PasswordReset, Forum, ForumPoll,
        ChatBot, ChatTyping, MobileChat, TelsizPage

VARIABLE running

Vars == <<calls, event, going, friendVars, courierVars, memberVars,
          resetVars, forumVars, pollVars, botVars, typingVars, mobileVars, radioVars, running>>

Init ==
  /\ running \in {"events", "friends", "courier", "memberships", "reset",
                  "forum", "poll", "bot", "typing", "mobile", "radio"}
  /\ EventInit /\ FriendsInit /\ CourierInit /\ MembershipInit
  /\ ResetInit /\ ForumInit /\ PollInit /\ BotInit /\ TypingInit /\ MobileInit /\ RadioInit

Only(protocol) == running = protocol /\ UNCHANGED running
EventVars == <<event, going>>
OfApi == <<EventVars, friendVars, courierVars, memberVars, resetVars, forumVars, pollVars, botVars>>
OfClients == <<typingVars, mobileVars, radioVars>>

Next ==
  \/ Only("events") /\ EventNext
     /\ UNCHANGED <<friendVars, courierVars, memberVars, resetVars, forumVars, pollVars, botVars, OfClients>>
  \/ Only("friends") /\ FriendsNext
     /\ UNCHANGED <<EventVars, courierVars, memberVars, resetVars, forumVars, pollVars, botVars, OfClients>>
  \/ Only("courier") /\ CourierNext
     /\ UNCHANGED <<EventVars, friendVars, memberVars, resetVars, forumVars, pollVars, botVars, OfClients>>
  \/ Only("memberships") /\ MembershipNext
     /\ UNCHANGED <<EventVars, friendVars, courierVars, resetVars, forumVars, pollVars, botVars, OfClients>>
  \/ Only("reset") /\ ResetNext
     /\ UNCHANGED <<EventVars, friendVars, courierVars, memberVars, forumVars, pollVars, botVars, OfClients>>
  \/ Only("forum") /\ ForumNext
     /\ UNCHANGED <<EventVars, friendVars, courierVars, memberVars, resetVars, pollVars, botVars, OfClients>>
  \/ Only("poll") /\ PollNext
     /\ UNCHANGED <<EventVars, friendVars, courierVars, memberVars, resetVars, forumVars, botVars, OfClients>>
  \/ Only("bot") /\ BotNext
     /\ UNCHANGED <<EventVars, friendVars, courierVars, memberVars, resetVars, forumVars, pollVars, OfClients>>
  \/ Only("typing") /\ TypingNext /\ UNCHANGED <<calls, OfApi, mobileVars, radioVars>>
  \/ Only("mobile") /\ MobileNext /\ UNCHANGED <<calls, OfApi, typingVars, radioVars>>
  \/ Only("radio") /\ RadioNext /\ UNCHANGED <<calls, OfApi, typingVars, mobileVars>>

Spec == Init /\ [][Next]_Vars
=============================================================================
