--------------------------- MODULE PasswordReset ---------------------------
(***************************************************************************)
(* A forgotten password (api/src/auth/auth.service.ts requestPasswordReset,  *)
(* resetPassword), for one account that is neither deleted nor banned; the   *)
(* verification of an e-mail address has the same form.                      *)
(***************************************************************************)
EXTENDS Calls

CONSTANTS
  Tokens       \* bound: the tokens ever created

VARIABLES
  token,       \* passwordResetToken: each token's row
  opened       \* the tokens ever created

resetVars == <<token, opened>>
NoRow == [state |-> "none", together |-> FALSE]
Live == {t \in Tokens : token[t].state = "live"}

ResetInit ==
  /\ token = [t \in Tokens |-> NoRow] /\ opened = {}
  /\ calls = NoCalls

\* A mutated form of OldTokensGone: the tokens already sent stay good.
OldTokensStay == UNCHANGED token

\* deleteMany where usedAt is null.
OldTokensGone ==
  token' = [t \in Tokens |-> IF token[t].state = "used" THEN token[t] ELSE NoRow]

RequestPasswordReset(c) ==
  /\ Enter(c, [at |-> "delete", token |-> "none", together |-> InCompany]) /\ UNCHANGED resetVars

DeleteOld(c) ==
  /\ At(c, "delete") /\ OldTokensGone
  /\ GoOn(c, "create") /\ UNCHANGED opened

\* The create, then the mail, whose failure leaves the token.
CreateToken(c, t) ==
  /\ At(c, "create") /\ t \notin opened
  /\ token' = [token EXCEPT ![t] = [state |-> "live", together |-> calls[c].together]]
  /\ opened' = opened \cup {t}
  /\ GoOn(c, "mail")
SendMail(c) == At(c, "mail") /\ Return(c) /\ UNCHANGED resetVars

\* expiresAt, looked at by resetPassword's first read only.
TokenExpires(t) ==
  /\ t \in Live
  /\ token' = [token EXCEPT ![t].state = "expired"] /\ UNCHANGED <<opened, calls>>

\* cleanExpiredPasswordResetTokens, every night.
CleanExpired ==
  /\ token' = [t \in Tokens |-> IF token[t].state = "expired" THEN NoRow ELSE token[t]]
  /\ UNCHANGED <<opened, calls>>

Good(t) == token[t].state = "live"

\* resetPassword looks the token up, then hashes the password.
ResetPassword(c, t) ==
  /\ Good(t) /\ Enter(c, [at |-> "write", token |-> t, together |-> InCompany]) /\ UNCHANGED resetVars

\* The transaction, by the token's identifier: it fails if the row is gone.
WritePassword(c) ==
  LET t == calls[c].token IN
  /\ At(c, "write") /\ token[t].state # "none"
  /\ token' = [token EXCEPT ![t].state = "used"]
  /\ Return(c) /\ UNCHANGED opened

ResetNext ==
  \/ \E c \in CallIds :
       \/ \E t \in Tokens : CreateToken(c, t) \/ ResetPassword(c, t)
       \/ RequestPasswordReset(c) \/ DeleteOld(c) \/ SendMail(c) \/ WritePassword(c)
       \/ Throw(c) /\ UNCHANGED resetVars
  \/ CleanExpired \/ \E t \in Tokens : TokenExpires(t)
  \/ CallsLost /\ UNCHANGED resetVars

ResetSpec == ResetInit /\ [][ResetNext]_<<resetVars, calls>>

\* Only the last link mailed is good, unless each of the good ones was asked for while
\* another call was on its way.
OneLinkIsGood == Cardinality(Live) > 1 => \A t \in Live : token[t].together
=============================================================================
