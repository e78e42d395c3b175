---------------------------------- MODULE Auth ----------------------------------
(***************************************************************************)
(* internal/server/community/auth: bearer tokens.  The server keeps none of *)
(* them: a token carries its expiry in whole seconds and is signed with the *)
(* configured secret.  A name and a password are right or wrong, and a      *)
(* signature is forged by nobody, so the tokens that matter are those that  *)
(* Login made.                                                              *)
(***************************************************************************)
EXTENDS Integers

CONSTANTS
  Second,        \* ticks of the clock in a second
  Secret,        \* token secrets
  ShortSecret    \* those of fewer than 16 characters

ASSUME AuthAssumption == Second \in Nat \ {0} /\ ShortSecret \subseteq Secret

\* ZENHUB_SERVER_TOKEN_SECRET and ZENHUB_SERVER_TOKEN_TTL, the latter in ticks.
Settings == [secret : Secret, ttl : Int]

\* A token, with the time of the login and the lifetime it was given, which
\* the code does not keep, as history.
Token == [secret : Secret, expires : Nat, issued : Nat, ttl : Nat]

\* Config.Validate and auth.New, which check the same.
Accepted(s) == s.secret \notin ShortSecret /\ s.ttl > 0

\* expiresAt.Unix(): the last whole second, as a time.
Expiry(t) == t - (t % Second)

\* Login with the right name and password.
NewToken(s, now) ==
  [secret |-> s.secret, expires |-> Expiry(now + s.ttl), issued |-> now,
   ttl |-> s.ttl]

\* A token is refused at the very time of its expiry already.
Verified_Before(token, s, now) ==
  token.secret = s.secret /\ now < token.expires

\* Verify returns no error: the signature is that of the server's secret and
\* the clock is not after the expiry.
Verified(token, s, now) ==
  token.secret = s.secret /\ now <= token.expires
===============================================================================
