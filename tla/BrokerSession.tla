---------------------------- MODULE BrokerSession -----------------------------
(***************************************************************************)
(* broker/auth.py: one login to the broker and what is known of it.  The   *)
(* broker may end it at any time, which is only learnt from a call that it *)
(* refuses: the hook marks the session invalid, and nothing but an         *)
(* explicit login or refresh makes it valid again.                         *)
(***************************************************************************)
CONSTANT MayRenew   \* may the session's owner call refresh, login and logout

VARIABLES
  session,    \* _state: "none", or its is_valid as "valid" or "invalid"
  accepted    \* external: does the broker still accept the session's token

vars == <<session, accepted>>

Init == session = "none" /\ accepted = FALSE

\* client: the accessor raises when there is no valid session.
Usable == session = "valid"

LoginSucceeds == session' = "valid" /\ accepted' = TRUE

\* An AuthenticationError leaves the state there was.
LoginFails == UNCHANGED vars

Login == LoginSucceeds \/ LoginFails

\* _on_session_expired, called by the SDK when the broker refuses a call.
OnSessionExpired ==
  /\ session' = IF session = "none" THEN "none" ELSE "invalid"
  /\ UNCHANGED accepted

\* refresh: the broker may refuse, which invalidates the session.
Refresh ==
  /\ session # "none"
  /\ LoginSucceeds \/ (session' = "invalid" /\ UNCHANGED accepted)

Logout ==
  /\ session # "none"
  /\ session' = "invalid"
  /\ accepted' = FALSE

\* External: the broker ends the session.
Expire == accepted /\ accepted' = FALSE /\ UNCHANGED session

\* What the session's owner may do at any time.
Renew == MayRenew /\ session # "none" /\ (Login \/ Refresh \/ Logout)

=============================================================================
