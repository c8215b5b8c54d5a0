----------------------------- MODULE PasswordReset -----------------------------
(***************************************************************************)
(* Reset tokens of one account (api/routers/auth.py,                       *)
(* services/auth_security.py, models/auth_session.py).  Tokens are found   *)
(* by their hash and belong to one user, so accounts do not meet here.     *)
(*                                                                         *)
(* A request reads the tokens, the password and the open sessions, decides *)
(* and commits later.  The token of an owner's own request is delivered by *)
(* no code of the program; whoever holds it may confirm with it.           *)
(***************************************************************************)
EXTENDS Integers, FiniteSets

CONSTANTS
  Tokens,       \* ids of password_reset_tokens
  Contexts,     \* networks and browsers a request comes from
  Logins,       \* ids of sessions
  Flights,      \* requests that may be under way at once
  MaxPasswords  \* bound on the passwords ever set

ASSUME PasswordBound == MaxPasswords \in Nat

VARIABLES
  token,      \* [state, context]: not_issued, live, used or expired
  password,   \* the number of the current password
  login,      \* sessions: not_begun, open or revoked, and the password that opened them
  flight,     \* what each request is about to flush
  resetTo,    \* the password set by the last confirmed reset, 0 if none
  doubled,    \* two requests for a token were under way at once
  late        \* sessions whose sign-in overlapped with a confirmation

rvars == <<token, password, login, flight, resetTo, doubled, late>>

AnyContext == "unknown"
Parked == [op |-> "none"]

(* The parts of a flush: tokens marked used, the token inserted, the new   *)
(* password, sessions revoked, the session inserted.                       *)
Update(op) ==
  [op |-> op, uses |-> {}, issue |-> {}, set |-> FALSE, revokes |-> {}, opens |-> {}]

Live == {t \in Tokens : token[t].state = "live"}
Open == {s \in Logins : login[s].state = "open"}
Fresh == {t \in Tokens : token[t].state = "not_issued"}

ResetTypeOK ==
  /\ token \in [Tokens -> [state : {"not_issued", "live", "used", "expired"},
                           context : Contexts \union {AnyContext}]]
  /\ password \in 0..MaxPasswords /\ resetTo \in 0..MaxPasswords
  /\ login \in [Logins -> [state : {"not_begun", "open", "revoked"}, with : 0..MaxPasswords]]
  /\ doubled \in BOOLEAN /\ late \subseteq Logins

(* A slip: the earlier tokens stay valid. *)
OneMoreToken(c) == {[Update("request") EXCEPT !.issue = {<<t, c>>}] : t \in Fresh}

(* hash_password_reset_context keeps nothing of an unknown address or an   *)
(* empty user agent.                                                       *)
request_password_reset(c) ==
  {[Update("request") EXCEPT !.uses = Live, !.issue = {<<t, c>>}] : t \in Fresh}

admin_request_password_reset(c) ==
  {[Update("admin_request") EXCEPT !.uses = Live, !.issue = {<<t, c>>},
                                   !.revokes = Open] : t \in Fresh}

password_reset_context_matches(stored, current) == stored \in {AnyContext, current}

(* A slip: only the token is used up, the sessions stay. *)
ConfirmToken(t, c) ==
  IF t \in Live /\ password_reset_context_matches(token[t].context, c)
    THEN {[Update("confirm") EXCEPT !.uses = {t}, !.set = TRUE]}
    ELSE {}

confirm_password_reset(t, c) ==
  IF t \in Live /\ password_reset_context_matches(token[t].context, c)
    THEN {[Update("confirm") EXCEPT !.uses = {t}, !.set = TRUE, !.revokes = Open]}
    ELSE {}

(* change_password keeps the session it is called in.                      *)
change_password(s) ==
  IF s \in Open THEN {[Update("change") EXCEPT !.set = TRUE, !.revokes = Open \ {s}]} ELSE {}

(* The password is verified against the row that was read.  Locks, which  *)
(* a reset clears, are in AccountDesk.                                     *)
sign_in(s) ==
  IF login[s].state = "not_begun"
    THEN {[Update("login") EXCEPT !.opens = {<<s, password>>}]} ELSE {}

Handled ==
  (UNION {request_password_reset(c) \union admin_request_password_reset(c) :
            c \in Contexts \union {AnyContext}})
    \union (UNION {confirm_password_reset(t, c) : t \in Tokens, c \in Contexts})
    \union (UNION {sign_in(s) \union change_password(s) : s \in Logins})

-----------------------------------------------------------------------------
ResetInit ==
  /\ token = [t \in Tokens |-> [state |-> "not_issued", context |-> AnyContext]]
  /\ password = 0 /\ resetTo = 0 /\ doubled = FALSE /\ late = {}
  /\ login = [s \in Logins |-> [state |-> "not_begun", with |-> 0]]
  /\ flight = [x \in Flights |-> Parked]

Issues(y) == flight[y] # Parked /\ flight[y].issue # {}
Ops == {flight[y].op : y \in Flights}

(* The sign-ins that overlap with a confirmation once u is under way.      *)
Overlap(u) ==
  CASE u.op = "confirm" -> {s \in Logins : \E y \in Flights :
                              flight[y] # Parked /\ \E o \in flight[y].opens : o[1] = s}
    [] u.op = "login" /\ "confirm" \in Ops -> {o[1] : o \in u.opens}
    [] OTHER -> {}

BeginReset(x) ==
  /\ flight[x] = Parked
  /\ \E u \in Handled :
       /\ flight' = [flight EXCEPT ![x] = u]
       /\ doubled' = (doubled \/ (u.issue # {} /\ \E y \in Flights : Issues(y)))
       /\ late' = late \union Overlap(u)
  /\ UNCHANGED <<token, password, login, resetTo>>

(* The ids of inserted rows are new; the bound on passwords.               *)
Insertable(u) ==
  /\ u.set => password < MaxPasswords
  /\ \A i \in u.issue : i[1] \in Fresh
  /\ \A o \in u.opens : login[o[1]].state = "not_begun"

CommitReset(x) ==
  LET u == flight[x] IN
  /\ u # Parked /\ Insertable(u)
  /\ token' = [t \in Tokens |->
       IF \E i \in u.issue : i[1] = t
         THEN [state |-> "live", context |-> (CHOOSE i \in u.issue : i[1] = t)[2]]
       ELSE IF t \in u.uses THEN [token[t] EXCEPT !.state = "used"] ELSE token[t]]
  /\ password' = IF u.set THEN password + 1 ELSE password
  /\ resetTo' = IF u.op = "confirm" THEN password' ELSE resetTo
  /\ login' = [s \in Logins |->
       IF \E o \in u.opens : o[1] = s
         THEN [state |-> "open", with |-> (CHOOSE o \in u.opens : o[1] = s)[2]]
       ELSE IF s \in u.revokes THEN [login[s] EXCEPT !.state = "revoked"] ELSE login[s]]
  /\ flight' = [flight EXCEPT ![x] = Parked]
  /\ UNCHANGED <<doubled, late>>

DropReset(x) ==
  /\ flight[x] # Parked
  /\ flight' = [flight EXCEPT ![x] = Parked]
  /\ UNCHANGED <<token, password, login, resetTo, doubled, late>>

Expire ==
  /\ \E t \in Live : token' = [token EXCEPT ![t].state = "expired"]
  /\ UNCHANGED <<password, login, flight, resetTo, doubled, late>>

ResetNext ==
  \/ \E x \in Flights : BeginReset(x) \/ CommitReset(x) \/ DropReset(x)
  \/ Expire

ResetSpec == ResetInit /\ [][ResetNext]_rvars

-----------------------------------------------------------------------------
(* Unless two requests for a token overlapped, only the token of the last  *)
(* one still works, whatever else ran at the same time.                    *)
OneLiveToken == doubled \/ Cardinality(Live) <= 1

(* A confirmed reset has ended every session that was opened with an       *)
(* earlier password, unless its sign-in overlapped with the confirmation.  *)
ResetEndsSessions == \A s \in Open \ late : login[s].with >= resetTo
=============================================================================
