----------------------------- MODULE AuthSessions -----------------------------
(***************************************************************************)
(* Sessions and their token pairs on the server (api/routers/auth.py,      *)
(* services/auth_security.py, api/deps.py, core/web_security.py).          *)
(*                                                                         *)
(* A sign-in issues a pair, an access and a refresh token; each rotation   *)
(* denies the pair of the session row it read and issues the next one.     *)
(* The two tokens of a pair are written and denied together, so a pair is  *)
(* one number, in the order of issue.  A request works in steps that       *)
(* interleave with those of others: it looks whether its pair is denied    *)
(* (Lookup), reads the session rows and decides (Handle), looks for the    *)
(* pairs it denies in revoked_tokens and puts them in Redis (Check), and   *)
(* flushes the columns it changed (Commit).  A second insert of one jti    *)
(* fails on its unique index and rolls the request back; what Redis was    *)
(* told stays.                                                             *)
(***************************************************************************)
EXTENDS Integers, Sequences

CONSTANTS
  Sessions,  \* ids of session rows
  Slots,     \* requests that may be under way at once
  MaxPairs,  \* bound on the pairs ever issued
  MaxFaults  \* bound on timeouts, failed transactions and lost answers

ASSUME SomeSession == Sessions # {}
ASSUME BoundsAreNumbers == MaxPairs \in Nat \ {0} /\ MaxFaults \in Nat

VARIABLES
  owner,    \* owner[n]: the session the nth pair was issued for
  session,  \* AuthSession rows
  denied,   \* pairs in revoked_tokens
  cached,   \* pairs that only Redis denies
  aged,     \* the pairs up to this one have outlived their access token
  stale,    \* sessions past their absolute or idle timeout
  mfa,      \* User.mfa_enabled
  flights,  \* the request in each slot
  crossed,  \* sessions where a rotation met another use of the pair it read:
            \* it overwrote the pair of another rotation, or it committed while
            \* a refresh had looked the pair up and not yet read the session
  faults    \* the faults so far

svars == <<owner, session, denied, cached, aged, stale, mfa, flights, crossed, faults>>

Pairs == 1..MaxPairs
NoPair == 0            \* no cookie; in an answer: the cookies are deleted
Keep == MaxPairs + 1   \* an answer that sets no cookie
Issued == 1..Len(owner)

Row(state, pair, stepUp) == [state |-> state, pair |-> pair, stepUp |-> stepUp]
Idle == [phase |-> "idle"]
Sent(op, pair, access) ==
  [phase |-> "sent", op |-> op, pair |-> pair, access |-> access, looked |-> FALSE]
Answer(f, code, jar) ==
  [phase |-> "answered", op |-> f.op, pair |-> f.pair, code |-> code, jar |-> jar]

ServerTypeOK ==
  /\ owner \in Seq(Sessions) /\ Len(owner) <= MaxPairs
  /\ session \in [Sessions -> [state : {"none", "open", "ended", "reused"},
                               pair : 0..MaxPairs, stepUp : BOOLEAN]]
  /\ denied \subseteq Issued /\ cached \subseteq Issued /\ aged \in 0..Len(owner)
  /\ stale \subseteq Sessions /\ crossed \subseteq Sessions /\ mfa \in BOOLEAN
  /\ faults \in 0..MaxFaults

-----------------------------------------------------------------------------
(* What a request decides to write: the pair it issues for a session (from *)
(* the row it read), the sessions it ends, the pairs it denies, and the    *)
(* columns of the second factor.                                           *)

Plan(f, code, jar) ==
  [phase |-> "planned", op |-> f.op, pair |-> f.pair, code |-> code, jar |-> jar,
   issue |-> <<>>, ends |-> {}, reuse |-> FALSE, deny |-> {}, stepUp |-> {}, dropUp |-> {}]

(* revoke_session leaves alone what is revoked already. *)
revoke_session(plan, rows) ==
  LET open == {s \in rows : session[s].state = "open"}
  IN  [plan EXCEPT !.ends = @ \union open,
                   !.deny = @ \union {session[s].pair : s \in open}]

(* A slip: the pair the session had so far is not denied. *)
KeepOldPair(plan, s) ==
  [plan EXCEPT !.issue = <<s, session[s].pair, Len(owner) + 1>>, !.jar = Len(owner) + 1]

rotate_refresh_token(plan, s) ==
  [plan EXCEPT !.issue = <<s, session[s].pair, Len(owner) + 1>>,
               !.jar = Len(owner) + 1, !.deny = @ \union {session[s].pair}]

(* Redis may know of pairs the table does not hold; an answer of Redis     *)
(* that fails, now or when the pair was put there, is no answer.           *)
is_token_revoked(n, redis) == n \in denied \/ (redis /\ n \in cached)

(* While the access cookie is there, the CSRF check refuses a refresh: the *)
(* client sends it without the header.                                     *)
CsrfRefused(f) == f.op = "refresh" /\ f.access

(* Whether the request comes as far as the lookup of its token: the        *)
(* refresh cookie is there, or an access cookie that has not expired.      *)
LooksUp(f) ==
  IF f.op = "refresh" THEN ~f.access /\ f.pair # NoPair
  ELSE f.op \notin {"login", "logout"} /\ f.access /\ f.pair > aged

(* Handlers behind get_current_auth_context; s is the caller's session.    *)
(* A wrong password or code is answered 400.                               *)
Refusal(f) == Answer(f, "400", Keep)

require_sensitive_action(f, s) ==
  {Answer(f, IF session[s].stepUp THEN "ok" ELSE "403", Keep)}

mfa_step_up(f, s) ==
  {Refusal(f)} \union (IF mfa THEN {[Plan(f, "ok", Keep) EXCEPT !.stepUp = {s}]} ELSE {})

mfa_enable(f, s) ==
  {Refusal(f), rotate_refresh_token([Plan(f, "ok", Keep) EXCEPT !.stepUp = {s}], s)}

mfa_disable(f, s) ==
  {Refusal(f), rotate_refresh_token([Plan(f, "ok", Keep) EXCEPT !.dropUp = {s}], s)}

change_password(f, s) ==
  {Refusal(f), rotate_refresh_token(revoke_session(Plan(f, "ok", Keep), Sessions \ {s}), s)}

revoke_single_session(f, s) ==
  {revoke_session(Plan(f, "ok", IF r = s THEN NoPair ELSE Keep), {r}) :
     r \in {r \in Sessions : session[r].state # "none"}}

Authenticated(f, s) ==
  CASE f.op = "read" -> {Answer(f, "ok", Keep)}
    [] f.op = "secure" -> require_sensitive_action(f, s)
    [] f.op = "step_up" -> mfa_step_up(f, s)
    [] f.op = "mfa_enable" -> mfa_enable(f, s)
    [] f.op = "mfa_disable" -> mfa_disable(f, s)
    [] f.op = "change_password" -> change_password(f, s)
    [] f.op = "revoke_single_session" -> revoke_single_session(f, s)

(* The session of a pair that was looked up and was not denied then.       *)
get_current_auth_context(f, s) ==
  IF session[s].state # "open" THEN {Answer(f, "401", Keep)}
  ELSE IF s \in stale THEN {revoke_session(Plan(f, "401", Keep), {s})}
  ELSE Authenticated(f, s)

refresh_token(f, s) ==
  LET ends == revoke_session(Plan(f, "401", Keep), {s}) IN
  IF session[s].state # "open" THEN {Answer(f, "401", Keep)}
  ELSE IF s \in stale THEN {ends}
  ELSE IF session[s].pair # f.pair THEN {[ends EXCEPT !.reuse = TRUE]}
  ELSE {rotate_refresh_token(Plan(f, "ok", Keep), s)}

(* A slip: the tokens are denied and the session row is left as it is. *)
TokensOnly(f) == [Plan(f, "ok", NoPair) EXCEPT !.deny = {f.pair} \ {NoPair}]

logout(f) ==
  revoke_session([Plan(f, "ok", NoPair) EXCEPT !.deny = {f.pair} \ {NoPair}],
                 {owner[n] : n \in {f.pair} \ {NoPair}})

create_session_and_tokens(f) ==
  {[Plan(f, "ok", Len(owner) + 1) EXCEPT !.issue = <<s, NoPair, Len(owner) + 1>>,
                                         !.stepUp = IF mfa THEN {s} ELSE {}] :
     s \in Sessions \ {owner[n] : n \in Issued}}

Responses(f) ==
  CASE f.looked /\ f.op = "refresh" -> refresh_token(f, owner[f.pair])
    [] f.looked /\ f.op # "refresh" -> get_current_auth_context(f, owner[f.pair])
    [] ~f.looked /\ f.op = "login" ->
         create_session_and_tokens(f) \union {Answer(f, "401", Keep)}
    [] ~f.looked /\ f.op = "logout" -> {logout(f)}
    [] OTHER -> {Answer(f, IF CsrfRefused(f) THEN "403" ELSE "401", Keep)}

-----------------------------------------------------------------------------
(* The steps of a request, and the failures of the database.               *)

Fault == faults < MaxFaults /\ faults' = faults + 1

(* A plan that denies nothing has nothing to look for.                     *)
NextPhase(r) == IF r.phase = "planned" /\ r.deny = {} THEN [r EXCEPT !.phase = "checked"] ELSE r

Lookup(x) ==
  LET f == flights[x] IN
  /\ f.phase = "sent" /\ ~f.looked /\ LooksUp(f)
  /\ \E redis \in BOOLEAN :
       flights' = [flights EXCEPT ![x] = IF is_token_revoked(f.pair, redis)
                     THEN Answer(f, "401", Keep) ELSE [f EXCEPT !.looked = TRUE]]
  /\ UNCHANGED <<owner, session, denied, cached, aged, stale, mfa, crossed, faults>>

Handle(x) ==
  /\ flights[x].phase = "sent" /\ (flights[x].looked \/ ~LooksUp(flights[x]))
  /\ \E r \in Responses(flights[x]) :
       /\ flights' = [flights EXCEPT ![x] = NextPhase(r)]
       /\ IF r.phase = "planned" /\ r.issue # <<>>
            THEN Len(owner) < MaxPairs /\ owner' = Append(owner, r.issue[1])
            ELSE owner' = owner
  /\ UNCHANGED <<session, denied, cached, aged, stale, mfa, crossed, faults>>

Check(x) ==
  LET f == flights[x] IN
  /\ f.phase = "planned"
  /\ flights' = [flights EXCEPT ![x] = [f EXCEPT !.phase = "checked", !.deny = @ \ denied]]
  /\ cached' = cached \union (f.deny \ denied)
  /\ UNCHANGED <<owner, session, denied, aged, stale, mfa, crossed, faults>>

Issues(f, s) == f.issue # <<>> /\ f.issue[1] = s

(* A slip: the whole row is written back as it was read. *)
WholeRow(f, s) ==
  LET old == session[s]
  IN  IF Issues(f, s) THEN Row("open", f.issue[3], s \in f.stepUp \/ (old.stepUp /\ s \notin f.dropUp))
      ELSE IF s \in f.ends THEN [old EXCEPT !.state = IF f.reuse THEN "reused" ELSE "ended"]
      ELSE [old EXCEPT !.stepUp = s \in f.stepUp \/ @]

(* The flush writes the columns that changed, whatever the others are now. *)
Flushed(f, s) ==
  LET old == session[s]
  IN  Row(IF s \in f.ends THEN (IF f.reuse THEN "reused" ELSE "ended")
          ELSE IF Issues(f, s) /\ f.issue[2] = NoPair THEN "open" ELSE old.state,
          IF Issues(f, s) THEN f.issue[3] ELSE old.pair,
          s \in f.stepUp \/ (old.stepUp /\ s \notin f.dropUp))

(* A refresh with this pair is between its lookup and its read of the row. *)
BetweenReads(n) ==
  \E y \in Slots : LET f == flights[y] IN
    f.phase = "sent" /\ f.looked /\ f.op = "refresh" /\ f.pair = n

Commit(x) ==
  LET f == flights[x] IN
  /\ f.phase = "checked" /\ f.deny \intersect denied = {}
  /\ denied' = denied \union f.deny
  /\ session' = [s \in Sessions |-> Flushed(f, s)]
  /\ mfa' = CASE f.op = "mfa_enable" /\ f.code = "ok" -> TRUE
              [] f.op = "mfa_disable" /\ f.code = "ok" -> FALSE
              [] OTHER -> mfa
  /\ crossed' = crossed \union
       {s \in Sessions : Issues(f, s) /\ f.issue[2] # NoPair
                          /\ (f.issue[2] # session[s].pair \/ BetweenReads(f.issue[2]))}
  /\ cached' = cached \ denied'
  /\ flights' = [flights EXCEPT ![x] = Answer(f, f.code, f.jar)]
  /\ UNCHANGED <<owner, aged, stale, faults>>

(* A conflict on a jti, or a database that fails: the answer is a 500.  At *)
(* the bound on pairs the database fails for good.                         *)
RollBack(x) ==
  LET f == flights[x] IN
  /\ \/ f.phase = "checked" /\ f.deny \intersect denied # {} /\ faults' = faults
     \/ f.phase = "sent" /\ Len(owner) = MaxPairs /\ faults' = faults
     \/ f.phase \in {"sent", "checked"} /\ Fault
  /\ flights' = [flights EXCEPT ![x] = Answer(f, "500", Keep)]
  /\ UNCHANGED <<owner, session, denied, cached, aged, stale, mfa, crossed>>

(* Access tokens live equally long, so they expire in the order of issue.  *)
AccessExpires ==
  /\ aged < Len(owner) /\ aged' = aged + 1
  /\ UNCHANGED <<faults, owner, session, denied, cached, stale, mfa, flights, crossed>>

SessionExpires ==
  /\ \E s \in Sessions \ stale : session[s].state = "open" /\ stale' = stale \union {s}
  /\ Fault
  /\ UNCHANGED <<owner, session, denied, cached, aged, mfa, flights, crossed>>

StepUpExpires ==
  /\ \E s \in Sessions :
       session[s].stepUp /\ session' = [session EXCEPT ![s].stepUp = FALSE]
  /\ Fault
  /\ UNCHANGED <<owner, denied, cached, aged, stale, mfa, flights, crossed>>

Work(x) == Lookup(x) \/ Handle(x) \/ Check(x) \/ Commit(x) \/ RollBack(x)

-----------------------------------------------------------------------------
(* A session that was ended, by whichever request, stays ended, also when  *)
(* a rotation that read it open commits later.                             *)
EndedStaysEnded ==
  [][\A s \in Sessions : session[s].state \in {"ended", "reused"}
        => session'[s].state \in {"ended", "reused"}]_svars

(* The alarm about a reused refresh token is raised only where requests    *)
(* overlapped over one pair: two rotations of it, or a rotation and a      *)
(* refresh that had looked the pair up before the rotation committed.  An  *)
(* answer that is lost, a refresh that is sent again once the rotation has *)
(* committed, and one that is rolled back raise none.                      *)
ReuseMeansOverlap ==
  \A s \in Sessions : session[s].state = "reused" => s \in crossed

(* The pair in the row of an open session is its own and is not in the     *)
(* table of revoked tokens, or nobody could use the session any more.      *)
OpenPairAccepted ==
  \A s \in Sessions : session[s].state = "open" =>
    session[s].pair \in Issued \ denied /\ owner[session[s].pair] = s

(* A logout that was answered has ended the session of the cookie it was   *)
(* sent with, also if another request rotated the pair meanwhile.          *)
LogoutEndsSession ==
  \A x \in Slots : LET f == flights[x] IN
    f.phase = "answered" /\ f.op = "logout" /\ f.code = "ok" /\ f.pair # NoPair
      => session[owner[f.pair]].state \in {"ended", "reused"}
=============================================================================
