----------------------------- MODULE SessionProofs -----------------------------
(***************************************************************************)
(* For any tabs, calls and sessions, and however their requests overlap: a *)
(* session that was ended stays ended, and a logout that was answered has  *)
(* ended the session of the cookie it was sent with.                       *)
(***************************************************************************)
EXTENDS BrowserClient, TLAPS

Ops == {"login", "read", "secure", "step_up", "mfa_enable", "mfa_disable",
        "change_password", "revoke_single_session", "logout", "refresh"}

Born(s) == session[s].state # "none"
Over(s) == session[s].state \in {"ended", "reused"}
Owned(s) == \E n \in Issued : owner[n] = s

RowsOK ==
  /\ owner \in Seq(Sessions) /\ Len(owner) <= MaxPairs
  /\ session \in [Sessions -> [state : {"none", "open", "ended", "reused"},
                               pair : Nat, stepUp : BOOLEAN]]
  /\ \A s \in Sessions : session[s].state = "open" => session[s].pair # NoPair
  /\ \A s \in Sessions : Born(s) => Owned(s)

(* A cookie is none, or holds a pair of a session that has been committed. *)
CookieOK(n) == n = NoPair \/ (n \in Issued /\ Born(owner[n]))
JarOK(n) == n = Keep \/ CookieOK(n)

Issuing(f) == f.issue # <<>>
Opening(f) == Issuing(f) /\ f.issue[2] = NoPair

(* A logout ends the session of its cookie, or finds it ended.             *)
LogoutOK(f, ends) ==
  f.op = "logout" /\ f.pair # NoPair =>
    f.pair \in Issued /\ (owner[f.pair] \in ends \/ Over(owner[f.pair]))

(* Only a request with a cookie, and not a sign-in or a logout, has looked *)
(* its pair up.                                                            *)
SentOK(f) ==
  /\ DOMAIN f = {"phase", "op", "pair", "access", "looked"}
  /\ f.op \in Ops /\ CookieOK(f.pair) /\ f.access \in BOOLEAN /\ (f.access => f.pair # NoPair)
  /\ f.looked \in BOOLEAN /\ (f.looked => f.pair # NoPair /\ f.op \notin {"login", "logout"})

PlanFields ==
  {"phase", "op", "pair", "code", "jar", "issue", "ends", "reuse", "deny", "stepUp", "dropUp"}

(* A plan opens a session nobody has opened, or changes one that exists.   *)
PlanOK(f) ==
  /\ DOMAIN f = PlanFields
  /\ ~Issuing(f) => JarOK(f.jar)
  /\ Issuing(f) =>
       /\ f.issue[1] \in Sessions /\ Owned(f.issue[1])
       /\ f.issue[3] \in Nat \ {NoPair}
       /\ f.jar \in Issued /\ owner[f.jar] = f.issue[1]
       /\ Born(f.issue[1]) <=> ~Opening(f)
  /\ f.ends \subseteq {s \in Sessions : Born(s)}
  /\ LogoutOK(f, f.ends)

AnswerOK(f) == JarOK(f.jar) /\ (f.code = "ok" => LogoutOK(f, {}))

FlightOK(f) ==
  \/ f.phase = "idle"
  \/ f.phase = "sent" /\ SentOK(f)
  \/ f.phase \in {"planned", "checked"} /\ PlanOK(f)
  \/ f.phase = "answered" /\ AnswerOK(f)

Pending(f) == f.phase \in {"planned", "checked"}

(* No two sign-ins under way open the same session.                        *)
OpenedOnce ==
  \A x, y \in Slots :
    x # y /\ Pending(flights[x]) /\ Pending(flights[y]) /\ Opening(flights[x]) /\ Opening(flights[y])
      => flights[x].issue[1] # flights[y].issue[1]

CallOK(r) == "op" \in DOMAIN r /\ r.op \in Ops
CallsOK == DOMAIN call = Requests /\ \A c \in Requests : CallOK(call[c])

BrowserOK == CookieOK(jar) /\ CallsOK

FlightsOK == DOMAIN flights = Slots /\ \A x \in Slots : FlightOK(flights[x])

IInv == RowsOK /\ FlightsOK /\ OpenedOnce /\ BrowserOK

-----------------------------------------------------------------------------
(* What a handler may decide.                                              *)
NewPlanOK(r) ==
  /\ DOMAIN r = PlanFields
  /\ ~Issuing(r) => JarOK(r.jar)
  /\ Issuing(r) =>
       /\ r.issue[1] \in Sessions
       /\ r.issue[3] = Len(owner) + 1 /\ r.jar = Len(owner) + 1
       /\ Born(r.issue[1]) <=> ~Opening(r)
       /\ Opening(r) => ~Owned(r.issue[1])
  /\ r.ends \subseteq {s \in Sessions : Born(s)}
  /\ LogoutOK(r, r.ends)

DecisionOK(r) ==
  \/ r.phase = "answered" /\ AnswerOK(r)
  \/ r.phase = "planned" /\ NewPlanOK(r)

LEMMA Refused ==
  ASSUME NEW f, NEW code, code # "ok"
  PROVE  DecisionOK(Answer(f, code, Keep))
  BY DEF DecisionOK, AnswerOK, JarOK, Answer

LEMMA Allowed ==
  ASSUME NEW f, f.op # "logout", NEW code
  PROVE  DecisionOK(Answer(f, code, Keep))
  BY DEF DecisionOK, AnswerOK, JarOK, LogoutOK, Answer

(* The plans a rotation starts from.                                       *)
IsPlanOf(p, f) ==
  /\ p.phase = "planned" /\ p.op = f.op /\ p.ends \subseteq {t \in Sessions : Born(t)}
  /\ DOMAIN p = PlanFields

LEMMA PlanShape ==
  ASSUME NEW f, NEW code, NEW j, NEW rows, rows \subseteq Sessions, NEW t
  PROVE  /\ IsPlanOf(Plan(f, code, j), f)
         /\ IsPlanOf([Plan(f, code, j) EXCEPT !.stepUp = t], f)
         /\ IsPlanOf([Plan(f, code, j) EXCEPT !.dropUp = t], f)
         /\ IsPlanOf(revoke_session(Plan(f, code, j), rows), f)
<1>1. IsPlanOf(Plan(f, code, j), f)
  BY DEF Plan, IsPlanOf, PlanFields
<1>2. IsPlanOf([Plan(f, code, j) EXCEPT !.stepUp = t], f)
  BY DEF Plan, IsPlanOf, PlanFields
<1>3. IsPlanOf([Plan(f, code, j) EXCEPT !.dropUp = t], f)
  BY DEF Plan, IsPlanOf, PlanFields
<1>4. IsPlanOf(revoke_session(Plan(f, code, j), rows), f)
  <2> DEFINE p == Plan(f, code, j)
             e == [p EXCEPT !.ends = @ \union {s \in rows : session[s].state = "open"}]
  <2>1. p.ends = {} /\ p.op = f.op /\ p.phase = "planned"
        /\ DOMAIN p = PlanFields
    BY DEF Plan, PlanFields
  <2> HIDE DEF p
  <2>2. e.ends \subseteq {s \in Sessions : Born(s)} /\ e.op = f.op /\ e.phase = "planned" /\ DOMAIN e = DOMAIN p
    BY <2>1 DEF Born
  <2>3. revoke_session(p, rows)
          = [e EXCEPT !.deny = @ \union {session[s].pair : s \in {s \in rows : session[s].state = "open"}}]
    BY <2>1 DEF revoke_session
  <2> HIDE DEF e
  <2>4. IsPlanOf(revoke_session(p, rows), f)
    BY <2>1, <2>2, <2>3 DEF IsPlanOf, PlanFields
  <2> QED
    BY <2>4 DEF p
<1> QED
  BY <1>1, <1>2, <1>3, <1>4

(* A plan that only ends sessions.                                         *)
LEMMA Ending ==
  ASSUME RowsOK, NEW f, f.op # "logout", NEW code, NEW j, JarOK(j), NEW rows, rows \subseteq Sessions
  PROVE  DecisionOK(revoke_session(Plan(f, code, j), rows))
<1> DEFINE r == revoke_session(Plan(f, code, j), rows)
<1>1. r.jar = j /\ r.issue = <<>>
  BY DEF revoke_session, Plan
<1>2. IsPlanOf(r, f)
  BY PlanShape
<1> QED
  BY <1>1, <1>2 DEF IsPlanOf, DecisionOK, NewPlanOK, Issuing, LogoutOK

LEMMA Rotating ==
  ASSUME RowsOK, NEW f, f.op # "logout", NEW s \in Sessions, session[s].state = "open",
         NEW p, IsPlanOf(p, f)
  PROVE  DecisionOK(rotate_refresh_token(p, s))
<1> DEFINE r == rotate_refresh_token(p, s)
<1>1. /\ r.phase = "planned" /\ r.op = f.op /\ r.ends = p.ends /\ r.jar = Len(owner) + 1
      /\ r.issue = <<s, session[s].pair, Len(owner) + 1>> /\ DOMAIN r = PlanFields
  BY DEF rotate_refresh_token, IsPlanOf, PlanFields
<1>2. Issuing(r) /\ r.issue[1] = s /\ r.issue[2] = session[s].pair /\ r.issue[3] = Len(owner) + 1
  BY <1>1 DEF Issuing
<1>3. Born(s) /\ ~Opening(r)
  BY <1>2 DEF RowsOK, Born, Opening
<1> QED
  BY <1>1, <1>2, <1>3 DEF DecisionOK, NewPlanOK, LogoutOK, IsPlanOf

LEMMA SignIn ==
  ASSUME RowsOK, NEW f, f.op = "login", NEW r \in create_session_and_tokens(f)
  PROVE  DecisionOK(r)
<1>1. PICK s \in Sessions \ {owner[n] : n \in Issued} :
        r = [Plan(f, "ok", Len(owner) + 1) EXCEPT !.issue = <<s, NoPair, Len(owner) + 1>>,
                                                  !.stepUp = IF mfa THEN {s} ELSE {}]
  BY DEF create_session_and_tokens
<1>2. /\ r.phase = "planned" /\ r.op = "login" /\ r.ends = {} /\ r.jar = Len(owner) + 1
      /\ r.issue = <<s, NoPair, Len(owner) + 1>> /\ DOMAIN r = PlanFields
  BY <1>1 DEF Plan, PlanFields
<1>3. Issuing(r) /\ r.issue[1] = s /\ r.issue[2] = NoPair /\ r.issue[3] = Len(owner) + 1
  BY <1>2 DEF Issuing
<1>4. ~Owned(s) /\ ~Born(s)
  BY <1>1 DEF Owned, RowsOK
<1> QED
  BY <1>2, <1>3, <1>4 DEF DecisionOK, NewPlanOK, LogoutOK, Opening

LEMMA SignOut ==
  ASSUME RowsOK, NEW f, f.op = "logout", CookieOK(f.pair)
  PROVE  DecisionOK(logout(f))
<1> DEFINE r == logout(f)
<1>1. /\ r.phase = "planned" /\ r.op = "logout" /\ r.pair = f.pair /\ r.jar = NoPair /\ r.issue = <<>>
      /\ r.ends = {s \in {owner[n] : n \in {f.pair} \ {NoPair}} : session[s].state = "open"}
      /\ DOMAIN r = PlanFields
  BY DEF logout, revoke_session, Plan, PlanFields
<1>2. ASSUME f.pair # NoPair PROVE owner[f.pair] \in Sessions /\ f.pair \in Issued /\ Born(owner[f.pair])
  BY <1>2 DEF CookieOK, RowsOK, Issued
<1>3. r.ends \subseteq {s \in Sessions : Born(s)}
  BY <1>1, <1>2 DEF Born
<1>4. LogoutOK(r, r.ends)
  <2>1. ASSUME f.pair # NoPair, owner[f.pair] \notin r.ends PROVE Over(owner[f.pair])
    <3>1. session[owner[f.pair]].state \in {"none", "open", "ended", "reused"}
      BY <1>2, <2>1 DEF RowsOK
    <3> QED
      BY <1>1, <1>2, <2>1, <3>1 DEF Over, Born
  <2> QED
    BY <1>1, <1>2, <2>1 DEF LogoutOK
<1> QED
  BY <1>1, <1>3, <1>4 DEF DecisionOK, NewPlanOK, Issuing, JarOK, CookieOK

LEMMA Refreshing ==
  ASSUME RowsOK, NEW f, f.op = "refresh", CookieOK(f.pair), f.pair # NoPair,
         NEW r \in refresh_token(f, owner[f.pair])
  PROVE  DecisionOK(r)
<1> DEFINE s == owner[f.pair]
           ends == revoke_session(Plan(f, "401", Keep), {s})
<1>1. CASE r = Answer(f, "401", Keep)
  BY <1>1, Refused
<1>2. ASSUME r # Answer(f, "401", Keep)
      PROVE  s \in Sessions /\ session[s].state = "open"
  BY <1>2 DEF refresh_token, CookieOK, RowsOK, Issued
<1>3. CASE r = ends
  BY <1>2, <1>3, Ending, Refused DEF JarOK
<1>4. CASE r = [ends EXCEPT !.reuse = TRUE] /\ s \in Sessions
  <2>1. ends.ends \subseteq {t \in Sessions : Born(t)} /\ ends.phase = "planned" /\ ends.op = "refresh"
        /\ ends.jar = Keep /\ ends.issue = <<>>
    BY <1>4 DEF revoke_session, Plan, Born
  <2>2. IsPlanOf(ends, f)
    BY <1>4, PlanShape
  <2> HIDE DEF ends
  <2>3. r.ends = ends.ends /\ r.phase = "planned" /\ r.op = "refresh" /\ r.jar = Keep /\ r.issue = <<>>
        /\ DOMAIN r = PlanFields
    BY <1>4, <2>1, <2>2 DEF IsPlanOf, PlanFields
  <2> QED
    BY <2>1, <2>3 DEF DecisionOK, NewPlanOK, Issuing, LogoutOK, JarOK
<1>5. CASE r = rotate_refresh_token(Plan(f, "ok", Keep), s) /\ s \in Sessions /\ session[s].state = "open"
  <2>1. IsPlanOf(Plan(f, "ok", Keep), f)
    BY PlanShape
  <2> QED
    BY <1>5, <2>1, Rotating
<1> QED
  BY <1>1, <1>2, <1>3, <1>4, <1>5 DEF refresh_token

(* Behind get_current_auth_context the caller's session is open.           *)
LEMMA Authenticating ==
  ASSUME RowsOK, NEW f, f.op \in Ops \ {"login", "logout", "refresh"}, NEW s \in Sessions,
         session[s].state = "open", NEW r \in Authenticated(f, s)
  PROVE  DecisionOK(r)
<1>1. CASE f.op = "read"
  BY <1>1, Allowed DEF Authenticated
<1>2. CASE f.op = "secure"
  BY <1>2, Allowed DEF Authenticated, require_sensitive_action
<1>3. CASE r = Refusal(f)
  BY <1>3, Refused DEF Refusal
<1>4. CASE r = [Plan(f, "ok", Keep) EXCEPT !.stepUp = {s}]
  BY <1>4 DEF Plan, DecisionOK, NewPlanOK, Issuing, LogoutOK, JarOK, Ops, PlanFields
<1>5. CASE r = rotate_refresh_token([Plan(f, "ok", Keep) EXCEPT !.stepUp = {s}], s)
  <2>1. IsPlanOf([Plan(f, "ok", Keep) EXCEPT !.stepUp = {s}], f)
    BY PlanShape
  <2> QED
    BY <1>5, <2>1, Rotating
<1>6. CASE r = rotate_refresh_token([Plan(f, "ok", Keep) EXCEPT !.dropUp = {s}], s)
  <2>1. IsPlanOf([Plan(f, "ok", Keep) EXCEPT !.dropUp = {s}], f)
    BY PlanShape
  <2> QED
    BY <1>6, <2>1, Rotating
<1>7. CASE r = rotate_refresh_token(revoke_session(Plan(f, "ok", Keep), Sessions \ {s}), s)
  <2>1. IsPlanOf(revoke_session(Plan(f, "ok", Keep), Sessions \ {s}), f)
    BY PlanShape
  <2> QED
    BY <1>7, <2>1, Rotating
<1>8. ASSUME NEW t \in Sessions, NEW j \in {NoPair, Keep}, r = revoke_session(Plan(f, "ok", j), {t})
      PROVE  DecisionOK(r)
  <2>1. JarOK(j) /\ {t} \subseteq Sessions
    BY DEF JarOK, CookieOK
  <2> QED
    BY <1>8, <2>1, Ending
<1>9. CASE f.op = "step_up"
  BY <1>9, <1>3, <1>4 DEF Authenticated, mfa_step_up
<1>10. CASE f.op = "mfa_enable"
  BY <1>10, <1>3, <1>5 DEF Authenticated, mfa_enable
<1>11. CASE f.op = "mfa_disable"
  BY <1>11, <1>3, <1>6 DEF Authenticated, mfa_disable
<1>12. CASE f.op = "change_password"
  BY <1>12, <1>3, <1>7 DEF Authenticated, change_password
<1>13. CASE f.op = "revoke_single_session"
  BY <1>13, <1>8 DEF Authenticated, revoke_single_session
<1> QED
  BY <1>1, <1>2, <1>9, <1>10, <1>11, <1>12, <1>13 DEF Ops

LEMMA Guarded ==
  ASSUME RowsOK, NEW f, SentOK(f), f.looked, f.op # "refresh",
         NEW r \in get_current_auth_context(f, owner[f.pair])
  PROVE  DecisionOK(r)
<1> DEFINE s == owner[f.pair]
<1>1. s \in Sessions /\ f.op \in Ops \ {"login", "logout", "refresh"}
  BY DEF SentOK, CookieOK, RowsOK, Issued
<1>2. CASE session[s].state # "open"
  BY <1>2, Refused DEF get_current_auth_context
<1>3. CASE session[s].state = "open" /\ s \in stale
  <2>1. JarOK(Keep) /\ {s} \subseteq Sessions /\ r = revoke_session(Plan(f, "401", Keep), {s})
    BY <1>1, <1>3 DEF JarOK, get_current_auth_context
  <2> QED
    BY <1>1, <2>1, Ending
<1>4. CASE session[s].state = "open" /\ s \notin stale
  BY <1>1, <1>4, Authenticating DEF get_current_auth_context
<1> QED
  BY <1>2, <1>3, <1>4

LEMMA Deciding ==
  ASSUME RowsOK, NEW f, SentOK(f), NEW r \in Responses(f)
  PROVE  DecisionOK(r)
<1>1. CASE f.looked /\ f.op = "refresh"
  BY <1>1, Refreshing DEF Responses, SentOK
<1>2. CASE f.looked /\ f.op # "refresh"
  BY <1>2, Guarded DEF Responses
<1>3. CASE ~f.looked /\ f.op = "login"
  BY <1>3, SignIn, Refused DEF Responses
<1>4. CASE ~f.looked /\ f.op = "logout"
  BY <1>4, SignOut DEF Responses, SentOK
<1>5. CASE ~f.looked /\ f.op \notin {"login", "logout"}
  <2>1. \E code \in {"401", "403"} : r = Answer(f, code, Keep)
    BY <1>5 DEF Responses
  <2> QED
    BY <2>1, Refused
<1> QED
  BY <1>1, <1>2, <1>3, <1>4, <1>5 DEF SentOK

-----------------------------------------------------------------------------
(* What every step keeps: pairs stay whose they are, and sessions go from  *)
(* none to open to over.                                                   *)
Grown ==
  /\ Issued \subseteq Issued' /\ \A n \in Issued : owner'[n] = owner[n]
  /\ \A s \in Sessions : (Born(s) => Born(s)') /\ (Over(s) => Over(s)')

LEMMA OwnerTyped == ASSUME RowsOK, NEW n \in Issued PROVE owner[n] \in Sessions
  BY DEF RowsOK, Issued

LEMMA CookieKept ==
  ASSUME RowsOK, Grown, NEW n, CookieOK(n)
  PROVE  CookieOK(n)'
  BY OwnerTyped DEF CookieOK, Grown

LEMMA LogoutKept ==
  ASSUME RowsOK, Grown, NEW f, NEW ends, LogoutOK(f, ends)
  PROVE  LogoutOK(f, ends)'
  BY OwnerTyped DEF LogoutOK, Grown

LEMMA FlightKept ==
  ASSUME RowsOK, Grown, NEW f, FlightOK(f), Pending(f) /\ Opening(f) => ~Born(f.issue[1])'
  PROVE  FlightOK(f)'
<1>1. CASE f.phase = "idle"
  BY <1>1 DEF FlightOK
<1>2. CASE f.phase = "sent"
  BY <1>2, CookieKept DEF FlightOK, SentOK
<1>3. CASE Pending(f)
  <2>1. PlanOK(f)
    BY <1>3 DEF FlightOK, Pending
  <2>2. ~Issuing(f) => JarOK(f.jar)'
    BY <2>1, CookieKept DEF PlanOK, JarOK
  <2>3. ASSUME Issuing(f)
        PROVE  /\ f.issue[1] \in Sessions /\ Owned(f.issue[1])'
               /\ f.issue[3] \in Nat \ {NoPair}
               /\ f.jar \in Issued' /\ owner'[f.jar] = f.issue[1]
               /\ Born(f.issue[1])' <=> ~Opening(f)
    BY <1>3, <2>1, <2>3 DEF PlanOK, Grown, Owned
  <2>4. f.ends \subseteq {s \in Sessions : Born(s)'}
    BY <2>1 DEF PlanOK, Grown
  <2>5. LogoutOK(f, f.ends)'
    BY <2>1, LogoutKept DEF PlanOK
  <2>6. PlanOK(f)'
    BY <2>1, <2>2, <2>3, <2>4, <2>5 DEF PlanOK, Issuing, Opening
  <2> QED
    BY <1>3, <2>6 DEF FlightOK, Pending
<1>4. CASE f.phase = "answered"
  BY <1>4, CookieKept, LogoutKept DEF FlightOK, AnswerOK, JarOK
<1> QED
  BY <1>1, <1>2, <1>3, <1>4 DEF FlightOK, Pending

(* A step in the slot x: what is left is the request it leaves there.      *)
LEMMA SlotStep ==
  ASSUME IInv, RowsOK', Grown, NEW x \in Slots, NEW g, flights' = [flights EXCEPT ![x] = g],
         FlightOK(g)', UNCHANGED <<jar, call>>,
         \A y \in Slots \ {x} : Pending(flights[y]) /\ Opening(flights[y]) =>
           /\ session'[flights[y].issue[1]].state = "none"
           /\ Pending(g) /\ Opening(g) => g.issue[1] # flights[y].issue[1]
  PROVE  IInv'
<1>1. DOMAIN flights' = Slots /\ \A y \in Slots : flights'[y] = IF y = x THEN g ELSE flights[y]
  BY DEF IInv, FlightsOK
<1>2. ASSUME NEW y \in Slots \ {x}
      PROVE  FlightOK(flights[y])'
  <2>1. PICK f : f = flights[y]
    OBVIOUS
  <2>2. FlightOK(f) /\ (Pending(f) /\ Opening(f) => ~Born(f.issue[1])')
    BY <2>1 DEF IInv, FlightsOK, Born
  <2>3. FlightOK(f)'
    BY <2>2, FlightKept DEF IInv
  <2>4. f = flights'[y]
    BY <1>1, <2>1
  <2> QED
    BY <2>3, <2>4
<1>3. FlightsOK'
  BY <1>1, <1>2 DEF FlightsOK
<1>4. OpenedOnce'
  BY <1>1 DEF IInv, OpenedOnce, Pending, Opening, Issuing
<1>5. BrowserOK'
  BY CookieKept DEF IInv, BrowserOK, CallsOK
<1> QED
  BY <1>3, <1>4, <1>5 DEF IInv

LEMMA Unopened ==
  ASSUME IInv, NEW y \in Slots, Pending(flights[y]), Opening(flights[y])
  PROVE  LET s == flights[y].issue[1] IN s \in Sessions /\ ~Born(s) /\ Owned(s)
<1>1. PlanOK(flights[y])
  BY DEF IInv, FlightsOK, FlightOK, Pending
<1> QED
  BY <1>1 DEF PlanOK, Opening

(* A request that decides leaves an answer, or a plan and perhaps a pair.  *)
LEMMA HandleStep ==
  ASSUME IInv, NEW x \in Slots, Handle(x), UNCHANGED <<jar, call>>
  PROVE  IInv' /\ Grown
<1>1. SentOK(flights[x])
  BY DEF Handle, IInv, FlightsOK, FlightOK
<1>2. PICK r \in Responses(flights[x]) :
        /\ flights' = [flights EXCEPT ![x] = NextPhase(r)]
        /\ IF r.phase = "planned" /\ r.issue # <<>>
             THEN Len(owner) < MaxPairs /\ owner' = Append(owner, r.issue[1])
             ELSE owner' = owner
  BY DEF Handle
<1>3. DecisionOK(r)
  BY <1>1, Deciding DEF IInv
<1>4. UNCHANGED session
  BY DEF Handle
<1> DEFINE g == NextPhase(r)
<1>5. CASE r.phase = "answered"
  <2>1. UNCHANGED owner /\ g = r
    BY <1>2, <1>5 DEF NextPhase
  <2>2. RowsOK' /\ Grown
    BY <1>4, <2>1 DEF IInv, RowsOK, Grown, Born, Over, Owned, Issued
  <2>3. FlightOK(g)'
    BY <1>3, <1>5, <2>1, <2>2, FlightKept DEF IInv, DecisionOK, FlightOK, Pending
  <2>4. \A y \in Slots \ {x} : Pending(flights[y]) /\ Opening(flights[y]) => session'[flights[y].issue[1]].state = "none"
    BY <1>4, Unopened DEF Born
  <2> QED
    BY <1>2, <1>5, <2>1, <2>2, <2>3, <2>4, SlotStep DEF Pending
<1>6. CASE r.phase = "planned"
  <2>1. NewPlanOK(r)
    BY <1>3, <1>6 DEF DecisionOK
  <2>2. /\ g.phase \in {"planned", "checked"} /\ DOMAIN g = PlanFields
        /\ g.issue = r.issue /\ g.ends = r.ends /\ g.jar = r.jar /\ g.op = r.op /\ g.pair = r.pair
    BY <1>6, <2>1 DEF NextPhase, NewPlanOK, PlanFields
  <2> HIDE DEF g
  <2>3. CASE Issuing(r)
    <3>1. Len(owner) < MaxPairs /\ owner' = Append(owner, r.issue[1]) /\ r.issue[1] \in Sessions
      BY <1>2, <1>6, <2>1, <2>3 DEF Issuing, NewPlanOK
    <3>2. /\ owner' \in Seq(Sessions) /\ Len(owner') = Len(owner) + 1
          /\ owner'[Len(owner) + 1] = r.issue[1] /\ \A n \in Issued : owner'[n] = owner[n]
      BY <3>1 DEF IInv, RowsOK, Issued
    <3>3. Issued \subseteq Issued' /\ Len(owner) + 1 \in Issued' /\ Len(owner') <= MaxPairs
      BY <3>1, <3>2, BoundsAreNumbers DEF IInv, RowsOK, Issued
    <3>4. RowsOK' /\ Grown
      <4>1. \A s \in Sessions : Owned(s) => Owned(s)'
        BY <3>2, <3>3 DEF Owned
      <4>2. RowsOK'
        BY <1>4, <3>2, <3>3, <4>1 DEF IInv, RowsOK, Born
      <4> QED
        BY <1>4, <3>2, <3>3, <4>2 DEF Grown, Born, Over
    <3>5. PlanOK(g)'
      <4>1. /\ Issuing(g) /\ g.issue[1] \in Sessions /\ Owned(g.issue[1])'
            /\ g.issue[3] \in Nat \ {NoPair} /\ g.jar \in Issued' /\ owner'[g.jar] = g.issue[1]
        BY <2>1, <2>2, <2>3, <3>2, <3>3 DEF NewPlanOK, Issuing, Owned, NoPair, IInv, RowsOK
      <4>2. Born(g.issue[1])' <=> ~Opening(g)
        BY <1>4, <2>1, <2>2, <2>3 DEF NewPlanOK, Opening, Issuing, Born
      <4>3. g.ends \subseteq {s \in Sessions : Born(s)'}
        BY <2>1, <2>2, <3>4 DEF NewPlanOK, Grown
      <4>4. LogoutOK(r, r.ends)'
        BY <2>1, <3>4, LogoutKept DEF NewPlanOK, IInv
      <4>5. LogoutOK(g, g.ends)'
        BY <4>4, <2>2 DEF LogoutOK
      <4> QED
        BY <2>2, <4>1, <4>2, <4>3, <4>5 DEF PlanOK, Issuing, Opening
    <3>6. FlightOK(g)'
      BY <2>2, <3>5 DEF FlightOK
    <3>7. \A y \in Slots \ {x} : Pending(flights[y]) /\ Opening(flights[y]) =>
            /\ session'[flights[y].issue[1]].state = "none"
            /\ Pending(g) /\ Opening(g) => g.issue[1] # flights[y].issue[1]
      <4>1. \A y \in Slots \ {x} : Pending(flights[y]) /\ Opening(flights[y]) =>
              ~Born(flights[y].issue[1]) /\ Owned(flights[y].issue[1])
        BY Unopened
      <4>2. Opening(g) => ~Owned(g.issue[1])
        BY <2>1, <2>2 DEF NewPlanOK, Opening, Issuing
      <4> QED
        BY <1>4, <4>1, <4>2 DEF Born
    <3> QED
      BY <1>2, <3>4, <3>6, <3>7, SlotStep DEF g
  <2>4. CASE ~Issuing(r)
    <3>1. UNCHANGED owner
      BY <1>2, <2>4 DEF Issuing
    <3>2. RowsOK' /\ Grown
      BY <1>4, <3>1 DEF IInv, RowsOK, Grown, Born, Over, Owned, Issued
    <3>3. PlanOK(g)
      <4>1. LogoutOK(g, g.ends)
        BY <2>1, <2>2 DEF LogoutOK, NewPlanOK
      <4>2. ~Issuing(g) /\ JarOK(g.jar) /\ g.ends \subseteq {s \in Sessions : Born(s)}
        BY <2>1, <2>2, <2>4 DEF NewPlanOK, Issuing
      <4> QED
        BY <2>2, <4>1, <4>2 DEF PlanOK
    <3>4. FlightOK(g) /\ ~Opening(g)
      BY <2>2, <2>4, <3>3 DEF FlightOK, Opening, Issuing
    <3>5. FlightOK(g)'
      BY <3>2, <3>4, FlightKept DEF IInv
    <3>6. \A y \in Slots \ {x} : Pending(flights[y]) /\ Opening(flights[y]) => session'[flights[y].issue[1]].state = "none"
      BY <1>4, Unopened DEF Born
    <3> QED
      BY <1>2, <3>2, <3>4, <3>5, <3>6, SlotStep DEF g
  <2> QED
    BY <2>3, <2>4
<1> QED
  BY <1>3, <1>5, <1>6 DEF DecisionOK

LEMMA SameRows ==
  ASSUME RowsOK, UNCHANGED <<owner, session>>
  PROVE  RowsOK' /\ Grown
  BY DEF RowsOK, Grown, Born, Over, Owned, Issued

(* A lookup of the request's own pair changes the request alone.           *)
LEMMA LookupStep ==
  ASSUME IInv, NEW x \in Slots, Lookup(x), UNCHANGED <<jar, call>>
  PROVE  IInv' /\ Grown
<1>1. PICK f : f = flights[x]
  OBVIOUS
<1>2. f.phase = "sent" /\ SentOK(f) /\ LooksUp(f)
  BY <1>1 DEF Lookup, IInv, FlightsOK, FlightOK
<1>3. PICK g : flights' = [flights EXCEPT ![x] = g] /\ g \in {Answer(f, "401", Keep), [f EXCEPT !.looked = TRUE]}
  BY <1>1 DEF Lookup
<1>4. RowsOK' /\ Grown /\ UNCHANGED session
  BY SameRows DEF Lookup, IInv
<1>5. f.pair # NoPair /\ f.op \notin {"login", "logout"}
  BY <1>2 DEF LooksUp, SentOK
<1>6. FlightOK(g) /\ ~Pending(g)
  <2>1. CASE g = Answer(f, "401", Keep)
    BY <2>1 DEF Answer, FlightOK, AnswerOK, JarOK, Pending
  <2>2. CASE g = [f EXCEPT !.looked = TRUE]
    <3>1. /\ DOMAIN g = DOMAIN f /\ g.phase = "sent" /\ g.op = f.op /\ g.pair = f.pair
          /\ g.access = f.access /\ g.looked
      BY <1>2, <2>2 DEF SentOK
    <3>2. g.looked \in BOOLEAN
      BY <1>2, <2>2 DEF SentOK
    <3> QED
      BY <1>2, <1>5, <3>1, <3>2 DEF SentOK, FlightOK, Pending
  <2> QED
    BY <1>3, <2>1, <2>2
<1>7. FlightOK(g)'
  BY <1>4, <1>6, FlightKept DEF IInv
<1>8. \A y \in Slots \ {x} : Pending(flights[y]) /\ Opening(flights[y]) =>
        session'[flights[y].issue[1]].state = "none"
  BY <1>4, Unopened DEF Born
<1> QED
  BY <1>3, <1>4, <1>6, <1>7, <1>8, SlotStep

(* A look into revoked_tokens keeps what the plan says, save what it has   *)
(* to deny.                                                                *)
LEMMA CheckStep ==
  ASSUME IInv, NEW x \in Slots, Check(x), UNCHANGED <<jar, call>>
  PROVE  IInv' /\ Grown
<1>1. PICK f : f = flights[x]
  OBVIOUS
<1>2. PICK g : g = [f EXCEPT !.phase = "checked", !.deny = @ \ denied]
  OBVIOUS
<1>3. f.phase = "planned" /\ PlanOK(f) /\ flights' = [flights EXCEPT ![x] = g]
  BY <1>1, <1>2 DEF Check, IInv, FlightsOK, FlightOK
<1>4. /\ g.phase = "checked" /\ DOMAIN g = PlanFields /\ g.issue = f.issue /\ g.ends = f.ends
      /\ g.jar = f.jar /\ g.op = f.op /\ g.pair = f.pair
  BY <1>2, <1>3 DEF PlanOK, PlanFields
<1>5. PlanOK(g)
  BY <1>3, <1>4 DEF PlanOK, Issuing, Opening, LogoutOK
<1>6. RowsOK' /\ Grown /\ UNCHANGED session
  BY SameRows DEF Check, IInv
<1>7. ASSUME Opening(g) PROVE ~Born(g.issue[1])'
  BY <1>5, <1>6, <1>7 DEF PlanOK, Opening, Born
<1>8. FlightOK(g)'
  BY <1>4, <1>5, <1>6, <1>7, FlightKept DEF IInv, FlightOK
<1>9. ASSUME NEW y \in Slots \ {x}, Pending(flights[y]), Opening(flights[y])
      PROVE  /\ session'[flights[y].issue[1]].state = "none"
             /\ Opening(g) => g.issue[1] # flights[y].issue[1]
  <2>1. session'[flights[y].issue[1]].state = "none"
    BY <1>6, <1>9, Unopened DEF Born
  <2>2. ASSUME Opening(g) PROVE f.issue[1] # flights[y].issue[1]
    BY <1>1, <1>3, <1>4, <1>9, <2>2 DEF IInv, OpenedOnce, Pending, Opening, Issuing
  <2> QED
    BY <1>4, <2>1, <2>2
<1> QED
  BY <1>3, <1>6, <1>8, <1>9, SlotStep

LEMMA RollBackStep ==
  ASSUME IInv, NEW x \in Slots, RollBack(x), UNCHANGED <<jar, call>>
  PROVE  IInv' /\ Grown
<1>1. PICK f : f = flights[x]
  OBVIOUS
<1>2. PICK g : g = Answer(f, "500", Keep)
  OBVIOUS
<1>3. flights' = [flights EXCEPT ![x] = g] /\ UNCHANGED <<owner, session>>
  BY <1>1, <1>2 DEF RollBack
<1>4. RowsOK' /\ Grown
  BY <1>3, SameRows DEF IInv
<1>5. g.phase = "answered" /\ FlightOK(g)'
  BY <1>2 DEF FlightOK, AnswerOK, JarOK, Answer
<1>6. \A y \in Slots \ {x} : Pending(flights[y]) /\ Opening(flights[y]) =>
        session'[flights[y].issue[1]].state = "none"
  BY <1>3, Unopened DEF Born
<1> QED
  BY <1>3, <1>4, <1>5, <1>6, SlotStep DEF Pending

-----------------------------------------------------------------------------
(* The commit.  Only a sign-in opens a session, and only one nobody ended: *)
(* nobody could, for it had no row.                                        *)
LEMMA Flushing ==
  ASSUME IInv, NEW f, PlanOK(f), NEW s \in Sessions
  PROVE  LET row == Flushed(f, s) IN
           /\ row \in [state : {"none", "open", "ended", "reused"}, pair : Nat, stepUp : BOOLEAN]
           /\ Over(s) => row.state \in {"ended", "reused"}
           /\ s \in f.ends => row.state \in {"ended", "reused"}
           /\ row.state = "open" => row.pair # NoPair
           /\ row.state = "none" <=> ~Born(s) /\ ~(Opening(f) /\ f.issue[1] = s)
<1> DEFINE row == Flushed(f, s)
<1>1. session[s] \in [state : {"none", "open", "ended", "reused"}, pair : Nat, stepUp : BOOLEAN]
  BY DEF IInv, RowsOK
<1>2. session[s].state = "open" => session[s].pair # NoPair
  BY DEF IInv, RowsOK
<1>3. Issues(f, s) => f.issue[3] \in Nat \ {NoPair} /\ (Born(s) <=> ~Opening(f))
  BY DEF PlanOK, Issues, Issuing
<1>4. s \in f.ends => Born(s)
  BY DEF PlanOK
<1>5. /\ row.state = IF s \in f.ends THEN (IF f.reuse THEN "reused" ELSE "ended")
                     ELSE IF Issues(f, s) /\ f.issue[2] = NoPair THEN "open" ELSE session[s].state
      /\ row.pair = IF Issues(f, s) THEN f.issue[3] ELSE session[s].pair
      /\ row.stepUp = (s \in f.stepUp \/ (session[s].stepUp /\ s \notin f.dropUp))
      /\ row = [state |-> row.state, pair |-> row.pair, stepUp |-> row.stepUp]
  BY DEF Flushed, Row
<1>6. Issues(f, s) /\ f.issue[2] = NoPair <=> Opening(f) /\ f.issue[1] = s
  BY DEF Issues, Opening, Issuing
<1> HIDE DEF row
<1>7. row.state \in {"none", "open", "ended", "reused"} /\ row.pair \in Nat
  BY <1>1, <1>3, <1>5
<1>8. row.stepUp \in BOOLEAN
  BY <1>5
<1>9. row \in [state : {"none", "open", "ended", "reused"}, pair : Nat, stepUp : BOOLEAN]
  BY <1>5, <1>7, <1>8
<1>10. Over(s) => row.state \in {"ended", "reused"}
  BY <1>3, <1>5, <1>6 DEF Over, Born
<1>11. row.state = "open" => row.pair # NoPair
  BY <1>2, <1>3, <1>5
<1>12. row.state = "none" <=> ~Born(s) /\ ~(Opening(f) /\ f.issue[1] = s)
  BY <1>4, <1>5, <1>6 DEF Born
<1> QED
  BY <1>5, <1>9, <1>10, <1>11, <1>12 DEF row

LEMMA CommitStep ==
  ASSUME IInv, NEW x \in Slots, Commit(x), UNCHANGED <<jar, call>>
  PROVE  IInv' /\ Grown
<1>1. PICK f : f = flights[x]
  OBVIOUS
<1>2. PICK g : g = Answer(f, f.code, f.jar)
  OBVIOUS
<1>3. /\ f.phase = "checked" /\ flights' = [flights EXCEPT ![x] = g] /\ UNCHANGED owner
      /\ session' = [s \in Sessions |-> Flushed(f, s)]
  BY <1>1, <1>2 DEF Commit
<1>4. PlanOK(f)
  BY <1>1, <1>3 DEF IInv, FlightsOK, FlightOK
<1>5. Grown
  <2>1. Issued' = Issued
    BY <1>3 DEF Issued
  <2>2. \A s \in Sessions : (Born(s) => Born(s)') /\ (Over(s) => Over(s)')
    BY <1>3, <1>4, Flushing DEF Born, Over
  <2> QED
    BY <1>3, <2>1, <2>2 DEF Grown
<1>6. RowsOK'
  <2>1. session' \in [Sessions -> [state : {"none", "open", "ended", "reused"},
                                  pair : Nat, stepUp : BOOLEAN]]
    BY <1>3, <1>4, Flushing
  <2>2. \A s \in Sessions : session'[s].state = "open" => session'[s].pair # NoPair
    BY <1>3, <1>4, Flushing
  <2>3. \A s \in Sessions : Born(s)' => Owned(s)
    <3>1. Opening(f) => Owned(f.issue[1])
      BY <1>4 DEF PlanOK, Opening
    <3>2. \A s \in Sessions : Born(s) => Owned(s)
      BY DEF IInv, RowsOK
    <3> QED
      BY <1>3, <1>4, <3>1, <3>2, Flushing DEF Born
  <2>4. \A s \in Sessions : Owned(s) => Owned(s)'
    BY <1>3 DEF Owned, Issued
  <2>5. owner' \in Seq(Sessions) /\ Len(owner') <= MaxPairs
    BY <1>3 DEF IInv, RowsOK
  <2> QED
    BY <2>1, <2>2, <2>3, <2>4, <2>5 DEF RowsOK
<1>7. g.phase = "answered" /\ g.jar = f.jar /\ g.op = f.op /\ g.pair = f.pair /\ g.code = f.code
  BY <1>2 DEF Answer
<1>8. JarOK(f.jar)'
  <2>1. CASE ~Issuing(f)
    BY <1>4, <1>5, <2>1, CookieKept DEF PlanOK, JarOK, IInv
  <2>2. CASE Issuing(f)
    <3>1. f.issue[1] \in Sessions /\ f.jar \in Issued /\ owner[f.jar] = f.issue[1]
      BY <1>4, <2>2 DEF PlanOK
    <3>2. Born(f.issue[1])'
      BY <1>3, <1>4, <2>2, <3>1, Flushing DEF PlanOK, Born
    <3> QED
      BY <1>3, <3>1, <3>2 DEF JarOK, CookieOK, Issued, Born
  <2> QED
    BY <2>1, <2>2
<1>9. LogoutOK(f, {})'
  <2>1. ASSUME f.op = "logout", f.pair # NoPair
        PROVE  f.pair \in Issued /\ owner[f.pair] \in Sessions
               /\ (owner[f.pair] \in f.ends \/ Over(owner[f.pair]))
    BY <1>4, <2>1, OwnerTyped DEF PlanOK, LogoutOK, IInv
  <2>2. ASSUME f.op = "logout", f.pair # NoPair PROVE Over(owner[f.pair])'
    BY <1>3, <1>4, <2>1, <2>2, Flushing DEF Over
  <2> QED
    BY <1>3, <2>1, <2>2 DEF LogoutOK, Issued
<1>10. FlightOK(g)'
  BY <1>7, <1>8, <1>9 DEF FlightOK, AnswerOK, LogoutOK, Over
<1>11. ASSUME NEW y \in Slots \ {x}, Pending(flights[y]), Opening(flights[y])
       PROVE  session'[flights[y].issue[1]].state = "none"
  <2>1. flights[y].issue[1] \in Sessions /\ ~Born(flights[y].issue[1])
    BY <1>11, Unopened
  <2>2. ~(Opening(f) /\ f.issue[1] = flights[y].issue[1])
    BY <1>1, <1>3, <1>11 DEF IInv, OpenedOnce, Pending
  <2> QED
    BY <1>3, <1>4, <2>1, <2>2, Flushing
<1> QED
  BY <1>3, <1>5, <1>6, <1>7, <1>10, <1>11, SlotStep DEF Pending

-----------------------------------------------------------------------------
(* Time and the browser write no session, save that a step-up expires; a   *)
(* slot is emptied, or gets a request with the cookies of that moment.     *)
LEMMA FlagStep ==
  ASSUME IInv, StepUpExpires, UNCHANGED <<jar, call>>
  PROVE  IInv' /\ Grown
<1>1. PICK s \in Sessions : session' = [session EXCEPT ![s].stepUp = FALSE]
  BY DEF StepUpExpires
<1>2. UNCHANGED <<owner, flights>>
  BY DEF StepUpExpires
<1>3. /\ session' \in [Sessions -> [state : {"none", "open", "ended", "reused"},
                                   pair : Nat, stepUp : BOOLEAN]]
      /\ \A t \in Sessions : session'[t].state = session[t].state /\ session'[t].pair = session[t].pair
  BY <1>1 DEF IInv, RowsOK
<1>4. RowsOK' /\ Grown
  BY <1>2, <1>3 DEF IInv, RowsOK, Grown, Born, Over, Owned, Issued
<1>5. ASSUME NEW y \in Slots PROVE FlightOK(flights[y])'
  <2>1. PICK f : f = flights[y]
    OBVIOUS
  <2>2. Pending(f) /\ Opening(f) => ~Born(f.issue[1])'
    BY <1>3, <2>1, Unopened DEF Born
  <2>3. FlightOK(f)'
    BY <1>4, <2>1, <2>2, FlightKept DEF IInv, FlightsOK
  <2> QED
    BY <1>2, <2>1, <2>3
<1>6. FlightsOK' /\ OpenedOnce'
  BY <1>2, <1>5 DEF IInv, FlightsOK, OpenedOnce
<1>7. BrowserOK'
  BY <1>4, CookieKept DEF IInv, BrowserOK, CallsOK
<1> QED
  BY <1>4, <1>6, <1>7 DEF IInv

Sends(f) == f = Idle \/ (f.phase = "sent" /\ SentOK(f))

LEMMA BrowserStep ==
  ASSUME IInv, UNCHANGED <<owner, session>>, DOMAIN flights' = Slots, BrowserOK',
         \A y \in Slots : flights'[y] = flights[y] \/ Sends(flights'[y])
  PROVE  IInv' /\ Grown
<1>1. RowsOK' /\ Grown
  BY SameRows DEF IInv
<1>2. ASSUME NEW y \in Slots PROVE FlightOK(flights[y])'
  <2>1. PICK f : f = flights'[y]
    OBVIOUS
  <2>2. FlightOK(f) /\ (Pending(f) /\ Opening(f) => ~Born(f.issue[1])')
    <3>1. CASE f = flights[y]
      BY <3>1, Unopened DEF IInv, FlightsOK, Born
    <3>2. CASE Sends(f)
      BY <3>2 DEF Sends, Idle, FlightOK, Pending
    <3> QED
      BY <2>1, <3>1, <3>2
  <2>3. FlightOK(f)'
    BY <1>1, <2>2, FlightKept DEF IInv
  <2> QED
    BY <2>1, <2>3
<1>3. OpenedOnce'
  <2>1. \A y \in Slots : Pending(flights'[y]) => flights'[y] = flights[y]
    BY DEF Sends, Idle, Pending
  <2> QED
    BY <2>1 DEF IInv, OpenedOnce, Pending, Opening, Issuing
<1> QED
  BY <1>1, <1>2, <1>3 DEF IInv, FlightsOK

LEMMA CookieSet ==
  ASSUME IInv, NEW x \in Slots, Answered(x), SetCookies(flights[x])
  PROVE  CookieOK(jar')
<1>1. PICK f : f = flights[x]
  OBVIOUS
<1>2. FlightOK(f) /\ f.phase = "answered" /\ jar' = IF f.jar = Keep THEN jar ELSE f.jar
  BY <1>1 DEF IInv, FlightsOK, Answered, SetCookies
<1>3. JarOK(f.jar)
  BY <1>2 DEF FlightOK, AnswerOK
<1> QED
  BY <1>2, <1>3 DEF IInv, BrowserOK, JarOK

LEMMA Requesting ==
  ASSUME NEW op \in Ops, NEW n, CookieOK(n)
  PROVE  Sends(RequestFrom(n, op))
  BY DEF Sends, SentOK, RequestFrom, Sent

LEMMA CallKept ==
  ASSUME NEW r, CallOK(r), NEW p, NEW a, NEW b
  PROVE  /\ CallOK([r EXCEPT !.phase = p])
         /\ CallOK([r EXCEPT !.tries = a])
         /\ CallOK([r EXCEPT !.phase = p, !.refreshed = a])
         /\ CallOK([r EXCEPT !.phase = p, !.stepped = a, !.refreshed = b])
  BY DEF CallOK

LEMMA NewCall ==
  ASSUME NEW p, NEW op \in Ops, NEW t
  PROVE  /\ CallOK([Fresh EXCEPT !.phase = p])
         /\ CallOK([Fresh EXCEPT !.phase = p, !.op = op, !.tab = t])
  BY DEF CallOK, Fresh, Ops

LEMMA CallEnded == ASSUME NEW c, NEW ok PROVE CallOK(Ended(c, ok))
  BY DEF CallOK, Ended, Fresh, Ops

LEMMA CallsResent ==
  ASSUME CallsOK, NEW cs, NEW field
  PROVE  /\ DOMAIN Resent(cs, field) = Requests
         /\ \A c \in Requests : CallOK(Resent(cs, field)[c])
  BY CallKept DEF CallsOK, Resent

LEMMA FlightsResent ==
  ASSUME CallsOK, NEW cs \in SUBSET Requests, CookieOK(jar')
  PROVE  /\ DOMAIN ResentFlights(cs) = Slots
         /\ \A y \in Slots : ResentFlights(cs)[y] = flights[y] \/ Sends(ResentFlights(cs)[y])
<1>1. ASSUME NEW y \in Slots PROVE ResentFlights(cs)[y] = flights[y] \/ Sends(ResentFlights(cs)[y])
  <2>1. CASE y \in cs
    <3>1. call[y].op \in Ops /\ ResentFlights(cs)[y] = RequestFrom(jar', call[y].op)
      BY <2>1 DEF CallsOK, CallOK, ResentFlights
    <3> QED
      BY <3>1, Requesting
  <2>2. CASE y \notin cs
    BY <2>2 DEF ResentFlights
  <2> QED
    BY <2>1, <2>2
<1> QED
  BY <1>1 DEF ResentFlights

LEMMA CallsFailed ==
  ASSUME CallsOK, NEW cs
  PROVE  DOMAIN Failed(cs) = Requests /\ \A c \in Requests : CallOK(Failed(cs)[c])
  BY CallEnded DEF CallsOK, Failed

(* What BrowserStep asks of an action of the browser.                      *)
Moves ==
  /\ UNCHANGED <<owner, session>> /\ DOMAIN flights' = Slots
  /\ CookieOK(jar') /\ CallsOK'
  /\ \A y \in Slots : flights'[y] = flights[y] \/ Sends(flights'[y])

LEMMA MovesStep == ASSUME IInv, Moves PROVE IInv' /\ Grown
<1>1. BrowserOK'
  BY DEF Moves, BrowserOK, CookieOK, Born, Issued
<1> QED
  BY <1>1, BrowserStep DEF Moves

LEMMA StartMoves ==
  ASSUME IInv, NEW c, NEW t, NEW op \in CallOps[c], Start(c, t, op)
  PROVE  Moves
<1>1. op \in Ops
  BY CallsAreOperations DEF Start, Ops
<1>2. CallsOK'
  BY <1>1, NewCall DEF Start, IInv, BrowserOK, CallsOK
<1>3. Sends(Request(op))
  BY <1>1, Requesting DEF Request, IInv, BrowserOK
<1> QED
  BY <1>2, <1>3 DEF Moves, Start, Server, ServerKept, IInv, BrowserOK, FlightsOK

LEMMA SubmitMoves ==
  ASSUME IInv, NEW t, Submit(t)
  PROVE  Moves
<1>1. "step_up" \in Ops
  BY DEF Ops
<1>2. CallsOK'
  BY <1>1, NewCall DEF Submit, IInv, BrowserOK, CallsOK
<1>3. Sends(Request("step_up"))
  BY <1>1, Requesting DEF Request, IInv, BrowserOK
<1> QED
  BY <1>2, <1>3 DEF Moves, Submit, Server, ServerKept, IInv, BrowserOK, FlightsOK

LEMMA JoinRefreshMoves ==
  ASSUME IInv, NEW c \in Requests, JoinRefresh(c)
  PROVE  Moves
<1>1. c \in Slots
  BY SlotsAreOurs DEF Requests
<1>2. CookieOK(jar')
  BY <1>1, CookieSet DEF JoinRefresh
<1>3. CallsOK'
  BY CallKept DEF JoinRefresh, IInv, BrowserOK, CallsOK
<1>4. Sends(Request("refresh")) /\ Sends(Idle)
  BY Requesting DEF Request, IInv, BrowserOK, Ops, Sends
<1> QED
  BY <1>2, <1>3, <1>4 DEF Moves, JoinRefresh, Server, ServerKept, IInv, FlightsOK

LEMMA JoinStepUpMoves ==
  ASSUME IInv, NEW c \in Requests, JoinStepUp(c)
  PROVE  Moves
<1>1. CallsOK'
  BY CallKept DEF JoinStepUp, IInv, BrowserOK, CallsOK
<1> QED
  BY <1>1 DEF Moves, JoinStepUp, Server, ServerKept, IInv, BrowserOK, FlightsOK, Sends

LEMMA ReceiveMoves ==
  ASSUME IInv, NEW c \in Requests, Receive(c)
  PROVE  Moves
<1> DEFINE t == call[c].tab
           ok == flights[c].code = "ok"
           released == IF ok /\ c = DialogOf[t] THEN Waiting(t, "stepping") ELSE {}
<1>1. c \in Slots /\ released \in SUBSET Requests
  BY SlotsAreOurs DEF Requests, Waiting
<1>2. CookieOK(jar')
  BY <1>1, CookieSet DEF Receive
<1>3. /\ call' = [Resent(released, "stepped") EXCEPT ![c] = Ended(c, ok)]
      /\ flights' = [ResentFlights(released) EXCEPT ![c] = Idle]
      /\ UNCHANGED <<owner, session>>
  BY DEF Receive, Server, ServerKept
<1>4. CallsOK
  BY DEF IInv, BrowserOK
<1> HIDE DEF released, ok, t
<1>5. CallsOK'
  BY <1>3, <1>4, CallsResent, CallEnded DEF CallsOK
<1>6. /\ DOMAIN flights' = Slots
      /\ \A y \in Slots : flights'[y] = flights[y] \/ Sends(flights'[y])
  BY <1>1, <1>2, <1>3, <1>4, FlightsResent DEF Sends
<1> QED
  BY <1>2, <1>3, <1>5, <1>6 DEF Moves

LEMMA TimesOutMoves ==
  ASSUME IInv, NEW c \in Requests, TimesOut(c)
  PROVE  Moves
<1>1. CallsOK'
  <2>1. CallsOK /\ CallOK([call[c] EXCEPT !.tries = @ + 1]) /\ CallOK(Ended(c, FALSE))
    BY CallKept, CallEnded DEF IInv, BrowserOK, CallsOK
  <2>2. \/ call' = [call EXCEPT ![c] = [call[c] EXCEPT !.tries = @ + 1]]
        \/ call' = [call EXCEPT ![c] = Ended(c, FALSE)]
    BY DEF TimesOut
  <2> QED
    BY <2>1, <2>2 DEF CallsOK
<1>2. Sends(Request("read"))
  BY Requesting DEF Request, IInv, BrowserOK, Ops
<1> QED
  BY <1>1, <1>2 DEF Moves, TimesOut, ServerKept, IInv, BrowserOK, FlightsOK

LEMMA RefreshAnsweredMoves ==
  ASSUME IInv, NEW t \in Tabs, RefreshAnswered(t)
  PROVE  Moves
<1> DEFINE cs == Waiting(t, "refreshing")
<1>1. t \in Slots /\ cs \in SUBSET Requests
  BY SlotsAreOurs DEF Waiting
<1>2. CookieOK(jar')
  BY <1>1, CookieSet DEF RefreshAnswered
<1>3. /\ \/ call' = Resent(cs, "refreshed") /\ flights' = [ResentFlights(cs) EXCEPT ![t] = Idle]
         \/ call' = Failed(cs) /\ flights' = [flights EXCEPT ![t] = Idle]
      /\ UNCHANGED <<owner, session>>
  BY DEF RefreshAnswered, Server, ServerKept
<1>4. CallsOK /\ DOMAIN flights = Slots
  BY DEF IInv, BrowserOK, FlightsOK
<1> HIDE DEF cs
<1>5. CallsOK'
  BY <1>3, <1>4, CallsResent, CallsFailed DEF CallsOK
<1>6. /\ DOMAIN flights' = Slots
      /\ \A y \in Slots : flights'[y] = flights[y] \/ Sends(flights'[y])
  BY <1>1, <1>2, <1>3, <1>4, FlightsResent DEF Sends
<1> QED
  BY <1>2, <1>3, <1>5, <1>6 DEF Moves

LEMMA GivingUpMoves ==
  ASSUME IInv, NEW t, RefreshTimesOut(t) \/ Cancel(t)
  PROVE  Moves
<1>1. PICK cs : call' = Failed(cs)
  BY DEF RefreshTimesOut, Cancel
<1>2. CallsOK'
  BY <1>1, CallsFailed DEF IInv, BrowserOK, CallsOK
<1> QED
  BY <1>2 DEF Moves, RefreshTimesOut, Cancel, Server, ServerKept, IInv, BrowserOK, FlightsOK

LEMMA DiscardMoves ==
  ASSUME IInv, NEW x, Discard(x)
  PROVE  Moves
  BY DEF Discard, Moves, Server, ServerKept, IInv, BrowserOK, CallsOK, FlightsOK, Sends

-----------------------------------------------------------------------------
LEMMA InitIInv == Init => IInv
<1> SUFFICES ASSUME Init PROVE IInv
  OBVIOUS
<1>1. First \in Sessions
  BY SomeSession DEF First
<1>2. Issued = {1} /\ owner[1] = First /\ Born(First) /\ owner \in Seq(Sessions) /\ Len(owner) = 1
  BY <1>1 DEF Init, Issued, Born, Row
<1>3. RowsOK
  BY <1>1, <1>2, BoundsAreNumbers DEF Init, RowsOK, Row, Born, Owned, NoPair
<1>4. FlightsOK /\ OpenedOnce
  BY DEF Init, FlightsOK, FlightOK, Idle, OpenedOnce, Pending
<1>5. BrowserOK
  BY <1>2 DEF Init, BrowserOK, CallsOK, CallOK, CookieOK, Fresh, Ops
<1> QED
  BY <1>3, <1>4, <1>5 DEF IInv

LEMMA ServerStep ==
  ASSUME IInv, ServerNext
  PROVE  IInv' /\ Grown
<1>1. UNCHANGED <<jar, call>>
  BY DEF ServerNext
<1>2. ASSUME NEW x \in Slots, Work(x) PROVE IInv' /\ Grown
  BY <1>1, <1>2, LookupStep, HandleStep, CheckStep, CommitStep, RollBackStep DEF Work
<1>3. CASE AccessExpires \/ SessionExpires
  <2>1. Moves
    BY <1>1, <1>3 DEF Moves, AccessExpires, SessionExpires, IInv, BrowserOK, CallsOK, FlightsOK
  <2> QED
    BY <2>1, MovesStep
<1>4. CASE StepUpExpires
  BY <1>1, <1>4, FlagStep
<1> QED
  BY <1>2, <1>3, <1>4 DEF ServerNext

LEMMA NextIInv == IInv /\ [Next]_vars => IInv' /\ Grown
<1> SUFFICES ASSUME IInv, [Next]_vars PROVE IInv' /\ Grown
  OBVIOUS
<1>1. CASE ServerNext
  BY <1>1, ServerStep
<1>2. ASSUME NEW c \in Calls, NEW t \in Tabs, NEW op \in CallOps[c], Start(c, t, op)
      PROVE  Moves
  BY <1>2, StartMoves
<1>3. ASSUME NEW t \in Tabs, Submit(t) \/ Settle(t) \/ Cancel(t)
      PROVE  Moves
  BY <1>3, SubmitMoves, RefreshAnsweredMoves, GivingUpMoves DEF Settle
<1>4. ASSUME NEW c \in Requests, Progress(c)
      PROVE  Moves
  BY <1>4, JoinRefreshMoves, JoinStepUpMoves, ReceiveMoves, TimesOutMoves DEF Progress
<1>5. ASSUME NEW x \in Slots, Discard(x)
      PROVE  Moves
  BY <1>5, DiscardMoves
<1>6. CASE UNCHANGED vars
  <2>1. Moves
    BY <1>6 DEF vars, svars, Moves, IInv, BrowserOK, CallsOK, FlightsOK
  <2> QED
    BY <2>1, MovesStep
<1> QED
  BY <1>1, <1>2, <1>3, <1>4, <1>5, <1>6, MovesStep DEF Next

-----------------------------------------------------------------------------
(* A logout that was answered has ended the session of the cookie it was   *)
(* sent with, also if another request rotated the pair meanwhile.          *)
THEOREM LogoutSafety == Spec => []LogoutEndsSession
<1>1. IInv => LogoutEndsSession
  BY DEF IInv, FlightsOK, FlightOK, AnswerOK, LogoutOK, LogoutEndsSession, Over
<1>2. IInv /\ [Next]_vars => IInv'
  BY NextIInv
<1> QED
  BY <1>1, <1>2, InitIInv, PTL DEF Spec

(* A session that was ended, by whichever request, stays ended, also when  *)
(* a rotation that read it open commits later.                             *)
THEOREM EndedForGood == Spec => EndedStaysEnded
<1>1. IInv /\ [Next]_vars => IInv'
  BY NextIInv
<1>2. IInv /\ [Next]_vars =>
        [\A s \in Sessions : session[s].state \in {"ended", "reused"}
           => session'[s].state \in {"ended", "reused"}]_svars
  BY NextIInv DEF Grown, Over
<1> QED
  BY <1>1, <1>2, InitIInv, PTL DEF Spec, EndedStaysEnded
=============================================================================
