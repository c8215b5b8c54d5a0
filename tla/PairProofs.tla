------------------------------ MODULE PairProofs ------------------------------
(***************************************************************************)
(* What becomes of the pairs of tokens, for any browser and however its    *)
(* requests overlap: an open session accepts the pair in its row, and the  *)
(* alarm about a reused token is raised only where a rotation overlapped   *)
(* another use of the pair.                                                *)
(***************************************************************************)
EXTENDS SessionProofs

(* A pair somebody was handed is the one in its session's row, or denied,  *)
(* unless a rotation crossed another use of a pair of that session.        *)
Spent(n) == n = session[owner[n]].pair \/ n \in denied \/ owner[n] \in crossed
Known(n) == n \in Issued => Spent(n)

(* A refresh between its reads found its pair not denied, so it was the    *)
(* one in the row then; it still is, unless a rotation crossed the refresh. *)
Between(f) == f.phase = "sent" /\ f.looked /\ f.op = "refresh"
Live(n) == n = session[owner[n]].pair \/ owner[n] \in crossed
LiveNext(n) == n = session'[owner'[n]].pair \/ owner'[n] \in crossed'

RowPairsOK ==
  /\ denied \subseteq Issued /\ Known(jar)
  /\ \A s \in Sessions : Born(s) => session[s].pair \in Issued /\ owner[session[s].pair] = s
  /\ \A s \in Sessions : session[s].state = "open" => session[s].pair \notin denied
  /\ \A s \in Sessions : session[s].state = "reused" => s \in crossed

(* A plan denies pairs of sessions that it ends or rotates or that are     *)
(* over, and the pair that a rotation replaces.                            *)
PlanPairsOK(f) ==
  /\ IF Issuing(f) THEN f.issue[3] = f.jar ELSE f.jar \in {NoPair, Keep}
  /\ Issuing(f) /\ ~Opening(f) => f.issue[2] \in f.deny \union denied
  /\ \A q \in f.deny : q \in Issued /\
       (owner[q] \in f.ends \/ Over(owner[q]) \/ (Issuing(f) /\ f.issue[1] = owner[q]))
  /\ f.reuse => f.ends \subseteq crossed

FlightPairsOK(f) ==
  /\ f.phase = "sent" => Known(f.pair)
  /\ Between(f) => Live(f.pair)
  /\ f.phase = "answered" => Known(f.jar)
  /\ Pending(f) => PlanPairsOK(f)

Uses(f, n) ==
  \/ f.phase = "sent" /\ f.pair = n
  \/ f.phase = "answered" /\ f.jar = n
  \/ Pending(f) /\ (n \in f.deny \/ f.jar = n)

(* Nobody has been handed a pair before the request that issues it commits. *)
Unused(n, x) ==
  /\ n # jar /\ n \notin denied /\ n \notin flights[x].deny
  /\ \A s \in Sessions : Born(s) => session[s].pair # n
  /\ \A y \in Slots \ {x} : ~Uses(flights[y], n)

NewPairsUnused ==
  \A x \in Slots : Pending(flights[x]) /\ Issuing(flights[x]) => Unused(flights[x].jar, x)

PairInv == RowPairsOK /\ (\A x \in Slots : FlightPairsOK(flights[x])) /\ NewPairsUnused

-----------------------------------------------------------------------------
(* What a handler may decide about pairs.                                  *)
HandedOut(q, f) == q = f.pair \/ \E t \in Sessions : Born(t) /\ q = session[t].pair

DecidedOK(r, f) ==
  /\ r.phase = "answered" => r.jar = Keep
  /\ r.phase = "planned" =>
       /\ ~Issuing(r) => r.jar \in {NoPair, Keep}
       /\ Issuing(r) => r.issue[3] = r.jar
       /\ Issuing(r) /\ ~Opening(r) => r.issue[2] \in r.deny
       /\ \A q \in r.deny : /\ q \in Issued /\ HandedOut(q, f)
                           /\ \/ owner[q] \in r.ends \/ Over(owner[q])
                              \/ Issuing(r) /\ r.issue[1] = owner[q]
       /\ r.reuse => r.ends \subseteq crossed

LEMMA Answering ==
  ASSUME NEW f, NEW code
  PROVE  DecidedOK(Answer(f, code, Keep), f)
  BY DEF DecidedOK, Answer

(* A plan before its rotation denies the pairs of the sessions it ends.    *)
Drafted(p, rows) ==
  /\ p.phase = "planned" /\ DOMAIN p = PlanFields /\ p.issue = <<>> /\ ~p.reuse
  /\ p.ends = {t \in rows : session[t].state = "open"}
  /\ p.deny = {session[t].pair : t \in p.ends}

LEMMA PlanDrafted ==
  ASSUME NEW f, NEW code, NEW j
  PROVE  Drafted(Plan(f, code, j), {}) /\ Plan(f, code, j).jar = j
  BY DEF Plan, PlanFields, Drafted

LEMMA StepUpDrafted ==
  ASSUME NEW f, NEW code, NEW j, NEW ups
  PROVE  Drafted([Plan(f, code, j) EXCEPT !.stepUp = ups], {})
<1> DEFINE p == Plan(f, code, j)
<1>1. Drafted(p, {}) /\ p.jar = j
  BY PlanDrafted
<1> HIDE DEF p
<1> QED
  BY <1>1 DEF Drafted, PlanFields, p

LEMMA DropUpDrafted ==
  ASSUME NEW f, NEW code, NEW j, NEW ups
  PROVE  Drafted([Plan(f, code, j) EXCEPT !.dropUp = ups], {})
<1> DEFINE p == Plan(f, code, j)
<1>1. Drafted(p, {}) /\ p.jar = j
  BY PlanDrafted
<1> HIDE DEF p
<1> QED
  BY <1>1 DEF Drafted, PlanFields, p

LEMMA RevokeDrafted ==
  ASSUME NEW f, NEW code, NEW j, NEW rows
  PROVE  Drafted(revoke_session(Plan(f, code, j), rows), rows)
         /\ revoke_session(Plan(f, code, j), rows).jar = j
<1> DEFINE p == Plan(f, code, j)
           open == {t \in rows : session[t].state = "open"}
           e == [p EXCEPT !.ends = @ \union open]
           r == [e EXCEPT !.deny = @ \union {session[t].pair : t \in open}]
<1>1. Drafted(p, {}) /\ p.jar = j
  BY PlanDrafted
<1> HIDE DEF p
<1>2. DOMAIN e = PlanFields /\ e.ends = open /\ e.deny = {} /\ e.jar = j
      /\ e.phase = "planned" /\ e.issue = <<>> /\ ~e.reuse
  BY <1>1 DEF Drafted, PlanFields
<1> HIDE DEF e
<1>3. DOMAIN r = PlanFields /\ r.ends = open /\ r.deny = {session[t].pair : t \in open} /\ r.jar = j
      /\ r.phase = "planned" /\ r.issue = <<>> /\ ~r.reuse
  BY <1>2 DEF PlanFields
<1>4. revoke_session(p, rows) = r
  BY DEF revoke_session, e
<1> HIDE DEF r
<1>5. Drafted(r, rows)
  BY <1>3 DEF Drafted
<1> QED
  BY <1>3, <1>4, <1>5 DEF p

LEMMA DraftDenies ==
  ASSUME RowPairsOK, NEW p, NEW rows, rows \subseteq Sessions, Drafted(p, rows), NEW q \in p.deny
  PROVE  q \in Issued /\ owner[q] \in p.ends /\ \E t \in Sessions : Born(t) /\ q = session[t].pair
<1>1. PICK t \in p.ends : q = session[t].pair
  BY DEF Drafted
<1>2. t \in Sessions /\ Born(t)
  BY <1>1 DEF Drafted, Born
<1> QED
  BY <1>1, <1>2 DEF RowPairsOK

LEMMA EndingPairs ==
  ASSUME RowPairsOK, NEW f, NEW p, NEW rows, rows \subseteq Sessions, Drafted(p, rows),
         p.jar \in {NoPair, Keep}
  PROVE  DecidedOK(p, f)
  BY DraftDenies DEF DecidedOK, Drafted, Issuing, HandedOut

LEMMA RotatingPairs ==
  ASSUME RowPairsOK, NEW f, NEW p, NEW rows, rows \subseteq Sessions, Drafted(p, rows),
         NEW s \in Sessions, session[s].state = "open"
  PROVE  DecidedOK(rotate_refresh_token(p, s), f)
<1> DEFINE r == rotate_refresh_token(p, s)
<1>1. /\ r.phase = "planned" /\ r.ends = p.ends /\ r.jar = Len(owner) + 1 /\ ~r.reuse
      /\ r.issue = <<s, session[s].pair, Len(owner) + 1>> /\ r.deny = p.deny \union {session[s].pair}
  BY DEF rotate_refresh_token, Drafted, PlanFields
<1> HIDE DEF r
<1>2. Issuing(r) /\ r.issue[1] = s /\ r.issue[2] = session[s].pair /\ r.issue[3] = r.jar
  BY <1>1 DEF Issuing
<1>3. Born(s) /\ session[s].pair \in Issued /\ owner[session[s].pair] = s
  BY DEF Born, RowPairsOK
<1>4. DecidedOK(r, f)
  BY <1>1, <1>2, <1>3, DraftDenies DEF DecidedOK, HandedOut
<1> QED
  BY <1>4 DEF r

LEMMA SigningInPairs ==
  ASSUME NEW f, NEW r \in create_session_and_tokens(f)
  PROVE  DecidedOK(r, f)
<1>1. PICK s \in Sessions \ {owner[n] : n \in Issued} :
        r = [Plan(f, "ok", Len(owner) + 1) EXCEPT !.issue = <<s, NoPair, Len(owner) + 1>>,
                                                  !.stepUp = IF mfa THEN {s} ELSE {}]
  BY DEF create_session_and_tokens
<1>2. /\ r.phase = "planned" /\ r.deny = {} /\ r.jar = Len(owner) + 1 /\ ~r.reuse
      /\ r.issue = <<s, NoPair, Len(owner) + 1>>
  BY <1>1 DEF Plan
<1> QED
  BY <1>2 DEF DecidedOK, Issuing, Opening

LEMMA SigningOutPairs ==
  ASSUME RowsOK, RowPairsOK, NEW f, CookieOK(f.pair)
  PROVE  DecidedOK(logout(f), f)
<1> DEFINE r == logout(f)
           out == {owner[n] : n \in {f.pair} \ {NoPair}}
           gone == {s \in out : session[s].state = "open"}
<1>1. /\ r.phase = "planned" /\ r.jar = NoPair /\ r.issue = <<>> /\ ~r.reuse /\ r.ends = gone
      /\ r.deny = ({f.pair} \ {NoPair}) \union {session[s].pair : s \in gone}
  BY DEF logout, revoke_session, Plan
<1> HIDE DEF r
<1>2. ASSUME f.pair # NoPair
      PROVE  /\ f.pair \in Issued /\ owner[f.pair] \in Sessions /\ Born(owner[f.pair])
             /\ owner[f.pair] \in gone \/ Over(owner[f.pair])
  BY <1>2 DEF CookieOK, RowsOK, Issued, Born, Over
<1>3. ASSUME NEW s \in gone
      PROVE  s \in Sessions /\ Born(s) /\ session[s].pair \in Issued /\ owner[session[s].pair] = s
  BY <1>2, <1>3 DEF RowPairsOK, Born
<1>4. DecidedOK(r, f)
  BY <1>1, <1>2, <1>3 DEF DecidedOK, Issuing, HandedOut
<1> QED
  BY <1>4 DEF r

LEMMA RefreshingPairs ==
  ASSUME RowsOK, RowPairsOK, NEW f, CookieOK(f.pair), f.pair # NoPair, Live(f.pair),
         NEW r \in refresh_token(f, owner[f.pair])
  PROVE  DecidedOK(r, f)
<1> DEFINE s == owner[f.pair]
           ends == revoke_session(Plan(f, "401", Keep), {s})
<1>1. CASE r = Answer(f, "401", Keep)
  BY <1>1, Answering
<1>2. ASSUME r # Answer(f, "401", Keep)
      PROVE  s \in Sessions /\ session[s].state = "open"
  BY <1>2 DEF refresh_token, CookieOK, RowsOK, Issued
<1>3. Drafted(ends, {s}) /\ ends.jar = Keep
  BY RevokeDrafted
<1>4. CASE r = ends /\ s \in Sessions
  <2>1. {s} \subseteq Sessions
    BY <1>4
  <2> HIDE DEF ends
  <2> QED
    BY <1>3, <1>4, <2>1, EndingPairs
<1>5. CASE r = [ends EXCEPT !.reuse = TRUE] /\ r # Answer(f, "401", Keep) /\ session[s].pair # f.pair
  <2>1. s \in crossed /\ s \in Sessions /\ session[s].state = "open"
    BY <1>2, <1>5 DEF Live
  <2> HIDE DEF ends, s
  <2>2. r.phase = "planned" /\ r.jar = Keep /\ r.issue = <<>> /\ r.ends = ends.ends /\ r.deny = ends.deny
    BY <1>3, <1>5 DEF Drafted, PlanFields
  <2>3. ends.ends = {s}
    BY <1>3, <2>1 DEF Drafted
  <2>4. {s} \subseteq Sessions
    BY <2>1
  <2> QED
    BY <1>3, <2>1, <2>2, <2>3, <2>4, DraftDenies DEF DecidedOK, Issuing, HandedOut
<1>6. CASE r = rotate_refresh_token(Plan(f, "ok", Keep), s) /\ s \in Sessions /\ session[s].state = "open"
  <2>1. Drafted(Plan(f, "ok", Keep), {})
    BY PlanDrafted
  <2> QED
    BY <1>6, <2>1, RotatingPairs
<1> QED
  BY <1>1, <1>2, <1>4, <1>5, <1>6 DEF refresh_token

LEMMA AuthenticatedPairs ==
  ASSUME RowPairsOK, NEW f, f.op \in Ops \ {"login", "logout", "refresh"}, NEW s \in Sessions,
         session[s].state = "open", NEW r \in Authenticated(f, s)
  PROVE  DecidedOK(r, f)
<1>1. CASE f.op = "read"
  BY <1>1, Answering DEF Authenticated
<1>2. CASE f.op = "secure"
  BY <1>2, Answering DEF Authenticated, require_sensitive_action
<1>3. CASE r = Refusal(f)
  BY <1>3, Answering DEF Refusal
<1>4. CASE r = [Plan(f, "ok", Keep) EXCEPT !.stepUp = {s}]
  <2> DEFINE p == [Plan(f, "ok", Keep) EXCEPT !.stepUp = {s}]
  <2>1. Drafted(p, {})
    BY StepUpDrafted
  <2>4. p.jar = Keep
    BY DEF Plan
  <2>2. {} \subseteq Sessions
    OBVIOUS
  <2> HIDE DEF p
  <2>3. DecidedOK(p, f)
    BY <2>1, <2>2, <2>4, EndingPairs
  <2> QED
    BY <1>4, <2>3 DEF p
<1>5. CASE r = rotate_refresh_token([Plan(f, "ok", Keep) EXCEPT !.stepUp = {s}], s)
  <2>1. Drafted([Plan(f, "ok", Keep) EXCEPT !.stepUp = {s}], {})
    BY StepUpDrafted
  <2> QED
    BY <1>5, <2>1, RotatingPairs
<1>6. CASE r = rotate_refresh_token([Plan(f, "ok", Keep) EXCEPT !.dropUp = {s}], s)
  <2>1. Drafted([Plan(f, "ok", Keep) EXCEPT !.dropUp = {s}], {})
    BY DropUpDrafted
  <2> QED
    BY <1>6, <2>1, RotatingPairs
<1>7. CASE r = rotate_refresh_token(revoke_session(Plan(f, "ok", Keep), Sessions \ {s}), s)
  <2>1. Drafted(revoke_session(Plan(f, "ok", Keep), Sessions \ {s}), Sessions \ {s})
    BY RevokeDrafted
  <2> QED
    BY <1>7, <2>1, RotatingPairs
<1>8. ASSUME NEW t \in Sessions, NEW j \in {NoPair, Keep}, r = revoke_session(Plan(f, "ok", j), {t})
      PROVE  DecidedOK(r, f)
  <2>1. Drafted(r, {t}) /\ r.jar = j
    BY <1>8, RevokeDrafted
  <2>2. {t} \subseteq Sessions
    OBVIOUS
  <2> QED
    BY <2>1, <2>2, EndingPairs
<1>9. CASE f.op = "step_up"
  BY <1>9, <1>3, <1>4 DEF Authenticated, mfa_step_up
<1>10. CASE f.op = "mfa_enable"
  BY <1>10, <1>3, <1>5 DEF Authenticated, mfa_enable
<1>11. CASE f.op = "mfa_disable"
  BY <1>11, <1>3, <1>6 DEF Authenticated, mfa_disable
<1>12. CASE f.op = "change_password"
  BY <1>12, <1>3, <1>7 DEF Authenticated, change_password
<1>13. CASE f.op = "revoke_single_session"
  BY <1>13, <1>8 DEF Authenticated, revoke_single_session
<1> QED
  BY <1>1, <1>2, <1>9, <1>10, <1>11, <1>12, <1>13 DEF Ops

LEMMA GuardedPairs ==
  ASSUME RowsOK, RowPairsOK, NEW f, SentOK(f), f.looked, f.op # "refresh",
         NEW r \in get_current_auth_context(f, owner[f.pair])
  PROVE  DecidedOK(r, f)
<1> DEFINE s == owner[f.pair]
<1>1. s \in Sessions /\ f.op \in Ops \ {"login", "logout", "refresh"}
  BY DEF SentOK, CookieOK, RowsOK, Issued
<1>2. CASE session[s].state # "open"
  BY <1>2, Answering DEF get_current_auth_context
<1>3. CASE session[s].state = "open" /\ s \in stale
  <2>1. Drafted(r, {s}) /\ r.jar = Keep
    BY <1>3, RevokeDrafted DEF get_current_auth_context
  <2>2. {s} \subseteq Sessions
    BY <1>1
  <2> QED
    BY <2>1, <2>2, EndingPairs
<1>4. CASE session[s].state = "open" /\ s \notin stale
  BY <1>1, <1>4, AuthenticatedPairs DEF get_current_auth_context
<1> QED
  BY <1>2, <1>3, <1>4

LEMMA DecidingPairs ==
  ASSUME RowsOK, RowPairsOK, NEW f, SentOK(f), f.phase = "sent", FlightPairsOK(f), NEW r \in Responses(f)
  PROVE  DecidedOK(r, f)
<1>1. CASE f.looked /\ f.op = "refresh"
  BY <1>1, RefreshingPairs DEF Responses, SentOK, FlightPairsOK, Between
<1>2. CASE f.looked /\ f.op # "refresh"
  BY <1>2, GuardedPairs DEF Responses
<1>3. CASE ~f.looked /\ f.op = "login"
  BY <1>3, SigningInPairs, Answering DEF Responses
<1>4. CASE ~f.looked /\ f.op = "logout"
  BY <1>4, SigningOutPairs DEF Responses, SentOK
<1>5. CASE ~f.looked /\ f.op \notin {"login", "logout"}
  <2>1. \E code \in {"401", "403"} : r = Answer(f, code, Keep)
    BY <1>5 DEF Responses
  <2> QED
    BY <2>1, Answering
<1> QED
  BY <1>1, <1>2, <1>3, <1>4, <1>5 DEF SentOK

-----------------------------------------------------------------------------
(* What every step keeps.                                                  *)
PairsGrown ==
  /\ Grown /\ denied \subseteq denied' /\ crossed \subseteq crossed'
  /\ \A n \in Issued : Born(owner[n]) /\ Spent(n) => Spent(n)'

LEMMA KnownKept ==
  ASSUME IInv, RowsOK', PairsGrown, NEW n, JarOK(n), Known(n)
  PROVE  Known(n)'
<1>1. n = NoPair \/ n = Keep \/ (n \in Issued /\ Born(owner[n]) /\ Spent(n))
  BY DEF JarOK, CookieOK, Known
<1>2. NoPair \notin Issued' /\ Keep \notin Issued'
  BY BoundsAreNumbers DEF RowsOK, Issued, NoPair, Keep
<1> QED
  BY <1>1, <1>2 DEF PairsGrown, Known

LEMMA FlightPairsKept ==
  ASSUME IInv, RowsOK', PairsGrown, NEW f, FlightOK(f), FlightPairsOK(f),
         Between(f) => LiveNext(f.pair)
  PROVE  FlightPairsOK(f)'
<1>1. ASSUME f.phase = "sent" PROVE Known(f.pair)'
  BY <1>1, KnownKept DEF FlightOK, FlightPairsOK, SentOK, JarOK
<1>2. ASSUME f.phase = "answered" PROVE Known(f.jar)'
  BY <1>2, KnownKept DEF FlightOK, FlightPairsOK, AnswerOK
<1>3. ASSUME Pending(f) PROVE PlanPairsOK(f)'
  <2>1. PlanPairsOK(f)
    BY <1>3 DEF FlightPairsOK
  <2>2. ASSUME NEW q \in f.deny
        PROVE  (q \in Issued /\ (owner[q] \in f.ends \/ Over(owner[q]) \/ (Issuing(f) /\ f.issue[1] = owner[q])))'
    <3>1. q \in Issued /\ owner'[q] = owner[q] /\ q \in Issued' /\ owner[q] \in Sessions
      BY <2>1, OwnerTyped DEF PlanPairsOK, PairsGrown, Grown, IInv
    <3>2. Over(owner[q]) => Over(owner[q])'
      BY <3>1 DEF PairsGrown, Grown, Over
    <3> QED
      BY <2>1, <3>1, <3>2 DEF PlanPairsOK, Issuing
  <2> QED
    BY <2>1, <2>2 DEF PlanPairsOK, PairsGrown, Issuing, Opening, Over
<1> QED
  BY <1>1, <1>2, <1>3 DEF FlightPairsOK, Pending, Between, Live, LiveNext

(* The refreshes between their reads, over a step that writes no pair.     *)
BetweenKept == \A y \in Slots : Between(flights[y]) => LiveNext(flights[y].pair)

LEMMA BetweenQuiet ==
  ASSUME IInv, PairInv, Grown, crossed \subseteq crossed',
         \A s \in Sessions : session'[s].pair = session[s].pair
  PROVE  BetweenKept
<1> SUFFICES ASSUME NEW y \in Slots, Between(flights[y]) PROVE LiveNext(flights[y].pair)
  BY DEF BetweenKept
<1>1. PICK f : f = flights[y]
  OBVIOUS
<1>2. PICK n : n = f.pair
  OBVIOUS
<1>3. n \in Issued /\ Live(n)
  BY <1>1, <1>2 DEF IInv, FlightsOK, FlightOK, SentOK, CookieOK, Between, PairInv, FlightPairsOK
<1>4. owner[n] \in Sessions /\ owner'[n] = owner[n]
  BY <1>3, OwnerTyped DEF IInv, Grown
<1> QED
  BY <1>1, <1>2, <1>3, <1>4 DEF Live, LiveNext

(* Every pair somebody was handed has been issued.                         *)
LEMMA UsedIssued ==
  ASSUME IInv, PairInv, NEW y \in Slots, NEW n, n \notin Issued, n # NoPair, n # Keep
  PROVE  ~Uses(flights[y], n)
<1>1. PICK f : f = flights[y]
  OBVIOUS
<1>2. FlightOK(f) /\ FlightPairsOK(f)
  BY <1>1 DEF IInv, FlightsOK, PairInv
<1>3. ASSUME f.phase = "sent" PROVE f.pair # n
  BY <1>2, <1>3 DEF FlightOK, SentOK, CookieOK
<1>4. ASSUME f.phase = "answered" PROVE f.jar # n
  BY <1>2, <1>4 DEF FlightOK, AnswerOK, JarOK, CookieOK
<1>5. ASSUME Pending(f) PROVE n \notin f.deny /\ f.jar # n
  <2>1. PlanOK(f) /\ PlanPairsOK(f)
    BY <1>2, <1>5 DEF FlightOK, FlightPairsOK, Pending
  <2> QED
    BY <2>1 DEF PlanOK, PlanPairsOK
<1> QED
  BY <1>1, <1>3, <1>4, <1>5 DEF Uses

(* A step in the slot x that leaves the request g there.                   *)
NotStored(n) ==
  n \notin denied' /\ \A s \in Sessions : session'[s].state # "none" => session'[s].pair # n
StillUnused(n, g) == NotStored(n) /\ ~Uses(g, n)

LEMMA PairSlotStep ==
  ASSUME IInv, PairInv, RowsOK', PairsGrown, RowPairsOK', UNCHANGED jar,
         NEW x \in Slots, NEW g, flights' = [flights EXCEPT ![x] = g], FlightPairsOK(g)', BetweenKept,
         \A y \in Slots \ {x} : Pending(flights[y]) /\ Issuing(flights[y]) => StillUnused(flights[y].jar, g),
         Pending(g) /\ Issuing(g) =>
           /\ NotStored(g.jar) /\ g.jar # jar /\ g.jar \notin g.deny
           /\ \A y \in Slots \ {x} : ~Uses(flights[y], g.jar)
  PROVE  PairInv'
<1>1. DOMAIN flights' = Slots /\ \A y \in Slots : flights'[y] = IF y = x THEN g ELSE flights[y]
  BY DEF IInv, FlightsOK
<1>2. ASSUME NEW y \in Slots PROVE FlightPairsOK(flights[y])'
  <2>1. CASE y = x
    <3>1. PICK h : h = flights'[y]
      OBVIOUS
    <3>2. h = g
      BY <1>1, <2>1, <3>1
    <3> QED
      BY <3>1, <3>2
  <2>2. CASE y # x
    <3>1. PICK f : f = flights[y]
      OBVIOUS
    <3>2. FlightPairsOK(f)'
      BY <3>1, FlightPairsKept DEF IInv, FlightsOK, PairInv, BetweenKept
    <3>3. f = flights'[y]
      BY <1>1, <2>2, <3>1
    <3> QED
      BY <3>2, <3>3
  <2> QED
    BY <2>1, <2>2
<1>3. NewPairsUnused'
  <2> SUFFICES ASSUME NEW y \in Slots, (Pending(flights[y]) /\ Issuing(flights[y]))'
               PROVE  Unused(flights[y].jar, y)'
    BY DEF NewPairsUnused
  <2>1. PICK n : n = flights'[y].jar
    OBVIOUS
  <2>2. /\ n # jar' /\ n \notin denied' /\ n \notin flights'[y].deny
        /\ \A s \in Sessions : session'[s].state # "none" => session'[s].pair # n
        /\ \A z \in Slots \ {y} : ~Uses(flights'[z], n)
    <3>1. CASE y = x
      BY <1>1, <2>1, <3>1 DEF NotStored
    <3>2. CASE y # x
      <4>1. flights'[y] = flights[y] /\ Unused(n, y)
        BY <1>1, <2>1, <3>2 DEF PairInv, NewPairsUnused
      <4> QED
        BY <1>1, <2>1, <3>2, <4>1 DEF Unused, StillUnused, NotStored
    <3> QED
      BY <3>1, <3>2
  <2>3. Unused(n, y)'
    BY <2>2 DEF Unused, Born
  <2> QED
    BY <2>1, <2>3
<1> QED
  BY <1>2, <1>3 DEF PairInv

LEMMA QuietRows ==
  ASSUME IInv, PairInv, UNCHANGED <<owner, session, denied, crossed, jar>>
  PROVE  RowsOK' /\ PairsGrown /\ RowPairsOK' /\ BetweenKept
<1>1. RowsOK' /\ PairsGrown /\ RowPairsOK'
  BY SameRows DEF PairInv, IInv, PairsGrown, RowPairsOK, Spent, Known, Born, Issued
<1> QED
  BY <1>1, BetweenQuiet DEF PairsGrown

LEMMA RollBackPairs ==
  ASSUME IInv, PairInv, NEW x \in Slots, RollBack(x), UNCHANGED jar
  PROVE  PairInv'
<1>0. PICK g : g = Answer(flights[x], "500", Keep)
  OBVIOUS
<1>1. UNCHANGED <<owner, session, denied, crossed>> /\ flights' = [flights EXCEPT ![x] = g]
  BY <1>0 DEF RollBack
<1>2. RowsOK' /\ PairsGrown /\ RowPairsOK' /\ BetweenKept
  BY <1>1, QuietRows
<1>3. g.phase = "answered" /\ g.jar = Keep
  BY <1>0 DEF Answer
<1>4. Keep \notin Issued /\ Keep \notin Issued'
  BY <1>2, BoundsAreNumbers DEF IInv, RowsOK, Issued, Keep
<1>5. FlightPairsOK(g)'
  BY <1>3, <1>4 DEF FlightPairsOK, Pending, Known, Between
<1>6. ASSUME NEW y \in Slots \ {x}, Pending(flights[y]), Issuing(flights[y])
      PROVE  StillUnused(flights[y].jar, g)
  <2>1. flights[y].jar \in Issued
    BY <1>6 DEF IInv, FlightsOK, FlightOK, Pending, PlanOK
  <2>2. Unused(flights[y].jar, y)
    BY <1>6 DEF PairInv, NewPairsUnused
  <2> QED
    BY <1>1, <1>3, <1>4, <2>1, <2>2 DEF StillUnused, NotStored, Uses, Pending, Unused, Born
<1> QED
  BY <1>1, <1>2, <1>3, <1>5, <1>6, PairSlotStep DEF Pending

LEMMA CheckPairs ==
  ASSUME IInv, PairInv, NEW x \in Slots, Check(x), UNCHANGED jar
  PROVE  PairInv'
<1>1. PICK f : f = flights[x]
  OBVIOUS
<1>2. PICK g : g = [f EXCEPT !.phase = "checked", !.deny = @ \ denied]
  OBVIOUS
<1>3. /\ f.phase = "planned" /\ PlanOK(f) /\ PlanPairsOK(f) /\ flights' = [flights EXCEPT ![x] = g]
      /\ UNCHANGED <<owner, session, denied, crossed>>
  BY <1>1, <1>2 DEF Check, IInv, FlightsOK, FlightOK, PairInv, FlightPairsOK, Pending
<1>4. /\ g.phase = "checked" /\ g.issue = f.issue /\ g.ends = f.ends /\ g.jar = f.jar
      /\ g.deny = f.deny \ denied /\ g.reuse = f.reuse
  BY <1>2, <1>3 DEF PlanOK, PlanFields
<1>5. RowsOK' /\ PairsGrown /\ RowPairsOK' /\ BetweenKept
  BY <1>3, QuietRows
<1>6. PlanPairsOK(g)'
  BY <1>3, <1>4 DEF PlanPairsOK, Issuing, Opening, Issued, Over
<1>7. FlightPairsOK(g)'
  BY <1>4, <1>6 DEF FlightPairsOK, Pending, Between
<1>8. \A n : Uses(g, n) => Uses(f, n)
  BY <1>3, <1>4 DEF Uses, Pending
<1>9. Issuing(g) => Unused(g.jar, x)
  BY <1>1, <1>3, <1>4 DEF PairInv, NewPairsUnused, Pending, Issuing
<1>10. ASSUME NEW y \in Slots \ {x}, Pending(flights[y]), Issuing(flights[y])
       PROVE  StillUnused(flights[y].jar, g)
  <2>1. Unused(flights[y].jar, y)
    BY <1>10 DEF PairInv, NewPairsUnused
  <2> QED
    BY <1>1, <1>3, <1>8, <2>1 DEF StillUnused, NotStored, Unused, Born
<1>11. Issuing(g) =>
         /\ NotStored(g.jar) /\ g.jar # jar /\ g.jar \notin g.deny
         /\ \A y \in Slots \ {x} : ~Uses(flights[y], g.jar)
  BY <1>1, <1>3, <1>4, <1>9 DEF Unused, NotStored, Born
<1> QED
  BY <1>3, <1>5, <1>7, <1>10, <1>11, PairSlotStep

(* What a lookup finds not denied is the pair in the row.                  *)
LEMMA LookupPairs ==
  ASSUME IInv, PairInv, NEW x \in Slots, Lookup(x), UNCHANGED jar
  PROVE  PairInv'
<1>1. PICK f : f = flights[x]
  OBVIOUS
<1>2. f.phase = "sent" /\ SentOK(f) /\ LooksUp(f) /\ Known(f.pair)
  BY <1>1 DEF Lookup, IInv, FlightsOK, FlightOK, PairInv, FlightPairsOK
<1>3. PICK g : /\ flights' = [flights EXCEPT ![x] = g]
               /\ \/ g = Answer(f, "401", Keep)
                  \/ g = [f EXCEPT !.looked = TRUE] /\ f.pair \notin denied
  BY <1>1 DEF Lookup, is_token_revoked
<1>4. UNCHANGED <<owner, session, denied, crossed>>
  BY DEF Lookup
<1>5. RowsOK' /\ PairsGrown /\ RowPairsOK' /\ BetweenKept
  BY <1>4, QuietRows
<1>6. Keep \notin Issued /\ Keep \notin Issued'
  BY <1>5, BoundsAreNumbers DEF IInv, RowsOK, Issued, Keep
<1>7. f.pair \in Issued
  BY <1>2 DEF LooksUp, SentOK, CookieOK
<1>8. /\ FlightPairsOK(g)' /\ ~Pending(g)
      /\ \A n : Uses(g, n) => n \in {f.pair, Keep}
  <2>1. CASE g = Answer(f, "401", Keep)
    <3>1. g.phase = "answered" /\ g.jar = Keep
      BY <2>1 DEF Answer
    <3> QED
      BY <1>6, <3>1 DEF FlightPairsOK, Pending, Known, Between, Uses
  <2>2. CASE g = [f EXCEPT !.looked = TRUE] /\ f.pair \notin denied
    <3>1. g.phase = "sent" /\ g.pair = f.pair
      BY <1>2, <2>2 DEF SentOK
    <3>2. PICK n : n = f.pair
      OBVIOUS
    <3>3. Spent(n) /\ Live(n)
      BY <1>2, <1>7, <2>2, <3>2 DEF Known, Spent, Live
    <3>4. Known(n)' /\ Live(n)'
      BY <1>4, <3>3 DEF Known, Spent, Live
    <3> QED
      BY <3>1, <3>2, <3>4 DEF FlightPairsOK, Pending, Uses
  <2> QED
    BY <1>3, <2>1, <2>2
<1>9. ASSUME NEW y \in Slots \ {x}, Pending(flights[y]), Issuing(flights[y])
      PROVE  StillUnused(flights[y].jar, g)
  <2>1. flights[y].jar \in Issued
    BY <1>9 DEF IInv, FlightsOK, FlightOK, Pending, PlanOK
  <2>2. Unused(flights[y].jar, y)
    BY <1>9 DEF PairInv, NewPairsUnused
  <2>3. f.pair # flights[y].jar
    BY <1>1, <1>2, <2>2 DEF Unused, Uses
  <2> QED
    BY <1>4, <1>6, <1>8, <2>1, <2>2, <2>3 DEF StillUnused, NotStored, Unused, Born
<1> QED
  BY <1>3, <1>4, <1>5, <1>8, <1>9, PairSlotStep

LEMMA HandlePairs ==
  ASSUME IInv, PairInv, IInv', Grown, NEW x \in Slots, Handle(x), UNCHANGED jar
  PROVE  PairInv'
<1>1. PICK f : f = flights[x]
  OBVIOUS
<1>2. SentOK(f) /\ FlightPairsOK(f) /\ f.phase = "sent"
  BY <1>1 DEF Handle, IInv, FlightsOK, FlightOK, PairInv, FlightPairsOK
<1>4. PICK r \in Responses(f) :
        /\ flights' = [flights EXCEPT ![x] = NextPhase(r)]
        /\ r.phase = "planned" /\ r.issue # <<>> => Len(owner) < MaxPairs
  BY <1>1 DEF Handle
<1>5. DecidedOK(r, f) /\ DecisionOK(r)
  BY <1>2, DecidingPairs, Deciding DEF IInv, PairInv
<1>6. UNCHANGED <<session, denied, crossed>>
  BY DEF Handle
<1>7. PairsGrown /\ BetweenKept
  <2>1. PairsGrown
    BY <1>6 DEF PairsGrown, Grown, Spent
  <2> QED
    BY <1>6, <2>1, BetweenQuiet
<1>8. RowPairsOK'
  <2>1. Known(jar)'
    BY <1>7, KnownKept DEF IInv, BrowserOK, JarOK, PairInv, RowPairsOK
  <2> QED
    BY <1>6, <2>1 DEF PairInv, RowPairsOK, Grown, Born
<1>9. PICK g : g = NextPhase(r)
  OBVIOUS
<1>10. ASSUME NEW y \in Slots \ {x}, Pending(flights[y]), Issuing(flights[y])
       PROVE  /\ Unused(flights[y].jar, y) /\ NotStored(flights[y].jar) /\ flights[y].jar \in Issued
              /\ f.pair # flights[y].jar
  <2>1. Unused(flights[y].jar, y)
    BY <1>10 DEF PairInv, NewPairsUnused
  <2>2. flights[y].jar \in Issued
    BY <1>10 DEF IInv, FlightsOK, FlightOK, Pending, PlanOK
  <2> QED
    BY <1>1, <1>2, <1>6, <2>1, <2>2 DEF NotStored, Unused, Born, Uses
<1>11. NoPair \notin Issued /\ Keep \notin Issued /\ Len(owner) + 1 \notin Issued /\ Keep \notin Issued'
       /\ Len(owner) \in Nat
  BY BoundsAreNumbers DEF IInv, RowsOK, Issued, Keep, NoPair
<1>12. CASE r.phase = "answered"
  <2>1. g.phase = "answered" /\ g.jar = Keep
    BY <1>5, <1>9, <1>12 DEF NextPhase, DecidedOK
  <2>2. FlightPairsOK(g)'
    BY <1>11, <2>1 DEF FlightPairsOK, Pending, Known, Between
  <2>3. \A y \in Slots \ {x} : Pending(flights[y]) /\ Issuing(flights[y]) => StillUnused(flights[y].jar, g)
    BY <1>10, <1>11, <2>1 DEF StillUnused, Uses, Pending
  <2> QED
    BY <1>4, <1>7, <1>8, <1>9, <2>1, <2>2, <2>3, PairSlotStep DEF Pending, IInv
<1>13. CASE r.phase = "planned"
  <2>1. DOMAIN r = PlanFields /\ NewPlanOK(r)
    BY <1>5, <1>13 DEF DecisionOK, NewPlanOK
  <2>2. /\ Pending(g) /\ g.issue = r.issue /\ g.ends = r.ends /\ g.jar = r.jar
        /\ g.deny = r.deny /\ g.reuse = r.reuse
    BY <1>9, <1>13, <2>1 DEF NextPhase, PlanFields, Pending
  <2>3. /\ Issuing(g) <=> Issuing(r)
        /\ Opening(g) <=> Opening(r)
    BY <2>2 DEF Issuing, Opening
  <2>4. PlanPairsOK(g)'
    <3>1. IF Issuing(g) THEN g.issue[3] = g.jar ELSE g.jar \in {NoPair, Keep}
      BY <1>5, <1>13, <2>2, <2>3 DEF DecidedOK
    <3>2. Issuing(g) /\ ~Opening(g) => g.issue[2] \in g.deny
      BY <1>5, <1>13, <2>2, <2>3 DEF DecidedOK
    <3>3. g.reuse => g.ends \subseteq crossed
      BY <1>5, <1>13, <2>2 DEF DecidedOK
    <3>4. ASSUME NEW q \in g.deny
          PROVE  (q \in Issued /\ (owner[q] \in g.ends \/ Over(owner[q]) \/ (Issuing(g) /\ g.issue[1] = owner[q])))'
      <4>1. q \in Issued /\ (owner[q] \in g.ends \/ Over(owner[q]) \/ (Issuing(g) /\ g.issue[1] = owner[q]))
        BY <1>5, <1>13, <2>2, <2>3 DEF DecidedOK
      <4>2. owner'[q] = owner[q] /\ q \in Issued' /\ owner[q] \in Sessions
        BY <4>1, OwnerTyped DEF Grown, IInv
      <4> QED
        BY <1>6, <4>1, <4>2 DEF Over, Issuing
    <3> QED
      BY <1>6, <3>1, <3>2, <3>3, <3>4 DEF PlanPairsOK, Issuing, Opening
  <2>5. FlightPairsOK(g)'
    BY <2>2, <2>4 DEF FlightPairsOK, Pending, Between
  <2>6. \A q \in g.deny : q \in Issued /\ HandedOut(q, f)
    BY <1>5, <1>13, <2>2 DEF DecidedOK
  <2>7. g.jar \in {NoPair, Keep, Len(owner) + 1}
    BY <1>5, <1>13, <2>1, <2>2 DEF DecidedOK, NewPlanOK
  <2>8. ASSUME NEW y \in Slots \ {x}, Pending(flights[y]), Issuing(flights[y])
        PROVE  StillUnused(flights[y].jar, g)
    <3>1. flights[y].jar \notin g.deny
      BY <1>10, <2>6, <2>8 DEF HandedOut, Unused
    <3> QED
      BY <1>10, <1>11, <2>2, <2>7, <2>8, <3>1 DEF StillUnused, Uses, Pending
  <2>9. ASSUME Issuing(g)
        PROVE  /\ NotStored(g.jar) /\ g.jar # jar /\ g.jar \notin g.deny
               /\ \A y \in Slots \ {x} : ~Uses(flights[y], g.jar)
    <3>1. g.jar = Len(owner) + 1
      BY <2>1, <2>2, <2>3, <2>9 DEF NewPlanOK
    <3>2. Len(owner) < MaxPairs
      BY <1>4, <1>13, <2>2, <2>9 DEF Issuing
    <3>3. g.jar \notin Issued /\ g.jar # NoPair /\ g.jar # Keep
      BY <1>11, <3>1, <3>2, BoundsAreNumbers DEF NoPair, Keep
    <3>4. NotStored(g.jar)
      BY <1>6, <3>3 DEF NotStored, PairInv, RowPairsOK, Born
    <3>5. g.jar # jar
      BY <3>3 DEF IInv, BrowserOK, CookieOK
    <3> QED
      BY <2>6, <3>3, <3>4, <3>5, UsedIssued
  <2> QED
    BY <1>4, <1>7, <1>8, <1>9, <2>5, <2>8, <2>9, PairSlotStep DEF IInv
<1> QED
  BY <1>5, <1>12, <1>13 DEF DecisionOK

LEMMA CommitPairs ==
  ASSUME IInv, PairInv, IInv', Grown, NEW x \in Slots, Commit(x), UNCHANGED jar
  PROVE  PairInv'
<1>1. PICK f : f = flights[x]
  OBVIOUS
<1>2. PICK g : g = Answer(f, f.code, f.jar)
  OBVIOUS
<1>3. /\ f.phase = "checked" /\ flights' = [flights EXCEPT ![x] = g] /\ UNCHANGED owner
      /\ session' = [s \in Sessions |-> Flushed(f, s)] /\ denied' = denied \union f.deny
      /\ crossed' = crossed \union
           {s \in Sessions : Issues(f, s) /\ f.issue[2] # NoPair
                              /\ (f.issue[2] # session[s].pair \/ BetweenReads(f.issue[2]))}
  BY <1>1, <1>2 DEF Commit
<1>4. PlanOK(f) /\ PlanPairsOK(f)
  BY <1>1, <1>3 DEF IInv, FlightsOK, FlightOK, PairInv, FlightPairsOK, Pending
<1>5. ASSUME Issuing(f)
      PROVE  f.jar \in Issued /\ owner[f.jar] = f.issue[1] /\ f.issue[3] = f.jar /\ Unused(f.jar, x)
  BY <1>1, <1>3, <1>4, <1>5 DEF PlanOK, PlanPairsOK, PairInv, NewPairsUnused, Pending
<1>6. ASSUME NEW s \in Sessions
      PROVE  /\ session'[s].state =
                  IF s \in f.ends THEN (IF f.reuse THEN "reused" ELSE "ended")
                  ELSE IF Issues(f, s) /\ f.issue[2] = NoPair THEN "open" ELSE session[s].state
             /\ session'[s].pair = IF Issues(f, s) THEN f.jar ELSE session[s].pair
             /\ session'[s].state # "none" /\ ~Issues(f, s) => Born(s)
  BY <1>3, <1>4, <1>5 DEF Flushed, Row, Issues, Issuing, Born, PlanOK
<1>7. Issued' = Issued /\ \A s \in Sessions : Issues(f, s) <=> Issuing(f) /\ f.issue[1] = s
  BY <1>3 DEF Issued, Issues, Issuing
<1>8. PairsGrown
  <2> SUFFICES ASSUME NEW n \in Issued, Born(owner[n]), Spent(n) PROVE Spent(n)'
    BY <1>3 DEF PairsGrown
  <2>1. PICK s \in Sessions : s = owner[n]
    BY OwnerTyped DEF IInv
  <2>2. CASE n = session[s].pair /\ Issues(f, s)
    <3>1. f.issue[2] # NoPair /\ f.issue[2] \in f.deny \union denied
      BY <1>4, <1>7, <2>1, <2>2 DEF PlanOK, PlanPairsOK, Opening
    <3> QED
      BY <1>3, <2>1, <2>2, <3>1 DEF Spent
  <2>3. CASE ~(n = session[s].pair /\ Issues(f, s))
    BY <1>3, <1>6, <2>1, <2>3 DEF Spent
  <2> QED
    BY <2>2, <2>3
<1>9. RowPairsOK'
  <2>1. denied' \subseteq Issued'
    BY <1>3, <1>4, <1>7 DEF PairInv, RowPairsOK, PlanPairsOK
  <2>2. Known(jar)'
    BY <1>8, KnownKept DEF IInv, BrowserOK, JarOK, PairInv, RowPairsOK
  <2>3. ASSUME NEW s \in Sessions, session'[s].state # "none"
        PROVE  session'[s].pair \in Issued' /\ owner'[session'[s].pair] = s
    BY <1>3, <1>5, <1>6, <1>7, <2>3 DEF PairInv, RowPairsOK
  <2>4. ASSUME NEW s \in Sessions, session'[s].state = "open"
        PROVE  session'[s].pair \notin denied'
    <3>1. CASE Issues(f, s)
      BY <1>1, <1>3, <1>5, <1>6, <1>7, <3>1 DEF Unused
    <3>2. CASE ~Issues(f, s)
      <4>1. session[s].state = "open" /\ s \notin f.ends /\ session'[s].pair = session[s].pair
        BY <1>6, <2>4, <3>2
      <4>2. session[s].pair \notin denied /\ owner[session[s].pair] = s
        BY <4>1 DEF PairInv, RowPairsOK, Born
      <4>3. session[s].pair \notin f.deny
        BY <1>4, <1>7, <3>2, <4>1, <4>2 DEF PlanPairsOK, Over
      <4> QED
        BY <1>3, <4>1, <4>2, <4>3
    <3> QED
      BY <3>1, <3>2
  <2>5. ASSUME NEW s \in Sessions, session'[s].state = "reused"
        PROVE  s \in crossed'
    BY <1>3, <1>4, <1>6, <2>5 DEF PlanPairsOK, PairInv, RowPairsOK
  <2> QED
    BY <2>1, <2>2, <2>3, <2>4, <2>5 DEF RowPairsOK, Born
<1>10. g.phase = "answered" /\ g.jar = f.jar
  BY <1>2 DEF Answer
<1>11. FlightPairsOK(g)'
  <2>1. CASE Issuing(f)
    <3>1. f.issue[1] \in Sessions
      BY <1>4, <2>1 DEF PlanOK
    <3>2. f.jar = session'[owner'[f.jar]].pair
      BY <1>3, <1>5, <1>6, <1>7, <2>1, <3>1
    <3> QED
      BY <1>10, <3>2 DEF FlightPairsOK, Pending, Known, Spent, Between
  <2>2. CASE ~Issuing(f)
    <3>1. f.jar \notin Issued'
      <4>1. f.jar \in {NoPair, Keep}
        BY <1>4, <2>2 DEF PlanPairsOK
      <4>2. Issued' = 1..Len(owner) /\ Len(owner) \in Nat /\ Len(owner) <= MaxPairs
        BY <1>7 DEF IInv, RowsOK, Issued
      <4> QED
        BY <4>1, <4>2, BoundsAreNumbers DEF NoPair, Keep
    <3> QED
      BY <1>10, <3>1 DEF FlightPairsOK, Pending, Known, Between
  <2> QED
    BY <2>1, <2>2
<1>12. ASSUME NEW y \in Slots \ {x}, Pending(flights[y]), Issuing(flights[y])
       PROVE  StillUnused(flights[y].jar, g)
  <2>1. PICK n : n = flights[y].jar
    OBVIOUS
  <2>2. Unused(n, y)
    BY <1>12, <2>1 DEF PairInv, NewPairsUnused
  <2>3. f.jar # n /\ n \notin f.deny
    BY <1>1, <1>3, <2>2 DEF Unused, Uses, Pending
  <2>4. NotStored(n)
    BY <1>3, <1>6, <2>2, <2>3 DEF NotStored, Unused
  <2> QED
    BY <1>10, <2>1, <2>3, <2>4 DEF StillUnused, Uses, Pending
<1>13. BetweenKept
  <2> SUFFICES ASSUME NEW y \in Slots, Between(flights[y]) PROVE LiveNext(flights[y].pair)
    BY DEF BetweenKept
  <2>1. PICK h : h = flights[y]
    OBVIOUS
  <2>2. PICK n : n = h.pair
    OBVIOUS
  <2>3. n \in Issued /\ Born(owner[n]) /\ Live(n)
    BY <2>1, <2>2 DEF IInv, FlightsOK, FlightOK, SentOK, CookieOK, Between, PairInv, FlightPairsOK
  <2>4. PICK s \in Sessions : s = owner[n]
    BY <2>3, OwnerTyped DEF IInv
  <2>5. CASE s \in crossed \/ ~Issues(f, s)
    BY <1>3, <1>6, <2>1, <2>2, <2>3, <2>4, <2>5 DEF Live, LiveNext
  <2>6. CASE s \notin crossed /\ Issues(f, s)
    <3>1. n = session[s].pair /\ f.issue[2] # NoPair
      BY <1>4, <1>7, <2>3, <2>4, <2>6 DEF Live, PlanOK, Opening
    <3>2. BetweenReads(n)
      BY <2>1, <2>2 DEF BetweenReads, Between
    <3>3. s \in crossed'
      BY <1>3, <2>6, <3>1, <3>2
    <3> QED
      BY <1>3, <2>1, <2>2, <2>4, <3>3 DEF LiveNext
  <2> QED
    BY <2>5, <2>6
<1> QED
  BY <1>3, <1>8, <1>9, <1>10, <1>11, <1>12, <1>13, PairSlotStep DEF IInv, Pending

-----------------------------------------------------------------------------
(* The browser and the clock hand pairs on: from an answer to the cookies, *)
(* from the cookies to a request.                                          *)
TakesCookie == jar' = jar \/ \E z \in Slots : flights[z].phase = "answered" /\ jar' = flights[z].jar
Carried(f) == f = Idle \/ (f.phase = "sent" /\ ~f.looked /\ f.pair \in {jar, jar'})

Carries ==
  /\ UNCHANGED <<owner, denied, crossed>> /\ DOMAIN flights' = Slots /\ TakesCookie
  /\ \A s \in Sessions : session'[s].state = session[s].state /\ session'[s].pair = session[s].pair
  /\ \A y \in Slots : flights'[y] = flights[y] \/ Carried(flights'[y])

LEMMA CarriesStep ==
  ASSUME IInv, PairInv, IInv', Grown, Carries
  PROVE  PairInv'
<1>1. PairsGrown
  <2>1. \A n \in Issued : Born(owner[n]) /\ Spent(n) => Spent(n)'
    BY OwnerTyped DEF Carries, Spent, IInv
  <2> QED
    BY <2>1 DEF Carries, PairsGrown
<1>2. PICK n : n = jar'
  OBVIOUS
<1>3. Known(jar)' /\ Known(n)'
  <2>1. JarOK(n) /\ Known(n)
    <3>1. ASSUME NEW z \in Slots, flights[z].phase = "answered" PROVE JarOK(flights[z].jar) /\ Known(flights[z].jar)
      BY <3>1 DEF IInv, FlightsOK, FlightOK, AnswerOK, PairInv, FlightPairsOK
    <3> QED
      BY <1>2, <3>1 DEF Carries, TakesCookie, IInv, BrowserOK, JarOK, PairInv, RowPairsOK
  <2>2. Known(n)'
    BY <1>1, <2>1, KnownKept DEF IInv
  <2> QED
    BY <1>2, <2>2
<1>4. RowPairsOK'
  BY <1>3 DEF PairInv, RowPairsOK, Carries, Born, Issued
<1>7. BetweenKept
  BY BetweenQuiet DEF Carries
<1>5. ASSUME NEW y \in Slots PROVE FlightPairsOK(flights[y])'
  <2>1. PICK f : f = flights'[y]
    OBVIOUS
  <2>2. CASE f = flights[y]
    BY <1>1, <1>7, <2>1, <2>2, FlightPairsKept DEF IInv, FlightsOK, PairInv, BetweenKept
  <2>3. CASE Carried(f)
    <3>1. PICK j : j = jar
      OBVIOUS
    <3>2. Known(j)'
      BY <1>1, <3>1, KnownKept DEF IInv, BrowserOK, JarOK, PairInv, RowPairsOK
    <3>3. f.phase = "sent" => f.pair \in {j, n}
      BY <1>2, <2>3, <3>1 DEF Carried, Idle
    <3>4. f.phase = "sent" => Known(f.pair)'
      BY <1>3, <3>2, <3>3
    <3>5. f.phase # "answered" /\ ~Pending(f) /\ ~Between(f)
      BY <2>3 DEF Carried, Idle, Pending, Between
    <3>6. FlightPairsOK(f)'
      BY <3>4, <3>5 DEF FlightPairsOK, Pending, Between
    <3> QED
      BY <2>1, <3>6
  <2>4. FlightPairsOK(f)'
    BY <2>1, <2>2, <2>3 DEF Carries
  <2> QED
    BY <2>1, <2>4
<1>6. NewPairsUnused'
  <2> SUFFICES ASSUME NEW x \in Slots, (Pending(flights[x]) /\ Issuing(flights[x]))'
               PROVE  Unused(flights[x].jar, x)'
    BY DEF NewPairsUnused
  <2>1. flights'[x] = flights[x]
    BY DEF Carries, Carried, Idle, Pending
  <2>2. PICK m : m = flights'[x].jar
    OBVIOUS
  <2>3. Unused(m, x)
    BY <2>1, <2>2 DEF PairInv, NewPairsUnused, Pending, Issuing
  <2>4. m # jar'
    <3>1. ASSUME NEW z \in Slots, flights[z].phase = "answered" PROVE flights[z].jar # m
      BY <2>1, <2>3, <3>1 DEF Unused, Uses, Pending
    <3> QED
      BY <2>3, <3>1 DEF Carries, TakesCookie, Unused
  <2>5. ASSUME NEW z \in Slots \ {x} PROVE ~Uses(flights'[z], m)
    <3>1. CASE flights'[z] = flights[z]
      BY <2>3, <2>5, <3>1 DEF Unused
    <3>2. CASE Carried(flights'[z])
      BY <2>3, <2>4, <3>2 DEF Carried, Idle, Uses, Pending, Unused
    <3> QED
      BY <3>1, <3>2 DEF Carries
  <2>6. Unused(m, x)'
    BY <2>1, <2>3, <2>4, <2>5 DEF Unused, Carries, Born
  <2> QED
    BY <2>2, <2>6
<1> QED
  BY <1>4, <1>5, <1>6 DEF PairInv

LEMMA CookieTaken ==
  ASSUME NEW x \in Slots, Answered(x), SetCookies(flights[x])
  PROVE  TakesCookie
  BY DEF Answered, SetCookies, TakesCookie

LEMMA RequestCarried == ASSUME NEW op, NEW n \in {jar, jar'} PROVE Carried(RequestFrom(n, op))
  BY DEF Carried, RequestFrom, Sent

LEMMA ResentCarried ==
  ASSUME NEW cs
  PROVE  /\ DOMAIN ResentFlights(cs) = Slots
         /\ \A y \in Slots : ResentFlights(cs)[y] = flights[y] \/ Carried(ResentFlights(cs)[y])
  BY RequestCarried DEF ResentFlights

LEMMA SentCarried == \A op : Carried(Request(op)) /\ Carried(Idle)
  BY RequestCarried DEF Request, Carried

LEMMA SlotsKept == IInv => DOMAIN flights = Slots /\ Requests \subseteq Slots /\ Tabs \subseteq Slots
  BY SlotsAreOurs DEF IInv, FlightsOK, Requests

LEMMA TabCarries ==
  ASSUME IInv, NEW t \in Tabs,
         \/ \E d, op : Start(d, t, op)
         \/ Submit(t) \/ Settle(t) \/ Cancel(t)
  PROVE  Carries
<1> USE DEF Server, ServerKept
<1>1. DOMAIN flights = Slots /\ t \in Slots
  BY SlotsKept
<1>2. ASSUME NEW d, NEW op, Start(d, t, op) PROVE Carries
  BY <1>1, <1>2, SentCarried DEF Start, Carries, TakesCookie
<1>3. CASE Submit(t)
  BY <1>1, <1>3, SentCarried DEF Submit, Carries, TakesCookie
<1>4. CASE RefreshAnswered(t)
  <2>1. TakesCookie
    BY <1>1, <1>4, CookieTaken DEF RefreshAnswered
  <2>2. \/ flights' = [flights EXCEPT ![t] = Idle]
        \/ \E cs : flights' = [ResentFlights(cs) EXCEPT ![t] = Idle]
    BY <1>4 DEF RefreshAnswered
  <2> QED
    BY <1>1, <1>4, <2>1, <2>2, SentCarried, ResentCarried DEF RefreshAnswered, Carries
<1>5. CASE RefreshTimesOut(t) \/ Cancel(t)
  BY <1>1, <1>5 DEF RefreshTimesOut, Cancel, Carries, TakesCookie
<1> QED
  BY <1>2, <1>3, <1>4, <1>5 DEF Settle

LEMMA CallCarries ==
  ASSUME IInv, NEW c \in Requests, Progress(c)
  PROVE  Carries
<1> USE DEF Server, ServerKept
<1>1. DOMAIN flights = Slots /\ c \in Slots
  BY SlotsKept
<1>2. CASE JoinRefresh(c)
  <2>1. TakesCookie
    BY <1>1, <1>2, CookieTaken DEF JoinRefresh
  <2> QED
    BY <1>1, <1>2, <2>1, SentCarried DEF JoinRefresh, Carries
<1>3. CASE JoinStepUp(c)
  BY <1>1, <1>3, SentCarried DEF JoinStepUp, Carries, TakesCookie
<1>4. CASE Receive(c)
  <2>1. TakesCookie
    BY <1>1, <1>4, CookieTaken DEF Receive
  <2>2. PICK cs : flights' = [ResentFlights(cs) EXCEPT ![c] = Idle]
    BY <1>4 DEF Receive
  <2> QED
    BY <1>1, <1>4, <2>1, <2>2, SentCarried, ResentCarried DEF Receive, Carries
<1>5. CASE TimesOut(c)
  BY <1>1, <1>5, SentCarried DEF TimesOut, Carries, TakesCookie
<1> QED
  BY <1>2, <1>3, <1>4, <1>5 DEF Progress

LEMMA DiscardCarries ==
  ASSUME IInv, NEW x \in Slots, Discard(x)
  PROVE  Carries
  BY SlotsKept, SentCarried DEF Server, ServerKept, Discard, Carries, TakesCookie

LEMMA ClockCarries ==
  ASSUME IInv, UNCHANGED <<jar, flights>>,
         AccessExpires \/ SessionExpires \/ StepUpExpires \/ UNCHANGED svars
  PROVE  Carries
<1>1. \A s \in Sessions : session'[s].state = session[s].state /\ session'[s].pair = session[s].pair
  <2>1. CASE StepUpExpires
    <3>1. PICK t \in Sessions : session' = [session EXCEPT ![t].stepUp = FALSE]
      BY <2>1 DEF StepUpExpires
    <3> QED
      BY <3>1 DEF IInv, RowsOK
  <2>2. CASE ~StepUpExpires
    BY <2>2 DEF AccessExpires, SessionExpires, svars
  <2> QED
    BY <2>1, <2>2
<1> QED
  BY <1>1 DEF AccessExpires, SessionExpires, StepUpExpires, svars, Carries, TakesCookie, IInv, FlightsOK

-----------------------------------------------------------------------------
LEMMA InitPairInv == Init => PairInv
<1> SUFFICES ASSUME Init PROVE PairInv
  OBVIOUS
<1>1. First \in Sessions /\ Issued = {1} /\ owner[1] = First /\ session[First] = Row("open", 1, FALSE)
  <2>1. First \in Sessions
    BY SomeSession DEF First
  <2> QED
    BY <2>1 DEF Init, Issued
<1>2. \A s \in Sessions : s # First => session[s] = Row("none", 0, FALSE)
  BY DEF Init
<1>3. RowPairsOK
  BY <1>1, <1>2 DEF Init, RowPairsOK, Known, Spent, Born, Row
<1> QED
  BY <1>3 DEF Init, PairInv, FlightPairsOK, Idle, Pending, NewPairsUnused, Between

LEMMA NextPairInv == IInv /\ PairInv /\ [Next]_vars => PairInv'
<1> SUFFICES ASSUME IInv, PairInv, [Next]_vars PROVE PairInv'
  OBVIOUS
<1>1. IInv' /\ Grown
  BY NextIInv
<1>2. Carries => PairInv'
  BY <1>1, CarriesStep
<1>3. CASE ServerNext
  <2>1. UNCHANGED jar
    BY <1>3 DEF ServerNext
  <2>2. ASSUME NEW x \in Slots, Work(x) PROVE PairInv'
    BY <1>1, <2>1, <2>2, LookupPairs, HandlePairs, CheckPairs, CommitPairs, RollBackPairs DEF Work
  <2>3. CASE AccessExpires \/ SessionExpires \/ StepUpExpires
    <3>1. UNCHANGED flights
      BY <2>3 DEF AccessExpires, SessionExpires, StepUpExpires
    <3> QED
      BY <1>2, <2>1, <2>3, <3>1, ClockCarries
  <2> QED
    BY <1>3, <2>2, <2>3 DEF ServerNext
<1>4. CASE UNCHANGED vars
  BY <1>2, <1>4, ClockCarries DEF vars, svars
<1>5. ASSUME NEW c \in Calls, NEW t \in Tabs, NEW op \in CallOps[c], Start(c, t, op)
      PROVE  Carries
  BY <1>5, TabCarries
<1>6. ASSUME NEW t \in Tabs, Submit(t) \/ Settle(t) \/ Cancel(t)
      PROVE  Carries
  BY <1>6, TabCarries
<1>7. ASSUME NEW c \in Requests, Progress(c)
      PROVE  Carries
  BY <1>7, CallCarries
<1>8. ASSUME NEW x \in Slots, Discard(x)
      PROVE  Carries
  BY <1>8, DiscardCarries
<1> QED
  BY <1>2, <1>3, <1>4, <1>5, <1>6, <1>7, <1>8 DEF Next

-----------------------------------------------------------------------------
(* The pair in the row of an open session is its own and is not in the     *)
(* table of revoked tokens, or nobody could use the session any more.      *)
THEOREM AcceptedPairs == Spec => []OpenPairAccepted
<1>1. PairInv => OpenPairAccepted
  BY DEF PairInv, RowPairsOK, OpenPairAccepted, Born
<1> QED
  BY <1>1, InitIInv, NextIInv, InitPairInv, NextPairInv, PTL DEF Spec

(* The alarm about a reused refresh token is raised only where requests    *)
(* overlapped over one pair: two rotations of it, or a rotation and a      *)
(* refresh that had looked the pair up before the rotation committed.  An  *)
(* answer that is lost, a refresh that is sent again once the rotation has *)
(* committed, and one that is rolled back raise none.                      *)
THEOREM HonestAlarm == Spec => []ReuseMeansOverlap
<1>1. PairInv => ReuseMeansOverlap
  BY DEF PairInv, RowPairsOK, ReuseMeansOverlap
<1> QED
  BY <1>1, InitIInv, NextIInv, InitPairInv, NextPairInv, PTL DEF Spec

-----------------------------------------------------------------------------
(* Types.  What IInv and PairInv leave open of them.                       *)
CallRow ==
  [phase : {"new", "flying", "refreshing", "stepping", "done", "failed"},
   op : (UNION {CallOps[c] : c \in Calls}) \union {"read", "step_up"}, tab : Tabs, refreshed : BOOLEAN,
   stepped : BOOLEAN, tries : 0..Retries]

ClientTyped ==
  call \in [Requests -> CallRow] /\ promise \in [Tabs -> BOOLEAN] /\ dialog \in [Tabs -> BOOLEAN]

ServerTyped ==
  /\ \A s \in Sessions : session[s].pair <= MaxPairs
  /\ cached \subseteq Issued /\ aged \in 0..Len(owner)
  /\ stale \subseteq Sessions /\ crossed \subseteq Sessions /\ mfa \in BOOLEAN
  /\ faults \in 0..MaxFaults

LEMMA TypedFromInv == IInv /\ PairInv /\ ServerTyped /\ ClientTyped => TypeOK
<1> SUFFICES ASSUME IInv, PairInv, ServerTyped, ClientTyped PROVE TypeOK
  OBVIOUS
<1>1. owner \in Seq(Sessions) /\ Len(owner) <= MaxPairs /\ Len(owner) \in Nat
  BY DEF IInv, RowsOK
<1>2. session \in [Sessions -> [state : {"none", "open", "ended", "reused"},
                               pair : 0..MaxPairs, stepUp : BOOLEAN]]
  BY BoundsAreNumbers DEF IInv, RowsOK, ServerTyped
<1>3. ServerTypeOK
  BY <1>1, <1>2 DEF ServerTypeOK, ServerTyped, PairInv, RowPairsOK
<1>4. jar \in 0..MaxPairs
  BY <1>1, BoundsAreNumbers DEF IInv, BrowserOK, CookieOK, NoPair, Issued
<1> QED
  BY <1>3, <1>4 DEF TypeOK, ClientTyped, CallRow

LEMMA FreshTyped == Fresh \in CallRow
<1>1. (CHOOSE t \in Tabs : TRUE) \in Tabs
  BY SomeTab
<1> QED
  BY <1>1 DEF Fresh, CallRow, Retries

LEMMA EndedTyped ==
  ASSUME NEW c, NEW ok
  PROVE  Ended(c, ok) \in CallRow
<1>1. PICK phase \in {"new", "done", "failed"} : Ended(c, ok) = [Fresh EXCEPT !.phase = phase]
  BY DEF Ended
<1> QED
  BY <1>1, FreshTyped DEF CallRow

LEMMA ResentTyped ==
  ASSUME ClientTyped, NEW cs, NEW field
  PROVE  Resent(cs, field) \in [Requests -> CallRow]
<1> SUFFICES ASSUME NEW c \in Requests PROVE Resent(cs, field)[c] \in CallRow
  BY DEF Resent
<1>1. call[c] \in CallRow
  BY DEF ClientTyped
<1>2. /\ [call[c] EXCEPT !.phase = "flying", !.refreshed = TRUE] \in CallRow
      /\ [call[c] EXCEPT !.phase = "flying", !.stepped = TRUE, !.refreshed = FALSE] \in CallRow
  BY <1>1 DEF CallRow
<1> QED
  BY <1>1, <1>2 DEF Resent

LEMMA FailedTyped ==
  ASSUME ClientTyped, NEW cs
  PROVE  Failed(cs) \in [Requests -> CallRow]
  BY EndedTyped DEF Failed, ClientTyped

LEMMA TabTyped ==
  ASSUME ClientTyped, NEW t \in Tabs, Submit(t) \/ Settle(t) \/ Cancel(t)
  PROVE  ClientTyped'
<1>1. CASE Submit(t)
  <2>1. [Fresh EXCEPT !.phase = "flying", !.op = "step_up", !.tab = t] \in CallRow
    BY FreshTyped DEF CallRow
  <2> QED
    BY <1>1, <2>1 DEF Submit, ClientTyped
<1>2. CASE RefreshAnswered(t)
  BY <1>2, ResentTyped, FailedTyped DEF RefreshAnswered, ClientTyped
<1>3. CASE RefreshTimesOut(t)
  BY <1>3, FailedTyped DEF RefreshTimesOut, ClientTyped
<1>4. CASE Cancel(t)
  BY <1>4, FailedTyped DEF Cancel, ClientTyped
<1> QED
  BY <1>1, <1>2, <1>3, <1>4 DEF Settle

LEMMA CallTyped ==
  ASSUME ClientTyped, NEW c \in Requests, Progress(c)
  PROVE  ClientTyped'
<1>1. call[c] \in CallRow /\ call[c].tab \in Tabs
  BY DEF ClientTyped, CallRow
<1>2. CASE JoinRefresh(c)
  <2>1. [call[c] EXCEPT !.phase = "refreshing"] \in CallRow
    BY <1>1 DEF CallRow
  <2> QED
    BY <1>1, <1>2, <2>1 DEF JoinRefresh, ClientTyped
<1>3. CASE JoinStepUp(c)
  <2>1. [call[c] EXCEPT !.phase = "stepping"] \in CallRow
    BY <1>1 DEF CallRow
  <2> QED
    BY <1>1, <1>3, <2>1 DEF JoinStepUp, ClientTyped
<1>4. CASE Receive(c)
  <2>1. PICK cs, ok : call' = [Resent(cs, "stepped") EXCEPT ![c] = Ended(c, ok)]
    BY <1>4 DEF Receive
  <2>2. call' \in [Requests -> CallRow]
    BY <2>1, ResentTyped, EndedTyped
  <2>3. dialog' \in [Tabs -> BOOLEAN] /\ promise' = promise
    BY <1>1, <1>4 DEF Receive, ClientTyped
  <2> QED
    BY <2>2, <2>3 DEF ClientTyped
<1>5. CASE TimesOut(c)
  <2>1. CASE call[c].op = "read" /\ call[c].tries < Retries
    <3>1. [call[c] EXCEPT !.tries = @ + 1] \in CallRow
      BY <1>1, <2>1 DEF CallRow, Retries
    <3> QED
      BY <1>5, <2>1, <3>1 DEF TimesOut, ClientTyped
  <2>2. CASE ~(call[c].op = "read" /\ call[c].tries < Retries)
    <3>1. call' = [call EXCEPT ![c] = Ended(c, FALSE)] /\ UNCHANGED <<promise, dialog>>
      BY <1>5, <2>2 DEF TimesOut
    <3> QED
      BY <3>1, EndedTyped DEF ClientTyped
  <2> QED
    BY <2>1, <2>2
<1> QED
  BY <1>2, <1>3, <1>4, <1>5 DEF Progress

LEMMA ClientStep == ClientTyped /\ [Next]_vars => ClientTyped'
<1> SUFFICES ASSUME ClientTyped, [Next]_vars PROVE ClientTyped'
  OBVIOUS
<1>1. ASSUME NEW c \in Calls, NEW t \in Tabs, NEW op \in CallOps[c], Start(c, t, op)
      PROVE  ClientTyped'
  <2>1. [Fresh EXCEPT !.phase = "flying", !.op = op, !.tab = t] \in CallRow
    BY FreshTyped DEF CallRow
  <2> QED
    BY <1>1, <2>1 DEF Start, ClientTyped
<1>2. CASE ServerNext \/ UNCHANGED vars \/ \E x \in Slots : Discard(x)
  BY <1>2 DEF ServerNext, vars, Discard, ClientTyped
<1> QED
  BY <1>1, <1>2, TabTyped, CallTyped DEF Next

-----------------------------------------------------------------------------
LEMMA Faulty == ASSUME ServerTyped, Fault PROVE faults' \in 0..MaxFaults
  BY BoundsAreNumbers DEF ServerTyped, Fault

LEMMA KeptTyped ==
  ASSUME ServerTyped, UNCHANGED ServerKept, faults' = faults \/ Fault
  PROVE  ServerTyped'
  BY Faulty DEF ServerTyped, ServerKept, Issued

LEMMA WorkTyped ==
  ASSUME IInv, PairInv, ServerTyped, NEW x \in Slots, Work(x), Grown, IInv'
  PROVE  ServerTyped'
<1>1. /\ Len(owner) \in Nat /\ Len(owner') \in Nat
      /\ Len(owner) <= MaxPairs /\ Len(owner) <= Len(owner')
  <2>1. owner \in Seq(Sessions) /\ owner' \in Seq(Sessions)
    BY DEF IInv, RowsOK
  <2>2. Len(owner) = 0 \/ Len(owner) \in Issued'
    BY <2>1 DEF Grown, Issued
  <2> QED
    BY <2>1, <2>2 DEF IInv, RowsOK, Issued
<1>2. Issued \subseteq Issued'
  BY <1>1 DEF Issued
<1>7. CASE Lookup(x)
  BY <1>7, KeptTyped DEF Lookup, ServerKept
<1>3. CASE Handle(x)
  BY <1>1, <1>2, <1>3 DEF Handle, ServerTyped
<1>4. CASE Check(x)
  <2>1. flights[x].phase = "planned" /\ Pending(flights[x])
    BY <1>4 DEF Check, Pending
  <2>2. flights[x].deny \subseteq Issued
    BY <2>1 DEF PairInv, FlightPairsOK, PlanPairsOK
  <2> QED
    BY <1>1, <1>2, <1>4, <2>2 DEF Check, ServerTyped
<1>5. CASE Commit(x)
  <2>1. PICK f : f = flights[x]
    OBVIOUS
  <2>2. Pending(f) /\ PlanOK(f) /\ PlanPairsOK(f)
    BY <1>5, <2>1 DEF Commit, Pending, IInv, FlightsOK, FlightOK, PairInv, FlightPairsOK
  <2>3. Issuing(f) => f.issue[3] \in Issued
    BY <2>2 DEF PlanOK, PlanPairsOK
  <2>4. ASSUME NEW s \in Sessions PROVE session'[s].pair <= MaxPairs
    <3>1. session'[s] = Flushed(f, s)
      BY <1>5, <2>1 DEF Commit
    <3>2. session'[s].pair = IF Issues(f, s) THEN f.issue[3] ELSE session[s].pair
      BY <3>1 DEF Flushed, Row
    <3>3. CASE Issues(f, s)
      <4>1. f.issue[3] \in 1..Len(owner)
        BY <2>3, <3>3 DEF Issues, Issuing, Issued
      <4> QED
        BY <1>1, <3>2, <3>3, <4>1, BoundsAreNumbers
    <3>4. CASE ~Issues(f, s)
      BY <3>2, <3>4 DEF ServerTyped
    <3> QED
      BY <3>3, <3>4
  <2>5. crossed' \subseteq Sessions /\ mfa' \in BOOLEAN
    BY <1>5 DEF Commit, ServerTyped
  <2>6. UNCHANGED <<owner, aged, stale, faults>> /\ cached' \subseteq cached
    BY <1>5 DEF Commit
  <2> QED
    BY <2>4, <2>5, <2>6 DEF ServerTyped, Issued
<1>6. CASE RollBack(x)
  BY <1>6, KeptTyped DEF RollBack, ServerKept
<1> QED
  BY <1>3, <1>4, <1>5, <1>6, <1>7 DEF Work

LEMMA ServerTypedStep == IInv /\ PairInv /\ ServerTyped /\ [Next]_vars => ServerTyped'
<1> SUFFICES ASSUME IInv, PairInv, ServerTyped, [Next]_vars PROVE ServerTyped'
  OBVIOUS
<1>1. IInv' /\ Grown
  BY NextIInv
<1>2. CASE ServerNext
  <2>1. CASE AccessExpires
    BY <2>1 DEF AccessExpires, ServerTyped, IInv, RowsOK, Issued
  <2>2. CASE SessionExpires
    BY <2>2, Faulty DEF SessionExpires, ServerTyped, Issued
  <2>3. CASE StepUpExpires
    <3>1. PICK s \in Sessions : session' = [session EXCEPT ![s].stepUp = FALSE]
      BY <2>3 DEF StepUpExpires
    <3>2. \A t \in Sessions : session'[t].pair = session[t].pair
      BY <3>1 DEF IInv, RowsOK
    <3>3. Fault /\ UNCHANGED <<owner, cached, aged, stale, mfa, crossed>>
      BY <2>3 DEF StepUpExpires
    <3> QED
      BY <3>2, <3>3, Faulty DEF ServerTyped, Issued
  <2> QED
    BY <1>1, <1>2, <2>1, <2>2, <2>3, WorkTyped DEF ServerNext
<1>3. ASSUME ~ServerNext
      PROVE  UNCHANGED ServerKept /\ (faults' = faults \/ Fault)
  <2>1. ASSUME NEW t \in Tabs, Submit(t) \/ Settle(t) \/ Cancel(t)
        PROVE  UNCHANGED ServerKept /\ (faults' = faults \/ Fault)
    BY <2>1 DEF Submit, Settle, RefreshAnswered, RefreshTimesOut, Cancel, Server, ServerKept
  <2>2. ASSUME NEW c \in Requests, Progress(c)
        PROVE  UNCHANGED ServerKept /\ (faults' = faults \/ Fault)
    BY <2>2 DEF Progress, JoinRefresh, JoinStepUp, Receive, TimesOut, Server, ServerKept
  <2>3. ASSUME NEW c \in Calls, NEW t \in Tabs, NEW op \in CallOps[c], Start(c, t, op)
        PROVE  UNCHANGED ServerKept /\ (faults' = faults \/ Fault)
    BY <2>3 DEF Start, Server, ServerKept
  <2>4. ASSUME (\E x \in Slots : Discard(x)) \/ UNCHANGED vars
        PROVE  UNCHANGED ServerKept /\ (faults' = faults \/ Fault)
    BY <2>4 DEF Discard, Server, ServerKept, vars, svars
  <2> QED
    BY <1>3, <2>1, <2>2, <2>3, <2>4 DEF Next
<1> QED
  BY <1>2, <1>3, KeptTyped

LEMMA InitTyped == Init => ServerTyped /\ ClientTyped
<1> SUFFICES ASSUME Init PROVE ServerTyped /\ ClientTyped
  OBVIOUS
<1>1. Len(owner) = 1
  BY DEF Init
<1>2. ASSUME NEW s \in Sessions PROVE session[s].pair <= MaxPairs
  <2>1. session[s] = Row("open", 1, FALSE) \/ session[s] = Row("none", 0, FALSE)
    BY DEF Init
  <2>2. session[s].pair \in {0, 1}
    BY <2>1 DEF Row
  <2> QED
    BY <2>2, BoundsAreNumbers
<1>3. /\ cached = {} /\ aged = 0 /\ stale = {} /\ crossed = {} /\ mfa = TRUE /\ faults = 0
  BY DEF Init
<1>5. ServerTyped
  BY <1>1, <1>2, <1>3, BoundsAreNumbers DEF ServerTyped
<1>4. ClientTyped
  BY FreshTyped DEF Init, ClientTyped
<1> QED
  BY <1>4, <1>5

(* Pairs are numbers that were issued, sessions hold them, and a call is   *)
(* always somewhere between being made and being over.                     *)
THEOREM ClientTypes == Spec => []TypeOK
  BY InitIInv, NextIInv, InitPairInv, NextPairInv, InitTyped, ServerTypedStep, ClientStep, TypedFromInv,
     PTL DEF Spec
=============================================================================
