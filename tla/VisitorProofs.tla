----------------------------- MODULE VisitorProofs -----------------------------
(***************************************************************************)
(* Reset tokens, the accounts that come into being and the rate limiter,   *)
(* for every set of tokens, sessions, names, processes and requests under  *)
(* way, and every limit.                                                   *)
(***************************************************************************)
EXTENDS MCVisitors, FiniteSetTheorems, TLAPS

(* What a request may be about to flush. *)
UpdateOK(u) ==
  /\ u.uses \subseteq Tokens /\ u.revokes \subseteq Logins /\ u.set \in BOOLEAN
  /\ u.issue \subseteq Tokens \X (Contexts \union {AnyContext})
  /\ u.opens \subseteq Logins \X (0..password)
  /\ \A i, j \in u.issue : i = j
  /\ u.op = "confirm" => u.set

(* Without two requests for a token at once, the one under way uses up     *)
(* every token that is live.                                               *)
TokensOK ==
  ~doubled => /\ \A t1, t2 \in Live : t1 = t2
              /\ \A x, y \in Flights : Issues(x) /\ Issues(y) => x = y
              /\ \A x \in Flights : Issues(x) => Live \subseteq flight[x].uses

(* A confirmation revokes every session that is not late; a sign-in under  *)
(* way has read the password of the last reset, or is late as well.        *)
SessionsOK ==
  /\ resetTo <= password
  /\ ResetEndsSessions
  /\ \A x \in Flights : flight[x].op = "confirm" => Open \ late \subseteq flight[x].revokes
  /\ \A y \in Flights : flight[y] # Parked =>
       \A o \in flight[y].opens :
         o[1] \notin late => o[2] >= resetTo /\ \A x \in Flights : flight[x].op # "confirm"

ResetInv ==
  /\ ResetTypeOK
  /\ DOMAIN flight = Flights
  /\ \A x \in Flights : flight[x] # Parked => UpdateOK(flight[x])
  /\ TokensOK
  /\ SessionsOK

-----------------------------------------------------------------------------
LEMMA InitReset == ResetInit => ResetInv
<1> SUFFICES ASSUME ResetInit PROVE ResetInv
  OBVIOUS
<1>1. ResetTypeOK
  <2>1. [state |-> "not_issued", context |-> AnyContext]
          \in [state : {"not_issued", "live", "used", "expired"},
               context : Contexts \union {AnyContext}]
    OBVIOUS
  <2>2. [state |-> "not_begun", with |-> 0]
          \in [state : {"not_begun", "open", "revoked"}, with : 0..MaxPasswords]
    BY PasswordBound
  <2> QED
    BY <2>1, <2>2, PasswordBound DEF ResetInit, ResetTypeOK
<1>2. Live = {} /\ Open = {}
  BY DEF ResetInit, Live, Open
<1>3. \A x \in Flights : ~Issues(x) /\ flight[x] = Parked /\ flight[x].op = "none"
  BY DEF ResetInit, Issues, Parked
<1> QED
  BY <1>1, <1>2, <1>3 DEF ResetInit, ResetInv, TokensOK, SessionsOK, ResetEndsSessions

(* What the handlers decide, on the rows they read. *)
LEMMA HandledOK ==
  ASSUME ResetTypeOK, NEW u \in Handled
  PROVE  /\ UpdateOK(u)
         /\ u.issue # {} => u.uses = Live
         /\ u.op = "confirm" => u.revokes = Open /\ u.opens = {}
         /\ u.opens # {} => u.op = "login"
         /\ \A o \in u.opens : o[2] = password
<1> DEFINE U(op, uses, issue, set, revokes, opens) ==
             [op |-> op, uses |-> uses, issue |-> issue, set |-> set,
              revokes |-> revokes, opens |-> opens]
<1>1. Live \subseteq Tokens /\ Open \subseteq Logins /\ Fresh \subseteq Tokens /\ password \in 0..password
  BY PasswordBound DEF Live, Open, Fresh, ResetTypeOK
<1>2. ASSUME NEW c \in Contexts \union {AnyContext}, u \in request_password_reset(c)
      PROVE  UpdateOK(u) /\ u.uses = Live /\ u.op = "request" /\ u.opens = {}
  <2>1. PICK t \in Fresh : u = U("request", Live, {<<t, c>>}, FALSE, {}, {})
    BY <1>2 DEF request_password_reset, Update
  <2> QED
    BY <1>1, <2>1 DEF UpdateOK
<1>3. ASSUME NEW c \in Contexts \union {AnyContext}, u \in admin_request_password_reset(c)
      PROVE  UpdateOK(u) /\ u.uses = Live /\ u.op = "admin_request" /\ u.opens = {}
  <2>1. PICK t \in Fresh : u = U("admin_request", Live, {<<t, c>>}, FALSE, Open, {})
    BY <1>3 DEF admin_request_password_reset, Update
  <2> QED
    BY <1>1, <2>1 DEF UpdateOK
<1>4. ASSUME NEW t \in Tokens, NEW c \in Contexts, u \in confirm_password_reset(t, c)
      PROVE  UpdateOK(u) /\ u.issue = {} /\ u.revokes = Open /\ u.opens = {}
  <2>1. u = U("confirm", {t}, {}, TRUE, Open, {})
    BY <1>4 DEF confirm_password_reset, Update
  <2> QED
    BY <1>1, <2>1 DEF UpdateOK
<1>5. ASSUME NEW s \in Logins, u \in sign_in(s)
      PROVE  UpdateOK(u) /\ u.issue = {} /\ u.op = "login" /\ \A o \in u.opens : o[2] = password
  <2>1. u = U("login", {}, {}, FALSE, {}, {<<s, password>>})
    BY <1>5 DEF sign_in, Update
  <2> QED
    BY <1>1, <2>1 DEF UpdateOK
<1>6. ASSUME NEW s \in Logins, u \in change_password(s)
      PROVE  UpdateOK(u) /\ u.issue = {} /\ u.op = "change" /\ u.opens = {}
  <2>1. u = U("change", {}, {}, TRUE, Open \ {s}, {})
    BY <1>6 DEF change_password, Update
  <2> QED
    BY <1>1, <2>1 DEF UpdateOK
<1>7. \/ \E c \in Contexts \union {AnyContext} :
            u \in request_password_reset(c) \/ u \in admin_request_password_reset(c)
      \/ \E t \in Tokens, c \in Contexts : u \in confirm_password_reset(t, c)
      \/ \E s \in Logins : u \in sign_in(s) \/ u \in change_password(s)
  BY DEF Handled
<1> QED
  BY <1>2, <1>3, <1>4, <1>5, <1>6, <1>7 DEF UpdateOK

LEMMA BeginResetStep ==
  ASSUME ResetInv, NEW x \in Flights, BeginReset(x)
  PROVE  ResetInv'
<1>1. PICK u \in Handled :
        /\ flight' = [flight EXCEPT ![x] = u]
        /\ doubled' = (doubled \/ (u.issue # {} /\ \E y \in Flights : Issues(y)))
        /\ late' = late \union Overlap(u)
  BY DEF BeginReset
<1>2. UNCHANGED <<token, password, login, resetTo>> /\ flight[x] = Parked
  BY DEF BeginReset
<1>3. /\ UpdateOK(u)
      /\ u.issue # {} => u.uses = Live
      /\ u.op = "confirm" => u.revokes = Open /\ u.opens = {}
      /\ u.opens # {} => u.op = "login"
      /\ \A o \in u.opens : o[2] = password
  BY HandledOK DEF ResetInv
<1>4. \A y \in Flights : flight'[y] = IF y = x THEN u ELSE flight[y]
  BY <1>1 DEF ResetInv
<1>5. \A f : UpdateOK(f) => UpdateOK(f)'
  BY <1>2 DEF UpdateOK
<1>6. Live' = Live /\ Open' = Open
  BY <1>2 DEF Live, Open
<1>7. Overlap(u) \subseteq Logins
  BY <1>3 DEF Overlap, ResetInv, UpdateOK
<1>8. ResetTypeOK' /\ DOMAIN flight' = Flights
  BY <1>1, <1>2, <1>7 DEF ResetInv, ResetTypeOK
<1>9. TokensOK'
  <2>1. flight'[x] = u /\ \A y \in Flights \ {x} : flight'[y] = flight[y]
    BY <1>4
  <2>2. \A y \in Flights \ {x} : Issues(y)' <=> Issues(y)
    BY <2>1 DEF Issues
  <2>3. Issues(x)' => u.issue # {} /\ u.uses = Live
    BY <1>3, <2>1 DEF Issues
  <2>4. ~doubled' => ~doubled /\ (u.issue # {} => \A y \in Flights : ~Issues(y))
    BY <1>1
  <2> SUFFICES ASSUME ~doubled'
               PROVE  /\ \A t1, t2 \in Live' : t1 = t2
                      /\ \A y, z \in Flights : Issues(y)' /\ Issues(z)' => y = z
                      /\ \A y \in Flights : Issues(y)' => Live' \subseteq flight'[y].uses
    BY DEF TokensOK
  <2>5. TokensOK /\ ~doubled
    BY <2>4 DEF ResetInv
  <2>6. \A t1, t2 \in Live' : t1 = t2
    BY <1>6, <2>5 DEF TokensOK
  <2>7. \A y, z \in Flights : Issues(y)' /\ Issues(z)' => y = z
    BY <2>2, <2>3, <2>4, <2>5 DEF TokensOK
  <2>8. \A y \in Flights : Issues(y)' => Live' \subseteq flight'[y].uses
    BY <1>6, <2>1, <2>2, <2>3, <2>5 DEF TokensOK
  <2> QED
    BY <2>6, <2>7, <2>8
<1>10. SessionsOK'
  <2>1. resetTo' <= password' /\ ResetEndsSessions'
    BY <1>1, <1>2, <1>6 DEF ResetInv, SessionsOK, ResetEndsSessions
  <2>2. ASSUME NEW y \in Flights, flight'[y].op = "confirm"
        PROVE  Open' \ late' \subseteq flight'[y].revokes
    BY <1>1, <1>3, <1>4, <1>6, <2>2 DEF ResetInv, SessionsOK
  <2>3. ASSUME NEW y \in Flights, flight'[y] # Parked, NEW o \in flight'[y].opens, o[1] \notin late'
        PROVE  o[2] >= resetTo' /\ \A z \in Flights : flight'[z].op # "confirm"
    <3>1. CASE y = x
      <4>1. u.op = "login" /\ o[2] = password /\ u.opens # {}
        BY <1>3, <1>4, <2>3, <3>1
      <4>2. "confirm" \notin Ops
        BY <1>1, <1>4, <2>3, <3>1, <4>1 DEF Overlap
      <4>3. password \in Int /\ resetTo \in Int
        BY PasswordBound DEF ResetInv, ResetTypeOK
      <4> QED
        BY <1>2, <1>4, <4>1, <4>2, <4>3 DEF Ops, ResetInv, SessionsOK
    <3>2. CASE y # x
      <4>1. o[1] \in Logins
        BY <1>4, <2>3, <3>2 DEF ResetInv, UpdateOK
      <4>2. u.op # "confirm"
        BY <1>1, <1>4, <2>3, <3>2, <4>1 DEF Overlap
      <4> QED
        BY <1>1, <1>2, <1>4, <2>3, <3>2, <4>2 DEF ResetInv, SessionsOK
    <3> QED
      BY <3>1, <3>2
  <2> QED
    BY <2>1, <2>2, <2>3 DEF SessionsOK
<1> QED
  BY <1>3, <1>4, <1>5, <1>8, <1>9, <1>10 DEF ResetInv

LEMMA DropResetStep ==
  ASSUME ResetInv, NEW x \in Flights, DropReset(x)
  PROVE  ResetInv'
<1>1. UNCHANGED <<token, password, login, resetTo, doubled, late>> /\ Parked.op = "none"
  BY DEF DropReset, Parked
<1>2. \A y \in Flights : flight'[y] = IF y = x THEN Parked ELSE flight[y]
  BY DEF DropReset, ResetInv
<1>3. \A f : UpdateOK(f) => UpdateOK(f)'
  BY <1>1 DEF UpdateOK
<1>4. Live' = Live /\ Open' = Open
  BY <1>1 DEF Live, Open
<1>5. ResetTypeOK' /\ DOMAIN flight' = Flights
  BY <1>1 DEF DropReset, ResetInv, ResetTypeOK
<1>6. TokensOK'
  BY <1>1, <1>2, <1>4 DEF TokensOK, Issues, ResetInv
<1>7. SessionsOK'
  BY <1>1, <1>2, <1>4 DEF ResetInv, SessionsOK, ResetEndsSessions
<1> QED
  BY <1>2, <1>3, <1>5, <1>6, <1>7 DEF ResetInv

LEMMA ExpireStep == ResetInv /\ Expire => ResetInv'
<1> SUFFICES ASSUME ResetInv, Expire PROVE ResetInv'
  OBVIOUS
<1>1. UNCHANGED <<password, login, flight, resetTo, doubled, late>>
  BY DEF Expire
<1>2. PICK t \in Live : token' = [token EXCEPT ![t].state = "expired"]
  BY DEF Expire
<1>3. Live' \subseteq Live /\ Open' = Open
  BY <1>1, <1>2 DEF Live, Open, ResetInv, ResetTypeOK
<1>4. ResetTypeOK'
  BY <1>1, <1>2 DEF Live, ResetInv, ResetTypeOK
<1>5. \A f : UpdateOK(f) => UpdateOK(f)'
  BY <1>1 DEF UpdateOK
<1>6. TokensOK'
  BY <1>1, <1>3 DEF TokensOK, Issues, ResetInv
<1>7. SessionsOK'
  BY <1>1, <1>3 DEF ResetInv, SessionsOK, ResetEndsSessions
<1> QED
  BY <1>1, <1>4, <1>5, <1>6, <1>7 DEF ResetInv
LEMMA CommitResetStep ==
  ASSUME ResetInv, NEW x \in Flights, CommitReset(x)
  PROVE  ResetInv'
<1>1. PICK u : u = flight[x]
  OBVIOUS
<1>2. UpdateOK(u) /\ Insertable(u) /\ u # Parked /\ UNCHANGED <<doubled, late>>
  BY <1>1 DEF CommitReset, ResetInv
<1>3. \A y \in Flights : flight'[y] = IF y = x THEN Parked ELSE flight[y]
  BY DEF CommitReset, ResetInv
<1>4. /\ password' = IF u.set THEN password + 1 ELSE password
      /\ resetTo' = IF u.op = "confirm" THEN password' ELSE resetTo
  BY <1>1 DEF CommitReset
<1>5. token' = [t \in Tokens |->
       IF \E i \in u.issue : i[1] = t
         THEN [state |-> "live", context |-> (CHOOSE i \in u.issue : i[1] = t)[2]]
       ELSE IF t \in u.uses THEN [token[t] EXCEPT !.state = "used"] ELSE token[t]]
  BY <1>1 DEF CommitReset
<1>6. login' = [s \in Logins |->
       IF \E o \in u.opens : o[1] = s
         THEN [state |-> "open", with |-> (CHOOSE o \in u.opens : o[1] = s)[2]]
       ELSE IF s \in u.revokes THEN [login[s] EXCEPT !.state = "revoked"] ELSE login[s]]
  BY <1>1 DEF CommitReset
<1>7. password \in Nat /\ resetTo \in Nat /\ password' \in 0..MaxPasswords /\ password' >= password
  BY <1>2, <1>4, PasswordBound DEF ResetInv, ResetTypeOK, Insertable, UpdateOK
<1>8. \A t \in Live' : t \in Live \ u.uses \/ \E i \in u.issue : t = i[1]
  BY <1>5 DEF Live, ResetInv, ResetTypeOK
<1>9. ASSUME NEW s \in Open'
      PROVE  \/ s \in Open \ u.revokes /\ login'[s] = login[s]
             \/ \E o \in u.opens : o[1] = s /\ login'[s].with = o[2]
  BY <1>6, <1>9 DEF Open, ResetInv, ResetTypeOK
<1>10. ResetTypeOK'
  <2>1. token' \in [Tokens -> [state : {"not_issued", "live", "used", "expired"},
                               context : Contexts \union {AnyContext}]]
    BY <1>2, <1>5 DEF ResetInv, ResetTypeOK, UpdateOK
  <2>2. login' \in [Logins -> [state : {"not_begun", "open", "revoked"}, with : 0..MaxPasswords]]
    BY <1>2, <1>6, <1>7, PasswordBound DEF ResetInv, ResetTypeOK, UpdateOK
  <2> QED
    BY <1>2, <1>4, <1>7, <2>1, <2>2 DEF ResetInv, ResetTypeOK
<1>11. TokensOK'
  BY <1>1, <1>2, <1>3, <1>8 DEF TokensOK, Issues, UpdateOK, ResetInv
<1>12. SessionsOK'
  <2>1. ResetEndsSessions'
    <3> SUFFICES ASSUME NEW s \in Open', s \notin late PROVE login'[s].with >= resetTo'
      BY <1>2 DEF ResetEndsSessions
    <3>1. CASE u.op = "confirm"
      <4>1. Open \ late \subseteq u.revokes
        BY <1>1, <3>1 DEF ResetInv, SessionsOK
      <4>2. PICK o \in u.opens : o[1] = s
        BY <1>9, <4>1
      <4> QED
        BY <1>1, <1>2, <3>1, <4>2 DEF ResetInv, SessionsOK
    <3>2. CASE u.op # "confirm"
      <4>1. s \in Open \ late => login[s].with >= resetTo
        BY DEF ResetInv, SessionsOK, ResetEndsSessions
      <4>2. \A o \in u.opens : o[1] = s => o[2] >= resetTo
        BY <1>1, <1>2 DEF ResetInv, SessionsOK
      <4> QED
        BY <1>4, <1>9, <3>2, <4>1, <4>2
    <3> QED
      BY <3>1, <3>2
  <2>2. resetTo' <= password'
    <3>1. resetTo <= password
      BY DEF ResetInv, SessionsOK
    <3>2. password' \in Nat
      BY <1>7, PasswordBound
    <3> QED
      BY <1>4, <1>7, <3>1, <3>2
  <2>3. ASSUME NEW y \in Flights, flight'[y].op = "confirm"
        PROVE  Open' \ late' \subseteq flight'[y].revokes
    <3>1. y # x /\ flight'[y] = flight[y]
      BY <1>3, <2>3 DEF Parked
    <3>2. \A o \in u.opens : o[1] \in late
      BY <1>1, <1>2, <2>3, <3>1 DEF ResetInv, SessionsOK
    <3> QED
      BY <1>2, <1>9, <2>3, <3>1, <3>2 DEF ResetInv, SessionsOK
  <2>4. ASSUME NEW y \in Flights, flight'[y] # Parked, NEW o \in flight'[y].opens, o[1] \notin late'
        PROVE  o[2] >= resetTo' /\ \A z \in Flights : flight'[z].op # "confirm"
    <3>1. y # x /\ flight'[y] = flight[y]
      BY <1>3, <2>4
    <3>2. o[2] >= resetTo /\ \A z \in Flights : flight[z].op # "confirm"
      BY <1>2, <2>4, <3>1 DEF ResetInv, SessionsOK
    <3> QED
      BY <1>1, <1>3, <1>4, <3>2 DEF Parked
  <2> QED
    BY <2>1, <2>2, <2>3, <2>4 DEF SessionsOK
<1>13. ASSUME NEW y \in Flights, flight'[y] # Parked PROVE UpdateOK(flight[y])' 
  <2>1. PICK f : f = flight'[y]
    OBVIOUS
  <2>2. UpdateOK(f)
    BY <1>3, <1>13, <2>1 DEF ResetInv
  <2>3. 0..password \subseteq 0..password'
    BY <1>7, PasswordBound
  <2>4. UpdateOK(f)'
    BY <2>2, <2>3 DEF UpdateOK
  <2> QED
    BY <2>1, <2>4
<1>14. DOMAIN flight' = Flights
  BY DEF CommitReset, ResetInv
<1> QED
  BY <1>10, <1>11, <1>12, <1>13, <1>14 DEF ResetInv

LEMMA NextReset == ResetInv /\ [ResetNext]_rvars => ResetInv'
<1> SUFFICES ASSUME ResetInv, [ResetNext]_rvars PROVE ResetInv'
  OBVIOUS
<1>1. CASE UNCHANGED rvars
  BY <1>1 DEF rvars, ResetInv, ResetTypeOK, UpdateOK, TokensOK, SessionsOK, ResetEndsSessions,
              Live, Open, Issues
<1> QED
  BY <1>1, BeginResetStep, CommitResetStep, DropResetStep, ExpireStep DEF ResetNext

-----------------------------------------------------------------------------
(* Whatever else runs at the same time, two requests for a token leave two *)
(* that work only if they overlapped.                                      *)
THEOREM TokenSafety == ResetSpec => []OneLiveToken
<1>1. ResetInv => OneLiveToken
  <2> SUFFICES ASSUME ResetInv, ~doubled PROVE Cardinality(Live) <= 1
    BY DEF OneLiveToken
  <2>1. \A t1, t2 \in Live : t1 = t2
    BY DEF ResetInv, TokensOK
  <2>2. CASE Live = {}
    BY <2>2, FS_EmptySet
  <2>3. ASSUME NEW t \in Live PROVE Cardinality(Live) <= 1
    <3>1. Live = {t}
      BY <2>1, <2>3
    <3> QED
      BY <3>1, FS_Singleton
  <2> QED
    BY <2>2, <2>3
<1> QED
  BY <1>1, InitReset, NextReset, PTL DEF ResetSpec

(* A confirmed reset ends every session opened with an earlier password,   *)
(* for as many sign-ins as do not overlap with it.                         *)
THEOREM ResetSafety == ResetSpec => []ResetEndsSessions
<1>1. ResetInv => ResetEndsSessions
  BY DEF ResetInv, SessionsOK
<1> QED
  BY <1>1, InitReset, NextReset, PTL DEF ResetSpec

(* And the tables stay typed.                                              *)
THEOREM ResetTypes == ResetSpec => []ResetTypeOK
  BY InitReset, NextReset, PTL DEF ResetSpec, ResetInv

-----------------------------------------------------------------------------
(* A row of registration_requests and one of users.                        *)
RequestRow ==
  [status : RegistrationRequestStatus \union {None}, pw : Passwords \union {None},
   reviewed : BOOLEAN, reason : {None, "given", "username_exists"}]
AccountRow ==
  [source : {None, "seed", "setup", "request", "admin"}, pw : Passwords \union {None},
   setup : BOOLEAN, changed : BOOLEAN]

(* What each handler may be about to flush, by the status it read.         *)
KeepsRequest(u) == u.columns = <<>> /\ u.new.source # "request"
Submits(u) ==
  /\ u.read.status = None /\ u.new = NoAccount
  /\ \E pw \in Passwords : u.columns = Submitted(pw)
Reopens(u) ==
  /\ u.read.status = "rejected" /\ u.new = NoAccount
  /\ \E pw \in Passwords :
       u.columns = [status |-> "pending", pw |-> pw, reviewed |-> FALSE, reason |-> None]
Approves(u) ==
  /\ u.read.status \in {"pending", "approved"} /\ u.new = User("request", u.read.pw)
  /\ u.columns = Reviewed("approved", None)
Rejects(u) ==
  /\ u.read.status \in {"pending", "rejected"} /\ u.new = NoAccount
  /\ \E why \in {"given", "username_exists"} : u.columns = Reviewed("rejected", why)

FlushOK(u) ==
  /\ u.name \in Names /\ u.read \in RequestRow /\ u.new \in AccountRow
  /\ u.new.source \in {None, "request", "admin"} /\ u.setup \in Passwords \union {None}
  /\ \/ KeepsRequest(u)
     \/ u.setup = None /\ (Submits(u) \/ Reopens(u) \/ Approves(u) \/ Rejects(u))
  /\ u.setup # None => u.name = Admin

(* A name that is not crossed has one request under way at most, and what  *)
(* that one read is still what is stored.                                  *)
UnderWay(x) == pending[x] # Quiet
OneAtATime ==
  \A x, y \in Requests :
    UnderWay(x) /\ UnderWay(y) /\ pending[x].name = pending[y].name /\ x # y
      => pending[x].name \in crossed
ReadsHold ==
  \A x \in Requests : UnderWay(x) /\ pending[x].name \notin crossed =>
    /\ pending[x].read = request[pending[x].name]
    /\ pending[x].setup # None => account[Admin].setup

ProvisioningInv ==
  /\ ProvisioningTypeOK
  /\ DOMAIN pending = Requests
  /\ \A x \in Requests : UnderWay(x) => FlushOK(pending[x])
  /\ OneAtATime
  /\ ReadsHold
  /\ DecisionRecorded

LEMMA RowTypes ==
  ProvisioningTypeOK <=>
    /\ request \in [Names -> RequestRow] /\ account \in [Names -> AccountRow]
    /\ bootstrap \in BOOLEAN /\ crossed \subseteq Names
  BY DEF ProvisioningTypeOK, RequestRow, AccountRow

LEMMA EmptyRows == NoRequest \in RequestRow /\ NoAccount \in AccountRow
  BY DEF NoRequest, NoAccount, RequestRow, AccountRow

LEMMA InitProvisioning == ProvisioningInit => ProvisioningInv
<1> SUFFICES ASSUME ProvisioningInit PROVE ProvisioningInv
  OBVIOUS
<1>1. ProvisioningTypeOK
  <2>1. request \in [Names -> RequestRow] /\ account \in [Names -> AccountRow]
    BY EmptyRows DEF ProvisioningInit
  <2>2. bootstrap \in BOOLEAN /\ crossed \subseteq Names
    BY DEF ProvisioningInit
  <2> QED
    BY <2>1, <2>2 DEF ProvisioningTypeOK, RequestRow, AccountRow
<1>2. DecisionRecorded
  BY DEF ProvisioningInit, DecisionRecorded, NoRequest, NoAccount, None
<1> QED
  BY <1>1, <1>2 DEF ProvisioningInit, ProvisioningInv, OneAtATime, ReadsHold, UnderWay

(* What the handlers decide, on the rows they read. *)
LEMMA HandlersOK ==
  ASSUME ProvisioningTypeOK, NEW n \in Names, NEW u \in Handlers(n)
  PROVE  /\ FlushOK(u) /\ u.name = n /\ u.read = request[n]
         /\ u.setup # None => account[Admin].setup
<1> DEFINE F(columns, new, setup) ==
             [name |-> n, read |-> request[n], columns |-> columns, new |-> new, setup |-> setup]
           Goal == FlushOK(u) /\ u.name = n /\ u.read = request[n]
                     /\ (u.setup # None => account[Admin].setup)
<1>1. request[n] \in RequestRow /\ NoAccount \in AccountRow /\ NoAccount.source = None
  BY RowTypes, EmptyRows DEF NoAccount
<1>2. ASSUME NEW pw \in Passwords, u \in register_request(n, pw) PROVE Goal
  <2>1. \/ request[n].status = None /\ u = F(Submitted(pw), NoAccount, None)
        \/ /\ request[n].status = "rejected"
           /\ u = F([status |-> "pending", pw |-> pw, reviewed |-> FALSE, reason |-> None],
                    NoAccount, None)
    BY <1>1, <1>2 DEF register_request, Flush, validate_registration_status_change,
         REGISTRATION_STATUS_TRANSITIONS, RequestRow, RegistrationRequestStatus
  <2>2. CASE request[n].status = None /\ u = F(Submitted(pw), NoAccount, None)
    BY <1>1, <2>2 DEF FlushOK, Submits
  <2>3. CASE /\ request[n].status = "rejected"
             /\ u = F([status |-> "pending", pw |-> pw, reviewed |-> FALSE, reason |-> None],
                      NoAccount, None)
    BY <1>1, <2>3 DEF FlushOK, Reopens
  <2> QED
    BY <2>1, <2>2, <2>3
<1>3. ASSUME NEW pw \in Passwords, u \in create_user(n, pw) PROVE Goal
  <2>1. u = F(<<>>, User("admin", pw), None) /\ User("admin", pw) \in AccountRow
    BY <1>3 DEF create_user, Flush, User, AccountRow
  <2> QED
    BY <1>1, <2>1 DEF FlushOK, KeepsRequest, User
<1>4. ASSUME u \in approve_registration_request(n) PROVE Goal
  <2>1. \/ /\ request[n].status \in {"pending", "approved"}
           /\ u = F(Reviewed("approved", None), User("request", request[n].pw), None)
        \/ /\ request[n].status \in {"pending", "rejected"}
           /\ u = F(Reviewed("rejected", "username_exists"), NoAccount, None)
    BY <1>1, <1>4 DEF approve_registration_request, Flush, validate_registration_status_change,
         REGISTRATION_STATUS_TRANSITIONS, RequestRow, RegistrationRequestStatus
  <2>2. User("request", request[n].pw) \in AccountRow
    BY <1>1 DEF User, AccountRow, RequestRow
  <2>3. CASE /\ request[n].status \in {"pending", "approved"}
             /\ u = F(Reviewed("approved", None), User("request", request[n].pw), None)
    BY <1>1, <2>2, <2>3 DEF FlushOK, Approves, User
  <2>4. CASE /\ request[n].status \in {"pending", "rejected"}
             /\ u = F(Reviewed("rejected", "username_exists"), NoAccount, None)
    BY <1>1, <2>4 DEF FlushOK, Rejects
  <2> QED
    BY <2>1, <2>3, <2>4
<1>5. ASSUME u \in reject_registration_request(n) PROVE Goal
  <2>1. /\ request[n].status \in {"pending", "rejected"}
        /\ u = F(Reviewed("rejected", "given"), NoAccount, None)
    BY <1>1, <1>5 DEF reject_registration_request, Flush, validate_registration_status_change,
         REGISTRATION_STATUS_TRANSITIONS, RequestRow, RegistrationRequestStatus
  <2> QED
    BY <1>1, <2>1 DEF FlushOK, Rejects
<1>6. ASSUME NEW pw \in Passwords, n = Admin, u \in setup_admin_password(pw) PROVE Goal
  <2>1. u = F(<<>>, NoAccount, pw) /\ account[Admin].setup
    BY <1>6 DEF setup_admin_password, Flush
  <2>2. /\ u.name = n /\ u.read = request[n] /\ u.columns = <<>> /\ u.setup = pw
        /\ u.new = NoAccount
    BY <2>1
  <2>3. KeepsRequest(u)
    BY <1>1, <2>2 DEF KeepsRequest, None
  <2> QED
    BY <1>1, <1>6, <2>1, <2>2, <2>3 DEF FlushOK
<1>7. \/ \E pw \in Passwords : u \in register_request(n, pw) \/ u \in create_user(n, pw)
      \/ u \in approve_registration_request(n) \/ u \in reject_registration_request(n)
      \/ n = Admin /\ \E pw \in Passwords : u \in setup_admin_password(pw)
  BY DEF Handlers
<1> QED
  BY <1>2, <1>3, <1>4, <1>5, <1>6, <1>7

LEMMA BeginRequestStep ==
  ASSUME ProvisioningInv, NEW x \in Requests, BeginRequest(x)
  PROVE  ProvisioningInv'
<1>1. PICK n \in Names : \E u \in Handlers(n) :
        /\ pending' = [pending EXCEPT ![x] = u]
        /\ crossed' = IF \E y \in Requests : pending[y].name = n
                        THEN crossed \union {n} ELSE crossed
  BY DEF BeginRequest
<1>2. PICK u \in Handlers(n) : pending' = [pending EXCEPT ![x] = u]
  BY <1>1
<1>3. /\ FlushOK(u) /\ u.name = n /\ u.read = request[n]
      /\ u.setup # None => account[Admin].setup
  BY HandlersOK DEF ProvisioningInv
<1>4. UNCHANGED <<request, account, bootstrap>> /\ ~UnderWay(x)
  BY DEF BeginRequest, UnderWay
<1>5. \A y \in Requests : pending'[y] = IF y = x THEN u ELSE pending[y]
  BY <1>2 DEF ProvisioningInv
<1>6. crossed \subseteq crossed' /\ crossed' \subseteq Names
  BY <1>1 DEF ProvisioningInv, ProvisioningTypeOK
<1>7. ProvisioningTypeOK'
  BY <1>4, <1>6 DEF ProvisioningInv, ProvisioningTypeOK
<1>8. OneAtATime'
  BY <1>1, <1>3, <1>4, <1>5, <1>6 DEF ProvisioningInv, OneAtATime, UnderWay
<1>9. ReadsHold'
  BY <1>3, <1>4, <1>5, <1>6 DEF ProvisioningInv, ReadsHold, UnderWay
<1>10. DecisionRecorded'
  BY <1>4, <1>6 DEF ProvisioningInv, DecisionRecorded
<1> QED
  BY <1>2, <1>3, <1>5, <1>7, <1>8, <1>9, <1>10 DEF ProvisioningInv, UnderWay

(* The columns of a flush on the row it finds. *)
Written(r, u) == [c \in DOMAIN r |-> IF Changed(u, c) THEN u.columns[c] ELSE r[c]]

LEMMA RowFrom ==
  ASSUME NEW f, DOMAIN f = {"status", "pw", "reviewed", "reason"},
         f = [c \in DOMAIN f |-> f[c]],
         f["status"] \in RegistrationRequestStatus \union {None},
         f["pw"] \in Passwords \union {None}, f["reviewed"] \in BOOLEAN,
         f["reason"] \in {None, "given", "username_exists"}
  PROVE  f \in RequestRow
  BY DEF RequestRow

LEMMA WrittenTyped ==
  ASSUME NEW r \in RequestRow, NEW u, FlushOK(u)
  PROVE  Written(r, u) \in RequestRow
<1>1. /\ DOMAIN r = {"status", "pw", "reviewed", "reason"}
      /\ r["status"] \in RegistrationRequestStatus \union {None}
      /\ r["pw"] \in Passwords \union {None} /\ r["reviewed"] \in BOOLEAN
      /\ r["reason"] \in {None, "given", "username_exists"}
  BY DEF RequestRow
<1>2. \/ u.columns = <<>>
      \/ \E pw \in Passwords : u.columns = [status |-> "pending", pw |-> pw]
      \/ \E pw \in Passwords :
           u.columns = [status |-> "pending", pw |-> pw, reviewed |-> FALSE, reason |-> None]
      \/ \E st \in {"approved", "rejected"}, why \in {None, "given", "username_exists"} :
           u.columns = [status |-> st, reviewed |-> TRUE, reason |-> why]
  BY DEF FlushOK, KeepsRequest, Submits, Reopens, Approves, Rejects, Submitted, Reviewed
<1>3. CASE u.columns = <<>>
  BY <1>1, <1>3 DEF Written, Changed, RequestRow
<1>4. ASSUME NEW pw \in Passwords, u.columns = [status |-> "pending", pw |-> pw]
      PROVE  Written(r, u) \in RequestRow
  BY <1>1, <1>4 DEF Written, Changed, RequestRow, RegistrationRequestStatus
<1>5. ASSUME NEW pw \in Passwords,
             u.columns = [status |-> "pending", pw |-> pw, reviewed |-> FALSE, reason |-> None]
      PROVE  Written(r, u) \in RequestRow
  <2>1. DOMAIN u.columns = {"status", "pw", "reviewed", "reason"}
    BY <1>5
  <2>2. Written(r, u)["status"] \in {r["status"], "pending"}
    BY <1>1, <1>5 DEF Written
  <2>3. Written(r, u)["pw"] \in {r["pw"], pw}
    BY <1>1, <1>5 DEF Written
  <2>4. Written(r, u)["reviewed"] = r["reviewed"] \/ Written(r, u)["reviewed"] = FALSE
    BY <1>1, <1>5 DEF Written
  <2>5. Written(r, u)["reason"] \in {r["reason"], None}
    BY <1>1, <1>5 DEF Written
  <2> QED
    BY <1>1, <2>2, <2>3, <2>4, <2>5, RowFrom DEF Written, RegistrationRequestStatus
<1>6. ASSUME NEW st \in {"approved", "rejected"}, NEW why \in {None, "given", "username_exists"},
             u.columns = [status |-> st, reviewed |-> TRUE, reason |-> why]
      PROVE  Written(r, u) \in RequestRow
  <2>1. Written(r, u)["status"] \in {r["status"], st}
    BY <1>1, <1>6 DEF Written
  <2>2. Written(r, u)["pw"] = r["pw"]
    BY <1>1, <1>6 DEF Written, Changed
  <2>3. Written(r, u)["reviewed"] = r["reviewed"] \/ Written(r, u)["reviewed"] = TRUE
    BY <1>1, <1>6 DEF Written
  <2>4. Written(r, u)["reason"] \in {r["reason"], why}
    BY <1>1, <1>6 DEF Written
  <2> QED
    BY <1>1, <2>1, <2>2, <2>3, <2>4, RowFrom DEF Written, RegistrationRequestStatus
<1> QED
  BY <1>2, <1>3, <1>4, <1>5, <1>6

(* What DecisionRecorded says of a request and an account.                 *)
Recorded(r, a) ==
  /\ r.status \in {None, "pending"} => ~r.reviewed /\ r.reason = None
  /\ r.status = "rejected" => r.reviewed /\ r.reason # None
  /\ r.status = "approved" => r.reviewed /\ r.reason = None
  /\ a.source = "request" => r.status = "approved" /\ (a.pw = r.pw \/ a.changed)

(* The account that a flush leaves behind.                                 *)
Becomes(a, b, u) ==
  \/ u.new # NoAccount /\ b = u.new
  \/ u.new = NoAccount /\ b = a
  \/ u.new = NoAccount /\ u.setup # None /\ b = User("setup", u.setup)

LEMMA DecisionWritten ==
  ASSUME NEW r \in RequestRow, NEW u, FlushOK(u), u.read = r,
         NEW a \in AccountRow, NEW b, Becomes(a, b, u), Recorded(r, a)
  PROVE  Recorded(Written(r, u), b)
<1>1. DOMAIN r = {"status", "pw", "reviewed", "reason"} /\ NoAccount.source = None /\ None = "none"
  BY DEF RequestRow, NoAccount, None
<1>2. PICK w : w = Written(r, u)
  OBVIOUS
<1>3. CASE KeepsRequest(u)
  <2>1. w = r
    BY <1>1, <1>2, <1>3 DEF Written, Changed, KeepsRequest, RequestRow
  <2>2. b.source = "request" => b = a
    BY <1>1, <1>3 DEF Becomes, KeepsRequest, User
  <2> QED
    BY <1>2, <2>1, <2>2 DEF Recorded
<1>4. CASE u.setup = None /\ Submits(u)
  <2>1. PICK pw \in Passwords : u.columns = [status |-> "pending", pw |-> pw]
    BY <1>4 DEF Submits, Submitted
  <2>2. w.status = "pending"
    BY <1>1, <1>2, <1>4, <2>1 DEF Written, Changed, Submits
  <2>3. w.reviewed = r.reviewed /\ w.reason = r.reason
    BY <1>1, <1>2, <2>1 DEF Written, Changed
  <2>4. r.status = None /\ b = a
    BY <1>4 DEF Submits, Becomes
  <2> QED
    BY <1>1, <1>2, <2>2, <2>3, <2>4 DEF Recorded
<1>5. CASE u.setup = None /\ Reopens(u)
  <2>1. PICK pw \in Passwords :
          u.columns = [status |-> "pending", pw |-> pw, reviewed |-> FALSE, reason |-> None]
    BY <1>5 DEF Reopens
  <2>2. w.status = "pending" /\ w.reason = None
    BY <1>1, <1>2, <1>5, <2>1 DEF Written, Changed
  <2>3. ~w.reviewed
    BY <1>1, <1>2, <1>5, <2>1 DEF Written, Changed, RequestRow
  <2>4. r.status = "rejected" /\ b = a
    BY <1>5 DEF Reopens, Becomes
  <2> QED
    BY <1>1, <1>2, <2>2, <2>3, <2>4 DEF Recorded
<1>6. CASE u.setup = None /\ Approves(u)
  <2>1. u.columns = [status |-> "approved", reviewed |-> TRUE, reason |-> None]
    BY <1>6 DEF Approves, Reviewed
  <2>2. w.status = "approved" /\ w.reason = None /\ w.pw = r.pw
    BY <1>1, <1>2, <2>1 DEF Written, Changed, Stamped
  <2>3. w.reviewed
    BY <1>1, <1>2, <2>1 DEF Written, Changed, Stamped
  <2>4. b = User("request", r.pw)
    BY <1>1, <1>6 DEF Approves, Becomes, User
  <2> QED
    BY <1>1, <1>2, <2>2, <2>3, <2>4 DEF Recorded, User
<1>7. CASE u.setup = None /\ Rejects(u)
  <2>1. PICK why \in {"given", "username_exists"} :
          u.columns = [status |-> "rejected", reviewed |-> TRUE, reason |-> why]
    BY <1>7 DEF Rejects, Reviewed
  <2>2. w.status = "rejected" /\ w.reason = why
    BY <1>1, <1>2, <1>7, <2>1 DEF Written, Changed
  <2>3. w.reviewed
    BY <1>1, <1>2, <2>1 DEF Written, Changed, Stamped
  <2>4. r.status \in {"pending", "rejected"} /\ b = a
    BY <1>7 DEF Rejects, Becomes
  <2> QED
    BY <1>1, <1>2, <2>2, <2>3, <2>4 DEF Recorded
<1> QED
  BY <1>3, <1>4, <1>5, <1>6, <1>7 DEF FlushOK

LEMMA CommitRequestStep ==
  ASSUME ProvisioningInv, NEW x \in Requests, CommitRequest(x)
  PROVE  ProvisioningInv'
<1>1. PICK u, n : u = pending[x] /\ n = pending[x].name
  OBVIOUS
<1>2. FlushOK(u) /\ n \in Names /\ u.name = n /\ UnderWay(x) /\ UNCHANGED crossed
  BY <1>1 DEF CommitRequest, ProvisioningInv, FlushOK, UnderWay
<1>3. \A y \in Requests : pending'[y] = IF y = x THEN Quiet ELSE pending[y]
  BY DEF CommitRequest, ProvisioningInv
<1>4. request \in [Names -> RequestRow] /\ account \in [Names -> AccountRow]
      /\ bootstrap \in BOOLEAN /\ crossed \subseteq Names
  BY RowTypes DEF ProvisioningInv
<1>5. request' = [request EXCEPT ![n] = Written(request[n], u)]
  BY <1>1 DEF CommitRequest, Written
<1>6. PICK b : account' = [account EXCEPT ![n] = b] /\ Becomes(account[n], b, u)
               /\ (b = account[n] \/ u.new # NoAccount \/ u.setup # None)
  BY <1>1 DEF CommitRequest, Becomes
<1>7. b \in AccountRow
  <2>1. u.new \in AccountRow /\ u.setup \in Passwords \union {None}
    BY <1>2 DEF FlushOK
  <2>2. User("setup", u.setup) \in AccountRow
    BY <2>1 DEF User, AccountRow
  <2> QED
    BY <1>2, <1>4, <1>6, <2>1, <2>2 DEF Becomes
<1>8. ProvisioningTypeOK'
  <2>1. request' \in [Names -> RequestRow]
    BY <1>2, <1>4, <1>5, WrittenTyped
  <2>2. account' \in [Names -> AccountRow]
    BY <1>4, <1>6, <1>7
  <2>3. bootstrap' \in BOOLEAN /\ crossed' \subseteq Names
    BY <1>2, <1>4 DEF CommitRequest
  <2> QED
    BY <2>1, <2>2, <2>3 DEF ProvisioningTypeOK, RequestRow, AccountRow
<1>9. OneAtATime'
  BY <1>2, <1>3 DEF ProvisioningInv, OneAtATime, UnderWay
<1>10. ReadsHold'
  <2> SUFFICES ASSUME NEW y \in Requests, UnderWay(y)', pending'[y].name \notin crossed'
               PROVE  /\ pending'[y].read = request'[pending'[y].name]
                      /\ pending'[y].setup # None => account'[Admin].setup
    BY DEF ReadsHold
  <2>1. y # x /\ pending'[y] = pending[y] /\ UnderWay(y) /\ pending[y].name # n
    BY <1>1, <1>2, <1>3 DEF UnderWay, ProvisioningInv, OneAtATime
  <2>2. pending[y].name \in Names /\ (pending[y].setup # None => pending[y].name = Admin)
    BY <2>1 DEF ProvisioningInv, FlushOK
  <2> QED
    BY <1>2, <1>4, <1>5, <1>6, <2>1, <2>2, AdminHasName DEF ProvisioningInv, ReadsHold
<1>11. DecisionRecorded'
  <2>1. ASSUME NEW m \in Names \ crossed PROVE Recorded(request[m], account[m])'
    <3>1. Recorded(request[m], account[m])
      BY <2>1 DEF ProvisioningInv, DecisionRecorded, Recorded
    <3>2. CASE m # n
      BY <1>4, <1>5, <1>6, <3>1, <3>2 DEF Recorded
    <3>3. CASE m = n
      <4>1. u.read = request[n]
        BY <1>1, <1>2, <2>1, <3>3 DEF ProvisioningInv, ReadsHold
      <4>2. Recorded(Written(request[n], u), b)
        BY <1>2, <1>4, <1>6, <3>1, <3>3, <4>1, DecisionWritten
      <4> QED
        BY <1>2, <1>4, <1>5, <1>6, <3>3, <4>2 DEF Recorded
    <3> QED
      BY <3>2, <3>3
  <2> QED
    BY <1>2, <2>1 DEF DecisionRecorded, Recorded
<1>12. ASSUME NEW y \in Requests, UnderWay(y)' PROVE FlushOK(pending[y])'
  BY <1>3, <1>12 DEF ProvisioningInv, UnderWay
<1>13. DOMAIN pending' = Requests
  BY DEF CommitRequest, ProvisioningInv
<1> QED
  BY <1>8, <1>9, <1>10, <1>11, <1>12, <1>13 DEF ProvisioningInv

LEMMA DropRequestStep ==
  ASSUME ProvisioningInv, NEW x \in Requests, DropRequest(x)
  PROVE  ProvisioningInv'
<1>1. UNCHANGED <<request, account, bootstrap, crossed>>
  BY DEF DropRequest
<1>2. \A y \in Requests : pending'[y] = IF y = x THEN Quiet ELSE pending[y]
  BY DEF DropRequest, ProvisioningInv
<1>3. ProvisioningTypeOK' /\ DecisionRecorded'
  BY <1>1 DEF ProvisioningInv, ProvisioningTypeOK, DecisionRecorded
<1>4. OneAtATime' /\ ReadsHold'
  BY <1>1, <1>2 DEF ProvisioningInv, OneAtATime, ReadsHold, UnderWay
<1>5. ASSUME NEW y \in Requests, UnderWay(y)' PROVE FlushOK(pending[y])'
  BY <1>2, <1>5 DEF ProvisioningInv, UnderWay
<1>6. DOMAIN pending' = Requests
  BY DEF DropRequest, ProvisioningInv
<1> QED
  BY <1>3, <1>4, <1>5, <1>6 DEF ProvisioningInv

(* The seed and the purge write users alone: neither makes an account that *)
(* a request was approved for, and only the seed touches the administrator. *)
LEMMA SeedAndPurgeStep ==
  ASSUME ProvisioningInv, bootstrap_if_needed \/ \E n \in Names : Purged(n)
  PROVE  ProvisioningInv'
<1>1. UNCHANGED <<request, bootstrap, pending, crossed>>
  BY DEF bootstrap_if_needed, Purged
<1>2. PICK m \in Names, b \in AccountRow :
        /\ account' = [account EXCEPT ![m] = b]
        /\ b.source # "request" /\ (m = Admin => b.setup)
  <2>1. CASE bootstrap_if_needed
    <3>1. [source |-> "seed", pw |-> None, setup |-> TRUE, changed |-> FALSE] \in AccountRow
      BY DEF AccountRow
    <3> QED
      BY <2>1, <3>1, AdminHasName DEF bootstrap_if_needed
  <2>2. ASSUME NEW n \in Names, Purged(n)
        PROVE  /\ account' = [account EXCEPT ![n] = NoAccount] /\ n # Admin
               /\ NoAccount \in AccountRow /\ NoAccount.source # "request"
    BY <2>2, EmptyRows DEF Purged, NoAccount, None
  <2> QED
    BY <2>1, <2>2
<1>3. request \in [Names -> RequestRow] /\ account \in [Names -> AccountRow]
      /\ bootstrap \in BOOLEAN /\ crossed \subseteq Names
  BY RowTypes DEF ProvisioningInv
<1>4. account' \in [Names -> AccountRow]
  BY <1>2, <1>3
<1>5. ProvisioningTypeOK'
  BY <1>1, <1>3, <1>4 DEF ProvisioningTypeOK, RequestRow, AccountRow
<1>6. DecisionRecorded'
  BY <1>1, <1>2, <1>3 DEF ProvisioningInv, DecisionRecorded
<1>7. OneAtATime'
  BY <1>1 DEF ProvisioningInv, OneAtATime, UnderWay
<1>8. ReadsHold'
  BY <1>1, <1>2, <1>3, AdminHasName DEF ProvisioningInv, ReadsHold, UnderWay
<1>9. ASSUME NEW y \in Requests, UnderWay(y)' PROVE FlushOK(pending[y])'
  BY <1>1, <1>9 DEF ProvisioningInv, UnderWay
<1> QED
  BY <1>1, <1>5, <1>6, <1>7, <1>8, <1>9 DEF ProvisioningInv

(* A user who changes or resets a password leaves where the account came   *)
(* from and whether it has been set up as they were.                       *)
LEMMA PasswordStep ==
  ASSUME ProvisioningInv, NEW n \in Names, NEW pw \in Passwords, Replaced(n, pw)
  PROVE  ProvisioningInv'
<1>1. UNCHANGED <<request, bootstrap, pending, crossed>>
  BY DEF Replaced
<1>2. request \in [Names -> RequestRow] /\ account \in [Names -> AccountRow]
      /\ bootstrap \in BOOLEAN /\ crossed \subseteq Names
  BY RowTypes DEF ProvisioningInv
<1>3. PICK b : b = [account[n] EXCEPT !.pw = pw, !.changed = TRUE]
  OBVIOUS
<1>4. account' = [account EXCEPT ![n] = b]
  BY <1>2, <1>3 DEF Replaced
<1>5. b \in AccountRow /\ b.source = account[n].source /\ b.setup = account[n].setup /\ b.changed
  BY <1>2, <1>3 DEF AccountRow
<1>6. account' \in [Names -> AccountRow]
  BY <1>2, <1>4, <1>5
<1>7. ProvisioningTypeOK'
  BY <1>1, <1>2, <1>6 DEF ProvisioningTypeOK, RequestRow, AccountRow
<1>8. DecisionRecorded'
  BY <1>1, <1>2, <1>4, <1>5 DEF ProvisioningInv, DecisionRecorded
<1>9. OneAtATime'
  BY <1>1 DEF ProvisioningInv, OneAtATime, UnderWay
<1>10. ReadsHold'
  BY <1>1, <1>2, <1>4, <1>5, AdminHasName DEF ProvisioningInv, ReadsHold, UnderWay
<1>11. ASSUME NEW y \in Requests, UnderWay(y)' PROVE FlushOK(pending[y])'
  BY <1>1, <1>11 DEF ProvisioningInv, UnderWay
<1> QED
  BY <1>1, <1>7, <1>8, <1>9, <1>10, <1>11 DEF ProvisioningInv

LEMMA NextProvisioning == ProvisioningInv /\ [ProvisioningNext]_pvars => ProvisioningInv'
<1> SUFFICES ASSUME ProvisioningInv, [ProvisioningNext]_pvars PROVE ProvisioningInv'
  OBVIOUS
<1>1. CASE UNCHANGED pvars
  BY <1>1 DEF pvars, ProvisioningInv, ProvisioningTypeOK, DecisionRecorded, OneAtATime, ReadsHold,
       UnderWay
<1> QED
  BY <1>1, BeginRequestStep, CommitRequestStep, DropRequestStep, SeedAndPurgeStep, PasswordStep
     DEF ProvisioningNext, PasswordChanged, ResetConfirmed

-----------------------------------------------------------------------------
(* Requests about one name that do not overlap leave the decision, its     *)
(* reason and the account it was made for in agreement.                    *)
THEOREM DecisionSafety == ProvisioningSpec => []DecisionRecorded
<1>1. ProvisioningInv => DecisionRecorded
  BY DEF ProvisioningInv
<1> QED
  BY <1>1, InitProvisioning, NextProvisioning, PTL DEF ProvisioningSpec

(* And the rows stay typed.                                                *)
THEOREM ProvisioningTypes == ProvisioningSpec => []ProvisioningTypeOK
  BY InitProvisioning, NextProvisioning, PTL DEF ProvisioningSpec, ProvisioningInv

(* The password of the administrator is set up once, unless two requests   *)
(* about that name overlapped.                                             *)
THEOREM SetupSafety == ProvisioningSpec => SetupOnce
<1>1. ProvisioningInv /\ [ProvisioningNext]_pvars =>
        [account'[Admin].source = "setup" /\ ~account'[Admin].changed
           /\ account'[Admin] # account[Admin]
           => account[Admin].setup \/ Admin \in crossed]_pvars
  <2> SUFFICES ASSUME ProvisioningInv, ProvisioningNext,
                      account'[Admin].source = "setup", account'[Admin] # account[Admin],
                      ~account'[Admin].changed,
                      Admin \notin crossed
               PROVE  account[Admin].setup
    BY DEF pvars
  <2>1. account \in [Names -> AccountRow]
    BY RowTypes DEF ProvisioningInv
  <2>2. PICK x \in Requests : CommitRequest(x)
    <3>1. ASSUME NEW n \in Names, NEW pw, Replaced(n, pw) PROVE FALSE
      BY <2>1, <3>1, AdminHasName DEF Replaced, AccountRow
    <3> QED
      BY <2>1, <3>1, AdminHasName DEF ProvisioningNext, BeginRequest, DropRequest,
           bootstrap_if_needed, Purged, PasswordChanged, ResetConfirmed, NoAccount, None
  <2>3. PICK u : u = pending[x]
    OBVIOUS
  <2>4. FlushOK(u) /\ UnderWay(x)
    BY <2>2, <2>3 DEF CommitRequest, ProvisioningInv, UnderWay
  <2>5. u.name = Admin /\ u.new = NoAccount /\ u.setup # None
    BY <2>1, <2>2, <2>3, <2>4, AdminHasName DEF CommitRequest, FlushOK, None
  <2> QED
    BY <2>3, <2>4, <2>5 DEF ProvisioningInv, ReadsHold
<1> QED
  BY <1>1, InitProvisioning, NextProvisioning, PTL DEF ProvisioningSpec, SetupOnce

-----------------------------------------------------------------------------
(* The rate limiter.  A queue remembers what its process has admitted      *)
(* within the window; the log of answers is in order of time.              *)
Chronicle ==
  /\ \A n \in Asked : answered[n].at <= clock
  /\ \A m, n \in Asked : m <= n => answered[m].at <= answered[n].at

Remembered ==
  \A p \in Processes, n \in Asked :
    answered[n].ok = TRUE /\ answered[n].by = p /\ answered[n].at >= clock - Window => n \in queue[p]

LimiterInv == LimiterTypeOK /\ Chronicle /\ Remembered /\ AtMostLimit /\ PacedNeverRefused

(* Of the numbers up to len, k many reach down to the k-th from above.     *)
LEMMA ReachesDown ==
  ASSUME NEW len \in Nat, NEW S \in SUBSET (1..len), NEW k \in Nat \ {0}, ~(Cardinality(S) < k)
  PROVE  \E i \in S : i <= len + 1 - k
<1> SUFFICES ASSUME \A i \in S : i >= len + 2 - k
             PROVE  FALSE
  OBVIOUS
<1>1. S \subseteq (len + 2 - k)..len
  OBVIOUS
<1>2. len + 2 - k \in Int /\ len \in Int
  OBVIOUS
<1>3. IsFiniteSet((len + 2 - k)..len)
      /\ Cardinality((len + 2 - k)..len) = IF len + 2 - k > len THEN 0 ELSE len - (len + 2 - k) + 1
  BY <1>2, FS_Interval
<1>4. Cardinality(S) <= Cardinality((len + 2 - k)..len) /\ Cardinality(S) \in Nat
  BY <1>1, <1>3, FS_Subset, FS_CardinalityType
<1> QED
  BY <1>3, <1>4

LEMMA Booked ==
  ASSUME LimiterTypeOK, NEW by, NEW ok \in BOOLEAN, by \in Processes \union {Redis}, Answered(by, ok)
  PROVE  /\ Asked' = Asked \union {New} /\ New \notin Asked /\ New \in Nat
         /\ Len(answered') = New
         /\ answered' \in Seq([at : Times, by : Processes \union {Redis}, ok : BOOLEAN])
         /\ \A n \in Asked : answered'[n] = answered[n]
         /\ answered'[New].at = clock /\ answered'[New].by = by /\ answered'[New].ok = ok
<1>1. PICK row : row = [at |-> clock, by |-> by, ok |-> ok]
  OBVIOUS
<1>2. row \in [at : Times, by : Processes \union {Redis}, ok : BOOLEAN]
  BY <1>1 DEF LimiterTypeOK
<1>3. answered' = Append(answered, row)
  BY <1>1 DEF Answered
<1>4. answered \in Seq([at : Times, by : Processes \union {Redis}, ok : BOOLEAN])
  BY DEF LimiterTypeOK
<1>5. Len(answered') = New /\ New \in Nat /\ answered'[New] = row
      /\ answered' \in Seq([at : Times, by : Processes \union {Redis}, ok : BOOLEAN])
  BY <1>2, <1>3, <1>4 DEF New
<1>6. \A n \in Asked : answered'[n] = answered[n]
  BY <1>3, <1>4 DEF Asked
<1>7. Asked' = Asked \union {New} /\ New \notin Asked
  BY <1>4, <1>5 DEF Asked, New
<1> QED
  BY <1>1, <1>5, <1>6, <1>7

LEMMA AnswerTypes ==
  ASSUME LimiterTypeOK, NEW n \in Asked
  PROVE  answered[n].at \in Nat /\ answered[n].ok \in BOOLEAN /\ clock \in Nat
<1> DEFINE Answers == [at : Times, by : Processes \union {Redis}, ok : BOOLEAN]
<1>0. answered \in Seq(Answers) /\ clock \in Times
  BY DEF LimiterTypeOK
<1> HIDE DEF Answers
<1>1. answered[n] \in Answers
  BY <1>0 DEF Asked
<1>2. Times \subseteq Nat
  BY LimitsPositive DEF Times
<1> QED
  BY <1>0, <1>1, <1>2 DEF Answers

LEMMA AskedFinite ==
  ASSUME LimiterTypeOK, NEW S \in SUBSET Asked
  PROVE  IsFiniteSet(S) /\ Cardinality(S) \in Nat
<1>1. Len(answered) \in Nat
  BY DEF LimiterTypeOK
<1>2. IsFiniteSet(Asked)
  BY <1>1, FS_Interval DEF Asked
<1> QED
  BY <1>2, FS_Subset, FS_CardinalityType

(* A store that holds Limit requests of the last Window has refused a      *)
(* client that sent one too many.                                          *)
LEMMA PacedFits ==
  ASSUME LimiterTypeOK, Chronicle, NEW by \in Processes \union {Redis}, NEW ok \in BOOLEAN,
         Answered(by, ok), Paced',
         NEW S \in SUBSET Asked, \A n \in S : answered[n].at >= clock - Window
  PROVE  Cardinality(S) < Limit
<1> SUFFICES ASSUME ~(Cardinality(S) < Limit)
             PROVE  FALSE
  OBVIOUS
<1>1. PICK len \in Nat : len = Len(answered)
  BY DEF LimiterTypeOK
<1>2. PICK i \in S : i <= len + 1 - Limit
  BY <1>1, LimitsPositive, ReachesDown DEF Asked
<1>3. PICK j : j = len + 1 - Limit
  OBVIOUS
<1>4. j \in Asked /\ i \in Asked /\ i <= j
  BY <1>1, <1>2, <1>3, LimitsPositive DEF Asked
<1>5. answered[j].at >= clock - Window /\ answered[j].at \in Nat /\ clock \in Nat
  BY <1>2, <1>4, AnswerTypes, LimitsPositive DEF Chronicle
<1>6. Len(answered') = len + 1 /\ answered'[j] = answered[j] /\ answered'[len + 1].at = clock
  BY <1>1, <1>4, Booked DEF New
<1>7. j \in 1..(Len(answered') - Limit) /\ j + Limit = len + 1
  BY <1>1, <1>3, <1>4, <1>6, LimitsPositive DEF Asked
<1>8. answered'[j + Limit].at - answered'[j].at > Window
  BY <1>7 DEF Paced
<1> QED
  BY <1>5, <1>6, <1>7, <1>8, LimitsPositive

LEMMA PacedSoFar ==
  ASSUME LimiterTypeOK, NEW by \in Processes \union {Redis}, NEW ok \in BOOLEAN, Answered(by, ok), Paced'
  PROVE  Paced
<1>1. Len(answered) \in Nat /\ Len(answered') = Len(answered) + 1
  BY Booked DEF New, LimiterTypeOK
<1>2. ASSUME NEW i \in 1..(Len(answered) - Limit)
      PROVE  answered[i + Limit].at - answered[i].at > Window
  <2>1. i \in Asked /\ i + Limit \in Asked /\ i \in 1..(Len(answered') - Limit)
    BY <1>1, <1>2, LimitsPositive DEF Asked
  <2>2. answered'[i] = answered[i] /\ answered'[i + Limit] = answered[i + Limit]
    BY <2>1, Booked
  <2> QED
    BY <2>1, <2>2 DEF Paced
<1> QED
  BY <1>2 DEF Paced

(* What a decision does to the log: refused only with a full store, and    *)
(* admitted by a process only with room in its queue.                      *)
LEMMA AnswerKeeps ==
  ASSUME LimiterInv, NEW by \in Processes \union {Redis}, NEW ok \in BOOLEAN, Answered(by, ok),
         UNCHANGED clock, NEW S \in SUBSET Asked, \A n \in S : answered[n].at >= clock - Window,
         ok = TRUE <=> Cardinality(S) < Limit,
         by \in Processes => S = Since(queue[by], clock - Window)
  PROVE  Chronicle' /\ AtMostLimit' /\ PacedNeverRefused'
<1> USE DEF LimiterInv
<1>1. Chronicle'
  <2>1. \A n \in Asked' : answered'[n].at <= clock'
    <3>1. clock \in Nat
      BY LimitsPositive DEF LimiterTypeOK, Times
    <3>2. ASSUME NEW n \in Asked' PROVE answered'[n].at <= clock
      BY <3>1, <3>2, Booked DEF Chronicle
    <3> QED
      BY <3>2
  <2>2. \A m, n \in Asked' : m <= n => answered'[m].at <= answered'[n].at
    <3> SUFFICES ASSUME NEW m \in Asked', NEW n \in Asked', m <= n
                 PROVE  answered'[m].at <= answered'[n].at
      OBVIOUS
    <3>1. CASE n \in Asked
      <4>1. m \in Asked
        BY <3>1, Booked DEF Asked, New, LimiterTypeOK
      <4> QED
        BY <3>1, <4>1, Booked DEF Chronicle
    <3>2. CASE n = New /\ m \in Asked
      BY <3>2, Booked DEF Chronicle
    <3>3. CASE n = New /\ m = New
      BY <3>3, Booked, LimitsPositive DEF LimiterTypeOK, Times
    <3> QED
      BY <3>1, <3>2, <3>3, Booked
  <2> QED
    BY <2>1, <2>2 DEF Chronicle
<1>2. ASSUME NEW p \in Processes, NEW i \in Asked'
      PROVE  Cardinality(AdmittedFrom(i, p)') <= Limit
  <2>1. PICK A : A = AdmittedFrom(i, p)'
    OBVIOUS
  <2>2. \A n \in A : n \in Asked \union {New} /\ n >= i /\ answered'[n].at - answered'[i].at <= Window
                     /\ answered'[n].ok = TRUE /\ answered'[n].by = p
    BY <2>1, Booked DEF AdmittedFrom
  <2>3. CASE i = New
    <3>1. A \subseteq {New}
      BY <2>2, <2>3 DEF Asked, New, LimiterTypeOK
    <3>2. IsFiniteSet({New}) /\ Cardinality({New}) = 1
      BY FS_Singleton
    <3>3. Cardinality(A) <= 1 /\ Cardinality(A) \in Nat
      BY <3>1, <3>2, FS_Subset, FS_CardinalityType
    <3> QED
      BY <2>1, <3>3, LimitsPositive
  <2>4. CASE i \in Asked /\ New \notin A
    <3>1. A \subseteq AdmittedFrom(i, p)
      BY <2>2, <2>4, Booked DEF AdmittedFrom
    <3>2. AdmittedFrom(i, p) \in SUBSET Asked /\ Cardinality(AdmittedFrom(i, p)) <= Limit
      BY <2>4 DEF AdmittedFrom, AtMostLimit
    <3>3. Cardinality(A) <= Cardinality(AdmittedFrom(i, p)) /\ Cardinality(A) \in Nat
          /\ Cardinality(AdmittedFrom(i, p)) \in Nat
      BY <3>1, <3>2, AskedFinite, FS_Subset
    <3> QED
      BY <2>1, <3>2, <3>3, LimitsPositive
  <2>5. CASE i \in Asked /\ New \in A
    <3>1. ok = TRUE /\ by = p /\ clock - answered[i].at <= Window
      BY <2>2, <2>5, Booked
    <3>2. A \ {New} \subseteq S
      <4> SUFFICES ASSUME NEW n \in A, n # New
                   PROVE  n \in S
        OBVIOUS
      <4>1. n \in Asked /\ n >= i /\ answered[n].ok = TRUE /\ answered[n].by = p
        BY <2>2, Booked
      <4>2. answered[n].at >= clock - Window
        BY <2>5, <3>1, <4>1, AnswerTypes, LimitsPositive DEF Chronicle
      <4> QED
        BY <3>1, <4>1, <4>2 DEF Remembered, Since
    <3>3. Cardinality(S) < Limit /\ IsFiniteSet(S) /\ Cardinality(S) \in Nat /\ New \notin S
      BY <3>1, AskedFinite, Booked
    <3>4. IsFiniteSet(S \union {New}) /\ Cardinality(S \union {New}) = Cardinality(S) + 1
      BY <3>3, FS_AddElement
    <3>5. Cardinality(A) <= Cardinality(S \union {New}) /\ Cardinality(A) \in Nat
      BY <3>2, <3>4, FS_Subset, FS_CardinalityType
    <3> QED
      BY <2>1, <3>3, <3>4, <3>5, LimitsPositive
  <2> QED
    BY <2>3, <2>4, <2>5, Booked
<1>3. AtMostLimit'
  BY <1>2 DEF AtMostLimit
<1>4. PacedNeverRefused'
  <2> SUFFICES ASSUME Paced', NEW n \in Asked'
               PROVE  answered'[n].ok = TRUE
    BY DEF PacedNeverRefused
  <2>1. CASE n \in Asked
    BY <2>1, PacedSoFar, Booked DEF PacedNeverRefused
  <2>2. CASE n = New
    BY <2>2, PacedFits, Booked
  <2> QED
    BY <2>1, <2>2, Booked
<1> QED
  BY <1>1, <1>3, <1>4

LEMMA LimitedStep ==
  ASSUME LimiterInv, NEW p \in Processes, _is_limited(p), UNCHANGED clock
  PROVE  LimiterInv'
<1> USE DEF LimiterInv
<1>1. PICK q : q = Since(queue[p], clock - Window)
  OBVIOUS
<1>2. q \in SUBSET Asked /\ \A n \in q : answered[n].at >= clock - Window
  <2>1. queue[p] \subseteq Asked
    BY DEF LimiterTypeOK
  <2>2. q \subseteq queue[p]
    BY <1>1 DEF Since
  <2>3. \A n \in q : answered[n].at >= clock - Window
    BY <1>1 DEF Since
  <2> QED
    BY <2>1, <2>2, <2>3
<1>3. PICK ok \in BOOLEAN : ok = TRUE <=> Cardinality(q) < Limit
  <2>1. CASE Cardinality(q) < Limit
    BY <2>1
  <2>2. CASE ~(Cardinality(q) < Limit)
    BY <2>2
  <2> QED
    BY <2>1, <2>2
<1>4. Answered(p, ok) /\ UNCHANGED redis
      /\ queue' = [queue EXCEPT ![p] = IF ok = TRUE THEN q \union {New} ELSE q]
  <2>1. CASE ok = TRUE
    BY <1>1, <1>3, <2>1 DEF _is_limited, Answered
  <2>2. CASE ok = FALSE
    <3>1. ~(Cardinality(q) < Limit)
      BY <1>3, <2>2
    <3>2. Answered(p, ok) /\ UNCHANGED redis
      BY <1>1, <2>2, <3>1 DEF _is_limited, Answered
    <3>3. queue' = [queue EXCEPT ![p] = q]
      BY <1>1, <3>1 DEF _is_limited
    <3> QED
      BY <2>2, <3>2, <3>3
  <2> QED
    BY <2>1, <2>2
<1>5. Chronicle' /\ AtMostLimit' /\ PacedNeverRefused'
  BY <1>1, <1>2, <1>3, <1>4, AnswerKeeps
<1>6. LimiterTypeOK'
  BY <1>2, <1>4, Booked DEF LimiterTypeOK
<1>7. Remembered'
  <2> SUFFICES ASSUME NEW r \in Processes, NEW n \in Asked', answered'[n].ok = TRUE,
                      answered'[n].by = r, answered'[n].at >= clock - Window
               PROVE  n \in queue'[r]
    BY DEF Remembered
  <2>1. CASE n \in Asked
    <3>1. answered'[n] = answered[n]
      BY <1>4, <2>1, Booked
    <3>2. n \in queue[r]
      BY <2>1, <3>1 DEF Remembered
    <3>3. r = p => n \in q
      BY <1>1, <3>1, <3>2 DEF Since
    <3> QED
      BY <1>4, <3>2, <3>3 DEF LimiterTypeOK
  <2>2. CASE n = New
    BY <1>4, <2>2, Booked DEF LimiterTypeOK
  <2> QED
    BY <1>4, <2>1, <2>2, Booked
<1> QED
  BY <1>5, <1>6, <1>7

LEMMA RedisStep ==
  ASSUME LimiterInv, _is_limited_redis, UNCHANGED clock
  PROVE  LimiterInv'
<1> USE DEF LimiterInv
<1>1. PICK q : q = Since(redis, clock - Window + 1)
  OBVIOUS
<1>2. clock - Window \in Int
  BY LimitsPositive DEF LimiterTypeOK, Times
<1>3. q \in SUBSET Asked /\ \A n \in q : answered[n].at >= clock - Window
  <2>1. q \in SUBSET Asked /\ \A n \in q : answered[n].at >= clock - Window + 1
    BY <1>1 DEF LimiterTypeOK, Since
  <2>2. ASSUME NEW n \in q PROVE answered[n].at >= clock - Window
    <3>1. answered[n].at \in Nat
      BY <2>1, AnswerTypes
    <3> QED
      BY <1>2, <2>1, <3>1
  <2> QED
    BY <2>1, <2>2
<1>4. PICK ok \in BOOLEAN : ok = TRUE <=> Cardinality(q) < Limit
  <2>1. CASE Cardinality(q) < Limit
    BY <2>1
  <2>2. CASE ~(Cardinality(q) < Limit)
    BY <2>2
  <2> QED
    BY <2>1, <2>2
<1>5. Answered(Redis, ok) /\ UNCHANGED queue /\ redis' = q \union {New}
  BY <1>1, <1>4 DEF _is_limited_redis, Answered
<1>6. Redis \notin Processes
  BY RedisIsNoProcess
<1>7. Chronicle' /\ AtMostLimit' /\ PacedNeverRefused'
  BY <1>3, <1>4, <1>5, <1>6, AnswerKeeps
<1>8. LimiterTypeOK'
  BY <1>3, <1>5, Booked DEF LimiterTypeOK
<1>9. Remembered'
  BY <1>5, <1>6, Booked DEF Remembered
<1> QED
  BY <1>7, <1>8, <1>9

LEMMA TickStep ==
  ASSUME LimiterInv, Tick
  PROVE  LimiterInv'
<1> USE DEF LimiterInv
<1>1. clock \in Nat /\ clock' = clock + 1 /\ clock' \in Times
      /\ UNCHANGED <<answered, redis, queue>> /\ Asked' = Asked
  BY LimitsPositive DEF Tick, LimiterTypeOK, Times, Asked
<1>2. LimiterTypeOK'
  BY <1>1 DEF LimiterTypeOK
<1>3. Chronicle' /\ Remembered'
  BY <1>1, AnswerTypes, LimitsPositive DEF Chronicle, Remembered
<1>4. AtMostLimit'
  BY <1>1 DEF AtMostLimit, AdmittedFrom
<1>5. PacedNeverRefused'
  BY <1>1 DEF PacedNeverRefused, Paced
<1> QED
  BY <1>2, <1>3, <1>4, <1>5

LEMMA RestartStep ==
  ASSUME LimiterInv, RedisRestarts \/ UNCHANGED lvars
  PROVE  LimiterInv'
<1>1. UNCHANGED <<clock, answered, queue>> /\ redis' \in SUBSET Asked
  BY DEF RedisRestarts, lvars, LimiterInv, LimiterTypeOK
<1> QED
  BY <1>1 DEF LimiterInv, LimiterTypeOK, Chronicle, Remembered, AtMostLimit, PacedNeverRefused, Paced,
              Asked, AdmittedFrom

LEMMA LimiterAlways == LimiterSpec => []LimiterInv
<1>1. LimiterInit => LimiterInv
  <2> SUFFICES ASSUME LimiterInit PROVE LimiterInv
    OBVIOUS
  <2>1. Asked = {} /\ clock = 0 /\ answered = <<>>
    BY DEF LimiterInit, Asked
  <2>2. LimiterTypeOK
    BY <2>1, LimitsPositive DEF LimiterInit, LimiterTypeOK, Times
  <2> QED
    BY <2>1, <2>2 DEF LimiterInv, Chronicle, Remembered, AtMostLimit, PacedNeverRefused
<1>2. LimiterInv /\ [LimiterNext]_lvars => LimiterInv'
  BY LimitedStep, RedisStep, TickStep, RestartStep DEF LimiterNext, dispatch
<1> QED
  BY <1>1, <1>2, PTL DEF LimiterSpec

(* For any limit, window and number of processes, and however often Redis  *)
(* fails, forgets or answers in between: a process that decides by itself  *)
(* never admits more than the limit within a window.                       *)
THEOREM LimitSafety == LimiterSpec => []AtMostLimit
<1>1. LimiterInv => AtMostLimit
  BY DEF LimiterInv
<1> QED
  BY <1>1, LimiterAlways, PTL

(* And a client that keeps to the limit is never refused.                  *)
THEOREM PacedSafety == LimiterSpec => []PacedNeverRefused
<1>1. LimiterInv => PacedNeverRefused
  BY DEF LimiterInv
<1> QED
  BY <1>1, LimiterAlways, PTL

(* What is remembered are requests that were asked.                        *)
THEOREM LimiterTypes == LimiterSpec => []LimiterTypeOK
  BY LimiterAlways, PTL DEF LimiterInv

-----------------------------------------------------------------------------
(* Checked in one run, each part still behaves as it does alone: at a step *)
(* of another part it stutters.  So the run's tables are typed as theirs.  *)
LEMMA PartsOfVisitors == Spec => ProvisioningSpec /\ ResetSpec /\ LimiterSpec
<1>1. Init => ProvisioningInit /\ ResetInit /\ LimiterInit
  BY DEF Init
<1>2. [Next]_vars => [ProvisioningNext]_pvars
  BY DEF Next, vars
<1>3. [Next]_vars => [ResetNext]_rvars
  BY DEF Next, vars
<1>4. [Next]_vars => [LimiterNext]_lvars
  BY DEF Next, vars
<1> QED
  BY <1>1, <1>2, <1>3, <1>4, PTL DEF Spec, ProvisioningSpec, ResetSpec, LimiterSpec

THEOREM VisitorTypes == Spec => []TypeOK
<1>1. ProvisioningTypeOK /\ ResetTypeOK /\ LimiterTypeOK => TypeOK
  BY DEF TypeOK
<1> QED
  BY <1>1, PartsOfVisitors, ProvisioningTypes, ResetTypes, LimiterTypes, PTL
=============================================================================
