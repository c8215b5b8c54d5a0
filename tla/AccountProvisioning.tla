-------------------------- MODULE AccountProvisioning --------------------------
(***************************************************************************)
(* How accounts come into being (api/routers/auth.py, services/bootstrap.py,*)
(* seed.py): the administrator is seeded and set up once with the install  *)
(* token; everybody else submits a registration request that an            *)
(* administrator approves or rejects, or is created by an administrator.   *)
(*                                                                         *)
(* A request reads the rows of a name, assigns columns and commits later.  *)
(* The flush writes the columns whose value changed; a new timestamp or    *)
(* hash always differs from the one before.                                *)
(***************************************************************************)
EXTENDS Integers, FiniteSets

CONSTANTS
  Names,      \* user names
  Admin,      \* BOOTSTRAP_ADMIN_USERNAME
  Passwords,  \* passwords, by their hashes
  Requests    \* requests that may be under way at once

ASSUME AdminHasName == Admin \in Names

VARIABLES
  request,    \* registration_requests, by user name
  account,    \* users, by user name; changed since it came about or was set up
  bootstrap,  \* a bootstrap_state row with setup_completed_at is committed
  pending,    \* what each request is about to flush
  crossed     \* names for which two requests were under way at once

pvars == <<request, account, bootstrap, pending, crossed>>

RegistrationRequestStatus == {"pending", "approved", "rejected"}

REGISTRATION_STATUS_TRANSITIONS(st) ==
  CASE st = "pending" -> {"approved", "rejected"}
    [] st = "rejected" -> {"pending"}
    [] st = "approved" -> {}

validate_registration_status_change(st, to) ==
  to = st \/ to \in REGISTRATION_STATUS_TRANSITIONS(st)

None == "none"
NoRequest == [status |-> None, pw |-> None, reviewed |-> FALSE, reason |-> None]
NoAccount == [source |-> None, pw |-> None, setup |-> FALSE, changed |-> FALSE]
User(source, pw) == [source |-> source, pw |-> pw, setup |-> FALSE, changed |-> FALSE]

ProvisioningTypeOK ==
  /\ request \in [Names -> [status : RegistrationRequestStatus \union {None},
                            pw : Passwords \union {None}, reviewed : BOOLEAN,
                            reason : {None, "given", "username_exists"}]]
  /\ account \in [Names -> [source : {None, "seed", "setup", "request", "admin"},
                            pw : Passwords \union {None}, setup : BOOLEAN, changed : BOOLEAN]]
  /\ bootstrap \in BOOLEAN /\ crossed \subseteq Names

Quiet == [name |-> None]

(* Columns a request assigns to the row it read; insert says whether the   *)
(* account is a new row.                                                   *)
Flush(n, columns) ==
  [name |-> n, read |-> request[n], columns |-> columns, new |-> NoAccount, setup |-> None]

Exists(n) == account[n].source # None

(* A slip: status and reason end up in each other's column. *)
SwappedReview(st, reason) == [status |-> reason, reviewed |-> TRUE, reason |-> st]

Reviewed(st, reason) == [status |-> st, reviewed |-> TRUE, reason |-> reason]
Submitted(pw) == [status |-> "pending", pw |-> pw]

(* A slip: a request that is opened again keeps the decision on the last. *)
ReopenOnly(n, pw) ==
  IF Exists(n) \/ n = Admin \/ request[n].status \notin {None, "rejected"} THEN {}
  ELSE {Flush(n, Submitted(pw))}

register_request(n, pw) ==
  LET st == request[n].status IN
  IF n = Admin \/ Exists(n) \/ st = "pending" THEN {}
  ELSE IF st = None THEN {Flush(n, Submitted(pw))}
  ELSE IF validate_registration_status_change(st, "pending")
    THEN {Flush(n, [status |-> "pending", pw |-> pw, reviewed |-> FALSE, reason |-> None])}
  ELSE {}

(* A name that is taken by now rejects its request; an approved request    *)
(* passes as its own target, so it is approved anew once the account is    *)
(* gone.                                                                   *)
approve_registration_request(n) ==
  LET st == request[n].status IN
  IF st = None THEN {}
  ELSE IF ~validate_registration_status_change(st, "approved") THEN {}
  ELSE IF ~Exists(n)
    THEN {[Flush(n, Reviewed("approved", None)) EXCEPT !.new = User("request", request[n].pw)]}
  ELSE IF validate_registration_status_change(st, "rejected")
    THEN {Flush(n, Reviewed("rejected", "username_exists"))}
  ELSE {}

reject_registration_request(n) ==
  LET st == request[n].status IN
  IF st # None /\ validate_registration_status_change(st, "rejected")
    THEN {Flush(n, Reviewed("rejected", "given"))} ELSE {}

create_user(n, pw) ==
  IF n = Admin \/ Exists(n) THEN {}
  ELSE {[Flush(n, <<>>) EXCEPT !.new = User("admin", pw)]}

(* assert_valid_bootstrap_token; the row that the first caller inserts is  *)
(* rolled back unless the caller is the one that completes the setup.      *)
assert_valid_bootstrap_token == ~bootstrap

(* A slip: whether the password has been set up is not asked. *)
SetupAgain(pw) ==
  IF Exists(Admin) THEN {[Flush(Admin, <<>>) EXCEPT !.setup = pw]} ELSE {}

setup_admin_password(pw) ==
  IF assert_valid_bootstrap_token /\ Exists(Admin) /\ account[Admin].setup
    THEN {[Flush(Admin, <<>>) EXCEPT !.setup = pw]} ELSE {}

Handlers(n) ==
  (UNION {register_request(n, pw) \union create_user(n, pw) : pw \in Passwords})
    \union approve_registration_request(n) \union reject_registration_request(n)
    \union (IF n = Admin THEN UNION {setup_admin_password(pw) : pw \in Passwords} ELSE {})

-----------------------------------------------------------------------------
ProvisioningInit ==
  /\ request = [n \in Names |-> NoRequest]
  /\ account = [n \in Names |-> NoAccount]
  /\ bootstrap = FALSE
  /\ pending = [x \in Requests |-> Quiet]
  /\ crossed = {}

BeginRequest(x) ==
  /\ pending[x] = Quiet
  /\ \E n \in Names : \E u \in Handlers(n) :
       /\ pending' = [pending EXCEPT ![x] = u]
       /\ crossed' = IF \E y \in Requests : pending[y].name = n
                       THEN crossed \union {n} ELSE crossed
  /\ UNCHANGED <<request, account, bootstrap>>

Stamped(u, c) == c = "pw" \/ (c = "reviewed" /\ u.columns[c])
Changed(u, c) == c \in DOMAIN u.columns /\ (u.columns[c] # u.read[c] \/ Stamped(u, c))

(* user names are unique in both tables.                                   *)
Conflict(u) ==
  \/ u.new # NoAccount /\ Exists(u.name)
  \/ u.read = NoRequest /\ u.columns # <<>> /\ request[u.name] # NoRequest

CommitRequest(x) ==
  LET u == pending[x]  n == pending[x].name IN
  /\ u # Quiet /\ ~Conflict(u)
  /\ request' = [request EXCEPT ![n] =
       [c \in DOMAIN @ |-> IF Changed(u, c) THEN u.columns[c] ELSE @[c]]]
  /\ account' = [account EXCEPT ![n] =
       IF u.new # NoAccount THEN u.new
       ELSE IF u.setup # None /\ Exists(n) THEN User("setup", u.setup) ELSE @]
  /\ bootstrap' = (bootstrap \/ u.setup # None)
  /\ pending' = [pending EXCEPT ![x] = Quiet]
  /\ UNCHANGED crossed

(* A failed flush, an exception, a process that ends. *)
DropRequest(x) ==
  /\ pending[x] # Quiet
  /\ pending' = [pending EXCEPT ![x] = Quiet]
  /\ UNCHANGED <<request, account, bootstrap, crossed>>

(* The process starts and seeds the administrator if there is none.        *)
bootstrap_if_needed ==
  /\ ~Exists(Admin)
  /\ account' = [account EXCEPT ![Admin] =
       [source |-> "seed", pw |-> None, setup |-> TRUE, changed |-> FALSE]]
  /\ UNCHANGED <<request, bootstrap, pending, crossed>>

(* An account that asked to be deleted is purged; its request stays.       *)
Purged(n) ==
  /\ n # Admin /\ Exists(n)
  /\ account' = [account EXCEPT ![n] = NoAccount]
  /\ UNCHANGED <<request, bootstrap, pending, crossed>>

(* Each writes the password alone, whatever it read; the tokens and        *)
(* sessions they touch are the business of PasswordReset.                  *)
Replaced(n, pw) ==
  /\ account' = [account EXCEPT ![n].pw = pw, ![n].changed = TRUE]
  /\ UNCHANGED <<request, bootstrap, pending, crossed>>

(* Its user, signed in with the one before, chooses another: change_password. *)
PasswordChanged(n) ==
  /\ Exists(n) /\ ~account[n].setup
  /\ \E pw \in Passwords \ {account[n].pw} : Replaced(n, pw)

(* confirm_password_reset, which no set-up needs to precede.               *)
ResetConfirmed(n) == Exists(n) /\ \E pw \in Passwords : Replaced(n, pw)

ProvisioningNext ==
  \/ \E x \in Requests : BeginRequest(x) \/ CommitRequest(x) \/ DropRequest(x)
  \/ bootstrap_if_needed
  \/ \E n \in Names : Purged(n) \/ PasswordChanged(n) \/ ResetConfirmed(n)

ProvisioningSpec == ProvisioningInit /\ [][ProvisioningNext]_pvars

-----------------------------------------------------------------------------
(* Unless two requests about one name overlapped: a pending request shows  *)
(* no decision, a rejected one its reason, an approved one none; and the   *)
(* account a request was approved for carries the password of that request *)
(* until that password is changed or reset.                                *)
DecisionRecorded ==
  \A n \in Names \ crossed : LET r == request[n] IN
    /\ r.status \in {None, "pending"} => ~r.reviewed /\ r.reason = None
    /\ r.status = "rejected" => r.reviewed /\ r.reason # None
    /\ r.status = "approved" => r.reviewed /\ r.reason = None
    /\ account[n].source = "request" =>
         r.status = "approved" /\ (account[n].pw = r.pw \/ account[n].changed)

(* The password of the administrator is set up once: a second setup only   *)
(* succeeds if it overlapped with the first, also after the administrator  *)
(* has changed the password.                                               *)
SetupOnce ==
  [][account'[Admin].source = "setup" /\ ~account'[Admin].changed
       /\ account'[Admin] # account[Admin]
       => account[Admin].setup \/ Admin \in crossed]_pvars
=============================================================================
