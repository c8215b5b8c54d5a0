---------------------------- MODULE BrowserClient ----------------------------
(***************************************************************************)
(* The tabs of one browser against AuthSessions                            *)
(* (frontend/src/shared/api/httpClient.ts, api.ts,                         *)
(* shared/auth/StepUpProvider.tsx).  Tabs share the cookie jar.  In a tab  *)
(* the calls that get a 401 wait for one shared refresh and are sent once  *)
(* more; calls that need a second factor wait for one shared dialog.       *)
(* Answers can be lost or come too late; the server finishes the request   *)
(* all the same.                                                           *)
(***************************************************************************)
EXTENDS AuthSessions

CONSTANTS
  Tabs,     \* also the slots of their refresh requests
  Calls,    \* calls of the views, each made once
  Dialogs,  \* the calls of the step-up dialogs, made again and again
  DialogOf, \* the dialog of a tab
  CallOps   \* the operations a call chooses from

ASSUME SomeTab == Tabs # {}
ASSUME SlotsAreOurs == Slots = Tabs \union Calls \union Dialogs
ASSUME CallsAreOperations ==
  \A c \in Calls : CallOps[c] \subseteq
    {"login", "read", "secure", "mfa_enable", "mfa_disable", "change_password",
     "revoke_single_session", "logout"}

VARIABLES
  jar,      \* the pair in the cookies; the access cookie lives as long as its token
  call,     \* the calls and their progress
  promise,  \* refreshPromise of a tab: is a refresh under way
  dialog    \* the step-up dialog of a tab is open

vars == <<svars, jar, call, promise, dialog>>

Requests == Calls \union Dialogs
Retries == 1  \* bound: a read that timed out is sent again once (code: twice)

Fresh == [phase |-> "new", op |-> "read", tab |-> CHOOSE t \in Tabs : TRUE,
          refreshed |-> FALSE, stepped |-> FALSE, tries |-> 0]

TypeOK ==
  /\ ServerTypeOK
  /\ jar \in 0..MaxPairs
  /\ call \in [Requests ->
       [phase : {"new", "flying", "refreshing", "stepping", "done", "failed"},
        op : (UNION {CallOps[c] : c \in Calls}) \union {"read", "step_up"}, tab : Tabs, refreshed : BOOLEAN,
        stepped : BOOLEAN, tries : 0..Retries]]
  /\ promise \in [Tabs -> BOOLEAN] /\ dialog \in [Tabs -> BOOLEAN]

(* The user is signed in and nothing is under way.                         *)
First == CHOOSE s \in Sessions : TRUE

Init ==
  /\ owner = <<First>>
  /\ session = [s \in Sessions |-> IF s = First THEN Row("open", 1, FALSE) ELSE Row("none", 0, FALSE)]
  /\ denied = {} /\ cached = {} /\ aged = 0 /\ stale = {} /\ crossed = {}
  /\ mfa = TRUE
  /\ flights = [x \in Slots |-> Idle]
  /\ jar = 1
  /\ call = [c \in Requests |-> Fresh]
  /\ promise = [t \in Tabs |-> FALSE]
  /\ dialog = [t \in Tabs |-> FALSE]
  /\ faults = 0

RequestFrom(cookies, op) == Sent(op, cookies, cookies # NoPair /\ cookies > aged)
Request(op) == RequestFrom(jar, op)
Waiting(t, why) == {c \in Requests : call[c].tab = t /\ call[c].phase = why}

(* A slip: an answer that sets no cookie empties the jar all the same. *)
AlwaysSet(a) == jar' = a.jar
SetCookies(a) == jar' = IF a.jar = Keep THEN jar ELSE a.jar
ServerKept == <<owner, session, denied, cached, aged, stale, mfa, crossed>>
Server == <<ServerKept, faults>>

-----------------------------------------------------------------------------
(* request() and requestBlob(), which differ in the body they return: a    *)
(* call is sent, answered, refreshed once and sent again.                  *)

Start(c, t, op) ==
  /\ c \in Calls /\ call[c].phase = "new"
  /\ call' = [call EXCEPT ![c] = [Fresh EXCEPT !.phase = "flying", !.op = op, !.tab = t]]
  /\ flights' = [flights EXCEPT ![c] = Request(op)]
  /\ UNCHANGED <<Server, jar, promise, dialog>>

(* The dialog's code is posted, unless a post of it is still under way.    *)
Submit(t) ==
  LET d == DialogOf[t] IN
  /\ dialog[t] /\ call[d].phase = "new" /\ flights[d] = Idle
  /\ call' = [call EXCEPT ![d] = [Fresh EXCEPT !.phase = "flying", !.op = "step_up", !.tab = t]]
  /\ flights' = [flights EXCEPT ![d] = Request("step_up")]
  /\ UNCHANGED <<Server, jar, promise, dialog>>

Answered(x) == flights[x].phase = "answered"

MayRefresh(c) ==
  flights[c].code = "401" /\ ~call[c].refreshed /\ call[c].op # "login"

MayStepUp(c) ==
  flights[c].code = "403" /\ ~call[c].stepped /\ c \in Calls

(* A call of a view is made once, a dialog's again and again.              *)
Ended(c, ok) ==
  [Fresh EXCEPT !.phase = IF c \in Dialogs THEN "new" ELSE IF ok THEN "done" ELSE "failed"]

(* The first of the tab's calls to be refused sends the refresh, the       *)
(* others join it.  Bound: a tab does not start one while the server still *)
(* works on one the tab has given up.                                      *)
JoinRefresh(c) ==
  LET t == call[c].tab IN
  /\ call[c].phase = "flying" /\ Answered(c) /\ MayRefresh(c)
  /\ promise[t] \/ flights[t] = Idle
  /\ call' = [call EXCEPT ![c].phase = "refreshing"]
  /\ promise' = [promise EXCEPT ![t] = TRUE]
  /\ flights' = [flights EXCEPT ![c] = Idle,
                                ![t] = IF promise[t] THEN @ ELSE Request("refresh")]
  /\ SetCookies(flights[c])
  /\ UNCHANGED <<Server, dialog>>

(* apiFetch opens the tab's dialog and sends the call again after it.      *)
JoinStepUp(c) ==
  /\ call[c].phase = "flying" /\ Answered(c) /\ MayStepUp(c)
  /\ call' = [call EXCEPT ![c].phase = "stepping"]
  /\ dialog' = [dialog EXCEPT ![call[c].tab] = TRUE]
  /\ flights' = [flights EXCEPT ![c] = Idle]
  /\ UNCHANGED <<Server, jar, promise>>

(* What the end of a call releases: a code that was accepted lets the      *)
(* calls that wait for the tab's dialog be sent again.                     *)
Resent(cs, field) ==
  [c \in Requests |-> IF c \notin cs THEN call[c]
     ELSE IF field = "refreshed" THEN [call[c] EXCEPT !.phase = "flying", !.refreshed = TRUE]
     ELSE [call[c] EXCEPT !.phase = "flying", !.stepped = TRUE, !.refreshed = FALSE]]

ResentFlights(cs) ==
  [x \in Slots |-> IF x \in cs THEN RequestFrom(jar', call[x].op) ELSE flights[x]]

Receive(c) ==
  LET t == call[c].tab
      ok == flights[c].code = "ok"
      released == IF ok /\ c = DialogOf[t] THEN Waiting(t, "stepping") ELSE {}
  IN
  /\ call[c].phase = "flying" /\ Answered(c) /\ ~MayRefresh(c) /\ ~MayStepUp(c)
  /\ SetCookies(flights[c])
  /\ call' = [Resent(released, "stepped") EXCEPT ![c] = Ended(c, ok)]
  /\ flights' = [ResentFlights(released) EXCEPT ![c] = Idle]
  /\ dialog' = [dialog EXCEPT ![t] = @ /\ ~(ok /\ c = DialogOf[t])]
  /\ UNCHANGED <<Server, promise>>

(* No answer in time, or none at all: a read is sent again.                *)
TimesOut(c) ==
  /\ call[c].phase = "flying" /\ Fault
  /\ IF call[c].op = "read" /\ call[c].tries < Retries
       THEN /\ call' = [call EXCEPT ![c].tries = @ + 1]
            /\ flights' = [flights EXCEPT ![c] = Request("read")]
       ELSE /\ call' = [call EXCEPT ![c] = Ended(c, FALSE)]
            /\ flights' = flights
  /\ UNCHANGED <<ServerKept, jar, promise, dialog>>

(* refreshOnce(): the promise is settled and forgotten, and the calls that *)
(* wait for it go on: sent again, or failed with the 401 they had.         *)
(* A slip: a refresh that fails is forgotten, and so are its waiters. *)
NobodyTold(cs) == call
Failed(cs) == [c \in Requests |-> IF c \in cs THEN Ended(c, FALSE) ELSE call[c]]

RefreshAnswered(t) ==
  LET cs == Waiting(t, "refreshing") IN
  /\ promise[t] /\ Answered(t)
  /\ SetCookies(flights[t])
  /\ promise' = [promise EXCEPT ![t] = FALSE]
  /\ IF flights[t].code = "ok"
       THEN /\ call' = Resent(cs, "refreshed")
            /\ flights' = [ResentFlights(cs) EXCEPT ![t] = Idle]
       ELSE /\ call' = Failed(cs)
            /\ flights' = [flights EXCEPT ![t] = Idle]
  /\ UNCHANGED <<Server, dialog>>

RefreshTimesOut(t) ==
  /\ promise[t] /\ Fault
  /\ promise' = [promise EXCEPT ![t] = FALSE]
  /\ call' = Failed(Waiting(t, "refreshing"))
  /\ UNCHANGED <<ServerKept, flights, jar, dialog>>

(* The user closes the dialog, which is locked while a code is posted.     *)
Cancel(t) ==
  /\ dialog[t] /\ call[DialogOf[t]].phase = "new"
  /\ dialog' = [dialog EXCEPT ![t] = FALSE]
  /\ call' = Failed(Waiting(t, "stepping"))
  /\ UNCHANGED <<Server, flights, jar, promise>>

(* The answer to a request its tab has given up is dropped with its cookies. *)
GivenUp(x) == IF x \in Tabs THEN ~promise[x] ELSE call[x].phase # "flying"

Discard(x) ==
  /\ Answered(x) /\ GivenUp(x)
  /\ flights' = [flights EXCEPT ![x] = Idle]
  /\ UNCHANGED <<Server, jar, call, promise, dialog>>

ServerNext ==
  /\ (\E x \in Slots : Work(x)) \/ AccessExpires \/ SessionExpires \/ StepUpExpires
  /\ UNCHANGED <<jar, call, promise, dialog>>

Progress(c) == JoinRefresh(c) \/ JoinStepUp(c) \/ Receive(c) \/ TimesOut(c)
Settle(t) == RefreshAnswered(t) \/ RefreshTimesOut(t)

Next ==
  \/ ServerNext
  \/ \E c \in Calls, t \in Tabs : \E op \in CallOps[c] : Start(c, t, op)
  \/ \E t \in Tabs : Submit(t) \/ Settle(t) \/ Cancel(t)
  \/ \E c \in Requests : Progress(c)
  \/ \E x \in Slots : Discard(x)

Spec == Init /\ [][Next]_vars

(* Every fetch has a timeout, so it is settled whether or not the server   *)
(* answers; the user does not post codes into a dialog for ever.           *)
FairSpec ==
  /\ Spec
  /\ \A c \in Requests : WF_vars(Progress(c))
  /\ \A t \in Tabs : WF_vars(Settle(t)) /\ SF_vars(Cancel(t))
  /\ \A x \in Slots :
       WF_vars(Work(x) /\ UNCHANGED <<jar, call, promise, dialog>>) /\ WF_vars(Discard(x))

-----------------------------------------------------------------------------
(* Every call of a view is answered or fails: none waits for a refresh or  *)
(* a dialog that is over.                                                  *)
CallsEnd ==
  \A c \in Calls : call[c].phase = "flying" ~> call[c].phase \in {"done", "failed"}
=============================================================================
