------------------------------- MODULE EmailDesk -------------------------------
(***************************************************************************)
(* Reply drafts for e-mail threads (api/routers/email.py, models/email.py, *)
(* services/email_assistant.py): the assistant writes a draft with a risk  *)
(* level, editors change it, an administrator approves or rejects it, and  *)
(* an approved draft is handed off.                                        *)
(*                                                                         *)
(* A generation first waits for the model, then numbers its draft and      *)
(* commits.  The other handlers read the draft, decide, and flush the      *)
(* columns they changed at a commit that may come after another session's. *)
(* A dropped request stands for every failure between the two: a refused   *)
(* template, a model or database error.  approval_required is not kept: no *)
(* handler ever stores a draft that does not require approval.             *)
(***************************************************************************)
EXTENDS Naturals, FiniteSets, FiniteSetsExt, SequencesExt

CONSTANTS
  Threads, Drafts, Templates,  \* ids of rows
  Texts,        \* what subject, body and tone of a draft may say
  Blank,        \* the texts without a subject or without a body
  Private,      \* the texts with personal data in them
  Redacted,     \* what redact_sensitive leaves of such a text
  Incoming,     \* the risk flags an incoming e-mail may raise
  Clerks,       \* sessions open at once
  MaxVersions   \* bound on the versions of a draft

ASSUME TextsRedacted == Blank \union Private \subseteq Texts /\ Redacted \in Texts \ Private
ASSUME FlagsRaised == Incoming \subseteq SUBSET {"scam_suspected", "contains_links", "unknown_terms"}
ASSUME DraftVersionBound == MaxVersions \in Nat \ {0}

VARIABLES
  thread,    \* rows of email_threads
  template,  \* rows of email_templates
  draft,     \* rows of email_drafts, each with its versions
  clerk,     \* what each session is about to commit
  approved,  \* the text of each draft at its last approval
  crossed,   \* drafts two sessions worked on at the same time
  doubled    \* threads two sessions generated for at the same time

evars == <<thread, template, draft, clerk, approved, crossed, doubled>>

NoRow == [row |-> FALSE]
Nobody == "nobody"
Resting == [doing |-> "nothing"]
Stored(d) == draft[d] # NoRow
DraftsOf(h) == {d \in Drafts : Stored(d) /\ draft[d].thread = h}

CRITICAL_RISK_FLAGS == {"scam_suspected", "output_contains_personal_data"}
HIGH_RISK_FLAGS == {"contains_links"}

_risk_profile(flags) ==
  LET score == 3 * Cardinality(flags \intersect CRITICAL_RISK_FLAGS)
             + 2 * Cardinality(flags \intersect HIGH_RISK_FLAGS)
             + Cardinality(flags \ (CRITICAL_RISK_FLAGS \union HIGH_RISK_FLAGS)) IN
  IF score >= 6 THEN "critical" ELSE IF score >= 3 THEN "high"
  ELSE IF score >= 1 THEN "medium" ELSE "low"

HighRisk(level) == level \in {"high", "critical"}

redact_sensitive(t) == IF t \in Private THEN Redacted ELSE t
PrivateFlags(t) == IF t \in Private THEN {"output_contains_personal_data"} ELSE {}

(* What the assistant makes of a raw text and the flags of the e-mail:     *)
(* both calls redact the text, only the first flags what it redacted.      *)
generate_email_draft(raw, flags) ==
  [text |-> redact_sensitive(raw), level |-> _risk_profile(flags \union PrivateFlags(raw))]
refine_email_draft(raw, flags) ==
  [text |-> redact_sensitive(raw), level |-> _risk_profile(flags)]

EmailTypeOK ==
  /\ thread \subseteq Threads
  /\ \A g \in Templates : template[g] # NoRow =>
       template[g].thread \in Threads \union {Nobody} /\ template[g].active \in BOOLEAN
  /\ \A d \in Drafts : Stored(d) =>
       /\ draft[d].thread \in thread /\ draft[d].text \in Texts
       /\ draft[d].level \in {"low", "medium", "high", "critical"}
       /\ draft[d].status \in {"pending", "approved", "rejected"}
       /\ draft[d].handoff \in {"draft", "blocked", "ready_for_send", "handed_off"}
       /\ {draft[d].approved, draft[d].reason} \subseteq BOOLEAN
       /\ draft[d].versions \in Seq([number : 1..MaxVersions, text : Texts])

-----------------------------------------------------------------------------
(* Generations: the request as the model is asked, and the rows it inserts *)
(* once the model has answered.                                            *)

_resolve_template(h) ==
  {Nobody} \union {g \in Templates : /\ template[g] # NoRow /\ template[g].active
                                     /\ template[g].thread \in {h, Nobody}}

Asking(h, g, parent) == [doing |-> "asking", thread |-> h, template |-> g, parent |-> parent]

(* For a thread of its own, or for one that is there. *)
create_draft(h) == {Asking(h, g, Nobody) : g \in _resolve_template(h)}

(* A request that names no template keeps its parent's. *)
refine_draft(d) ==
  LET h == draft[d].thread IN
  {Asking(h, IF g = Nobody THEN draft[d].template ELSE g, d) : g \in _resolve_template(h)}

_next_thread_version_number(h) ==
  IF DraftsOf(h) = {} THEN 1 ELSE 1 + Max({draft[d].number : d \in DraftsOf(h)})

Generated(ask, result) ==
  [row |-> TRUE, thread |-> ask.thread, template |-> ask.template, parent |-> ask.parent,
   number |-> _next_thread_version_number(ask.thread),
   text |-> result.text, level |-> result.level,
   status |-> "pending", approved |-> FALSE, reason |-> FALSE, handoff |-> "blocked",
   versions |-> <<[number |-> 1, text |-> result.text]>>]

Answers(ask) ==
  {IF ask.parent = Nobody THEN generate_email_draft(raw, flags) ELSE refine_email_draft(raw, flags) :
     raw \in Texts, flags \in Incoming}

-----------------------------------------------------------------------------
(* Handlers of one draft: the columns they want and the version they add.  *)

Wanting(d, want, decision) ==
  [doing |-> "updating", draft |-> d, read |-> draft[d], want |-> want, decision |-> decision]

(* A slip: the status of a decision nobody had to make. *)
NotRequired(d) ==
  IF ~Stored(d) THEN {} ELSE
    {Wanting(d, [draft[d] EXCEPT !.approved = yes, !.status = "not_required"], yes) : yes \in BOOLEAN}

(* A rejection needs a reason, and so does the approval of a risky draft.  *)
set_draft_approval(d) ==
  IF ~Stored(d) THEN {} ELSE
    {Wanting(d, [draft[d] EXCEPT !.approved = v.yes, !.reason = v.reason,
                                 !.status = IF v.yes THEN "approved" ELSE "rejected",
                                 !.handoff = IF v.yes THEN @ ELSE "blocked"], v.yes) :
       v \in {w \in [yes : BOOLEAN, reason : BOOLEAN] :
                w.reason \/ (w.yes /\ ~HighRisk(draft[d].level))}}

_append_draft_version(row) ==
  [row EXCEPT !.versions =
     Append(@, [number |-> 1 + Max({@[i].number : i \in DOMAIN @}), text |-> row.text])]

(* A slip: an edit leaves the hand-off as it was. *)
EditedOnly(d) ==
  IF ~Stored(d) THEN {} ELSE
    {Wanting(d, _append_draft_version([draft[d] EXCEPT !.text = t, !.approved = FALSE,
                                                       !.status = "pending"]), FALSE) : t \in Texts}

(* A slip: the version keeps the text from before the edit. *)
VersionFirst(d) ==
  IF ~Stored(d) THEN {} ELSE
    {Wanting(d, [_append_draft_version(draft[d]) EXCEPT
                   !.text = t, !.approved = FALSE, !.status = "pending", !.handoff = "blocked"],
             FALSE) : t \in Texts}

(* The risk level and the reason of the last decision stay.                *)
update_draft_content(d) ==
  IF ~Stored(d) THEN {} ELSE
    {Wanting(d, _append_draft_version([draft[d] EXCEPT !.text = t, !.approved = FALSE,
                                                       !.status = "pending", !.handoff = "blocked"]),
             FALSE) : t \in Texts}

(* A note is given whenever one is needed.                                 *)
_validate_handoff_transition(row, to) ==
  /\ to = "ready_for_send" => row.text \notin Blank /\ row.status = "approved"
  /\ to = "handed_off" => row.handoff = "ready_for_send" /\ row.status = "approved"

set_draft_handoff(d) ==
  IF ~Stored(d) THEN {} ELSE
    {Wanting(d, [draft[d] EXCEPT !.handoff = to], FALSE) :
       to \in {s \in {"draft", "blocked", "ready_for_send", "handed_off"} :
                 _validate_handoff_transition(draft[d], s)}}

-----------------------------------------------------------------------------
EmailInit ==
  /\ thread = {}
  /\ template = [g \in Templates |-> NoRow]
  /\ draft = [d \in Drafts |-> NoRow]
  /\ clerk = [s \in Clerks |-> Resting]
  /\ approved = [d \in Drafts |-> Nobody]
  /\ crossed = {} /\ doubled = {}

(* The assistant may run for minutes; its requests for one thread overlap. *)
Ask(s) ==
  /\ clerk[s] = Resting
  /\ \E ask \in (UNION {create_draft(h) : h \in Threads})
                \union (UNION {refine_draft(d) : d \in {x \in Drafts : Stored(x)}}) :
       /\ clerk' = [clerk EXCEPT ![s] = ask]
       /\ thread' = thread \union {ask.thread}
       /\ doubled' = IF \E o \in Clerks : clerk[o].doing \in {"asking", "inserting"}
                                         /\ clerk[o].thread = ask.thread
                       THEN doubled \union {ask.thread} ELSE doubled
  /\ UNCHANGED <<template, draft, approved, crossed>>

Answer(s) ==
  /\ clerk[s].doing = "asking"
  /\ \E result \in Answers(clerk[s]) :
       clerk' = [clerk EXCEPT ![s] = [doing |-> "inserting", thread |-> clerk[s].thread,
                                      row |-> Generated(clerk[s], result)]]
  /\ UNCHANGED <<thread, template, draft, approved, crossed, doubled>>

CommitDraft(s) ==
  /\ clerk[s].doing = "inserting"
  /\ \E d \in Drafts :
       /\ ~Stored(d)
       /\ draft' = [draft EXCEPT ![d] = clerk[s].row]
  /\ clerk' = [clerk EXCEPT ![s] = Resting]
  /\ UNCHANGED <<thread, template, approved, crossed, doubled>>

Handle(s) ==
  /\ clerk[s] = Resting
  /\ \E d \in Drafts :
       \E u \in set_draft_approval(d) \union update_draft_content(d) \union set_draft_handoff(d) :
         /\ Len(u.want.versions) <= MaxVersions
         /\ clerk' = [clerk EXCEPT ![s] = u]
         /\ crossed' = IF \E o \in Clerks : clerk[o].doing = "updating" /\ clerk[o].draft = d
                         THEN crossed \union {d} ELSE crossed
  /\ UNCHANGED <<thread, template, draft, approved, doubled>>

(* The flush writes the changed columns and inserts the new version.       *)
Flushed(row, u) ==
  LET fresh == SubSeq(u.want.versions, Len(u.read.versions) + 1, Len(u.want.versions)) IN
  [c \in DOMAIN row |->
     IF c = "versions" THEN row.versions \o fresh
     ELSE IF u.want[c] = u.read[c] THEN row[c] ELSE u.want[c]]

CommitUpdate(s) ==
  LET u == clerk[s] IN
  /\ u.doing = "updating"
  /\ draft' = [draft EXCEPT ![u.draft] = Flushed(@, u)]
  /\ approved' = IF u.decision THEN [approved EXCEPT ![u.draft] = u.read.text] ELSE approved
  /\ clerk' = [clerk EXCEPT ![s] = Resting]
  /\ UNCHANGED <<thread, template, crossed, doubled>>

DropWork(s) ==
  /\ clerk[s] # Resting
  /\ clerk' = [clerk EXCEPT ![s] = Resting]
  /\ UNCHANGED <<thread, template, draft, approved, crossed, doubled>>

create_template ==
  \E g \in Templates, h \in thread \union {Nobody}, active \in BOOLEAN :
    /\ template[g] = NoRow
    /\ template' = [template EXCEPT ![g] = [row |-> TRUE, thread |-> h, active |-> active]]

update_template ==
  \E g \in Templates, active \in BOOLEAN :
    /\ template[g] # NoRow
    /\ template' = [template EXCEPT ![g].active = active]

EditTemplates ==
  (create_template \/ update_template) /\ UNCHANGED <<thread, draft, clerk, approved, crossed, doubled>>

EmailNext ==
  \/ \E s \in Clerks : Ask(s) \/ Answer(s) \/ CommitDraft(s) \/ Handle(s) \/ CommitUpdate(s) \/ DropWork(s)
  \/ EditTemplates

EmailSpec == EmailInit /\ [][EmailNext]_evars

-----------------------------------------------------------------------------
(* Unless two sessions worked on the draft at once: what waits to be sent  *)
(* or was handed off is a text as an administrator approved it, and the    *)
(* flag agrees with the status of the approval.  An edit between reading   *)
(* and committing an approval is approved unread; a rejection that meets   *)
(* an approval writes only the status.                                     *)
HandedTextApproved ==
  \A d \in Drafts : Stored(d) /\ d \notin crossed =>
    /\ draft[d].handoff \in {"ready_for_send", "handed_off"} =>
         draft[d].status = "approved" /\ draft[d].text = approved[d] /\ draft[d].text \notin Blank
    /\ draft[d].approved <=> draft[d].status = "approved"

(* The versions of a draft are numbered from one without gaps and the last *)
(* one is the text, unless two edits overlapped; two drafts of a thread    *)
(* have different numbers, unless two generations for it overlapped.       *)
HistoryComplete ==
  /\ \A d \in Drafts : Stored(d) /\ d \notin crossed =>
       /\ \A i \in DOMAIN draft[d].versions : draft[d].versions[i].number = i
       /\ Last(draft[d].versions).text = draft[d].text
  /\ \A d, e \in Drafts : Stored(d) /\ Stored(e) /\ d # e /\ draft[d].thread = draft[e].thread =>
       draft[d].thread \in doubled \/ draft[d].number # draft[e].number

=============================================================================
