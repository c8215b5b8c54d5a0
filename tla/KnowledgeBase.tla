----------------------------- MODULE KnowledgeBase -----------------------------
(***************************************************************************)
(* Knowledge documents (services/knowledge_service.py, models/knowledge.py):*)
(* each change of a document counts its version up and keeps a snapshot;   *)
(* what is approved, source-reviewed and not outdated goes into the prompt *)
(* of the e-mail assistant.  A start of the process (seed.py) ships default *)
(* documents, trusted as they are: nobody decides on them and they have no *)
(* snapshot.                                                               *)
(*                                                                         *)
(* A document is reduced to the columns these rules read.  text stands for *)
(* all re-review fields but the source's review status, the type included; *)
(* what the seed says of a source and of its review goes with that status. *)
(* Documents are of a type that prompts use, and of the two defaults this  *)
(* is one.  A handler changes a copy of the row it read; the flush writes  *)
(* the columns where the two differ.                                       *)
(***************************************************************************)
EXTENDS Workflow, Integers

CONSTANTS
  Docs,           \* ids of knowledge_docs
  Wordings,       \* what a document may say
  Default,        \* what the default document says
  OfItsType,      \* what documents of its type may say
  Patches,        \* what a PATCH may ask for: a subset of Patch
  Editors,        \* database sessions of the editors and of starting processes
  MaxDocVersions   \* bound on the versions of a document

KnowledgeSourceReviewStatus == {"pending", "approved", "rejected", "needs_update"}
Unset == "unset"

Patch ==
  [text : Wordings \union {Unset}, source : KnowledgeSourceReviewStatus \union {Unset},
   outdated : {Unset, "yes", "no"}, why : {Unset, "text", "blank"},
   status : Requested, reason : BOOLEAN]

ASSUME PatchesAreRequests == Patches \subseteq Patch /\ Unset \notin Wordings
ASSUME DefaultHasType == Default \in OfItsType /\ OfItsType \subseteq Wordings
ASSUME VersionBound == MaxDocVersions \in Nat \ {0}

VARIABLES
  doc,       \* rows, by id
  snapshot,  \* the last snapshot of each document and how many there are
  decided,   \* text and source the last decision about a document was made on
  edit,      \* what each session is about to flush
  overtaken, \* documents an update landed on that another had changed first
  seeded     \* documents that a start of the process inserted

kvars == <<doc, snapshot, decided, edit, overtaken, seeded>>

NoDoc == [life |-> "none"]
Row(text, source, status, outdated, why) ==
  [life |-> "row", text |-> text, source |-> source, status |-> status,
   outdated |-> outdated, why |-> why, at |-> outdated, version |-> 1]
Lives(d) == doc[d] # NoDoc
Idle == [doc |-> NoDoc]

KnowledgeTypeOK ==
  /\ \A d \in Docs : Lives(d) =>
       /\ doc[d].text \in Wordings /\ doc[d].source \in KnowledgeSourceReviewStatus
       /\ doc[d].status \in WorkflowStatus /\ doc[d].version \in 1..MaxDocVersions
       /\ {doc[d].outdated, doc[d].why, doc[d].at} \subseteq BOOLEAN
  /\ overtaken \subseteq Docs /\ seeded \subseteq Docs

Decision(status) == status \in WORKFLOW_REVIEW_DECISION_STATES

(* A flush: the row it was decided on, the row wanted, whether somebody    *)
(* decided, and what the session does with the row.                        *)
Flush(d, kind, want, decision) ==
  [doc |-> d, kind |-> kind, read |-> doc[d], want |-> want, decision |-> decision]

FreeId(d) == doc[d] = NoDoc /\ snapshot[d].count = 0 /\ d \notin seeded

(* Any status may be asked for at once; a decision comes with its reason.  *)
create_doc(d) ==
  IF FreeId(d)
    THEN {Flush(d, "create", Row(t, s, w, o, o \/ why), Decision(w)) :
            t \in Wordings, s \in KnowledgeSourceReviewStatus, w \in WorkflowStatus,
            o \in BOOLEAN, why \in BOOLEAN}
    ELSE {}

(* What _mark_system_default_trusted makes of a document, and what earlier *)
(* versions of the seed left in its place.                                 *)
Shipped == Row(Default, "approved", "published", FALSE, FALSE)
Legacy == Row(Default, "pending", "draft", FALSE, FALSE)

_is_untouched_legacy_system_default(d) == doc[d] = Legacy /\ snapshot[d].count = 0

(* A default is inserted where no document has its type; one that was left *)
(* as it was is trusted, if it is the only one.                            *)
ensure_default_knowledge_docs(d) ==
  LET existing == {e \in Docs : Lives(e) /\ doc[e].text \in OfItsType} IN
  IF existing = {} THEN IF FreeId(d) THEN {Flush(d, "seed", Shipped, FALSE)} ELSE {}
  ELSE IF {e \in existing : _is_untouched_legacy_system_default(e)} = {d}
    THEN {Flush(d, "promote", Shipped, FALSE)}
  ELSE {}

Given(asked, stored) == IF asked = Unset THEN stored ELSE asked
YesNo(asked, stored) == IF asked = Unset THEN stored ELSE asked \in {"yes", "text"}

(* A slip: the source's review does not count as a change of the document. *)
TextOnly(row, p) == p.text \notin {Unset, row.text}

RelevantChange(row, p) ==
  p.text \notin {Unset, row.text} \/ p.source \notin {Unset, row.source}

(* The row after the updates, before its version is counted.               *)
Updated(row, p) ==
  LET outdated == YesNo(p.outdated, row.outdated) IN
  [row EXCEPT !.text = Given(p.text, @), !.source = Given(p.source, @),
              !.outdated = outdated, !.why = YesNo(p.why, @),
              !.at = IF p.outdated = Unset THEN @ ELSE outdated,
              !.status = TargetStatus(@, p.status, RelevantChange(row, p))]

(* A document that is or becomes outdated needs a reason; so does a        *)
(* decision.  The automatic re-review brings its own.                      *)
PatchAccepted(row, p) ==
  LET next == Updated(row, p) IN
  /\ next.outdated => next.why
  /\ validate_workflow_status_change(row.status, next.status, p.reason)

(* A changed reason counts as well; whether it differs from the stored one *)
(* is not modelled, so a given reason always does.                         *)
Versioned(row, p) ==
  LET next == Updated(row, p) IN
  IF next # row \/ p.reason THEN [next EXCEPT !.version = @ + 1] ELSE next

update_doc(d, p) ==
  IF Lives(d) /\ PatchAccepted(doc[d], p)
    THEN {Flush(d, "update", Versioned(doc[d], p), Decision(p.status))} ELSE {}

delete_doc(d) == IF Lives(d) THEN {Flush(d, "delete", NoDoc, FALSE)} ELSE {}

_prompt_ready_docs ==
  {d \in Docs : Lives(d) /\ ~doc[d].outdated /\ doc[d].source = "approved"
                /\ doc[d].status \in {"approved", "published"}}

-----------------------------------------------------------------------------
(* An empty table, or one with what an earlier version has seeded.         *)
KnowledgeInit ==
  /\ seeded \in SUBSET Docs
  /\ doc = [d \in Docs |-> IF d \in seeded THEN Legacy ELSE NoDoc]
  /\ snapshot = [d \in Docs |-> [row |-> NoDoc, count |-> 0]]
  /\ decided = [d \in Docs |-> NoDoc]
  /\ edit = [x \in Editors |-> Idle]
  /\ overtaken = {}

Flushes(d) ==
  create_doc(d) \union delete_doc(d) \union (UNION {update_doc(d, p) : p \in Patches})
    \union ensure_default_knowledge_docs(d)

BeginEdit(x) ==
  /\ edit[x] = Idle
  /\ \E d \in Docs : \E f \in Flushes(d) : edit' = [edit EXCEPT ![x] = f]
  /\ UNCHANGED <<doc, snapshot, decided, overtaken, seeded>>

Merged(row, f) ==
  [c \in DOMAIN row |-> IF f.want[c] = f.read[c] THEN row[c] ELSE f.want[c]]

Rewrites(f) == f.kind \in {"update", "promote"}

(* The row is no longer the one the update was decided on. *)
Stale(f) == Rewrites(f) /\ doc[f.doc] # f.read

(* An update of a row that is gone fails, a delete of one does not find it. *)
Lands(f) ==
  IF f.kind \in {"create", "seed"} THEN FreeId(f.doc)
  ELSE Lives(f.doc) /\ (f.want # NoDoc => f.want.version <= MaxDocVersions)

(* What editors write is kept in a snapshot, what a start writes is not.   *)
_snapshot_doc(f) == f.kind \in {"create", "update"} /\ f.want # f.read

Said(row) == [text |-> row.text, source |-> row.source]

CommitEdit(x) ==
  LET f == edit[x]  d == edit[x].doc
      row == IF Rewrites(f) THEN Merged(doc[d], f) ELSE f.want IN
  /\ f # Idle /\ Lands(f)
  /\ doc' = [doc EXCEPT ![d] = row]
  /\ snapshot' = IF _snapshot_doc(f)
                   THEN [snapshot EXCEPT ![d] = [row |-> f.want, count |-> @.count + 1]]
                   ELSE snapshot
  /\ decided' = IF f.decision THEN [decided EXCEPT ![d] = Said(f.want)] ELSE decided
  /\ overtaken' = IF Stale(f) THEN overtaken \union {d} ELSE overtaken
  /\ seeded' = IF f.kind = "seed" THEN seeded \union {d} ELSE seeded
  /\ edit' = [edit EXCEPT ![x] = Idle]

DropEdit(x) ==
  /\ edit[x] # Idle
  /\ edit' = [edit EXCEPT ![x] = Idle]
  /\ UNCHANGED <<doc, snapshot, decided, overtaken, seeded>>

KnowledgeNext == \E x \in Editors : BeginEdit(x) \/ CommitEdit(x) \/ DropEdit(x)

KnowledgeSpec == KnowledgeInit /\ [][KnowledgeNext]_kvars

-----------------------------------------------------------------------------
(* What an editor decided last, or else what the seed is trusted with.     *)
LastDecision(d) ==
  IF decided[d] = NoDoc /\ d \in seeded THEN Said(Shipped) ELSE decided[d]

(* Unless an update landed on a row that had changed since it was read.    *)
(* What goes into a prompt says what somebody approved or published, or is *)
(* a default that nobody has decided on yet and that says what was shipped: *)
(* any change since then has taken it out again.  A document has a snapshot *)
(* of each version, of a default of each but the first, and the last one   *)
(* is its row.                                                             *)
PromptTextDecided ==
  /\ \A d \in _prompt_ready_docs \ overtaken : LastDecision(d) = Said(doc[d])
  /\ \A d \in Docs \ overtaken : Lives(d) =>
       /\ snapshot[d].count = doc[d].version - (IF d \in seeded THEN 1 ELSE 0)
       /\ snapshot[d].count > 0 => snapshot[d].row = doc[d]

=============================================================================
