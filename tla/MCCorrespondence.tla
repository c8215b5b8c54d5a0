--------------------------- MODULE MCCorrespondence ---------------------------
(***************************************************************************)
(* The e-mail assistant, what it draws on, and the deals that intake takes *)
(* from e-mail, checked in one run: the four parts share no state here, so *)
(* only one of them moves away from its initial state in a behaviour.      *)
(* Inside a part the run keeps apart what cannot disturb each other: the   *)
(* texts of a draft change while its thread has no other draft, and        *)
(* sessions overlap where rows are few.                                    *)
(***************************************************************************)
EXTENDS EmailDesk, KnowledgeBase, CreatorProfiles, MCDealDesk, TLC

vars == <<evars, kvars, cvars, dvars>>

-----------------------------------------------------------------------------
MCIncoming == {{}, {"scam_suspected"}}

Doing(kinds) == \E s \in Clerks : clerk[s].doing \in kinds
Alone(s) == \A o \in Clerks \ {s} : clerk[o] = Resting
Unedited == \A d \in Drafts : Stored(d) => Len(draft[d].versions) = 1 /\ draft[d].status = "pending"
Untemplated == \A g \in Templates : template[g] = NoRow

(* Several threads and templates with one session, one thread with two.    *)
GenerationSlice(s) ==
  /\ Unedited /\ ~Doing({"updating"})
  /\ Ask(s)
  /\ Alone(s) \/ (Untemplated /\ Cardinality(thread') = 1)

(* One draft without a template; an overlap of two updates is the last.    *)
EditSlice(s) ==
  /\ ~Doing({"asking", "inserting"}) /\ crossed = {} /\ doubled = {}
  /\ Untemplated /\ Cardinality(thread) = 1 /\ Cardinality({d \in Drafts : Stored(d)}) = 1
  /\ Handle(s)

TemplateSlice ==
  /\ Unedited /\ doubled = {} /\ ~Doing({"updating", "inserting"})
  /\ Cardinality({s \in Clerks : clerk[s] # Resting}) < 2
  /\ EditTemplates

MailNext ==
  \/ \E s \in Clerks :
       \/ GenerationSlice(s) \/ Answer(s) \/ CommitDraft(s)
       \/ EditSlice(s) \/ CommitUpdate(s) \/ DropWork(s)
  \/ TemplateSlice

-----------------------------------------------------------------------------
PatchOf(text, source, outdated, why, status, reason) ==
  [text |-> text, source |-> source, outdated |-> outdated, why |-> why,
   status |-> status, reason |-> reason]

(* One change at a time, and decisions with or without one.                *)
MCPatches ==
  {PatchOf(t, Unset, Unset, Unset, "unset", FALSE) : t \in Wordings}
  \union {PatchOf(Unset, s, Unset, Unset, "unset", reason) :
            s \in {"pending", "approved"}, reason \in BOOLEAN}
  \union {PatchOf(Unset, Unset, o, w, "unset", FALSE) :
            o \in {Unset, "yes", "no"}, w \in {Unset, "text", "blank"}}
  \union {PatchOf(t, Unset, Unset, Unset, status, TRUE) :
            t \in Wordings, status \in {"in_review", "approved", "published"}}

(* Two sessions only over a document of one or two versions; an update     *)
(* that overtook another one is the last.  A document is created by one    *)
(* session, with one of the two review statuses that patches set, and      *)
(* outdated only as a draft.                                               *)
Overlapping(x) == \E o \in Editors \ {x} : edit[o] # Idle

DocSlice(x) ==
  /\ overtaken = {}
  /\ Overlapping(x) => \A d \in Docs : Lives(d) => doc[d].version <= 2
  /\ BeginEdit(x)
  /\ edit'[x].kind = "create" =>
       /\ ~Overlapping(x) /\ edit'[x].want.source \in {"pending", "approved"}
       /\ edit'[x].want.why => edit'[x].want.status = "draft"

DocsNext == \E x \in Editors : DocSlice(x) \/ CommitEdit(x) \/ DropEdit(x)

-----------------------------------------------------------------------------
(* Two sessions only until there is a second profile.                      *)
ProfileSlice(w) ==
  /\ Cardinality(Made) <= 1 \/ \A o \in Writers : writer[o] = Free
  /\ BeginProfile(w)

VoiceNext == \E w \in Writers : ProfileSlice(w) \/ CommitProfile(w) \/ DropProfile(w)

-----------------------------------------------------------------------------
NothingSeeded == KnowledgeInit /\ seeded = {}

Init == EmailInit /\ KnowledgeInit /\ ProfilesInit /\ DealsInit

Next ==
  \/ NothingSeeded /\ ProfilesInit /\ DealsInit /\ MailNext /\ UNCHANGED <<kvars, cvars, dvars>>
  \/ EmailInit /\ ProfilesInit /\ DealsInit /\ DocsNext /\ UNCHANGED <<evars, cvars, dvars>>
  \/ EmailInit /\ NothingSeeded /\ DealsInit /\ VoiceNext /\ UNCHANGED <<evars, kvars, dvars>>
  \/ EmailInit /\ NothingSeeded /\ ProfilesInit /\ RacesNext /\ UNCHANGED <<evars, kvars, cvars>>

Spec == Init /\ [][Next]_vars

(* The tables of the four parts hold what their columns can. *)
TypeOK == EmailTypeOK /\ KnowledgeTypeOK /\ ProfilesTypeOK /\ DealsTypeOK

Symmetry ==
  Permutations(Drafts) \union Permutations(Clerks) \union Permutations(Writers)
=============================================================================
