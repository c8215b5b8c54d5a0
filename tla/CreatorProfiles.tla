---------------------------- MODULE CreatorProfiles ----------------------------
(***************************************************************************)
(* The profiles the e-mail assistant writes with (api/routers/email.py,    *)
(* services/creator_ai_settings.py): creators keep profiles of their own,  *)
(* administrators one global default, and a draft takes the profile it     *)
(* names, or the creator's most recently touched one, or the default.      *)
(*                                                                         *)
(* updated_at is written by every UPDATE of a row, the one that records    *)
(* last_used_at included; only the order of the rows by it is kept.        *)
(***************************************************************************)
EXTENDS FiniteSets

CONSTANTS
  Profiles,   \* ids of rows
  Creators,   \* users, and the administrators among them
  Chiefs,
  Voices,     \* what a complete profile may say
  NoProfile,  \* a request that names none, a default's owner
  Writers     \* sessions open at once

ASSUME SomeCreators == Chiefs \subseteq Creators /\ NoProfile \notin Profiles \union Creators

VARIABLES
  profile,  \* rows of creator_ai_profiles
  older,    \* <<p, q>> when the updated_at of p is before that of q
  writer,   \* what each session is about to commit
  forked    \* two administrators worked on the default at the same time

cvars == <<profile, older, writer, forked>>

Unmade == [made |-> FALSE]
Free == [by |-> NoProfile]
Made == {p \in Profiles : profile[p] # Unmade}

ProfilesTypeOK ==
  /\ older \subseteq {<<p, q>> : p \in Made, q \in Made}
  /\ \A p, q \in Made : <<p, q>> \in older <=> p # q /\ <<q, p>> \notin older
  /\ forked \in BOOLEAN
  /\ \A p \in Made : /\ profile[p].owner \in Creators \union {NoProfile}
                     /\ profile[p].active \in BOOLEAN /\ profile[p].voice \in Voices

IsDefault(p) == profile[p].owner = NoProfile
Latest(rows) ==
  LET last == {p \in rows : \A q \in rows \ {p} : <<q, p>> \in older}
  IN  IF last = {} THEN NoProfile ELSE CHOOSE p \in last : TRUE
Touched(p) == {o \in older : p \notin {o[1], o[2]}} \union {<<q, p>> : q \in Made \ {p}}

-----------------------------------------------------------------------------
(* Handlers: the row a session wants to write, and who asks.               *)
Writing(doing, u, p, want) ==
  [by |-> u, doing |-> doing, row |-> p, read |-> profile[p], want |-> want]

NewProfile(owner, voice, active) ==
  [made |-> TRUE, owner |-> owner, active |-> active, voice |-> voice]
Edited(row, voice, active) == [row EXCEPT !.voice = voice, !.active = active]

Unused == Profiles \ (Made \union {writer[w].row : w \in {x \in Writers : writer[x] # Free}})
HasVacant == Unused # {}
Vacant == CHOOSE p \in Unused : TRUE

create_creator_profile(u) ==
  IF ~HasVacant THEN {} ELSE
    {Writing("edit", u, Vacant, NewProfile(u, v, a)) : v \in Voices, a \in BOOLEAN}

update_creator_profile(u) ==
  {Writing("edit", u, p, Edited(profile[p], v, a)) :
     p \in {x \in Made : profile[x].owner = u \/ (IsDefault(x) /\ u \in Chiefs)},
     v \in Voices, a \in BOOLEAN}

(* A slip: the default found is not switched on again. *)
VoiceOnly(u) ==
  LET p == Latest({x \in Made : IsDefault(x)}) IN
  IF u \notin Chiefs THEN {}
  ELSE IF p # NoProfile THEN {Writing("put", u, p, [profile[p] EXCEPT !.voice = v]) : v \in Voices}
  ELSE IF ~HasVacant THEN {}
  ELSE {Writing("put", u, Vacant, NewProfile(NoProfile, v, TRUE)) : v \in Voices}

upsert_global_default_profile(u) ==
  LET p == Latest({x \in Made : IsDefault(x)}) IN
  IF u \notin Chiefs THEN {}
  ELSE IF p # NoProfile
    THEN {Writing("put", u, p, Edited(profile[p], v, TRUE)) : v \in Voices}
  ELSE IF ~HasVacant THEN {}
  ELSE {Writing("put", u, Vacant, NewProfile(NoProfile, v, TRUE)) : v \in Voices}

(* The profile whose last_used_at a request writes, if any.                *)
ProfileUsed(u, choice) ==
  IF choice \in Made /\ profile[choice].active /\ (IsDefault(choice) \/ profile[choice].owner = u)
    THEN choice
    ELSE Latest({p \in Made : profile[p].owner = u /\ profile[p].active})

(* A preview and a draft both commit the new last_used_at.                 *)
resolve_effective_settings(u) ==
  {Writing("use", u, p, profile[p]) :
     p \in {ProfileUsed(u, choice) : choice \in Profiles \union {NoProfile}} \ {NoProfile}}

(* The profile whose settings are in effect for a request that names none. *)
Serving(u) ==
  LET own == ProfileUsed(u, NoProfile) IN
  IF own # NoProfile THEN own ELSE Latest({p \in Made : IsDefault(p) /\ profile[p].active})

-----------------------------------------------------------------------------
ProfilesInit ==
  /\ profile = [p \in Profiles |-> Unmade]
  /\ older = {}
  /\ writer = [w \in Writers |-> Free]
  /\ forked = FALSE

OnDefault(f) == f # Free /\ f.want.owner = NoProfile /\ f.doing # "use"

BeginProfile(w) ==
  /\ writer[w] = Free
  /\ \E u \in Creators :
       \E f \in create_creator_profile(u) \union update_creator_profile(u)
                \union upsert_global_default_profile(u) \union resolve_effective_settings(u) :
         /\ writer' = [writer EXCEPT ![w] = f]
         /\ forked' = (forked \/ (OnDefault(f) /\ \E o \in Writers : OnDefault(writer[o])))
  /\ UNCHANGED <<profile, older>>

CommitProfile(w) ==
  LET f == writer[w]
      row == IF f.read = Unmade THEN f.want
             ELSE [c \in DOMAIN f.want |-> IF f.want[c] = f.read[c] THEN profile[f.row][c] ELSE f.want[c]]
  IN
  /\ f # Free
  /\ profile' = [profile EXCEPT ![f.row] = row]
  /\ older' = IF f.doing = "use" \/ f.want # f.read THEN Touched(f.row) ELSE older
  /\ writer' = [writer EXCEPT ![w] = Free]
  /\ UNCHANGED forked

DropProfile(w) ==
  /\ writer[w] # Free
  /\ writer' = [writer EXCEPT ![w] = Free]
  /\ UNCHANGED <<profile, older, forked>>

ProfilesNext == \E w \in Writers : BeginProfile(w) \/ CommitProfile(w) \/ DropProfile(w)

ProfilesSpec == ProfilesInit /\ [][ProfilesNext]_cvars

-----------------------------------------------------------------------------

(* Once an administrator has put the default, it is the only one, says     *)
(* what was put and serves every creator without a profile of their own,   *)
(* unless another one worked on it at the same time: nothing in the table  *)
(* keeps it unique.  Nobody else's request changes the profile a creator's *)
(* next draft is written with: nobody moves another creator's profiles,    *)
(* nor their order.                                                        *)
ServedProfile ==
  [][\A w \in Writers : CommitProfile(w) =>
       LET f == writer[w] IN
       /\ f.doing = "put" /\ ~forked =>
            /\ {p \in Made : IsDefault(p)}' = {f.row}
            /\ profile'[f.row].voice = f.want.voice
            /\ \A u \in Creators : ProfileUsed(u, NoProfile)' = NoProfile => Serving(u)' = f.row
       /\ \A u \in Creators : Serving(u)' # Serving(u) => f.by = u \/ f.want.owner = NoProfile]_cvars
=============================================================================
