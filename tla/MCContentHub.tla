----------------------------- MODULE MCContentHub -----------------------------
(* ContentHub for TLC: the task rows are interchangeable, and a race for   *)
(* publication starts where SerialSpec leads after four requests.          *)
EXTENDS ContentHub, TLC

TaskSlots == Permutations(Tasks)

(* An item that may be published: edited, approved, its tasks done and its *)
(* assets approved.                                                        *)
ReadyInit ==
  /\ item = [NewItem EXCEPT !.life = "live", !.status = "edited", !.wf = "approved",
                            !.linked = TRUE, !.score = 100]
  /\ task = [t \in Tasks |-> [life |-> "live", done |-> TRUE, blocks |-> TRUE]]
  /\ attached = [a \in Attachments |-> "approved"]
  /\ strict = FALSE
  /\ pending = [r \in Authors |-> {}]

ReadySpec == ReadyInit /\ [][RaceNext /\ UNCHANGED strict]_hvars
=============================================================================
