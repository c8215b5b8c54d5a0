--------------------------- MODULE ProductLifecycle ---------------------------
(***************************************************************************)
(* What the inventory promises about a single product, whatever the        *)
(* endpoint or the daemon: an item is acquired once; it leaves the         *)
(* inventory as sold or gifted only with a booked sale or gift; it comes   *)
(* back only from a sale and only with a booked return; archiving ends its *)
(* story; its books only grow until it is deleted.  SalesDesk implements   *)
(* this under the mapping at the end of that module.                       *)
(***************************************************************************)
CONSTANTS Items, Entries

VARIABLES place, books

pvars == <<place, books>>

Init ==
  /\ place = [i \in Items |-> "unknown"]
  /\ books = [i \in Items |-> {}]

Owned == {i \in Items : place[i] \in {"inventory", "sold", "gifted", "archived"}}

Acquire(i) ==
  /\ place[i] = "unknown"
  /\ place' = [place EXCEPT ![i] = "inventory"]
  /\ UNCHANGED books

Book(i, e) ==
  /\ i \in Owned
  /\ books' = [books EXCEPT ![i] = @ \union {e}]
  /\ UNCHANGED place

(* One change of place together with the entry that accounts for it. *)
Move(i, from, to, e) ==
  /\ place[i] = from
  /\ place' = [place EXCEPT ![i] = to]
  /\ books' = [books EXCEPT ![i] = @ \union {e}]

Sell(i) == Move(i, "inventory", "sold", "sale")
Gift(i) == Move(i, "inventory", "gifted", "gift")
TakeBack(i) == Move(i, "sold", "inventory", "return")

(* The daemon may archive several items at once. *)
Archive(S) ==
  /\ S \subseteq Owned
  /\ place' = [i \in Items |-> IF i \in S THEN "archived" ELSE place[i]]
  /\ UNCHANGED books

Forget(i) ==
  /\ i \in Owned
  /\ place' = [place EXCEPT ![i] = "forgotten"]
  /\ books' = [books EXCEPT ![i] = {}]

Next ==
  \/ \E i \in Items :
       \/ Acquire(i) \/ Forget(i) \/ Sell(i) \/ Gift(i) \/ TakeBack(i)
       \/ \E e \in Entries : Book(i, e)
  \/ \E S \in SUBSET Items : Archive(S)

Spec == Init /\ [][Next]_pvars
=============================================================================
