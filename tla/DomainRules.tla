----------------------------- MODULE DomainRules -----------------------------
(***************************************************************************)
(* The status machines of single domains and the side effects a status     *)
(* has (backend/app/services/domain_rules.py).                             *)
(***************************************************************************)

ProductStatus ==
  {"active", "sold", "gifted", "returned", "broken", "archived"}

(* A slip: a gift can be returned. *)
GiftsReturn ==
  [active   |-> {"sold", "gifted", "returned", "broken", "archived"},
   sold     |-> {"returned", "archived"},
   gifted   |-> {"returned", "archived"},
   returned |-> {"active", "broken", "archived"},
   broken   |-> {"returned", "archived"},
   archived |-> {}]

PRODUCT_STATUS_TRANSITIONS ==
  [active   |-> {"sold", "gifted", "returned", "broken", "archived"},
   sold     |-> {"returned", "archived"},
   gifted   |-> {"archived"},
   returned |-> {"active", "broken", "archived"},
   broken   |-> {"returned", "archived"},
   archived |-> {}]

(* purchase has no status of its own: only the transactions endpoint books it. *)
TransactionType == {"purchase", "sale", "gift", "return", "repair"}

(* The transactions a request for the status books: none or exactly one. *)
product_status_side_effect(status) ==
  CASE status = "sold"     -> {"sale"}
    [] status = "gifted"   -> {"gift"}
    [] status = "returned" -> {"return"}
    [] status = "broken"   -> {"repair"}
    [] OTHER               -> {}

(* A request for the current status passes. hasAmount: the request carries *)
(* an amount, which only a sale requires.                                  *)
validate_product_status_change(current, target, hasAmount) ==
  /\ current = target \/ target \in PRODUCT_STATUS_TRANSITIONS[current]
  /\ target = "sold" => hasAmount
=============================================================================
