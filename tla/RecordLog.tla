----------------------------- MODULE RecordLog -----------------------------
(***************************************************************************)
(* What the vehicle log promises, with no card, ring or search: a bounded  *)
(* set of time stamped records.  A new record is newer than all others and *)
(* costs an old one only when there is no room; whatever happens between   *)
(* two records, power losses included, costs at most one record; only an   *)
(* erase costs more.                                                       *)
(***************************************************************************)
EXTENDS Integers, FiniteSets

CONSTANTS Capacity, Stamps

VARIABLE log    (* the stamps of the records that are stored *)

Init == log = {}

Append(t) ==
  /\ \A s \in log : s < t
  /\ IF Cardinality(log) < Capacity
     THEN log' = log \cup {t}
     ELSE \E old \in log : log' = (log \ {old}) \cup {t}

LoseOne == \E lost \in log : log' = log \ {lost}

Erase == log' = {}

Next == (\E t \in Stamps : Append(t)) \/ LoseOne \/ Erase

Spec == Init /\ [][Next]_log
=============================================================================
