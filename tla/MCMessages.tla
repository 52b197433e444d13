----------------------------- MODULE MCMessages -----------------------------
(* Two parameters whose ranges do not meet, one of which may be switched   *)
(* off, and requests of every kind.                                        *)
EXTENDS Messages

MCParams == <<[name |-> "SYS_ID", min |-> 1, max |-> 2, off |-> FALSE],
              [name |-> "T_gps", min |-> 4, max |-> 5, off |-> TRUE]>>

Request(kind, name, value, target) ==
  [kind |-> kind, name |-> name, value |-> value, target |-> target]

MCRequests == {Request("set", "SYS_ID", 1, 20), Request("set", "T_gps", 6, 20),
               Request("set", "T_gps", 0, 9),
               Request("list", "SYS_ID", 0, 20), Request("read", "SYS_ID", 0, 20)}
=============================================================================
