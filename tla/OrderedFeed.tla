---------------------------- MODULE OrderedFeed ----------------------------
(***************************************************************************)
(* What one lane of the plugin's consumer promises to nodeos, with nothing *)
(* said about queues, locks or threads: the entries handed over by the     *)
(* chain signals are numbered in the order they are accepted, and the      *)
(* database receives some of them, each at most once and never out of      *)
(* order.  Entries may be skipped: consumer.hpp logs a failed database     *)
(* call and drops the entry.                                               *)
(***************************************************************************)
EXTENDS Naturals, Sequences

VARIABLES
  accepted,    \* how many entries were accepted; they are 1..accepted
  persisted    \* the entries the database took, in the order it took them

feed == <<accepted, persisted>>

Init == accepted = 0 /\ persisted = <<>>

Accept == accepted' = accepted + 1 /\ UNCHANGED persisted

\* n is later than everything the database has taken so far.
IsLater(n) == \A i \in DOMAIN persisted : persisted[i] < n

Persist ==
  /\ \E n \in 1..accepted : IsLater(n) /\ persisted' = Append(persisted, n)
  /\ UNCHANGED accepted

Next == Accept \/ Persist

Spec == Init /\ [][Next]_feed
=============================================================================
