------------------------- MODULE MCPluginLifecycle -------------------------
(***************************************************************************)
(* PluginLifecycle for TLC: two transactions, the second of which sets the *)
(* ABI of eosio, and options that differ in everything a run can be given. *)
(***************************************************************************)
EXTENDS PluginLifecycle

Users == {"t", "u"}
Upgrading == {"u"}

Given(start, filterOn, filterOut, traceStart) ==
  [uri |-> "given", start |-> start, actionFilterOn |-> filterOn,
   contractFilterOut |-> filterOut, traceStart |-> traceStart]

Everything == Given(0, {"t", "u", "onblock"}, {}, "")

\* No uri, an empty one, each block-start, no filter, and both filters and a
\* trace to start with.
SomeConfigs ==
  {[Everything EXCEPT !.uri = u] : u \in {"absent", "empty", "given"}}
    \cup {[Everything EXCEPT !.start = 1], Given(2, {}, {}, ""), Given(0, {"t"}, {"t"}, "u")}
=============================================================================
