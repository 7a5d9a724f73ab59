----------------------------- MODULE MCGameSync -----------------------------
(* Instances of the synchronised game for TLC. *)
EXTENDS GameSync

CONSTANTS s, a1, a2, a3, b1, w, v

\* One client acts, the other watches.
MCWriter == w :> <<a1, a2, a3>> @@ v :> <<>>

\* The same, with less to do.
MCWriter2 == w :> <<a1, a2>> @@ v :> <<>>

\* Both act.
MCBoth == w :> <<a1, a2>> @@ v :> <<b1>>

MCPair == w :> <<a1>> @@ v :> <<b1>>

=============================================================================
