---------------------------- MODULE MCApiProcess ----------------------------
(* Two requests: one can be in the pool while the other is accepted, decided *)
(* or written, which is all that two handlers can do to each other.          *)
EXTENDS ApiProcess

\* The process has ended.
Ended == exit # "running" /\ UNCHANGED vars

MCNext == Next \/ Ended
MCSpec == Init /\ [][MCNext]_vars

=============================================================================
