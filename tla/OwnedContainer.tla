--------------------------- MODULE OwnedContainer ---------------------------
(***************************************************************************)
(* What the fixture host promises about the one container it owns: it asks *)
(* the Docker daemon for at most one container, and it reports a clean     *)
(* end only when that container does not exist and cannot come into        *)
(* existence any more.  FixtureRun implements this.                        *)
(***************************************************************************)
VARIABLES
    container,   \* absent, requested (the daemon may still create it), present
    report       \* "", clean, unclean

Init == container = "absent" /\ report = ""

\* The create is sent, before anything is reported; the daemon executes it
\* now, later, or never.
Request ==
    /\ container = "absent" /\ report = ""
    /\ container' \in {"requested", "present"}
    /\ UNCHANGED report

Appear == container = "requested" /\ container' = "present" /\ UNCHANGED report
Vanish == container \in {"requested", "present"} /\ container' = "absent" /\ UNCHANGED report

\* The end, reported once.
Report ==
    /\ report = ""
    /\ report' \in IF container = "absent" THEN {"clean", "unclean"} ELSE {"unclean"}
    /\ UNCHANGED container

Next == Request \/ Appear \/ Vanish \/ Report

Spec == Init /\ [][Next]_<<container, report>>
=============================================================================
