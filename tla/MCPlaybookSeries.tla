--------------------------- MODULE MCPlaybookSeries ---------------------------
(* One shipped series and one of the operators' own. *)
EXTENDS PlaybookSeries

Body(newSeries, active, system, source) ==
    [newSeries |-> newSeries, is_active |-> active, is_system |-> system, source |-> source]

\* A new series, a version that claims to be active and a system one, and an
\* imported draft.
MCBodies == {Body(TRUE, FALSE, FALSE, "manual"), Body(FALSE, TRUE, TRUE, "manual"),
             Body(FALSE, FALSE, FALSE, "imported")}
=============================================================================
