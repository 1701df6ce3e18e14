--------------------------- MODULE MCDashboardRead ---------------------------
(***************************************************************************)
(* The instances of MCDayCountFlush with a dashboard page open beside them.*)
(***************************************************************************)
EXTENDS DashboardRead, MCDayCountFlush
=============================================================================
