------------------------------- MODULE MCBus -------------------------------
(* BusSystem for TLC: two bus types, whose ids are those of                *)
(* EVT_COVERART and EVT_RGD_UPDATE, and small numbers for the rest.        *)
EXTENDS BusSystem

CONSTANTS fd1, fd2

OneFd  == {fd1}
TwoFds == {fd1, fd2}
RouteOnly    == {32}
BothTypes    == {16, 32}
=============================================================================
