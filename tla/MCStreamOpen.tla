---------------------------- MODULE MCStreamOpen ----------------------------
(* Small instances of StreamOpen for TLC.                                  *)
EXTENDS StreamOpen

\* Two of the refusals a server answers, in preferredOpenErrorLocked's order.
Refusals == <<"policy denied", "general failure">>
=============================================================================
