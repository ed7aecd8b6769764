------------------------------- MODULE MCAlerts -------------------------------
(* Alerts with two rules.                                                    *)
EXTENDS Alerts

MCTwo == <<"offline", "hot">>
=============================================================================
