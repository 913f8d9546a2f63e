----------------------------- MODULE PipelineClaims -----------------------------
(***************************************************************************)
(* What a docstring of alerts.py says of the background jobs, and what     *)
(* Pipeline does not do.                                                   *)
(***************************************************************************)
EXTENDS Pipeline

(* alerts.py:55: maybe_alert_on_impact is "Called from the pipeline after  *)
(* each impact assessment is persisted".  The commit comes after all of    *)
(* the alerts, and may never come: a job ends, and what it alerted of is   *)
(* not in the database.                                                    *)
AlertsArePersisted ==
    \A a \in alerts : ~Alive(a.circular) => a \in assessments
================================================================================
