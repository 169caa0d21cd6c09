----------------------- MODULE MCAssessmentLifecycle ------------------------
(* Two cancel requests race the one worker that drives the assessment.      *)
EXTENDS AssessmentLifecycle

CONSTANTS operator1, operator2, driver

MCCancellers == {operator1, operator2}
MCDrivers == {driver}
=============================================================================
