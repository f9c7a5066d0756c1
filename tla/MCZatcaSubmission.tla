------------------------- MODULE MCZatcaSubmission -------------------------
(* Small instances of ZatcaSubmission for TLC.                              *)
EXTENDS ZatcaSubmission, TLC

CONSTANTS s1, s2, w1, w2
=============================================================================
