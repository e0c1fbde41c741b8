---------------------------- MODULE MCSubmission ----------------------------
(* Model checking of Submission.                                           *)
EXTENDS Submission
=============================================================================
