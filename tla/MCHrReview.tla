------------------------------- MODULE MCHrReview -------------------------------
EXTENDS HrReview
=============================================================================
