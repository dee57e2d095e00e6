------------------------------ MODULE MCResults ------------------------------
(* Three emails, so that a page of one or two is followed by another.      *)
EXTENDS BulkResults, TLC
CONSTANTS e1, e2, e3
MCEmails == {e1, e2, e3}
=============================================================================
