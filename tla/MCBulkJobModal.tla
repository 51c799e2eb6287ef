---- MODULE MCBulkJobModal ----
(* Two openings of the dialog, and counts on both sides of the threshold.                     *)
EXTENDS BulkJobModal
====
