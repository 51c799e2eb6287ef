---- MODULE MCJobFeed ----
(* One tracker and one more consumer of the stream in a browser tab. *)
EXTENDS JobFeed
MCSettled == {"done"}
====
