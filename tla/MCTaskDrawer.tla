---- MODULE MCTaskDrawer ----
(* A small console and its drawer: one query scanned window by window, one paged by a cursor. *)
EXTENDS TaskDrawer
CONSTANTS scanned, listed
====
