---------------------------- MODULE MCServerStore ----------------------------
(***************************************************************************)
(* ServerStore with three records of pages, one more than the limiter lets *)
(* through in its window of three half seconds, one read, one page and one *)
(* note: a read can be overtaken, the limit reached, the case synced from  *)
(* before and from after the note, and the process die at any point of it all. *)
(***************************************************************************)
EXTENDS ServerStore
=============================================================================
