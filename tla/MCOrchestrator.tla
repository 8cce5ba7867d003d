--------------------------- MODULE MCOrchestrator ---------------------------
(* Finite instances of Orchestrator. *)
EXTENDS Orchestrator, TLC

(* Shells are interchangeable; safety runs only. *)
Symmetry == Permutations(Shells)

(* What the future depends on.  transcript is a history that no guard      *)
(* reads: the liveness run, whose property does not read it either, goes   *)
(* without.                                                                *)
Present == <<users, tasks, token_rx, socket, task_rx, worker, thread>>

(* The safety run keeps the transcripts of the answers somebody waits for. *)
(* The others get no more marks, and were checked while they did.          *)
Watched ==
  <<Present, [r \in Ids |-> IF Listening(r) THEN transcript[r] ELSE <<>>]>>
=============================================================================
