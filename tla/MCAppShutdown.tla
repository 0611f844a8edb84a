--------------------------- MODULE MCAppShutdown ---------------------------
(* AppShutdown with a few connections; the cfgs give them and the timeout. *)
EXTENDS AppShutdown, TLC

Symmetry == Permutations(Conns)

(* The behaviours in which nothing fails: the server is up when ctrl-c is  *)
(* pressed, and it leaves its accept loop because it was notified.         *)
NextServing ==
  /\ Next
  /\ initiated' => serverPc' \in {"serving", "leaving", "stopped"}
  /\ serverPc # "leaving" /\ serverPc' = "leaving" => asyncPc'[Server] = "returned"

SpecServing == Init /\ [][NextServing]_vars

=============================================================================
