---------------------------- MODULE MCProcessTree ----------------------------
(***************************************************************************)
(* A small instance of ProcessTree for TLC: a root and two more processes,  *)
(* a sensitive file, a risky command, node, and a remote host.              *)
(***************************************************************************)
EXTENDS ProcessTree, TLC

CONSTANTS secret, curl, nodeApp, remote, root, child1, child2

MCCapabilityOf ==
  (secret :> "reads") @@ (curl :> "processes") @@ (nodeApp :> "processes")
    @@ (remote :> "sockets")

Under(reads, processes, sockets) ==
  [reads |-> reads, processes |-> processes, sockets |-> sockets]

MCPostures ==
  { Under("normal", "normal", "normal"),
    Under("sealed", "guarded", "normal"),
    Under("normal", "restricted", "sealed") }

Symmetry == Permutations({child1, child2}) \cup Permutations(Session)
=============================================================================
