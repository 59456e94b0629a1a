-------------------------- MODULE ResolverProperties --------------------------
(***************************************************************************)
(* What the resolver of Compile.tla should guarantee.                      *)
(*                                                                         *)
(* Most invariants are stated when Idle, between two calls of the graph:   *)
(* these are the states the resolver looks at.                             *)
(***************************************************************************)
EXTENDS Compile

LiveSolved == {n \in Node : Live(n) /\ metadata[n] # None}

(* The dependencies a node asks for.  Edges without a requirement exist    *)
(* too: the loop of compile_roots may solve a dependency that an earlier   *)
(* turn of it made the node drop, and add_dist then draws the edge again   *)
(* without one (compile.py:276-301). *)
Asks(n) == {d \in DOMAIN deps[n] : deps[n][d] # None}

(* perform_compile returns solutions only: every step of the resolver is a *)
(* step of Resolution (compile.py:332, "the solution and root nodes used   *)
(* to generate it"). *)
Promise == INSTANCE Resolution WITH
  asked <- {Sources[i] : i \in DOMAIN Sources},
  limits <- IF AllPinned(input.constraints)
            THEN UNION {SourceReqs(input.constraints[i])
                          : i \in DOMAIN input.constraints}
            ELSE {},
  chosen <- [p \in Project |-> IF nodes[p] = None THEN None
                               ELSE metadata[nodes[p]]],
  verdict <- IF outcome \in {"running", "solved"} THEN outcome ELSE "failed"
ReturnsSolutions == Promise!Spec

(* A finished resolution that is called solved is a solution: the last     *)
(* state of ReturnsSolutions, for indexes too large to check all of it.    *)
SolvedIsSolution == Finished /\ outcome = "solved" => Promise!IsSolution

(* The main loop stops and descents are cut short on the flag complete:    *)
(* "Whether this node and all of its dependency are completely solved"     *)
(* (dists.py:39).  Whatever conflicts and walkbacks did in between, a      *)
(* registered node never carries the flag while something it asks for is   *)
(* unsolved or does not carry it. *)
CompleteMeansSolved ==
  Idle => \A n \in LiveSolved : complete[n] =>
            \A d \in Asks(n) : metadata[d] # None /\ complete[d]

(* The nodes a solved node asks for are registered and know it as a        *)
(* reverse dependency: nothing that is still asked for is forgotten when   *)
(* the graph is pruned (dists.py remove_dists) or extended (add_dist).     *)
EdgesMutual ==
  Idle => \A n \in LiveSolved : \A d \in Asks(n) : Live(d) /\ n \in rdeps[d]

(* Every requirement of a solved node has its edge in the graph.  The      *)
(* conflict handling of a dependency may remove nodes in the middle of the *)
(* loop that draws the edges (dists.py _update_dists).                     *)
RequirementsHaveEdges ==
  Idle /\ outcome = "running" =>
    \A n \in LiveSolved : \A r \in Active(n) :
      nodes[r.name] # None /\ nodes[r.name] \in DOMAIN deps[n]

(* All the requirements of the version a node has, for any extra. *)
Own(n) == UNION {{metadata[n].requires[e][i] : i \in DOMAIN metadata[n].requires[e]}
                   : e \in DOMAIN metadata[n].requires}

(* An edge never carries a requirement of a version its source no longer   *)
(* has: a walkback to another version drops the requirements of the old    *)
(* one (dists.py remove_dists), those drawn for extras included.           *)
ReasonsCurrent ==
  Idle => \A n \in LiveSolved : \A d \in Asks(n) : \E r \in Own(n) :
            /\ r.name = KeyOf(d) /\ r.spec = deps[n][d].spec
            /\ r.extras \subseteq deps[n][d].extras

(* Between two steps of the resolver every solved node fits all the        *)
(* requirements of all the registered nodes that require it at that        *)
(* moment, extras included: a requirement that arrives later unsolves it   *)
(* (dists.py add_dist, build_constraints).  Circular indexes are left out: *)
(* there add_dist puts the node it works on back into the collection after *)
(* a conflict removed it (dists.py:314), unknown to its dependencies, and  *)
(* its requirements are missed.                                            *)
SolutionsFitRequesters ==
  Idle /\ outcome \in {"running", "solved"} =>
    \A n \in LiveSolved : \A m \in rdeps[n] \cap LiveSolved :
      metadata[n].version # None /\ RequestersSolved(m) =>
        \A r \in Active(m) :
          r.name = KeyOf(n) => Contains(r.spec, metadata[n].version)

(* remove_dists takes a node out of the collection only when no node       *)
(* requires it any more, also when a removal sets off other removals       *)
(* (dists.py:339).  Indexes where a removed node may be blamed for a later *)
(* conflict are left out (the stale requester of the README). *)
RemovesOnlyOrphans ==
  [][\A k \in Key : nodes[k] # None /\ nodes'[k] = None =>
       ~\E r \in rdeps[nodes[k]] : Live(r)]_allVars

(* While a walkback is under way, the version it walked back from is not   *)
(* selected again: "add a new constraint to keep the same version from     *)
(* being selected" (compile.py:165).  Circular indexes are left out, as    *)
(* above: a replaced node may take the excluded one with it. *)
BlockedStaysOut ==
  Idle /\ outcome = "running" =>
    \A i \in DOMAIN calls : calls[i].op = "finally" =>
      LET bad == metadata[calls[i].node] IN
      bad # None =>
        \A n \in LiveSolved : \A r \in SourceReqs(bad) :
          r.name = KeyOf(n) => Contains(r.spec, metadata[n].version)

(* Nested walkbacks are limited by max_downgrade, although every descent   *)
(* starts with a fresh walkback budget (compile.py:124).                   *)
WalkbackBounded ==
  Cardinality({i \in DOMAIN calls : calls[i].op = "finally"}) <= MaxDowngrade

(* Whichever way perform_compile ends, no do-not-use entry is left that    *)
(* restricts the result (compile.py:239). *)
NoBlockLeft ==
  Finished => \A pv \in DOMAIN DoNotUse :
                nodes[DoNotUse[pv]] # None =>
                  metadata[nodes[DoNotUse[pv]]] = None

(* Once the main loop has found every root complete they stay complete,    *)
(* also when the constraints join the results (compile.py                  *)
(* _add_constraints; tests/test_compile.py:37 "All roots should be         *)
(* complete."). *)
RootsComplete ==
  Finished /\ outcome = "solved" => \A n \in roots : complete[n]

(* "Reverse dependency {rdep} should already have a solution." where extras *)
(* reads a requirer (dists.py:65), and the like where build_constraints    *)
(* does (dists.py:82). *)
NoAssertionError == outcome # "AssertionError"

(* "Iteration limit hit. This is a bug in req-compile." (compile.py:379).  *)
NoIterationLimit == outcome # "IterationLimit"

(* Completeness travels up the reverse dependencies, around every cycle of *)
(* requirements, and comes to rest: update_complete calls itself for a     *)
(* node only if the flag of the node below changed, and never is inside    *)
(* itself more often than there are objects (dists.py:105-138).  It speaks *)
(* of update_complete alone: add_dist may apply extras around a cycle      *)
(* without end (README). *)
CompletenessSettles ==
  Cardinality({i \in DOMAIN stack : stack[i].op = "completes"})
    <= Cardinality({n \in Node : n[2] <= born[KeyOf(n)]})

(* perform_compile always returns or raises.                               *)
Terminates == <>Finished
=============================================================================
