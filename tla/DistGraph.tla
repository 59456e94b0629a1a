------------------------------ MODULE DistGraph ------------------------------
(***************************************************************************)
(* The dependency graph of a resolution: DependencyNode and                *)
(* DistributionCollection of req_compile/dists.py.                         *)
(*                                                                         *)
(* add_dist, _update_dists, remove_dists and update_complete call one      *)
(* another and each of them changes the graph while its caller is in the   *)
(* middle of a loop.  The Python call stack is therefore part of the       *)
(* state: stack holds one frame per active call or loop, the innermost     *)
(* first, and every action executes one step of the innermost frame.       *)
(* Between two calls of its client the stack is empty.                     *)
(*                                                                         *)
(* A node object is a pair <<key, i>>, the i-th object created for that    *)
(* key: an object that was removed from the collection stays reachable     *)
(* from whoever still holds it, while the collection may have created      *)
(* another one for the same key.                                           *)
(***************************************************************************)
EXTENDS Requirements

CONSTANTS
  Rank,        \* position of a key in the order of strings
  MaxObjects,  \* bound: how many objects each key can have had
  MaxStack     \* Python's recursion limit, in frames of this module

ASSUME RankAssumption == Rank \in [Key -> Nat]
ASSUME MaxObjectsAssumption == MaxObjects \in [Key -> Nat]
ASSUME MaxStackAssumption == MaxStack \in Nat

Node == UNION {{k} \X (1..MaxObjects[k]) : k \in Key}

ASSUME NoNodeAssumption == None \notin Node
ASSUME NoErrorAssumption == None \notin {"AssertionError", "RecursionError"}

VARIABLES
  nodes,     \* DistributionCollection.nodes: key -> object or None
  born,      \* how many objects each key has had
  metadata,  \* DependencyNode.metadata: the solution of a node or None
  deps,      \* DependencyNode.dependencies: object -> reason or None
  rdeps,     \* DependencyNode.reverse_deps: set of objects
  complete,  \* DependencyNode.complete
  stack,     \* active calls and loops, the innermost first
  error      \* the exception that leaves the graph, or None

graph == <<nodes, born, metadata, deps, rdeps, complete>>
vars == <<graph, stack, error>>

-----------------------------------------------------------------------------
(* Frames *)

AddFrame == [op : {"add"}, key : Key, dist : Dist \cup {None},
             source : Node \cup {None}, reason : Req \cup {None}]
RestoreFrame == [op : {"restore"}, node : Node]
UpdateFrame == [op : {"update"}, node : Node, dist : Dist]
ExtrasFrame == [op : {"extras"}, node : Node, dist : Dist,
                todo : SUBSET (Extra \cup {None})]
RequiresFrame == [op : {"requires"}, node : Node, todo : Seq(Req)]
CompleteFrame == [op : {"complete"}, node : Node]
CompletesFrame == [op : {"completes"}, todo : SUBSET Node]
RemoveFrame == [op : {"remove"}, node : Node, upstream : BOOLEAN]
DropFrame == [op : {"drop"}, node : Node, todo : SUBSET Node,
              upstream : BOOLEAN]

Frame == AddFrame \cup RestoreFrame \cup UpdateFrame \cup ExtrasFrame
           \cup RequiresFrame \cup CompleteFrame \cup CompletesFrame
           \cup RemoveFrame \cup DropFrame

Add(k, d, src, why) == [op |-> "add", key |-> k, dist |-> d,
                        source |-> src, reason |-> why]
Remove(n, up) == [op |-> "remove", node |-> n, upstream |-> up]
Complete(n) == [op |-> "complete", node |-> n]

Top == Head(stack)
InCall(op) == stack # <<>> /\ Len(stack) <= MaxStack /\ Top.op = op
(* Return from the innermost frame, first running the frames fs. *)
Then(fs) == stack' = fs \o Tail(stack)
Return == stack' = Tail(stack)

(* An exception: every active call of the graph is abandoned where it is. *)
Fail(ex) == /\ error' = ex
            /\ stack' = <<>>
AssertFails == Fail("AssertionError")

TooManyFrames ==
  /\ stack # <<>> /\ Len(stack) > MaxStack
  /\ Fail("RecursionError")
  /\ UNCHANGED graph

-----------------------------------------------------------------------------
(* State functions *)

Init ==
  /\ nodes = [k \in Key |-> None]
  /\ born = [k \in Key |-> 0]
  /\ metadata = [n \in Node |-> None]
  /\ deps = [n \in Node |-> [m \in {} |-> None]]
  /\ rdeps = [n \in Node |-> {}]
  /\ complete = [n \in Node |-> FALSE]
  /\ stack = <<>>
  /\ error = None

KeyOf(n) == n[1]
Live(n) == nodes[KeyOf(n)] = n

(* DependencyNode.__lt__: the order of keys.  Objects of one key are not   *)
(* ordered by it, any of them may come first.                              *)
First(n, S) == n \in S /\ \A m \in S : Rank[KeyOf(n)] <= Rank[KeyOf(m)]

(* The object add_dist works on: the registered one or a new one. *)
Target(k) == IF nodes[k] # None THEN nodes[k] ELSE <<k, born[k] + 1>>

(* The property extras asserts that every reverse dependency is solved. *)
RequestersSolved(n) == \A r \in rdeps[n] : metadata[r] # None
ReasonExtras(why) == IF why = None THEN {} ELSE why.extras
Extras(n) == UNION {ReasonExtras(deps[r][n]) : r \in rdeps[n]}

SolvedDeps(n) == {d \in DOMAIN deps[n] : metadata[d] # None}
(* Everything reachable from n over solved nodes. *)
SolvedReach(n) ==
  LET closure[S \in SUBSET Node] ==
        LET T == S \cup UNION {SolvedDeps(m) : m \in S}
        IN  IF T = S THEN S ELSE closure[T]
  IN  closure[{n}]
(* _get_cycle: the strongly connected component of n in the solved graph,  *)
(* and n itself where update_complete falls back on it.                    *)
Cycle(n) == IF metadata[n] = None
            THEN {n}
            ELSE {m \in SolvedReach(n) : n \in SolvedReach(m)}
(* Mutant: direct dependencies only. *)
SolvedBelow(n) ==
  metadata[n] # None /\ \A d \in DOMAIN deps[n] : metadata[d] # None
NowComplete(n) ==
  metadata[n] # None /\ \A d \in DOMAIN deps[n] \ Cycle(n) : complete[d]

-----------------------------------------------------------------------------
(* add_dist *)

(* What add_dist finds as node.metadata, a new object being created with   *)
(* the distribution it is given.                                           *)
Held(f) == IF nodes[f.key] = None THEN f.dist ELSE metadata[Target(f.key)]

AsksExtras(f) == f.reason # None /\ Held(f) # None /\ f.reason.extras # {}

(* The distribution to (re)apply: the given one or, when the reason asks   *)
(* for an extra nobody asked for before, the one already held.             *)
(* Mutant: the held distribution is never applied again. *)
OnlyGiven(f) == f.dist
ToApply(f) ==
  IF /\ f.dist = None /\ AsksExtras(f)
     /\ ~(f.reason.extras \subseteq Extras(Target(f.key)))
  THEN Held(f) ELSE f.dist

(* Mutant: a requirement that arrives later is not compared. *)
NeverConflicts(f) == FALSE
Conflicts(f) ==
  /\ f.reason # None
  /\ Held(f) # None
  /\ Held(f).version # None
  /\ ~Contains(f.reason.spec, Held(f).version)

(* Look the node up or create it, and draw the edge from the source.       *)
Register(f) ==
  LET n == Target(f.key) IN
  /\ nodes[f.key] = None => born[f.key] < MaxObjects[f.key]
  /\ nodes' = [nodes EXCEPT ![f.key] = n]
  /\ born' = [born EXCEPT ![f.key] = IF nodes[f.key] = None THEN @ + 1 ELSE @]
  /\ metadata' = [metadata EXCEPT ![n] = Held(f)]

(* dict[n] = x *)
Put(dict, n, x) == [m \in DOMAIN dict \cup {n} |-> IF m = n THEN x ELSE dict[m]]

(* Mutants: the edge is drawn on one side only, or with the distribution   *)
(* in the place of the reason. *)
LinkForward(f) ==
  LET n == Target(f.key) IN
  IF f.source # None /\ nodes'[KeyOf(f.source)] # None
  THEN deps' = [deps EXCEPT ![f.source] = Put(@, n, f.reason)] /\ UNCHANGED rdeps
  ELSE UNCHANGED <<rdeps, deps>>
LinkBackward(f) ==
  LET n == Target(f.key) IN
  IF f.source # None /\ nodes'[KeyOf(f.source)] # None
  THEN rdeps' = [rdeps EXCEPT ![n] = @ \cup {f.source}] /\ UNCHANGED deps
  ELSE UNCHANGED <<rdeps, deps>>
LinkDist(f) ==
  LET n == Target(f.key) IN
  IF f.source # None /\ nodes'[KeyOf(f.source)] # None
  THEN /\ rdeps' = [rdeps EXCEPT ![n] = @ \cup {f.source}]
       /\ deps' = [deps EXCEPT ![f.source] = Put(@, n, f.dist)]
  ELSE UNCHANGED <<rdeps, deps>>
LinkSource(f) ==
  LET n == Target(f.key) IN
  IF f.source # None /\ nodes'[KeyOf(f.source)] # None
  THEN /\ rdeps' = [rdeps EXCEPT ![n] = @ \cup {f.source}]
       /\ deps' = [deps EXCEPT ![f.source] = Put(@, n, f.reason)]
  ELSE UNCHANGED <<rdeps, deps>>

AddAssertFails ==
  /\ InCall("add")
  /\ AsksExtras(Top) /\ ~RequestersSolved(Target(Top.key))
  /\ Register(Top)
  /\ AssertFails
  /\ UNCHANGED <<deps, rdeps, complete>>

AddDist ==
  /\ InCall("add")
  /\ AsksExtras(Top) => RequestersSolved(Target(Top.key))
  /\ Register(Top)
  /\ LinkSource(Top)
  /\ LET n == Target(Top.key) IN
     \/ /\ Conflicts(Top)
        /\ Then(<<Remove(n, FALSE)>>)
     \/ /\ ~Conflicts(Top) /\ ToApply(Top) # None
        /\ Then(<<[op |-> "update", node |-> n, dist |-> ToApply(Top)],
                  [op |-> "restore", node |-> n]>>)
     \/ /\ ~Conflicts(Top) /\ ToApply(Top) = None
        /\ Return
  /\ UNCHANGED <<complete, error>>

(* The node may have been removed while its dependencies were added. *)
Restore ==
  /\ InCall("restore")
  /\ LET n == Top.node IN
     nodes' = [nodes EXCEPT ![KeyOf(n)] = IF @ = None THEN n ELSE @]
  /\ Return
  /\ UNCHANGED <<born, metadata, deps, rdeps, complete, error>>

-----------------------------------------------------------------------------
(* _update_dists *)

UpdateDists ==
  /\ InCall("update")
  /\ LET n == Top.node IN
     /\ metadata' = [metadata EXCEPT ![n] = Top.dist]
     /\ \/ /\ \A r \in rdeps[n] : metadata'[r] # None
           /\ Then(<<[op |-> "extras", node |-> n, dist |-> Top.dist,
                      todo |-> Extras(n) \cup {None}],
                     Complete(n)>>)
           /\ UNCHANGED error
        \/ /\ \E r \in rdeps[n] : metadata'[r] = None
           /\ AssertFails
  /\ UNCHANGED <<nodes, born, deps, rdeps, complete>>

(* for extra in list({None} | node.extras), in the order of a set.         *)
NextExtra ==
  /\ InCall("extras")
  /\ LET n == Top.node IN
     \E e \in Top.todo :
       LET rest == [Top EXCEPT !.todo = @ \ {e}] IN
       \/ /\ e # None /\ ~RequestersSolved(n)
          /\ AssertFails
       \/ /\ e # None /\ RequestersSolved(n) /\ e \notin Extras(n)
          /\ Then(<<rest>>)
          /\ UNCHANGED error
       \/ /\ e = None \/ (RequestersSolved(n) /\ e \in Extras(n))
          /\ Then(<<[op |-> "requires", node |-> n,
                     todo |-> Top.dist.requires[e]], rest>>)
          /\ UNCHANGED error
  /\ UNCHANGED graph

LastExtra ==
  /\ InCall("extras") /\ Top.todo = {}
  /\ Return
  /\ UNCHANGED <<graph, error>>

(* for req in metadata.requires(extra): self.add_dist(req.name, node, req) *)
NextRequirement ==
  /\ InCall("requires")
  /\ IF Top.todo = <<>>
     THEN Return
     ELSE LET req == Head(Top.todo) IN
          Then(<<Add(req.name, None, Top.node, req),
                 [Top EXCEPT !.todo = Tail(@)]>>)
  /\ UNCHANGED <<graph, error>>

-----------------------------------------------------------------------------
(* update_complete *)

(* Mutant: the reverse dependencies are updated in any case. *)
UpdateAlways ==
  /\ InCall("complete")
  /\ complete' = [complete EXCEPT ![Top.node] = NowComplete(Top.node)]
  /\ Then(<<[op |-> "completes", todo |-> rdeps[Top.node]]>>)
  /\ UNCHANGED <<nodes, born, metadata, deps, rdeps, error>>

UpdateComplete ==
  /\ InCall("complete")
  /\ LET n == Top.node IN
     /\ complete' = [complete EXCEPT ![n] = NowComplete(n)]
     /\ IF complete[n] = NowComplete(n)
        THEN Return
        ELSE Then(<<[op |-> "completes", todo |-> rdeps[n]]>>)
  /\ UNCHANGED <<nodes, born, metadata, deps, rdeps, error>>

(* for reverse_dep in sorted(self.reverse_deps) *)
CompleteNext ==
  /\ InCall("completes")
  /\ \/ /\ Top.todo = {}
        /\ Return
     \/ \E n \in Top.todo :
          /\ First(n, Top.todo)
          /\ Then(<<Complete(n), [Top EXCEPT !.todo = @ \ {n}]>>)
  /\ UNCHANGED <<graph, error>>

-----------------------------------------------------------------------------
(* remove_dists *)

AlreadyRemoved ==
  /\ InCall("remove") /\ nodes[KeyOf(Top.node)] = None
  /\ Return
  /\ UNCHANGED <<graph, error>>

RemoveDists ==
  /\ InCall("remove") /\ nodes[KeyOf(Top.node)] # None
  /\ LET n == Top.node IN
     /\ IF Top.upstream
        THEN /\ nodes' = [nodes EXCEPT ![KeyOf(n)] = None]
             /\ deps' = [r \in Node |->
                           IF r \in rdeps[n]
                           THEN [m \in DOMAIN deps[r] \ {n} |-> deps[r][m]]
                           ELSE deps[r]]
        ELSE UNCHANGED <<nodes, deps>>
     /\ Then(<<[op |-> "drop", node |-> n, todo |-> DOMAIN deps'[n],
                upstream |-> Top.upstream]>>)
  /\ UNCHANGED <<born, metadata, rdeps, complete, error>>

(* Mutant: whatever else requires it. *)
NotItself(d, n) == d # n
Orphaned(d, n) == rdeps[d] \ {n} = {} /\ d # n

(* for dep in node.dependencies: a dependency that nothing else requires   *)
(* goes away with it.                                                      *)
DropDep ==
  /\ InCall("drop")
  /\ \E d \in Top.todo :
       LET n == Top.node
           rest == [Top EXCEPT !.todo = @ \ {d}] IN
       /\ rdeps' = [rdeps EXCEPT ![d] = @ \ {n}]
       /\ IF Orphaned(d, n)
          THEN Then(<<Remove(d, TRUE), rest>>)
          ELSE Then(<<rest>>)
  /\ UNCHANGED <<nodes, born, metadata, deps, complete, error>>

(* Mutant: the node keeps its dependencies. *)
UnsolveKeepsEdges ==
  /\ InCall("drop") /\ Top.todo = {}
  /\ IF Top.upstream
     THEN Return /\ UNCHANGED metadata
     ELSE /\ metadata' = [metadata EXCEPT ![Top.node] = None]
          /\ Then(<<Complete(Top.node)>>)
  /\ UNCHANGED <<nodes, born, deps, rdeps, complete, error>>

(* Back to an unsolved node that keeps its reverse dependencies. *)
Unsolve ==
  /\ InCall("drop") /\ Top.todo = {}
  /\ LET n == Top.node IN
     IF Top.upstream
     THEN Return /\ UNCHANGED <<deps, metadata>>
     ELSE /\ deps' = [deps EXCEPT ![n] = [m \in {} |-> None]]
          /\ metadata' = [metadata EXCEPT ![n] = None]
          /\ Then(<<Complete(n)>>)
  /\ UNCHANGED <<nodes, born, rdeps, complete, error>>

-----------------------------------------------------------------------------
(* The graph under any client *)

GraphStep == \/ TooManyFrames
             \/ AddAssertFails \/ AddDist \/ Restore
             \/ UpdateDists \/ NextExtra \/ LastExtra \/ NextRequirement
             \/ UpdateComplete \/ CompleteNext
             \/ AlreadyRemoved \/ RemoveDists \/ DropDep \/ Unsolve

(* The client calls add_dist or remove_dists(.., remove_upstream=False).   *)
Call(f) == /\ stack = <<>>
           /\ stack' = <<f>>
           /\ error' = None
           /\ UNCHANGED graph
CallAdd(k, d, src, why) == /\ nodes[k] = None => born[k] < MaxObjects[k]
                           /\ Call(Add(k, d, src, why))
CallRemove(n) == Call(Remove(n, FALSE))

(* The client handles the exception. *)
Catch == /\ error # None
         /\ error' = None
         /\ UNCHANGED <<graph, stack>>

ClientStep ==
  \/ \E k \in Key, d \in Dist \cup {None}, src \in Node \cup {None},
        why \in Req \cup {None} :
       /\ d # None => d.name = k
       /\ CallAdd(k, d, src, why)
  \/ \E n \in Node : CallRemove(n)
  \/ Catch

Next == GraphStep \/ ClientStep
Spec == Init /\ [][Next]_vars

-----------------------------------------------------------------------------
(* Invariants *)

IsDependencies(f) == /\ DOMAIN f \subseteq Node
                     /\ \A n \in DOMAIN f : f[n] \in Req \cup {None}

(* An object that lists a reverse dependency is among the dependencies of  *)
(* that object: extras and remove_dists look the edge up without a check   *)
(* (dists.py:66, 367).  It holds in every state, for removed objects too   *)
(* and when an exception abandons a call halfway. *)
RequestersHaveEdge == \A n \in Node : \A r \in rdeps[n] : n \in DOMAIN deps[r]

(* The graph and its call stack have the shapes dists.py gives them.       *)
TypeOK ==
  /\ nodes \in [Key -> Node \cup {None}]
  /\ born \in [Key -> Nat] /\ \A k \in Key : born[k] <= MaxObjects[k]
  /\ metadata \in [Node -> Dist \cup {None}]
  /\ DOMAIN deps = Node /\ \A n \in Node : IsDependencies(deps[n])
  /\ rdeps \in [Node -> SUBSET Node]
  /\ complete \in [Node -> BOOLEAN]
  /\ stack \in Seq(Frame)
  /\ error \in {None, "AssertionError", "RecursionError"}
=============================================================================
