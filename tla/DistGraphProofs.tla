--------------------------- MODULE DistGraphProofs ---------------------------
(***************************************************************************)
(* RequestersHaveEdge and TypeOK hold in every reachable state of the      *)
(* graph, whatever its client does.                                        *)
(*                                                                         *)
(* RequestersHaveEdge is not inductive: Unsolve empties the dependencies   *)
(* of a node at the end of a loop, and RemoveDists cuts the edges of the   *)
(* reverse dependencies without telling the removed node.  Why no reverse  *)
(* dependency is left behind lies in the frames on the stack: a drop frame *)
(* has taken its node out of every dependency it no longer has to visit, a *)
(* node removed upstream has no reverse dependencies, and while either     *)
(* frame waits only removals run above it, which draw no edge.             *)
(***************************************************************************)
EXTENDS DistGraph, SequenceTheorems, TLAPS

Removal == {"remove", "drop", "complete", "completes"}

(* What a waiting or running frame of remove_dists relies on. *)
FrameSafe(f) ==
  /\ f.op = "drop" =>
       \A d \in DOMAIN deps[f.node] : d \in f.todo \/ f.node \notin rdeps[d]
  /\ f.op = "remove" /\ f.upstream => rdeps[f.node] = {}

StackSafe ==
  /\ \A i \in 1..Len(stack) : FrameSafe(stack[i])
  /\ \A i, j \in 1..Len(stack) :
       j < i /\ stack[i].op \in {"remove", "drop"} => stack[j].op \in Removal

(* The inductive invariant. *)
IInv == TypeOK /\ RequestersHaveEdge /\ StackSafe

-----------------------------------------------------------------------------
(* Frames *)

(* A frame is of the kind its op says.                                     *)
LEMMA FrameKinds ==
  ASSUME NEW f \in Frame
  PROVE  /\ f.op = "add" => f \in AddFrame
         /\ f.op = "restore" => f \in RestoreFrame
         /\ f.op = "update" => f \in UpdateFrame
         /\ f.op = "extras" => f \in ExtrasFrame
         /\ f.op = "requires" => f \in RequiresFrame
         /\ f.op = "complete" => f \in CompleteFrame
         /\ f.op = "completes" => f \in CompletesFrame
         /\ f.op = "remove" => f \in RemoveFrame
         /\ f.op = "drop" => f \in DropFrame
  BY DEF Frame, AddFrame, RestoreFrame, UpdateFrame, ExtrasFrame,
         RequiresFrame, CompleteFrame, CompletesFrame, RemoveFrame, DropFrame

(* Replacing the innermost frame by the frames fs.                         *)
LEMMA ReplaceTop ==
  ASSUME NEW s \in Seq(Frame), s # <<>>, NEW fs \in Seq(Frame)
  PROVE  /\ Head(s) \in Frame /\ Head(s) = s[1]
         /\ fs \o Tail(s) \in Seq(Frame)
         /\ Len(fs \o Tail(s)) = Len(fs) + Len(s) - 1
         /\ \A i \in 1..Len(fs) : (fs \o Tail(s))[i] = fs[i]
         /\ \A i \in 1..Len(fs \o Tail(s)) : i > Len(fs) =>
              /\ i - Len(fs) + 1 \in 2..Len(s)
              /\ (fs \o Tail(s))[i] = s[i - Len(fs) + 1]
<1>1. /\ Head(s) \in Frame /\ Head(s) = s[1]
      /\ Tail(s) \in Seq(Frame) /\ Len(Tail(s)) = Len(s) - 1
      /\ \A i \in 1..Len(Tail(s)) : Tail(s)[i] = s[i+1]
  BY HeadTailProperties
<1>2. Len(s) \in Nat /\ Len(fs) \in Nat
  OBVIOUS
<1>3. QED
  BY <1>1, <1>2, ConcatProperties

(* Edges that only shrink keep safe frames safe.                           *)
LEMMA ShrinkKeepsFrame ==
  ASSUME NEW f \in Frame, FrameSafe(f),
         \A n \in Node : rdeps'[n] \subseteq rdeps[n],
         \A n \in Node : DOMAIN deps'[n] \subseteq DOMAIN deps[n],
         \A n \in Node : DOMAIN deps[n] \subseteq Node
  PROVE  FrameSafe(f)'
<1>1. CASE f.op = "drop"
  <2>1. f \in DropFrame
    BY <1>1, FrameKinds
  <2>2. QED
    BY <1>1, <2>1 DEF FrameSafe, DropFrame
<1>2. CASE f.op = "remove"
  <2>1. f \in RemoveFrame
    BY <1>2, FrameKinds
  <2>2. QED
    BY <1>2, <2>1 DEF FrameSafe, RemoveFrame
<1>3. CASE f.op \notin {"drop", "remove"}
  BY <1>3 DEF FrameSafe
<1>4. QED
  BY <1>1, <1>2, <1>3

(* The innermost frame is replaced by one or two safe ones, and the edges  *)
(* only shrink: what the other frames rely on still holds.                 *)
LEMMA ShrinkKeepsStack ==
  ASSUME stack \in Seq(Frame), stack # <<>>, StackSafe,
         NEW fs \in Seq(Frame), stack' = fs \o Tail(stack),
         \A n \in Node : rdeps'[n] \subseteq rdeps[n],
         \A n \in Node : DOMAIN deps'[n] \subseteq DOMAIN deps[n],
         \A n \in Node : DOMAIN deps[n] \subseteq Node,
         \A i \in 1..Len(fs) : \A f \in Frame : f = fs[i] => FrameSafe(f)',
         stack[1].op \in Removal => \A i \in 1..Len(fs) : fs[i].op \in Removal,
         \A i, j \in 1..Len(fs) :
           j < i /\ fs[i].op \in {"remove", "drop"} => fs[j].op \in Removal
  PROVE  StackSafe'
<1>1. /\ stack' \in Seq(Frame)
      /\ Len(stack') = Len(fs) + Len(stack) - 1
      /\ \A i \in 1..Len(fs) : stack'[i] = fs[i]
      /\ \A i \in 1..Len(stack') : i > Len(fs) =>
           /\ i - Len(fs) + 1 \in 2..Len(stack)
           /\ stack'[i] = stack[i - Len(fs) + 1]
  BY ReplaceTop
<1>2. /\ Len(stack) \in Nat /\ Len(fs) \in Nat /\ Len(stack') \in Nat
      /\ 1 \in 1..Len(stack)
      /\ \A i \in 1..Len(stack') : stack'[i] \in Frame
      /\ \A i \in 1..Len(stack) : stack[i] \in Frame
  BY <1>1, LenProperties, ElementOfSeq, EmptySeq
<1>3. ASSUME NEW i \in 1..Len(stack')
      PROVE  \A f \in Frame : f = stack'[i] => FrameSafe(f)'
  <2>1. CASE i <= Len(fs)
    BY <2>1, <1>1, <1>2
  <2>2. CASE i > Len(fs)
    <3>1. FrameSafe(stack[i - Len(fs) + 1]) /\ stack'[i] = stack[i - Len(fs) + 1]
      BY <2>2, <1>1, <1>2 DEF StackSafe
    <3>2. TAKE f \in Frame
    <3>3. HAVE f = stack'[i]
    <3>4. FrameSafe(f)
      BY <3>1, <3>3
    <3>5. QED
      BY <3>4, ShrinkKeepsFrame
  <2>3. QED
    BY <2>1, <2>2, <1>2
<1>4. \A i \in 1..Len(stack') : FrameSafe(stack[i])'
  BY <1>2, <1>3 DEF FrameSafe
<1>5. ASSUME NEW i \in 1..Len(stack'), NEW j \in 1..Len(stack'), j < i,
             stack'[i].op \in {"remove", "drop"}
      PROVE  stack'[j].op \in Removal
  <2>1. CASE i <= Len(fs)
    BY <2>1, <1>1, <1>2, <1>5
  <2>2. CASE i > Len(fs) /\ j > Len(fs)
    <3>1. /\ i - Len(fs) + 1 \in 1..Len(stack)
          /\ j - Len(fs) + 1 \in 1..Len(stack)
          /\ j - Len(fs) + 1 < i - Len(fs) + 1
      BY <2>2, <1>1, <1>2, <1>5
    <3>2. QED
      BY <3>1, <2>2, <1>1, <1>5 DEF StackSafe
  <2>3. CASE i > Len(fs) /\ j <= Len(fs)
    <3>1. PICK k \in 2..Len(stack) : stack'[i] = stack[k]
      BY <2>3, <1>1
    <3>2. stack[1].op \in Removal
      <4>1. k \in 1..Len(stack) /\ 1 < k
        BY <3>1, <1>2
      <4>2. QED
        BY <4>1, <3>1, <1>2, <1>5 DEF StackSafe
    <3>3. QED
      BY <3>2, <2>3, <1>1, <1>2
  <2>4. QED
    BY <2>1, <2>2, <2>3, <1>2
<1>6. QED
  BY <1>4, <1>5 DEF StackSafe

(* Nothing is left on the stack by an exception.                           *)
LEMMA EmptyStackSafe ==
  ASSUME stack' = <<>>
  PROVE  StackSafe'
  BY DEF StackSafe

(* A return keeps the other frames safe where the edges only shrink.       *)
LEMMA ReturnKeepsStack ==
  ASSUME stack \in Seq(Frame), stack # <<>>, StackSafe, Return,
         \A n \in Node : rdeps'[n] \subseteq rdeps[n],
         \A n \in Node : DOMAIN deps'[n] \subseteq DOMAIN deps[n],
         \A n \in Node : DOMAIN deps[n] \subseteq Node
  PROVE  stack' \in Seq(Frame) /\ StackSafe'
<1>1. Tail(stack) \in Seq(Frame) /\ <<>> \in Seq(Frame) /\ Len(<<>>) = 0
  BY HeadTailProperties, EmptySeq
<1>2. stack' = <<>> \o Tail(stack)
  BY <1>1, ConcatEmptySeq DEF Return
<1>3. /\ \A i \in 1..Len(<<>>) : \A f \in Frame : f = <<>>[i] => FrameSafe(f)'
      /\ \A i \in 1..Len(<<>>) : <<>>[i].op \in Removal
      /\ \A i, j \in 1..Len(<<>>) :
           j < i /\ <<>>[i].op \in {"remove", "drop"} => <<>>[j].op \in Removal
  BY <1>1
<1>4. QED
  BY <1>1, <1>2, <1>3, ShrinkKeepsStack DEF Return

(* The innermost frame is replaced by one frame.                           *)
LEMMA OneFrame ==
  ASSUME stack \in Seq(Frame), stack # <<>>, StackSafe,
         NEW a \in Frame, Then(<<a>>),
         \A n \in Node : rdeps'[n] \subseteq rdeps[n],
         \A n \in Node : DOMAIN deps'[n] \subseteq DOMAIN deps[n],
         \A n \in Node : DOMAIN deps[n] \subseteq Node,
         FrameSafe(a)',
         stack[1].op \in Removal => a.op \in Removal
  PROVE  stack' \in Seq(Frame) /\ StackSafe'
<1> DEFINE fs == <<a>>
<1>1. fs \in Seq(Frame) /\ Len(fs) = 1 /\ fs[1] = a /\ 1..Len(fs) = {1}
  OBVIOUS
<1>2. stack' = fs \o Tail(stack)
  BY DEF Then
<1>3. \A i \in 1..Len(fs) : \A f \in Frame : f = fs[i] => FrameSafe(f)'
  BY <1>1
<1>4. stack[1].op \in Removal => \A i \in 1..Len(fs) : fs[i].op \in Removal
  BY <1>1
<1>5. \A i, j \in 1..Len(fs) :
        j < i /\ fs[i].op \in {"remove", "drop"} => fs[j].op \in Removal
  BY <1>1
<1> HIDE DEF fs
<1>6. stack' \in Seq(Frame)
  BY <1>1, <1>2, ReplaceTop
<1>7. QED
  BY <1>1, <1>2, <1>3, <1>4, <1>5, <1>6, ShrinkKeepsStack

(* The innermost frame is replaced by two frames.                          *)
LEMMA TwoFrames ==
  ASSUME stack \in Seq(Frame), stack # <<>>, StackSafe,
         NEW a \in Frame, NEW b \in Frame, Then(<<a, b>>),
         \A n \in Node : rdeps'[n] \subseteq rdeps[n],
         \A n \in Node : DOMAIN deps'[n] \subseteq DOMAIN deps[n],
         \A n \in Node : DOMAIN deps[n] \subseteq Node,
         FrameSafe(a)', FrameSafe(b)',
         stack[1].op \in Removal => a.op \in Removal /\ b.op \in Removal,
         b.op \in {"remove", "drop"} => a.op \in Removal
  PROVE  stack' \in Seq(Frame) /\ StackSafe'
<1> DEFINE fs == <<a, b>>
<1>1. /\ fs \in Seq(Frame) /\ Len(fs) = 2
      /\ fs[1] = a /\ fs[2] = b /\ 1..Len(fs) = {1, 2}
  OBVIOUS
<1>2. stack' = fs \o Tail(stack)
  BY DEF Then
<1>3. \A i \in 1..Len(fs) : \A f \in Frame : f = fs[i] => FrameSafe(f)'
  BY <1>1
<1>4. stack[1].op \in Removal => \A i \in 1..Len(fs) : fs[i].op \in Removal
  BY <1>1
<1>5. \A i, j \in 1..Len(fs) :
        j < i /\ fs[i].op \in {"remove", "drop"} => fs[j].op \in Removal
  BY <1>1
<1> HIDE DEF fs
<1>6. stack' \in Seq(Frame)
  BY <1>1, <1>2, ReplaceTop
<1>7. QED
  BY <1>1, <1>2, <1>3, <1>4, <1>5, <1>6, ShrinkKeepsStack

(* What a step of the graph may use of its innermost frame.                *)
LEMMA InnermostFrame ==
  ASSUME IInv, NEW op, InCall(op)
  PROVE  /\ stack \in Seq(Frame) /\ stack # <<>>
         /\ Top \in Frame /\ Top = stack[1] /\ Top.op = op
         /\ \A n \in Node : DOMAIN deps[n] \subseteq Node
         /\ FrameSafe(Top)
<1>1. stack \in Seq(Frame) /\ stack # <<>> /\ Top.op = op
  BY DEF IInv, TypeOK, InCall
<1>2. Top \in Frame /\ Top = stack[1]
  BY <1>1, HeadTailProperties, EmptySeq DEF Top
<1>3. 1 \in 1..Len(stack)
  BY <1>1, EmptySeq
<1>4. FrameSafe(stack[1])
  BY <1>3 DEF IInv, StackSafe
<1>5. FrameSafe(Top)
  BY <1>2, <1>4 DEF FrameSafe
<1>6. QED
  BY <1>1, <1>2, <1>5 DEF IInv, TypeOK, IsDependencies

(* The extras of a node are extras: every edge has a reason or None.       *)
LEMMA ExtrasType ==
  ASSUME IInv, NEW n \in Node
  PROVE  Extras(n) \subseteq Extra
<1>1. ASSUME NEW r \in rdeps[n]
      PROVE  ReasonExtras(deps[r][n]) \subseteq Extra
  <2>1. r \in Node /\ n \in DOMAIN deps[r]
    BY DEF IInv, TypeOK, RequestersHaveEdge
  <2>2. deps[r][n] \in Req \cup {None}
    BY <2>1 DEF IInv, TypeOK, IsDependencies
  <2>3. QED
    BY <2>2 DEF ReasonExtras, Req
<1>2. QED
  BY <1>1 DEF Extras

(* The objects of a key, and the key of an object.                         *)
LEMMA NodeType ==
  /\ \A k \in Key : \A i \in 1..MaxObjects[k] : <<k, i>> \in Node
  /\ \A n \in Node : KeyOf(n) \in Key
  BY MaxObjectsAssumption DEF Node, KeyOf

-----------------------------------------------------------------------------
(* One lemma for each action *)

(* An exception leaves the graph as it is and no frame behind.             *)
LEMMA TooManyFramesKeeps ==
  ASSUME IInv, TooManyFrames
  PROVE  IInv'
<1>1. stack' \in Seq(Frame) /\ error' \in {None, "AssertionError", "RecursionError"}
  BY EmptySeq DEF TooManyFrames, Fail
<1>2. TypeOK'
  BY <1>1 DEF IInv, TypeOK, TooManyFrames, graph, IsDependencies
<1>3. RequestersHaveEdge'
  BY DEF IInv, RequestersHaveEdge, TooManyFrames, graph
<1>4. StackSafe'
  BY EmptyStackSafe DEF TooManyFrames, Fail
<1>5. QED
  BY <1>2, <1>3, <1>4 DEF IInv

(* Steps that leave the edges alone and replace the innermost frame.       *)
LEMMA SameEdges ==
  ASSUME IInv, UNCHANGED <<deps, rdeps>>
  PROVE  /\ RequestersHaveEdge'
         /\ DOMAIN deps' = Node /\ \A n \in Node : IsDependencies(deps[n])'
         /\ (rdeps \in [Node -> SUBSET Node])'
         /\ \A n \in Node : rdeps'[n] \subseteq rdeps[n]
         /\ \A n \in Node : DOMAIN deps'[n] \subseteq DOMAIN deps[n]
         /\ \A f : FrameSafe(f) => FrameSafe(f)'
  BY DEF IInv, TypeOK, RequestersHaveEdge, IsDependencies, FrameSafe

(* Restore: the node comes back if it went away.                           *)
LEMMA RestoreKeeps ==
  ASSUME IInv, Restore
  PROVE  IInv'
<1>1. /\ stack \in Seq(Frame) /\ stack # <<>> /\ Top \in Frame
      /\ Top.op = "restore" /\ \A n \in Node : DOMAIN deps[n] \subseteq Node
  BY InnermostFrame DEF Restore
<1>2. Top \in RestoreFrame
  BY <1>1, FrameKinds
<1>3. UNCHANGED <<deps, rdeps>>
  BY DEF Restore
<1>4. stack' \in Seq(Frame) /\ StackSafe'
  BY <1>1, <1>3, SameEdges, ReturnKeepsStack DEF Restore, IInv
<1>5. nodes' \in [Key -> Node \cup {None}]
  <2>1. Top.node \in Node
    BY <1>2 DEF RestoreFrame
  <2>2. QED
    BY <2>1 DEF Restore, IInv, TypeOK
<1>6. TypeOK'
  BY <1>3, <1>4, <1>5, SameEdges DEF IInv, TypeOK, Restore
<1>7. QED
  BY <1>3, <1>4, <1>6, SameEdges DEF IInv

(* UpdateDists: the solution is set, the extras are visited next.          *)
LEMMA UpdateDistsKeeps ==
  ASSUME IInv, UpdateDists
  PROVE  IInv'
<1>1. /\ stack \in Seq(Frame) /\ stack # <<>> /\ Top \in Frame
      /\ Top.op = "update" /\ Top = stack[1]
      /\ \A n \in Node : DOMAIN deps[n] \subseteq Node
  BY InnermostFrame DEF UpdateDists
<1>2. Top.node \in Node /\ Top.dist \in Dist
  BY <1>1, FrameKinds DEF UpdateFrame
<1>3. UNCHANGED <<nodes, born, deps, rdeps, complete>>
  BY DEF UpdateDists
<1>4. metadata' \in [Node -> Dist \cup {None}]
  BY <1>2 DEF UpdateDists, IInv, TypeOK
<1>5. PICK a \in Frame : a = [op |-> "extras", node |-> Top.node,
                             dist |-> Top.dist,
                             todo |-> Extras(Top.node) \cup {None}]
  BY <1>2, ExtrasType DEF Frame, ExtrasFrame
<1>6. PICK b \in Frame : b = Complete(Top.node)
  BY <1>2 DEF Frame, CompleteFrame, Complete
<1>7. /\ a.op \notin {"drop", "remove"} /\ b.op \notin {"drop", "remove"}
      /\ stack[1].op \notin Removal
  BY <1>1, <1>5, <1>6 DEF Complete, Removal
<1>8. CASE Then(<<a, b>>) /\ UNCHANGED error
  <2>1. FrameSafe(a)' /\ FrameSafe(b)'
    BY <1>7 DEF FrameSafe
  <2>2. stack' \in Seq(Frame) /\ StackSafe'
    BY <1>1, <1>3, <1>7, <1>8, <2>1, SameEdges, TwoFrames DEF IInv
  <2>3. QED
    BY <1>3, <1>4, <1>8, <2>2, SameEdges DEF IInv, TypeOK
<1>9. CASE AssertFails
  <2>1. /\ stack' \in Seq(Frame) /\ StackSafe'
        /\ error' \in {None, "AssertionError", "RecursionError"}
    BY <1>9, EmptySeq, EmptyStackSafe DEF AssertFails, Fail
  <2>2. QED
    BY <1>3, <1>4, <2>1, SameEdges DEF IInv, TypeOK
<1>10. QED
  BY <1>5, <1>6, <1>8, <1>9 DEF UpdateDists

(* Steps that only move on in the code: the graph stays.                   *)
LEMMA SameGraph ==
  ASSUME IInv, UNCHANGED graph, stack' \in Seq(Frame), StackSafe',
         error' \in {None, "AssertionError", "RecursionError"}
  PROVE  IInv'
<1>1. UNCHANGED <<nodes, born, metadata, deps, rdeps, complete>>
  BY DEF graph
<1>2. QED
  BY <1>1, SameEdges DEF IInv, TypeOK

(* NextExtra: the extra is skipped, or its requirements are visited next.  *)
LEMMA NextExtraKeeps ==
  ASSUME IInv, NextExtra
  PROVE  IInv'
<1>1. /\ stack \in Seq(Frame) /\ stack # <<>> /\ Top \in Frame
      /\ Top.op = "extras" /\ Top = stack[1]
      /\ \A n \in Node : DOMAIN deps[n] \subseteq Node
  BY InnermostFrame DEF NextExtra
<1>2. Top \in ExtrasFrame
  BY <1>1, FrameKinds
<1>3. UNCHANGED <<deps, rdeps>> /\ UNCHANGED graph
  BY DEF NextExtra, graph
<1>4. PICK e \in Top.todo :
        \/ AssertFails
        \/ Then(<<[Top EXCEPT !.todo = @ \ {e}]>>) /\ UNCHANGED error
        \/ /\ Then(<<[op |-> "requires", node |-> Top.node,
                      todo |-> Top.dist.requires[e]],
                     [Top EXCEPT !.todo = @ \ {e}]>>)
           /\ UNCHANGED error
  BY DEF NextExtra
<1>5. PICK b \in Frame : b = [Top EXCEPT !.todo = @ \ {e}]
  <2>1. [Top EXCEPT !.todo = @ \ {e}] \in ExtrasFrame
    BY <1>2 DEF ExtrasFrame
  <2>2. QED
    BY <2>1 DEF Frame
<1>6. PICK a \in Frame : a = [op |-> "requires", node |-> Top.node,
                             todo |-> Top.dist.requires[e]]
  <2>1. e \in Extra \cup {None} /\ Top.node \in Node /\ Top.dist \in Container
    BY <1>2, <1>4, DistAssumption DEF ExtrasFrame
  <2>2. Top.dist.requires[e] \in Seq(Req)
    BY <2>1 DEF Container
  <2>3. QED
    BY <2>1, <2>2 DEF Frame, RequiresFrame
<1>7. /\ a.op = "requires" /\ b.op = "extras" /\ stack[1].op \notin Removal
      /\ FrameSafe(a)' /\ FrameSafe(b)'
  <2>1. a.op = "requires" /\ b.op = "extras" /\ stack[1].op \notin Removal
    BY <1>1, <1>2, <1>5, <1>6 DEF Removal, ExtrasFrame
  <2>2. QED
    BY <2>1 DEF FrameSafe
<1>8. CASE AssertFails
  <2>1. /\ stack' \in Seq(Frame) /\ StackSafe'
        /\ error' \in {None, "AssertionError", "RecursionError"}
    BY <1>8, EmptySeq, EmptyStackSafe DEF AssertFails, Fail
  <2>2. QED
    BY <1>3, <2>1, SameGraph
<1>9. CASE Then(<<b>>) /\ UNCHANGED error
  <2>1. stack' \in Seq(Frame) /\ StackSafe'
    BY <1>1, <1>3, <1>7, <1>9, SameEdges, OneFrame DEF IInv
  <2>2. QED
    BY <1>3, <1>9, <2>1, SameGraph DEF IInv, TypeOK
<1>10. CASE Then(<<a, b>>) /\ UNCHANGED error
  <2>1. stack' \in Seq(Frame) /\ StackSafe'
    BY <1>1, <1>3, <1>7, <1>10, SameEdges, TwoFrames DEF IInv
  <2>2. QED
    BY <1>3, <1>10, <2>1, SameGraph DEF IInv, TypeOK
<1>11. QED
  BY <1>4, <1>5, <1>6, <1>8, <1>9, <1>10

(* Returns: LastExtra, AlreadyRemoved.                                     *)
LEMMA ReturnKeeps ==
  ASSUME IInv, stack # <<>>, Return, UNCHANGED <<graph, error>>
  PROVE  IInv'
<1>1. UNCHANGED <<deps, rdeps>>
  BY DEF graph
<1>2. stack' \in Seq(Frame) /\ StackSafe'
  BY <1>1, SameEdges, ReturnKeepsStack DEF IInv, TypeOK, IsDependencies
<1>3. QED
  BY <1>2, SameGraph DEF IInv, TypeOK

(* NextRequirement: add_dist is called for the requirement.                *)
LEMMA NextRequirementKeeps ==
  ASSUME IInv, NextRequirement
  PROVE  IInv'
<1>1. /\ stack \in Seq(Frame) /\ stack # <<>> /\ Top \in Frame
      /\ Top.op = "requires" /\ Top = stack[1]
      /\ \A n \in Node : DOMAIN deps[n] \subseteq Node
  BY InnermostFrame DEF NextRequirement
<1>2. Top \in RequiresFrame
  BY <1>1, FrameKinds
<1>3. UNCHANGED <<deps, rdeps>> /\ UNCHANGED <<graph, error>>
  BY DEF NextRequirement, graph
<1>4. CASE Top.todo = <<>>
  BY <1>1, <1>3, <1>4, ReturnKeeps DEF NextRequirement
<1>5. CASE Top.todo # <<>>
  <2>1. Top.todo \in Seq(Req) /\ Top.node \in Node
    BY <1>2 DEF RequiresFrame
  <2>2. Head(Top.todo) \in Req /\ Tail(Top.todo) \in Seq(Req)
    BY <1>5, <2>1, HeadTailProperties
  <2>3. PICK a \in Frame : a = Add(Head(Top.todo).name, None, Top.node, Head(Top.todo))
    <3>1. Head(Top.todo).name \in Key
      BY <2>2 DEF Req
    <3>2. QED
      BY <2>1, <2>2, <3>1 DEF Frame, AddFrame, Add
  <2>4. PICK b \in Frame : b = [Top EXCEPT !.todo = Tail(@)]
    <3>1. [Top EXCEPT !.todo = Tail(@)] \in RequiresFrame
      BY <1>2, <2>2 DEF RequiresFrame
    <3>2. QED
      BY <3>1 DEF Frame
  <2>5. a.op = "add" /\ b.op = "requires" /\ stack[1].op \notin Removal
    BY <1>1, <1>2, <2>3, <2>4 DEF Removal, Add, RequiresFrame
  <2>6. FrameSafe(a)' /\ FrameSafe(b)'
    BY <2>5 DEF FrameSafe
  <2>7. Then(<<a, b>>)
    BY <1>5, <2>3, <2>4 DEF NextRequirement
  <2>8. stack' \in Seq(Frame) /\ StackSafe'
    BY <1>1, <1>3, <2>5, <2>6, <2>7, SameEdges, TwoFrames DEF IInv
  <2>9. QED
    BY <1>3, <2>8, SameGraph DEF IInv, TypeOK
<1>6. QED
  BY <1>4, <1>5

(* UpdateComplete: the reverse dependencies are told of a change.          *)
LEMMA UpdateCompleteKeeps ==
  ASSUME IInv, UpdateComplete
  PROVE  IInv'
<1>1. /\ stack \in Seq(Frame) /\ stack # <<>> /\ Top \in Frame
      /\ Top.op = "complete" /\ Top = stack[1]
      /\ \A n \in Node : DOMAIN deps[n] \subseteq Node
  BY InnermostFrame DEF UpdateComplete
<1>2. Top.node \in Node
  BY <1>1, FrameKinds DEF CompleteFrame
<1>3. UNCHANGED <<nodes, born, metadata, deps, rdeps, error>>
  BY DEF UpdateComplete
<1>4. complete' \in [Node -> BOOLEAN]
  <2>1. NowComplete(Top.node) \in BOOLEAN
    BY DEF NowComplete
  <2>2. QED
    BY <1>2, <2>1 DEF UpdateComplete, IInv, TypeOK
<1>5. stack' \in Seq(Frame) /\ StackSafe'
  <2>1. CASE Return
    BY <1>1, <1>3, <2>1, SameEdges, ReturnKeepsStack DEF IInv
  <2>2. CASE Then(<<[op |-> "completes", todo |-> rdeps[Top.node]]>>)
    <3>1. PICK a \in Frame : a = [op |-> "completes", todo |-> rdeps[Top.node]]
      BY <1>2 DEF IInv, TypeOK, Frame, CompletesFrame
    <3>2. a.op \in Removal /\ FrameSafe(a)'
      BY <3>1 DEF Removal, FrameSafe
    <3>3. QED
      BY <1>1, <1>3, <2>2, <3>1, <3>2, SameEdges, OneFrame DEF IInv
  <2>3. QED
    BY <2>1, <2>2 DEF UpdateComplete
<1>6. QED
  BY <1>3, <1>4, <1>5, SameEdges DEF IInv, TypeOK

(* CompleteNext: update_complete is called for the next node of the loop.  *)
LEMMA CompleteNextKeeps ==
  ASSUME IInv, CompleteNext
  PROVE  IInv'
<1>1. /\ stack \in Seq(Frame) /\ stack # <<>> /\ Top \in Frame
      /\ Top.op = "completes" /\ Top = stack[1]
      /\ \A n \in Node : DOMAIN deps[n] \subseteq Node
  BY InnermostFrame DEF CompleteNext
<1>2. Top \in CompletesFrame
  BY <1>1, FrameKinds
<1>3. UNCHANGED <<deps, rdeps>> /\ UNCHANGED <<graph, error>>
  BY DEF CompleteNext, graph
<1>4. CASE Return
  BY <1>1, <1>3, <1>4, ReturnKeeps
<1>5. CASE \E n \in Top.todo : Then(<<Complete(n), [Top EXCEPT !.todo = @ \ {n}]>>)
  <2>1. PICK n \in Top.todo : Then(<<Complete(n), [Top EXCEPT !.todo = @ \ {n}]>>)
    BY <1>5
  <2>2. PICK a \in Frame : a = Complete(n)
    BY <1>2 DEF Frame, CompleteFrame, CompletesFrame, Complete
  <2>3. PICK b \in Frame : b = [Top EXCEPT !.todo = @ \ {n}]
    <3>1. [Top EXCEPT !.todo = @ \ {n}] \in CompletesFrame
      BY <1>2 DEF CompletesFrame
    <3>2. QED
      BY <3>1 DEF Frame
  <2>4. a.op = "complete" /\ b.op = "completes"
    BY <1>2, <2>2, <2>3 DEF Complete, CompletesFrame
  <2>5. /\ FrameSafe(a)' /\ FrameSafe(b)'
        /\ a.op \in Removal /\ b.op \in Removal
    BY <2>4 DEF FrameSafe, Removal
  <2>6. stack' \in Seq(Frame) /\ StackSafe'
    BY <1>1, <1>3, <2>1, <2>2, <2>3, <2>5, SameEdges, TwoFrames DEF IInv
  <2>7. QED
    BY <1>3, <2>6, SameGraph DEF IInv, TypeOK
<1>6. QED
  BY <1>4, <1>5 DEF CompleteNext

(* DropDep: the reverse dependency goes, then the orphan; the node is in   *)
(* no dependency it will not visit.                                        *)
LEMMA DropDepKeeps ==
  ASSUME IInv, DropDep
  PROVE  IInv'
<1>1. /\ stack \in Seq(Frame) /\ stack # <<>> /\ Top \in Frame
      /\ Top.op = "drop" /\ Top = stack[1] /\ FrameSafe(Top)
      /\ \A n \in Node : DOMAIN deps[n] \subseteq Node
  BY InnermostFrame DEF DropDep
<1>2. Top \in DropFrame
  BY <1>1, FrameKinds
<1>3. PICK d \in Top.todo :
        /\ rdeps' = [rdeps EXCEPT ![d] = @ \ {Top.node}]
        /\ IF Orphaned(d, Top.node)
           THEN Then(<<Remove(d, TRUE), [Top EXCEPT !.todo = @ \ {d}]>>)
           ELSE Then(<<[Top EXCEPT !.todo = @ \ {d}]>>)
  BY DEF DropDep
<1>4. UNCHANGED <<nodes, born, metadata, deps, complete, error>>
  BY DEF DropDep
<1>5. d \in Node /\ Top.node \in Node
  BY <1>2 DEF DropFrame
<1>6. /\ rdeps' \in [Node -> SUBSET Node]
      /\ rdeps'[d] = rdeps[d] \ {Top.node}
      /\ \A n \in Node : rdeps'[n] \subseteq rdeps[n]
      /\ \A n \in Node : DOMAIN deps'[n] \subseteq DOMAIN deps[n]
  BY <1>3, <1>4, <1>5 DEF IInv, TypeOK
<1>7. PICK b \in Frame : b = [Top EXCEPT !.todo = @ \ {d}]
  <2>1. [Top EXCEPT !.todo = @ \ {d}] \in DropFrame
    BY <1>2 DEF DropFrame
  <2>2. QED
    BY <2>1 DEF Frame
<1>8. PICK a \in Frame : a = Remove(d, TRUE)
  BY <1>5 DEF Frame, RemoveFrame, Remove
<1>9. /\ b.op = "drop" /\ b.node = Top.node /\ b.todo = Top.todo \ {d}
      /\ a.op = "remove" /\ a.node = d
      /\ a.op \in Removal /\ b.op \in Removal
  BY <1>2, <1>7, <1>8 DEF DropFrame, Remove, Removal
<1>10. FrameSafe(b)'
  <2>1. ASSUME NEW m \in DOMAIN deps'[b.node]
        PROVE  m \in b.todo \/ b.node \notin rdeps'[m]
    <3>1. m \in Node /\ m \in DOMAIN deps[Top.node]
      BY <1>1, <1>4, <1>5, <1>9
    <3>2. m \in Top.todo \/ Top.node \notin rdeps[m]
      BY <1>1, <3>1 DEF FrameSafe
    <3>3. QED
      BY <1>6, <1>9, <3>1, <3>2
  <2>2. QED
    BY <1>9, <2>1 DEF FrameSafe
<1>11. stack' \in Seq(Frame) /\ StackSafe'
  <2>1. CASE Orphaned(d, Top.node)
    <3>1. rdeps'[d] = {}
      BY <1>6, <2>1 DEF Orphaned
    <3>2. FrameSafe(a)'
      BY <1>9, <3>1 DEF FrameSafe
    <3>3. Then(<<a, b>>)
      BY <1>3, <1>7, <1>8, <2>1
    <3>4. QED
      BY <1>1, <1>6, <1>9, <1>10, <3>2, <3>3, TwoFrames DEF IInv
  <2>2. CASE ~Orphaned(d, Top.node)
    <3>1. Then(<<b>>)
      BY <1>3, <1>7, <2>2
    <3>2. QED
      BY <1>1, <1>6, <1>9, <1>10, <3>1, OneFrame DEF IInv
  <2>3. QED
    BY <2>1, <2>2
<1>12. RequestersHaveEdge'
  BY <1>4, <1>6 DEF IInv, RequestersHaveEdge
<1>13. TypeOK'
  BY <1>4, <1>6, <1>11 DEF IInv, TypeOK, IsDependencies
<1>14. QED
  BY <1>11, <1>12, <1>13 DEF IInv

(* Unsolve: by now no dependency lists the node, so its edges may go.      *)
LEMMA UnsolveKeeps ==
  ASSUME IInv, Unsolve
  PROVE  IInv'
<1>1. /\ stack \in Seq(Frame) /\ stack # <<>> /\ Top \in Frame
      /\ Top.op = "drop" /\ Top = stack[1] /\ FrameSafe(Top)
      /\ \A n \in Node : DOMAIN deps[n] \subseteq Node
  BY InnermostFrame DEF Unsolve
<1>2. Top \in DropFrame /\ Top.todo = {}
  BY <1>1, FrameKinds DEF Unsolve
<1>3. UNCHANGED <<nodes, born, rdeps, complete, error>>
  BY DEF Unsolve
<1>4. CASE Top.upstream
  <2>1. Return /\ UNCHANGED <<graph, error>>
    BY <1>3, <1>4 DEF Unsolve, graph
  <2>2. QED
    BY <1>1, <2>1, ReturnKeeps
<1>5. CASE ~Top.upstream
  <2>1. Top.node \in Node
    BY <1>2 DEF DropFrame
  <2>2. /\ deps' = [deps EXCEPT ![Top.node] = [m \in {} |-> None]]
        /\ metadata' = [metadata EXCEPT ![Top.node] = None]
        /\ Then(<<Complete(Top.node)>>)
    BY <1>5 DEF Unsolve
  <2>3. /\ DOMAIN deps' = Node /\ DOMAIN deps'[Top.node] = {}
        /\ \A n \in Node \ {Top.node} : deps'[n] = deps[n]
    BY <2>1, <2>2 DEF IInv, TypeOK
  <2>4. /\ \A n \in Node : rdeps'[n] \subseteq rdeps[n]
        /\ \A n \in Node : DOMAIN deps'[n] \subseteq DOMAIN deps[n]
    BY <1>3, <2>3
  <2>5. \A n \in Node : IsDependencies(deps[n])'
    BY <2>1, <2>3 DEF IInv, TypeOK, IsDependencies
  <2>6. metadata' \in [Node -> Dist \cup {None}]
    BY <2>1, <2>2 DEF IInv, TypeOK
  <2>7. RequestersHaveEdge'
    <3>1. ASSUME NEW n \in Node, NEW r \in rdeps[n]
          PROVE  n \in DOMAIN deps'[r]
      <4>1. r \in Node /\ n \in DOMAIN deps[r]
        BY DEF IInv, TypeOK, RequestersHaveEdge
      <4>2. r # Top.node
        BY <1>1, <1>2, <4>1 DEF FrameSafe
      <4>3. QED
        BY <2>3, <4>1, <4>2
    <3>2. QED
      BY <1>3, <3>1 DEF RequestersHaveEdge
  <2>8. stack' \in Seq(Frame) /\ StackSafe'
    <3>1. PICK a \in Frame : a = Complete(Top.node)
      BY <2>1 DEF Frame, CompleteFrame, Complete
    <3>2. a.op \in Removal /\ FrameSafe(a)'
      BY <3>1 DEF Removal, FrameSafe, Complete
    <3>3. QED
      BY <1>1, <2>2, <2>4, <3>1, <3>2, OneFrame DEF IInv
  <2>9. QED
    BY <1>3, <2>3, <2>5, <2>6, <2>7, <2>8 DEF IInv, TypeOK
<1>6. QED
  BY <1>4, <1>5

(* RemoveDists: a node that goes away entirely has no reverse dependencies *)
(* whose edges would have to be cut.                                       *)
LEMMA RemoveDistsKeeps ==
  ASSUME IInv, RemoveDists
  PROVE  IInv'
<1>1. /\ stack \in Seq(Frame) /\ stack # <<>> /\ Top \in Frame
      /\ Top.op = "remove" /\ Top = stack[1] /\ FrameSafe(Top)
      /\ \A n \in Node : DOMAIN deps[n] \subseteq Node
  BY InnermostFrame DEF RemoveDists
<1>2. Top.node \in Node /\ Top.upstream \in BOOLEAN
  BY <1>1, FrameKinds DEF RemoveFrame
<1>3. UNCHANGED <<born, metadata, rdeps, complete, error>>
  BY DEF RemoveDists
<1>4. DOMAIN deps' = Node /\ \A n \in Node : deps'[n] = deps[n]
  <2>1. CASE Top.upstream
    <3>1. rdeps[Top.node] = {}
      BY <1>1, <2>1 DEF FrameSafe
    <3>2. deps' = [r \in Node |->
                     IF r \in rdeps[Top.node]
                     THEN [m \in DOMAIN deps[r] \ {Top.node} |-> deps[r][m]]
                     ELSE deps[r]]
      BY <2>1 DEF RemoveDists
    <3>3. QED
      BY <3>1, <3>2
  <2>2. CASE ~Top.upstream
    BY <2>2 DEF RemoveDists, IInv, TypeOK
  <2>3. QED
    BY <2>1, <2>2
<1>5. nodes' \in [Key -> Node \cup {None}]
  <2>1. KeyOf(Top.node) \in Key
    BY <1>2, NodeType
  <2>2. QED
    BY <2>1 DEF RemoveDists, IInv, TypeOK
<1>6. PICK a \in Frame : a = [op |-> "drop", node |-> Top.node,
                             todo |-> DOMAIN deps'[Top.node],
                             upstream |-> Top.upstream]
  <2>1. DOMAIN deps'[Top.node] \subseteq Node
    BY <1>1, <1>2, <1>4
  <2>2. QED
    BY <1>2, <2>1 DEF Frame, DropFrame
<1>7. a.op \in Removal /\ FrameSafe(a)'
  BY <1>6 DEF Removal, FrameSafe
<1>8. Then(<<a>>)
  BY <1>6 DEF RemoveDists
<1>9. stack' \in Seq(Frame) /\ StackSafe'
  BY <1>1, <1>3, <1>4, <1>7, <1>8, OneFrame DEF IInv
<1>10. RequestersHaveEdge'
  BY <1>3, <1>4 DEF IInv, TypeOK, RequestersHaveEdge
<1>11. TypeOK'
  BY <1>3, <1>4, <1>5, <1>9 DEF IInv, TypeOK, IsDependencies
<1>12. QED
  BY <1>9, <1>10, <1>11 DEF IInv

(* Register: the node exists, and what it holds is a distribution.         *)
LEMMA RegisterType ==
  ASSUME IInv, NEW f \in AddFrame, Register(f)
  PROVE  /\ Target(f.key) \in Node /\ Held(f) \in Dist \cup {None}
         /\ nodes' \in [Key -> Node \cup {None}]
         /\ born' \in [Key -> Nat] /\ \A k \in Key : born'[k] <= MaxObjects[k]
         /\ metadata' \in [Node -> Dist \cup {None}]
<1>1. f.key \in Key /\ f.dist \in Dist \cup {None}
  BY DEF AddFrame
<1>2. /\ nodes[f.key] = None => born[f.key] + 1 \in 1..MaxObjects[f.key]
      /\ born[f.key] \in Nat /\ MaxObjects[f.key] \in Nat
  <2>1. born[f.key] \in Nat /\ MaxObjects[f.key] \in Nat
    BY <1>1, MaxObjectsAssumption DEF IInv, TypeOK
  <2>2. nodes[f.key] = None => born[f.key] < MaxObjects[f.key]
    BY DEF Register
  <2>3. QED
    BY <2>1, <2>2
<1>3. Target(f.key) \in Node
  BY <1>1, <1>2, NodeType DEF Target, IInv, TypeOK
<1>4. Held(f) \in Dist \cup {None}
  BY <1>1, <1>3 DEF Held, IInv, TypeOK
<1>5. nodes' \in [Key -> Node \cup {None}] /\ metadata' \in [Node -> Dist \cup {None}]
  BY <1>1, <1>3, <1>4 DEF Register, IInv, TypeOK
<1>6. born' \in [Key -> Nat] /\ \A k \in Key : born'[k] <= MaxObjects[k]
  BY <1>1, <1>2 DEF Register, IInv, TypeOK
<1>7. QED
  BY <1>3, <1>4, <1>5, <1>6

(* No removal waits below a running add_dist: the frames that replace its  *)
(* own are all the stack has to be safe for.                               *)
LEMMA AddKeepsStack ==
  ASSUME stack \in Seq(Frame), stack # <<>>, StackSafe, stack[1].op = "add",
         NEW fs \in Seq(Frame), stack' = fs \o Tail(stack),
         \A i \in 1..Len(fs) : /\ fs[i].op # "drop"
                               /\ fs[i].op = "remove" => ~fs[i].upstream,
         \A i, j \in 1..Len(fs) : j < i => fs[i].op # "remove"
  PROVE  stack' \in Seq(Frame) /\ StackSafe'
<1>1. /\ stack' \in Seq(Frame)
      /\ Len(stack') = Len(fs) + Len(stack) - 1
      /\ \A i \in 1..Len(fs) : stack'[i] = fs[i]
      /\ \A i \in 1..Len(stack') : i > Len(fs) =>
           /\ i - Len(fs) + 1 \in 2..Len(stack)
           /\ stack'[i] = stack[i - Len(fs) + 1]
  BY ReplaceTop
<1>2. Len(stack) \in Nat /\ Len(fs) \in Nat /\ Len(stack') \in Nat /\ 1 \in 1..Len(stack)
  BY <1>1, LenProperties, EmptySeq
<1>3. \A k \in 2..Len(stack) : stack[k].op \notin {"drop", "remove"}
  <2>1. \A k \in 2..Len(stack) : k \in 1..Len(stack) /\ 1 < k
    BY <1>2
  <2>2. "add" \notin Removal
    BY DEF Removal
  <2>3. QED
    BY <1>2, <2>1, <2>2 DEF StackSafe
<1>4. \A i \in 1..Len(stack') :
        IF i <= Len(fs) THEN i \in 1..Len(fs) /\ stack'[i] = fs[i]
                        ELSE stack'[i].op \notin {"drop", "remove"}
  BY <1>1, <1>2, <1>3
<1>5. \A i \in 1..Len(stack') : FrameSafe(stack[i])'
  BY <1>2, <1>4 DEF FrameSafe
<1>6. \A i, j \in 1..Len(stack') :
        j < i => stack'[i].op \notin {"drop", "remove"}
  <2>1. TAKE i, j \in 1..Len(stack')
  <2>2. CASE i <= Len(fs)
    BY <1>2, <1>4, <2>2
  <2>3. CASE i > Len(fs)
    BY <1>2, <1>4, <2>3
  <2>4. QED
    BY <1>2, <2>2, <2>3
<1>7. QED
  BY <1>1, <1>5, <1>6 DEF StackSafe

(* AddAssertFails: the node is registered, no edge is drawn.               *)
LEMMA AddAssertFailsKeeps ==
  ASSUME IInv, AddAssertFails
  PROVE  IInv'
<1>1. Top \in AddFrame
  BY InnermostFrame, FrameKinds DEF AddAssertFails
<1>2. UNCHANGED <<deps, rdeps, complete>>
  BY DEF AddAssertFails
<1>3. /\ stack' \in Seq(Frame) /\ StackSafe'
      /\ error' \in {None, "AssertionError", "RecursionError"}
  BY EmptySeq, EmptyStackSafe DEF AddAssertFails, AssertFails, Fail
<1>4. /\ nodes' \in [Key -> Node \cup {None}]
      /\ born' \in [Key -> Nat] /\ \A k \in Key : born'[k] <= MaxObjects[k]
      /\ metadata' \in [Node -> Dist \cup {None}]
  BY <1>1, RegisterType DEF AddAssertFails
<1>5. QED
  BY <1>2, <1>3, <1>4, SameEdges DEF IInv, TypeOK

(* The edge from the source is drawn on both sides.                        *)
LEMMA LinkKeepsEdges ==
  ASSUME IInv, NEW f \in AddFrame, Register(f), LinkSource(f)
  PROVE  /\ DOMAIN deps' = Node /\ \A n \in Node : IsDependencies(deps[n])'
         /\ rdeps' \in [Node -> SUBSET Node]
         /\ RequestersHaveEdge'
<1>1. CASE UNCHANGED <<rdeps, deps>>
  BY <1>1, SameEdges
<1>2. CASE /\ f.source # None
           /\ rdeps' = [rdeps EXCEPT ![Target(f.key)] = @ \cup {f.source}]
           /\ deps' = [deps EXCEPT ![f.source] = Put(@, Target(f.key), f.reason)]
  <2> DEFINE n == Target(f.key)
  <2>1. n \in Node /\ f.source \in Node /\ f.reason \in Req \cup {None}
    BY <1>2, RegisterType DEF AddFrame
  <2>2. PICK g : g = Put(deps[f.source], n, f.reason)
    OBVIOUS
  <2>3. /\ DOMAIN g = {n} \cup DOMAIN deps[f.source] /\ g[n] = f.reason
        /\ \A m \in DOMAIN deps[f.source] \ {n} : g[m] = deps[f.source][m]
    BY <2>2 DEF Put
  <2>4. /\ DOMAIN deps' = Node /\ deps'[f.source] = g
        /\ \A r \in Node \ {f.source} : deps'[r] = deps[r]
    BY <1>2, <2>1, <2>2 DEF IInv, TypeOK
  <2>5. /\ rdeps' \in [Node -> SUBSET Node] /\ rdeps'[n] = rdeps[n] \cup {f.source}
        /\ \A m \in Node \ {n} : rdeps'[m] = rdeps[m]
    BY <1>2, <2>1 DEF IInv, TypeOK
  <2> HIDE DEF n
  <2>6. ASSUME NEW r \in Node
        PROVE  IsDependencies(deps[r])'
    <3>1. IsDependencies(deps[f.source]) /\ IsDependencies(deps[r])
      BY <2>1 DEF IInv, TypeOK
    <3>2. IsDependencies(g)
      BY <2>1, <2>3, <3>1 DEF IsDependencies
    <3>3. QED
      BY <2>4, <3>1, <3>2 DEF IsDependencies
  <2>7. ASSUME NEW m \in Node, NEW r \in rdeps'[m]
        PROVE  m \in DOMAIN deps'[r]
    <3>1. CASE r \in rdeps[m]
      <4>1. r \in Node /\ m \in DOMAIN deps[r]
        BY <3>1 DEF IInv, TypeOK, RequestersHaveEdge
      <4>2. QED
        BY <2>3, <2>4, <4>1
    <3>2. CASE r \notin rdeps[m]
      BY <2>3, <2>4, <2>5, <2>7, <3>2
    <3>3. QED
      BY <3>1, <3>2
  <2>8. RequestersHaveEdge'
    BY <2>7 DEF RequestersHaveEdge
  <2>9. QED
    BY <2>4, <2>5, <2>6, <2>8
<1>3. QED
  BY <1>1, <1>2 DEF LinkSource

(* AddDist: a removal starts, the solution is applied, or nothing is left  *)
(* to do.                                                                  *)
LEMMA AddDistKeeps ==
  ASSUME IInv, AddDist
  PROVE  IInv'
<1>1. /\ stack \in Seq(Frame) /\ stack # <<>> /\ Top \in Frame
      /\ Top.op = "add" /\ Top = stack[1]
  BY InnermostFrame DEF AddDist
<1>2. Top \in AddFrame
  BY <1>1, FrameKinds
<1>3. Register(Top) /\ LinkSource(Top) /\ UNCHANGED <<complete, error>>
  BY DEF AddDist
<1>4. /\ DOMAIN deps' = Node /\ \A n \in Node : IsDependencies(deps[n])'
      /\ rdeps' \in [Node -> SUBSET Node]
      /\ RequestersHaveEdge'
  BY <1>2, <1>3, LinkKeepsEdges
<1>5. /\ Target(Top.key) \in Node /\ Held(Top) \in Dist \cup {None}
      /\ nodes' \in [Key -> Node \cup {None}]
      /\ born' \in [Key -> Nat] /\ \A k \in Key : born'[k] <= MaxObjects[k]
      /\ metadata' \in [Node -> Dist \cup {None}]
  BY <1>2, <1>3, RegisterType
<1>6. stack' \in Seq(Frame) /\ StackSafe'
  <2>1. CASE Then(<<Remove(Target(Top.key), FALSE)>>)
    <3>1. PICK a \in Frame : a = Remove(Target(Top.key), FALSE)
      BY <1>5 DEF Frame, RemoveFrame, Remove
    <3>2. PICK fs : fs = <<a>>
      OBVIOUS
    <3>3. /\ fs \in Seq(Frame) /\ 1..Len(fs) = {1} /\ fs[1] = a
          /\ a.op = "remove" /\ a.upstream = FALSE
      BY <3>1, <3>2 DEF Remove
    <3>4. stack' = fs \o Tail(stack)
      BY <2>1, <3>1, <3>2 DEF Then
    <3>5. /\ \A i \in 1..Len(fs) : /\ fs[i].op # "drop"
                                    /\ fs[i].op = "remove" => ~fs[i].upstream
          /\ \A i, j \in 1..Len(fs) : ~(j < i)
      BY <3>3
    <3>6. QED
      BY <1>1, <3>3, <3>4, <3>5, AddKeepsStack DEF IInv
  <2>2. CASE /\ ToApply(Top) # None
             /\ Then(<<[op |-> "update", node |-> Target(Top.key),
                        dist |-> ToApply(Top)],
                       [op |-> "restore", node |-> Target(Top.key)]>>)
    <3>1. ToApply(Top) \in Dist
      BY <1>2, <1>5, <2>2 DEF ToApply, AddFrame
    <3>2. PICK a \in Frame : a = [op |-> "update", node |-> Target(Top.key),
                                  dist |-> ToApply(Top)]
      BY <1>5, <3>1 DEF Frame, UpdateFrame
    <3>3. PICK b \in Frame : b = [op |-> "restore", node |-> Target(Top.key)]
      BY <1>5 DEF Frame, RestoreFrame
    <3>4. PICK fs : fs = <<a, b>>
      OBVIOUS
    <3>5. /\ fs \in Seq(Frame) /\ 1..Len(fs) = {1, 2} /\ fs[1] = a /\ fs[2] = b
          /\ a.op = "update" /\ b.op = "restore"
      BY <3>2, <3>3, <3>4
    <3>6. stack' = fs \o Tail(stack)
      BY <2>2, <3>2, <3>3, <3>4 DEF Then
    <3>7. QED
      BY <1>1, <3>5, <3>6, AddKeepsStack DEF IInv
  <2>3. CASE Return
    <3>1. PICK fs \in Seq(Frame) : fs = <<>>
      BY EmptySeq
    <3>2. stack' = fs \o Tail(stack) /\ 1..Len(fs) = {}
      BY <1>1, <2>3, <3>1, HeadTailProperties, EmptySeq, ConcatEmptySeq DEF Return
    <3>3. QED
      BY <1>1, <3>2, AddKeepsStack DEF IInv
  <2>4. QED
    BY <2>1, <2>2, <2>3 DEF AddDist
<1>7. QED
  BY <1>3, <1>4, <1>5, <1>6 DEF IInv, TypeOK

(* A call of the client is the only frame.                                 *)
LEMMA CallKeeps ==
  ASSUME IInv, NEW f \in Frame, f.op # "drop", f.op = "remove" => ~f.upstream,
         Call(f)
  PROVE  IInv'
<1>1. /\ stack' \in Seq(Frame) /\ 1..Len(stack') = {1} /\ stack'[1] = f
      /\ error' = None /\ UNCHANGED graph
  BY DEF Call
<1>2. FrameSafe(f)'
  BY DEF FrameSafe
<1>3. StackSafe'
  BY <1>1, <1>2 DEF StackSafe, FrameSafe
<1>4. QED
  BY <1>1, <1>3, SameGraph

(* Whatever the client does.                                               *)
LEMMA ClientKeeps ==
  ASSUME IInv, ClientStep
  PROVE  IInv'
<1>1. CASE \E k \in Key, d \in Dist \cup {None}, src \in Node \cup {None},
              why \in Req \cup {None} : CallAdd(k, d, src, why)
  <2>1. PICK k \in Key, d \in Dist \cup {None}, src \in Node \cup {None},
             why \in Req \cup {None} : CallAdd(k, d, src, why)
    BY <1>1
  <2>2. PICK f \in Frame : f = Add(k, d, src, why)
    BY DEF Frame, AddFrame, Add
  <2>3. f.op = "add"
    BY <2>2 DEF Add
  <2>4. QED
    BY <2>1, <2>2, <2>3, CallKeeps DEF CallAdd
<1>2. CASE \E n \in Node : CallRemove(n)
  <2>1. PICK n \in Node : CallRemove(n)
    BY <1>2
  <2>2. PICK f \in Frame : f = Remove(n, FALSE)
    BY DEF Frame, RemoveFrame, Remove
  <2>3. f.op = "remove" /\ ~f.upstream
    BY <2>2 DEF Remove
  <2>4. QED
    BY <2>1, <2>2, <2>3, CallKeeps DEF CallRemove
<1>3. CASE Catch
  <2>1. /\ UNCHANGED graph /\ stack' = stack /\ error' = None
        /\ UNCHANGED <<deps, rdeps>>
    BY <1>3 DEF Catch, graph
  <2>2. StackSafe'
    BY <2>1 DEF IInv, StackSafe, FrameSafe
  <2>3. QED
    BY <2>1, <2>2, SameGraph DEF IInv, TypeOK
<1>4. QED
  BY <1>1, <1>2, <1>3 DEF ClientStep

-----------------------------------------------------------------------------
(* The theorems *)

(* An empty graph satisfies the inductive invariant.                       *)
LEMMA InitKeeps ==
  ASSUME Init
  PROVE  IInv
<1>1. TypeOK
  BY EmptySeq, MaxObjectsAssumption DEF Init, TypeOK, IsDependencies
<1>2. RequestersHaveEdge
  BY DEF Init, RequestersHaveEdge
<1>3. StackSafe
  BY DEF Init, StackSafe
<1>4. QED
  BY <1>1, <1>2, <1>3 DEF IInv

(* Every step of the graph and of its client preserves it.                 *)
LEMMA StepKeeps ==
  ASSUME IInv, [Next]_vars
  PROVE  IInv'
<1>1. ASSUME GraphStep PROVE IInv'
  <2>1. CASE LastExtra
    BY <2>1, ReturnKeeps DEF LastExtra, InCall
  <2>2. CASE AlreadyRemoved
    BY <2>2, ReturnKeeps DEF AlreadyRemoved, InCall
  <2>3. QED
    BY <1>1, <2>1, <2>2, TooManyFramesKeeps, AddAssertFailsKeeps, AddDistKeeps,
       RestoreKeeps, UpdateDistsKeeps, NextExtraKeeps, NextRequirementKeeps,
       UpdateCompleteKeeps, CompleteNextKeeps, RemoveDistsKeeps, DropDepKeeps,
       UnsolveKeeps DEF GraphStep
<1>2. CASE UNCHANGED vars
  <2>1. UNCHANGED <<nodes, born, metadata, deps, rdeps, complete, stack, error>>
    BY <1>2 DEF vars, graph
  <2>2. QED
    BY <2>1 DEF IInv, TypeOK, IsDependencies, RequestersHaveEdge, StackSafe, FrameSafe
<1>3. QED
  BY <1>1, <1>2, ClientKeeps DEF Next

(* The inductive invariant holds in every reachable state.                 *)
THEOREM Inductive == Spec => []IInv
  BY InitKeeps, StepKeeps, PTL DEF Spec

(* TypeOK of DistGraph, whatever the client of the graph does: add_dist,   *)
(* remove_dists, _update_dists and update_complete keep the shapes of the  *)
(* graph, and the extras they visit are extras somebody asked for.         *)
THEOREM TypeCorrect == Spec => []TypeOK
  BY Inductive, PTL DEF IInv

(* RequestersHaveEdge, whatever the client of the graph does: the property *)
(* extras (dists.py:66) and the loop of remove_dists (dists.py:367) never  *)
(* look up an edge that is not there.                                      *)
THEOREM RequestersKeepEdges == Spec => []RequestersHaveEdge
  BY Inductive, PTL DEF IInv

-----------------------------------------------------------------------------
(* Whose distribution a node holds *)

(* What add_dist and _update_dists still have to apply is a distribution   *)
(* of the project whose node they apply it to.                             *)
Named(f) ==
  /\ f.op = "add" /\ f.dist # None => f.dist.name = f.key
  /\ f.op = "update" => f.dist.name = KeyOf(f.node)
StackNamed(s) == \A i \in 1..Len(s) : Named(s[i])

(* The collection registers a node under its own key, and a node holds a   *)
(* distribution of its own project: a walkback reads the version to avoid  *)
(* from the node and the project to avoid it for from its key              *)
(* (compile.py:199-211).                                                   *)
KeysAgree ==
  /\ \A k \in Key : nodes[k] # None => KeyOf(nodes[k]) = k
  /\ \A n \in Node : metadata[n] # None => metadata[n].name = KeyOf(n)

(* The inductive invariant. *)
NamesInv == IInv /\ KeysAgree /\ StackNamed(stack)

(* The innermost frame is replaced by nothing, by one frame or by two.     *)
LEMMA NamedFrames ==
  ASSUME NEW s \in Seq(Frame), s # <<>>, StackNamed(s),
         NEW a, NEW b, Named(a), Named(b)
  PROVE  /\ StackNamed(Tail(s))
         /\ StackNamed(<<a>> \o Tail(s))
         /\ StackNamed(<<a, b>> \o Tail(s))
<1> DEFINE X == Frame \cup {a, b}
<1>1. /\ Tail(s) \in Seq(Frame) /\ Len(Tail(s)) = Len(s) - 1
      /\ \A i \in 1..Len(Tail(s)) : Tail(s)[i] = s[i + 1]
      /\ Len(s) \in Nat
  BY HeadTailProperties
<1>2. \A i \in 1..Len(Tail(s)) : Named(Tail(s)[i])
  BY <1>1 DEF StackNamed
<1>3. Tail(s) \in Seq(X)
  BY <1>1, SeqMonotonic
<1>4. /\ <<a>> \in Seq(X) /\ Len(<<a>>) = 1 /\ <<a>>[1] = a
      /\ <<a, b>> \in Seq(X) /\ Len(<<a, b>>) = 2
      /\ <<a, b>>[1] = a /\ <<a, b>>[2] = b
  OBVIOUS
<1>5. ASSUME NEW fs \in Seq(X), \A i \in 1..Len(fs) : Named(fs[i])
      PROVE  StackNamed(fs \o Tail(s))
  <2>1. /\ Len(fs \o Tail(s)) = Len(fs) + Len(Tail(s))
        /\ \A i \in 1..(Len(fs) + Len(Tail(s))) :
             (fs \o Tail(s))[i] = IF i <= Len(fs) THEN fs[i]
                                  ELSE Tail(s)[i - Len(fs)]
        /\ Len(fs) \in Nat /\ Len(Tail(s)) \in Nat
    BY <1>3, ConcatProperties
  <2>2. ASSUME NEW i \in 1..(Len(fs) + Len(Tail(s)))
        PROVE  Named((fs \o Tail(s))[i])
    <3>1. CASE i <= Len(fs)
      BY <2>1, <3>1, <1>5
    <3>2. CASE i > Len(fs)
      <4>1. i - Len(fs) \in 1..Len(Tail(s))
        BY <2>1, <3>2
      <4>2. (fs \o Tail(s))[i] = Tail(s)[i - Len(fs)]
        BY <2>1, <3>2
      <4>3. QED
        BY <4>1, <4>2, <1>2
    <3>3. QED
      BY <2>1, <3>1, <3>2
  <2>3. QED
    BY <2>1, <2>2 DEF StackNamed
<1>6. QED
  BY <1>2, <1>4, <1>5 DEF StackNamed

(* Steps that neither register a node nor give one a distribution.         *)
LEMMA GraphKeepsNames ==
  ASSUME NamesInv,
         \A k \in Key : nodes'[k] \in {nodes[k], None},
         \A n \in Node : metadata'[n] \in {metadata[n], None}
  PROVE  KeysAgree'
  BY DEF NamesInv, KeysAgree

LEMMA NoneNamed ==
  ASSUME NEW f, f.op \notin {"add", "update"}
  PROVE  Named(f)
  BY DEF Named

(* Register: the node is the one of the key, and a new one holds what was  *)
(* given for the key.                                                      *)
LEMMA RegisterKeepsNames ==
  ASSUME NamesInv, NEW f \in AddFrame, Named(f), f.op = "add", Register(f)
  PROVE  /\ KeysAgree' /\ KeyOf(Target(f.key)) = f.key
         /\ Held(f) # None => Held(f).name = f.key
<1>1. f.key \in Key
  BY DEF AddFrame
<1>2. KeyOf(Target(f.key)) = f.key /\ Target(f.key) \in Node
  <2>1. CASE nodes[f.key] # None
    BY <1>1, <2>1 DEF Target, NamesInv, KeysAgree, IInv, TypeOK
  <2>2. CASE nodes[f.key] = None
    <3>1. born[f.key] \in Nat /\ MaxObjects[f.key] \in Nat
          /\ born[f.key] < MaxObjects[f.key]
      BY <1>1, <2>2, MaxObjectsAssumption DEF Register, NamesInv, IInv, TypeOK
    <3>2. <<f.key, born[f.key] + 1>> \in Node
      BY <1>1, <3>1, NodeType
    <3>3. QED
      BY <2>2, <3>2 DEF Target, KeyOf
  <2>3. QED
    BY <2>1, <2>2
<1>3. Held(f) # None => Held(f).name = f.key
  <2>1. CASE nodes[f.key] # None
    BY <1>2, <2>1 DEF Held, NamesInv, KeysAgree
  <2>2. CASE nodes[f.key] = None
    BY <2>2 DEF Held, Named
  <2>3. QED
    BY <2>1, <2>2
<1>4. \A k \in Key : nodes'[k] # None => KeyOf(nodes'[k]) = k
  BY <1>1, <1>2 DEF Register, NamesInv, KeysAgree, IInv, TypeOK
<1>5. \A n \in Node : metadata'[n] # None => metadata'[n].name = KeyOf(n)
  BY <1>2, <1>3 DEF Register, NamesInv, KeysAgree, IInv, TypeOK
<1>6. QED
  BY <1>2, <1>3, <1>4, <1>5 DEF KeysAgree

(* AddDist: the solution that is applied is the one given, or the one the  *)
(* node holds already.                                                     *)
LEMMA AddDistKeepsNames ==
  ASSUME NamesInv, AddDist
  PROVE  KeysAgree' /\ StackNamed(stack)'
<1>1. /\ stack \in Seq(Frame) /\ stack # <<>> /\ Top \in Frame
      /\ Top.op = "add" /\ Top = stack[1] /\ StackNamed(stack)
  BY InnermostFrame DEF AddDist, NamesInv
<1>2. Top \in AddFrame /\ 1 \in 1..Len(stack)
  BY <1>1, FrameKinds, EmptySeq
<1>3. Named(Top)
  BY <1>1, <1>2 DEF StackNamed
<1>4. Register(Top)
  BY DEF AddDist
<1>5. /\ KeysAgree' /\ KeyOf(Target(Top.key)) = Top.key
      /\ Held(Top) # None => Held(Top).name = Top.key
  BY <1>1, <1>2, <1>3, <1>4, RegisterKeepsNames
<1>6. StackNamed(stack')
  <2>1. CASE Then(<<Remove(Target(Top.key), FALSE)>>)
    <3>1. Named(Remove(Target(Top.key), FALSE))
      BY NoneNamed DEF Remove
    <3>2. QED
      BY <1>1, <2>1, <3>1, NamedFrames DEF Then
  <2>2. CASE /\ ToApply(Top) # None
             /\ Then(<<[op |-> "update", node |-> Target(Top.key),
                        dist |-> ToApply(Top)],
                       [op |-> "restore", node |-> Target(Top.key)]>>)
    <3>1. ToApply(Top).name = Top.key
      BY <1>1, <1>3, <1>5, <2>2 DEF ToApply, Named
    <3>2. PICK a : a = [op |-> "update", node |-> Target(Top.key),
                        dist |-> ToApply(Top)]
      OBVIOUS
    <3>3. PICK b : b = [op |-> "restore", node |-> Target(Top.key)]
      OBVIOUS
    <3>4. Named(a) /\ Named(b)
      BY <1>5, <3>1, <3>2, <3>3 DEF Named
    <3>5. stack' = <<a, b>> \o Tail(stack)
      BY <2>2, <3>2, <3>3 DEF Then
    <3>6. QED
      BY <1>1, <3>4, <3>5, NamedFrames
  <2>3. CASE Return
    <3>1. Named(Complete(0))
      BY NoneNamed DEF Complete
    <3>2. QED
      BY <1>1, <2>3, <3>1, NamedFrames DEF Return
  <2>4. QED
    BY <2>1, <2>2, <2>3 DEF AddDist
<1>7. QED
  BY <1>5, <1>6

(* The frames of the other steps ask for no distribution.                  *)
GivesNothing(f) == f.op \notin {"add", "update"} \/ (f.op = "add" /\ f.dist = None)

LEMMA ReturnNamed ==
  ASSUME NamesInv, stack # <<>>, Return
  PROVE  StackNamed(stack)'
<1>1. stack \in Seq(Frame) /\ StackNamed(stack)
  BY DEF NamesInv, IInv, TypeOK
<1>2. PICK a : a = Complete(None)
  OBVIOUS
<1>3. Named(a)
  BY <1>2 DEF Named, Complete
<1>4. QED
  BY <1>1, <1>3, NamedFrames DEF Return

LEMMA OneNamed ==
  ASSUME NamesInv, stack # <<>>, NEW a, GivesNothing(a), Then(<<a>>)
  PROVE  StackNamed(stack)'
<1>1. Named(a)
  BY DEF Named, GivesNothing
<1>2. stack \in Seq(Frame) /\ StackNamed(stack)
  BY DEF NamesInv, IInv, TypeOK
<1>3. QED
  BY <1>1, <1>2, NamedFrames DEF Then

LEMMA TwoNamed ==
  ASSUME NamesInv, stack # <<>>, NEW a, NEW b, GivesNothing(a), GivesNothing(b),
         Then(<<a, b>>)
  PROVE  StackNamed(stack)'
<1>1. Named(a) /\ Named(b)
  BY DEF Named, GivesNothing
<1>2. stack \in Seq(Frame) /\ StackNamed(stack)
  BY DEF NamesInv, IInv, TypeOK
<1>3. QED
  BY <1>1, <1>2, NamedFrames DEF Then

(* Every step of the graph.                                                *)
LEMMA GraphStepNames ==
  ASSUME NamesInv, GraphStep
  PROVE  KeysAgree' /\ StackNamed(stack)'
<1>1. nodes \in [Key -> Node \cup {None}] /\ metadata \in [Node -> Dist \cup {None}]
  BY DEF NamesInv, IInv, TypeOK
<1>2. ASSUME stack' = <<>> PROVE StackNamed(stack)'
  BY <1>2 DEF StackNamed
<1>3. ASSUME UNCHANGED <<nodes, metadata>> PROVE KeysAgree'
  BY <1>3 DEF NamesInv, KeysAgree
<1>4. ASSUME NEW op, InCall(op)
      PROVE  /\ stack # <<>> /\ Top \in Frame /\ Top.op = op
             /\ IInv /\ StackNamed(stack)
  BY <1>4, InnermostFrame DEF NamesInv
<1>5. CASE TooManyFrames
  BY <1>5, <1>2, <1>3 DEF TooManyFrames, Fail, graph
<1>6. CASE AddAssertFails
  <2>1. Top \in Frame /\ Top.op = "add"
    BY <1>4, <1>6 DEF AddAssertFails
  <2>2. Top \in AddFrame /\ Top = stack[1] /\ 1 \in 1..Len(stack)
    BY <1>4, <1>6, <2>1, InnermostFrame, FrameKinds, EmptySeq
       DEF AddAssertFails, NamesInv, IInv, TypeOK
  <2>3. Named(Top)
    BY <2>2 DEF NamesInv, StackNamed
  <2>4. QED
    BY <1>2, <1>6, <2>1, <2>2, <2>3, RegisterKeepsNames
       DEF AddAssertFails, AssertFails, Fail
<1>7. CASE Restore
  <2>1. stack # <<>> /\ Top \in RestoreFrame /\ Return /\ UNCHANGED metadata
    BY <1>4, <1>7, FrameKinds DEF Restore
  <2>2. Top.node \in Node /\ KeyOf(Top.node) \in Key
    BY <2>1, NodeType DEF RestoreFrame
  <2>3. \A k \in Key : nodes'[k] # None => KeyOf(nodes'[k]) = k
    BY <1>1, <1>7, <2>2 DEF Restore, NamesInv, KeysAgree
  <2>4. KeysAgree'
    BY <2>1, <2>3 DEF NamesInv, KeysAgree
  <2>5. StackNamed(stack)'
    BY <2>1, ReturnNamed
  <2>6. QED
    BY <2>4, <2>5
<1>8. CASE UpdateDists
  <2>1. /\ stack \in Seq(Frame) /\ stack # <<>> /\ Top \in UpdateFrame
        /\ Top = stack[1] /\ 1 \in 1..Len(stack) /\ Top.op = "update"
    BY <1>4, <1>8, InnermostFrame, FrameKinds, EmptySeq DEF UpdateDists
  <2>2. Top.node \in Node /\ Top.dist.name = KeyOf(Top.node)
    BY <1>4, <1>8, <2>1 DEF StackNamed, Named, UpdateFrame, UpdateDists
  <2>3. KeysAgree'
    BY <1>1, <1>8, <2>2 DEF UpdateDists, NamesInv, KeysAgree
  <2>4. CASE AssertFails
    BY <2>3, <2>4, <1>2 DEF AssertFails, Fail
  <2>5. CASE Then(<<[op |-> "extras", node |-> Top.node, dist |-> Top.dist,
                     todo |-> Extras(Top.node) \cup {None}],
                    Complete(Top.node)>>)
    <3>1. PICK a : a = [op |-> "extras", node |-> Top.node, dist |-> Top.dist,
                        todo |-> Extras(Top.node) \cup {None}]
      OBVIOUS
    <3>2. a.op = "extras" /\ Complete(Top.node).op = "complete"
      BY <3>1 DEF Complete
    <3>3. StackNamed(stack)'
      BY <2>1, <2>5, <3>1, <3>2, TwoNamed DEF GivesNothing
    <3>4. QED
      BY <2>3, <3>3
  <2>6. QED
    BY <1>8, <2>4, <2>5 DEF UpdateDists
<1>9. CASE NextExtra
  <2>1. stack # <<>> /\ Top \in ExtrasFrame /\ UNCHANGED <<nodes, metadata>>
    BY <1>4, <1>9, FrameKinds DEF NextExtra, graph
  <2>2. PICK e \in Top.todo :
          \/ AssertFails
          \/ Then(<<[Top EXCEPT !.todo = @ \ {e}]>>)
          \/ Then(<<[op |-> "requires", node |-> Top.node,
                     todo |-> Top.dist.requires[e]],
                    [Top EXCEPT !.todo = @ \ {e}]>>)
    BY <1>9 DEF NextExtra
  <2>3. PICK a : a = [op |-> "requires", node |-> Top.node,
                      todo |-> Top.dist.requires[e]]
    OBVIOUS
  <2>4. PICK b : b = [Top EXCEPT !.todo = @ \ {e}]
    OBVIOUS
  <2>5. a.op = "requires" /\ b.op = "extras"
    BY <2>1, <2>3, <2>4 DEF ExtrasFrame
  <2>6. StackNamed(stack)'
    BY <1>2, <2>1, <2>2, <2>3, <2>4, <2>5, OneNamed, TwoNamed
       DEF AssertFails, Fail, GivesNothing
  <2>7. QED
    BY <1>3, <2>1, <2>6
<1>10. CASE LastExtra \/ AlreadyRemoved
  <2>1. stack # <<>> /\ Return /\ UNCHANGED <<nodes, metadata>>
    BY <1>10 DEF LastExtra, AlreadyRemoved, InCall, graph
  <2>2. StackNamed(stack)'
    BY <2>1, ReturnNamed
  <2>3. QED
    BY <1>3, <2>1, <2>2
<1>11. CASE NextRequirement
  <2>1. stack # <<>> /\ Top \in RequiresFrame /\ UNCHANGED <<nodes, metadata>>
    BY <1>4, <1>11, FrameKinds DEF NextRequirement, graph
  <2>2. PICK a : a = Add(Head(Top.todo).name, None, Top.node, Head(Top.todo))
    OBVIOUS
  <2>3. PICK b : b = [Top EXCEPT !.todo = Tail(@)]
    OBVIOUS
  <2>4. a.op = "add" /\ a.dist = None /\ b.op = "requires"
    BY <2>1, <2>2, <2>3 DEF Add, RequiresFrame
  <2>5. Return \/ Then(<<a, b>>)
    BY <1>11, <2>2, <2>3 DEF NextRequirement
  <2>6. StackNamed(stack)'
    BY <2>1, <2>4, <2>5, ReturnNamed, TwoNamed DEF GivesNothing
  <2>7. QED
    BY <1>3, <2>1, <2>6
<1>12. CASE UpdateComplete
  <2>1. stack # <<>> /\ UNCHANGED <<nodes, metadata>>
    BY <1>4, <1>12 DEF UpdateComplete
  <2>2. PICK a : a = [op |-> "completes", todo |-> rdeps[Top.node]]
    OBVIOUS
  <2>3. a.op = "completes" /\ (Return \/ Then(<<a>>))
    BY <1>12, <2>2 DEF UpdateComplete
  <2>4. StackNamed(stack)'
    BY <2>1, <2>3, ReturnNamed, OneNamed DEF GivesNothing
  <2>5. QED
    BY <1>3, <2>1, <2>4
<1>13. CASE CompleteNext
  <2>1. stack # <<>> /\ Top \in CompletesFrame /\ UNCHANGED <<nodes, metadata>>
    BY <1>4, <1>13, FrameKinds DEF CompleteNext, graph
  <2>2. CASE Return
    <3>1. StackNamed(stack)'
      BY <2>1, <2>2, ReturnNamed
    <3>2. QED
      BY <1>3, <2>1, <3>1
  <2>3. CASE \E n \in Top.todo : Then(<<Complete(n), [Top EXCEPT !.todo = @ \ {n}]>>)
    <3>1. PICK n \in Top.todo : Then(<<Complete(n), [Top EXCEPT !.todo = @ \ {n}]>>)
      BY <2>3
    <3>2. PICK b : b = [Top EXCEPT !.todo = @ \ {n}]
      OBVIOUS
    <3>3. Complete(n).op = "complete" /\ b.op = "completes"
      BY <2>1, <3>2 DEF Complete, CompletesFrame
    <3>4. StackNamed(stack)'
      BY <2>1, <3>1, <3>2, <3>3, TwoNamed DEF GivesNothing
    <3>5. QED
      BY <1>3, <2>1, <3>4
  <2>4. QED
    BY <1>13, <2>2, <2>3 DEF CompleteNext
<1>14. CASE RemoveDists
  <2>1. stack # <<>> /\ Top \in RemoveFrame /\ UNCHANGED metadata
    BY <1>4, <1>14, FrameKinds DEF RemoveDists
  <2>2. \A k \in Key : nodes'[k] \in {nodes[k], None}
    BY <1>1, <1>14 DEF RemoveDists
  <2>3. KeysAgree'
    BY <2>1, <2>2, GraphKeepsNames
  <2>4. PICK a : a = [op |-> "drop", node |-> Top.node,
                      todo |-> DOMAIN deps'[Top.node], upstream |-> Top.upstream]
    OBVIOUS
  <2>5. a.op = "drop" /\ Then(<<a>>)
    BY <1>14, <2>4 DEF RemoveDists
  <2>6. QED
    BY <2>1, <2>3, <2>5, OneNamed DEF GivesNothing
<1>15. CASE DropDep
  <2>1. stack # <<>> /\ Top \in DropFrame /\ UNCHANGED <<nodes, metadata>>
    BY <1>4, <1>15, FrameKinds DEF DropDep
  <2>2. PICK d \in Top.todo :
          \/ Then(<<Remove(d, TRUE), [Top EXCEPT !.todo = @ \ {d}]>>)
          \/ Then(<<[Top EXCEPT !.todo = @ \ {d}]>>)
    BY <1>15 DEF DropDep
  <2>3. PICK b : b = [Top EXCEPT !.todo = @ \ {d}]
    OBVIOUS
  <2>4. Remove(d, TRUE).op = "remove" /\ b.op = "drop"
    BY <2>1, <2>3 DEF Remove, DropFrame
  <2>5. StackNamed(stack)'
    BY <2>1, <2>2, <2>3, <2>4, OneNamed, TwoNamed DEF GivesNothing
  <2>6. QED
    BY <1>3, <2>1, <2>5
<1>16. CASE Unsolve
  <2>1. /\ stack # <<>> /\ UNCHANGED nodes
        /\ Return \/ Then(<<Complete(Top.node)>>)
    BY <1>4, <1>16 DEF Unsolve
  <2>2. \A n \in Node : metadata'[n] \in {metadata[n], None}
    BY <1>1, <1>16 DEF Unsolve
  <2>3. KeysAgree'
    BY <2>1, <2>2, GraphKeepsNames
  <2>4. StackNamed(stack)'
    BY <2>1, ReturnNamed, OneNamed DEF GivesNothing, Complete
  <2>5. QED
    BY <2>3, <2>4
<1>17. QED
  BY <1>5, <1>6, <1>7, <1>8, <1>9, <1>10, <1>11, <1>12, <1>13, <1>14, <1>15,
     <1>16, AddDistKeepsNames DEF GraphStep

(* Whatever the client asks for.                                           *)
LEMMA ClientKeepsNames ==
  ASSUME NamesInv, ClientStep
  PROVE  KeysAgree' /\ StackNamed(stack)'
<1>1. ASSUME NEW f, Named(f), Call(f)
      PROVE  KeysAgree' /\ StackNamed(stack)'
  <2>1. Len(<<f>>) = 1 /\ <<f>>[1] = f
    OBVIOUS
  <2>2. StackNamed(<<f>>)
    BY <1>1, <2>1 DEF StackNamed
  <2>3. QED
    BY <1>1, <2>2 DEF Call, NamesInv, KeysAgree, graph
<1>2. CASE \E k \in Key, d \in Dist \cup {None}, src \in Node \cup {None},
              why \in Req \cup {None} :
             (d # None => d.name = k) /\ CallAdd(k, d, src, why)
  <2>1. PICK k \in Key, d \in Dist \cup {None}, src \in Node \cup {None},
             why \in Req \cup {None} :
               (d # None => d.name = k) /\ CallAdd(k, d, src, why)
    BY <1>2
  <2>2. Named(Add(k, d, src, why))
    BY <2>1 DEF Named, Add
  <2>3. QED
    BY <1>1, <2>1, <2>2 DEF CallAdd
<1>3. CASE \E n \in Node : CallRemove(n)
  <2>1. PICK n \in Node : CallRemove(n)
    BY <1>3
  <2>2. Named(Remove(n, FALSE))
    BY NoneNamed DEF Remove
  <2>3. QED
    BY <1>1, <2>1, <2>2 DEF CallRemove
<1>4. CASE Catch
  BY <1>4 DEF Catch, graph, NamesInv, KeysAgree
<1>5. QED
  BY <1>2, <1>3, <1>4 DEF ClientStep

(* The invariant is kept by every step.                                    *)
LEMMA NamesKeep ==
  ASSUME NamesInv, [Next]_vars
  PROVE  NamesInv'
<1>1. IInv'
  BY StepKeeps DEF NamesInv
<1>2. CASE UNCHANGED vars
  BY <1>1, <1>2 DEF vars, graph, NamesInv, KeysAgree
<1>3. QED
  BY <1>1, <1>2, GraphStepNames, ClientKeepsNames DEF NamesInv, Next

LEMMA NamesStart ==
  ASSUME Init
  PROVE  NamesInv
<1>1. IInv
  BY InitKeeps
<1>2. KeysAgree /\ StackNamed(stack)
  BY EmptySeq DEF Init, KeysAgree, StackNamed
<1>3. QED
  BY <1>1, <1>2 DEF NamesInv

(* KeysAgree, whatever the client of the graph does, as long as it gives   *)
(* add_dist distributions under their own names.                           *)
THEOREM NodesHoldTheirOwn == Spec => []KeysAgree
  BY NamesStart, NamesKeep, PTL DEF Spec, NamesInv
=============================================================================
