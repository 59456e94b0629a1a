---------------------------- MODULE AcyclicProofs ----------------------------
(***************************************************************************)
(* On an index without cycles every solution fits what is required of it:  *)
(* SolutionsFitRequesters, for any number of projects, versions, extras    *)
(* and inputs.                                                             *)
(*                                                                         *)
(* The invariant does not keep itself: in the middle of a call of add_dist *)
(* a node may be solved before its requirements are drawn, after they      *)
(* changed, or while it is being taken back.  The frames on the stack say  *)
(* which nodes these are.  On an acyclic index the frames lie on falling   *)
(* levels, so that a call never comes back to a node whose call waits: the *)
(* node is still registered, with the distribution and the extras it had   *)
(* when the call began.                                                    *)
(*                                                                         *)
(* The later sections build on this invariant: what is said to be complete *)
(* is solved (CompleteMeansSolved), and the reasons on the edges are those *)
(* of the distributions that are held (ReasonsCurrent).  The last one *)
(* needs no acyclic index: the roots stay complete when the constraint     *)
(* files join the results (RootsComplete).                                 *)
(***************************************************************************)
EXTENDS CompileProofs

(* What a distribution requires with an extra, or without one. *)
Reqs(d, e) == {d.requires[e][i] : i \in DOMAIN d.requires[e]}

(* An index is acyclic when the names can be put on levels so that every   *)
(* distribution, whatever its version, only requires what lies below it.   *)
Descending(h) ==
  \A d \in Dist : \A e \in Extra \cup {None} : \A r \in Reqs(d, e) :
    h[r.name] < h[d.name]
Acyclic == \E h \in [Key -> Nat] : Descending(h)
Height == CHOOSE h \in [Key -> Nat] : Descending(h)
Level(n) == Height[KeyOf(n)]

(* No distribution requires an input that comes with a version: a local    *)
(* project that is given as an input is registered whatever the files that *)
(* were registered before require of it (compile.py:358). *)
InputDists(in) == {in.roots[i] : i \in DOMAIN in.roots}
                    \cup {in.constraints[i] : i \in DOMAIN in.constraints}
InputsApart ==
  \A in \in Inputs : \A d \in InputDists(in) : d.version # None =>
    \A c \in Dist : \A e \in Extra \cup {None} : \A r \in Reqs(c, e) :
      r.name # d.name

-----------------------------------------------------------------------------
(* The order of the frames *)

FramesOf(s) == {s[i] : i \in 1..Len(s)}
LowerOf(s) == {s[i] : i \in 2..Len(s)}
Frames == FramesOf(stack)
Lower == LowerOf(stack)

Completing == {"complete", "completes"}
FrameLevel(f) == IF f.op = "add" THEN Height[f.key] ELSE Level(f.node)
(* f is a step of what g does for its own node. *)
PartOf(f, g) ==
  /\ \/ g.op = "restore" /\ f.op \in {"update", "extras", "requires"}
     \/ g.op = "extras" /\ f.op = "requires"
  /\ f.node = g.node
Above(f, g) == \/ f.op \in Completing \/ g.op \in Completing
               \/ FrameLevel(f) < FrameLevel(g)
               \/ PartOf(f, g)
(* A frame that has called another one is none of these. *)
Leaf == {"add", "update", "remove"}
Orderly(s) == /\ \A i, j \in 1..Len(s) : i < j => Above(s[i], s[j])
              /\ \A i \in 2..Len(s) : s[i].op \notin Leaf

Born(n) == n[2] <= born[KeyOf(n)]
Updating(m) == \E f \in Frames : f.op \in {"extras", "requires"} /\ f.node = m
OwnReq(m, r) == /\ metadata[m] # None
                /\ \E e \in Extra \cup {None} : r \in Reqs(metadata[m], e)

Placed(f) ==
  /\ f.op = "add" /\ f.source # None =>
       Born(f.source) /\ Height[f.key] < Level(f.source)
  /\ f.op = "add" /\ f.dist = None =>
       /\ f.source # None /\ f.reason # None /\ f.reason.name = f.key
       /\ Live(f.source) /\ OwnReq(f.source, f.reason)
  /\ f.op \in {"restore", "update", "extras", "requires"} => Live(f.node)
  /\ f.op = "extras" => /\ metadata[f.node] = f.dist
                        /\ f.todo \subseteq Extras(f.node) \cup {None}
  /\ f.op = "requires" => \A i \in DOMAIN f.todo : OwnReq(f.node, f.todo[i])
  /\ f.op = "drop" => \A d \in f.todo : Level(d) < Level(f.node)
  /\ f.op = "drop" /\ f.upstream => ~Live(f.node)

(* The requirements of a node are added while it is updated, and a client  *)
(* adds a distribution while no node is. *)
Caller(f) == f.op = "add" => IF f.dist = None THEN Updating(f.source)
                             ELSE \A m \in Node : ~Updating(m)

EdgesDescend == \A m \in Node : \A d \in DOMAIN deps[m] :
                  Level(d) < Level(m) /\ Born(d)
Latest == \A k \in Key : nodes[k] # None => nodes[k] = <<k, born[k]>>
Fresh == \A n \in Node : ~Born(n) => DOMAIN deps[n] = {}

Layered == /\ EdgesDescend /\ Latest /\ Fresh /\ Orderly(stack)
           /\ \A f \in Frames : Placed(f) /\ Caller(f)

-----------------------------------------------------------------------------
(* Stacks *)

(* The places of the frames after the innermost one was replaced.          *)
LEMMA Positions ==
  ASSUME NEW S, NEW s \in Seq(S), s # <<>>, NEW a, NEW b, NEW t
  PROVE  /\ Len(s) \in Nat \ {0} /\ Head(s) = s[1]
         /\ t = Tail(s) => /\ Len(t) = Len(s) - 1
                           /\ \A i \in 1..Len(t) : t[i] = s[i + 1]
         /\ t = <<a>> \o Tail(s) => /\ Len(t) = Len(s) /\ t[1] = a
                                    /\ \A i \in 2..Len(t) : t[i] = s[i]
         /\ t = <<a, b>> \o Tail(s) =>
              /\ Len(t) = Len(s) + 1 /\ t[1] = a /\ t[2] = b
              /\ \A i \in 3..Len(t) : t[i] = s[i - 1]
<1> DEFINE X == S \cup {a, b}
<1>1. /\ Tail(s) \in Seq(S) /\ Len(Tail(s)) = Len(s) - 1 /\ Head(s) = s[1]
      /\ \A i \in 1..Len(Tail(s)) : Tail(s)[i] = s[i + 1]
      /\ Len(s) \in Nat \ {0}
  BY HeadTailProperties, EmptySeq
<1>2. PICK u \in Seq(X) : u = Tail(s) /\ Len(u) = Len(s) - 1
                          /\ \A i \in 1..Len(u) : u[i] = s[i + 1]
  BY <1>1, SeqMonotonic
<1>3. PICK x \in Seq(X) : x = <<a>> /\ Len(x) = 1 /\ x[1] = a
  <2>1. <<a>> \in Seq(X) /\ Len(<<a>>) = 1 /\ <<a>>[1] = a
    OBVIOUS
  <2>2. QED
    BY <2>1
<1>4. PICK y \in Seq(X) : y = <<a, b>> /\ Len(y) = 2 /\ y[1] = a /\ y[2] = b
  <2>1. /\ <<a, b>> \in Seq(X) /\ Len(<<a, b>>) = 2
        /\ <<a, b>>[1] = a /\ <<a, b>>[2] = b
    OBVIOUS
  <2>2. QED
    BY <2>1
<1> HIDE DEF X
<1>5. ASSUME t = x \o u
      PROVE  Len(t) = Len(s) /\ t[1] = a /\ \A i \in 2..Len(t) : t[i] = s[i]
  <2>1. /\ Len(t) = 1 + Len(u)
        /\ \A i \in 1..(1 + Len(u)) : t[i] = IF i <= 1 THEN x[i] ELSE u[i - 1]
    BY <1>2, <1>3, <1>5, ConcatProperties
  <2>2. QED
    BY <1>1, <1>2, <1>3, <2>1
<1>6. ASSUME t = y \o u
      PROVE  /\ Len(t) = Len(s) + 1 /\ t[1] = a /\ t[2] = b
             /\ \A i \in 3..Len(t) : t[i] = s[i - 1]
  <2>1. /\ Len(t) = 2 + Len(u)
        /\ \A i \in 1..(2 + Len(u)) : t[i] = IF i <= 2 THEN y[i] ELSE u[i - 2]
    BY <1>2, <1>4, <1>6, ConcatProperties
  <2>2. QED
    BY <1>1, <1>2, <1>4, <2>1
<1>7. QED
  BY <1>1, <1>2, <1>3, <1>4, <1>5, <1>6

(* The innermost frame, and the frames that wait. *)
LEMMA FramesBefore ==
  ASSUME NEW S, NEW s \in Seq(S), s # <<>>
  PROVE  /\ Head(s) \in S /\ LowerOf(s) \subseteq S
         /\ FramesOf(s) = {Head(s)} \cup LowerOf(s)
         /\ Orderly(s) =>
              \A g \in LowerOf(s) : Above(Head(s), g) /\ g.op \notin Leaf
<1>1. /\ Len(s) \in Nat \ {0} /\ Head(s) = s[1]
      /\ \A i \in 1..Len(s) : s[i] \in S
  BY Positions, ElementOfSeq
<1>2. Head(s) \in S /\ LowerOf(s) \subseteq S
  BY <1>1 DEF LowerOf
<1>3. FramesOf(s) = {Head(s)} \cup LowerOf(s)
  BY <1>1 DEF FramesOf, LowerOf
<1>4. ASSUME Orderly(s)
      PROVE  \A g \in LowerOf(s) : Above(Head(s), g) /\ g.op \notin Leaf
  <2>1. ASSUME NEW j \in 2..Len(s)
        PROVE  Above(s[1], s[j]) /\ s[j].op \notin Leaf
    <3>1. 1 \in 1..Len(s) /\ j \in 1..Len(s) /\ 1 < j
      BY <1>1
    <3>2. QED
      BY <1>4, <3>1 DEF Orderly
  <2>2. QED
    BY <1>1, <2>1 DEF LowerOf
<1>5. QED
  BY <1>2, <1>3, <1>4

(* The frames and their order after a return, and after one or two frames  *)
(* have taken the place of the innermost one.                              *)
LEMMA ReturnFrames ==
  ASSUME NEW S, NEW s \in Seq(S), s # <<>>, NEW t, t = Tail(s)
  PROVE  FramesOf(t) = LowerOf(s) /\ (Orderly(s) => Orderly(t))
<1>0. /\ Len(s) \in Nat \ {0} /\ Head(s) = s[1]
      /\ \A i \in 1..Len(s) : s[i] \in S
  BY Positions, ElementOfSeq
<1>1. Len(t) = Len(s) - 1 /\ \A i \in 1..Len(t) : t[i] = s[i + 1]
  BY Positions
<1>2. FramesOf(t) = LowerOf(s)
  <2>1. ASSUME NEW i \in 2..Len(s) PROVE s[i] \in FramesOf(t)
    <3>1. i - 1 \in 1..Len(t) /\ t[i - 1] = s[(i - 1) + 1] /\ (i - 1) + 1 = i
      BY <1>0, <1>1
    <3>2. QED
      BY <3>1 DEF FramesOf
  <2>2. ASSUME NEW i \in 1..Len(t) PROVE t[i] \in LowerOf(s)
    <3>1. i + 1 \in 2..Len(s)
      BY <1>0, <1>1
    <3>2. QED
      BY <1>1, <3>1 DEF LowerOf
  <2>3. QED
    BY <2>1, <2>2 DEF FramesOf, LowerOf
<1>3. ASSUME Orderly(s) PROVE Orderly(t)
  <2>1. ASSUME NEW i \in 1..Len(t), NEW j \in 1..Len(t), i < j
        PROVE  Above(t[i], t[j])
    <3>1. i + 1 \in 1..Len(s) /\ j + 1 \in 1..Len(s) /\ i + 1 < j + 1
      BY <1>0, <1>1, <2>1
    <3>2. QED
      BY <1>1, <1>3, <3>1 DEF Orderly
  <2>2. ASSUME NEW i \in 2..Len(t) PROVE t[i].op \notin Leaf
    <3>1. i + 1 \in 2..Len(s) /\ i \in 1..Len(t)
      BY <1>0, <1>1
    <3>2. QED
      BY <1>1, <1>3, <3>1 DEF Orderly
  <2>3. QED
    BY <2>1, <2>2 DEF Orderly
<1>4. QED
  BY <1>2, <1>3

LEMMA OneFrameMore ==
  ASSUME NEW S, NEW s \in Seq(S), s # <<>>, NEW a, NEW t, t = <<a>> \o Tail(s)
  PROVE  /\ FramesOf(t) = {a} \cup LowerOf(s)
         /\ Orderly(s) /\ (\A g \in LowerOf(s) : Above(a, g)) => Orderly(t)
<1>0. /\ Len(s) \in Nat \ {0} /\ Head(s) = s[1]
      /\ \A i \in 1..Len(s) : s[i] \in S
  BY Positions, ElementOfSeq
<1>1. Len(t) = Len(s) /\ t[1] = a /\ \A i \in 2..Len(t) : t[i] = s[i]
  BY Positions
<1>2. LowerOf(t) = LowerOf(s) /\ FramesOf(t) = {t[1]} \cup LowerOf(t)
  BY <1>0, <1>1 DEF FramesOf, LowerOf
<1>3. ASSUME Orderly(s), \A g \in LowerOf(s) : Above(a, g) PROVE Orderly(t)
  <2>1. ASSUME NEW i \in 1..Len(t), NEW j \in 1..Len(t), i < j
        PROVE  Above(t[i], t[j])
    <3>1. j \in 2..Len(s) /\ t[j] = s[j] /\ j \in 1..Len(s) /\ i \in 1..Len(s)
      BY <1>0, <1>1, <2>1
    <3>2. CASE i = 1
      BY <1>1, <1>3, <3>1, <3>2 DEF LowerOf
    <3>3. CASE i # 1
      <4>1. i \in 2..Len(t)
        BY <1>0, <1>1, <3>3
      <4>2. QED
        BY <1>1, <1>3, <2>1, <3>1, <4>1 DEF Orderly
    <3>4. QED
      BY <3>2, <3>3
  <2>2. QED
    BY <1>1, <1>3, <2>1 DEF Orderly
<1>4. QED
  BY <1>1, <1>2, <1>3

LEMMA TwoFramesMore ==
  ASSUME NEW S, NEW s \in Seq(S), s # <<>>, NEW a, NEW b, NEW t,
         t = <<a, b>> \o Tail(s)
  PROVE  /\ FramesOf(t) = {a, b} \cup LowerOf(s)
         /\ /\ Orderly(s) /\ Above(a, b) /\ b.op \notin Leaf
            /\ \A g \in LowerOf(s) : Above(a, g) /\ Above(b, g)
            => Orderly(t)
<1>0. /\ Len(s) \in Nat \ {0} /\ Head(s) = s[1]
      /\ \A i \in 1..Len(s) : s[i] \in S
  BY Positions, ElementOfSeq
<1>1. /\ Len(t) = Len(s) + 1 /\ t[1] = a /\ t[2] = b
      /\ \A i \in 3..Len(t) : t[i] = s[i - 1]
  BY Positions
<1>2. ASSUME NEW i \in 3..Len(t)
      PROVE  i - 1 \in 2..Len(s) /\ i - 1 \in 1..Len(s) /\ t[i] \in LowerOf(s)
  <2>1. i - 1 \in 2..Len(s) /\ i - 1 \in 1..Len(s)
    BY <1>0, <1>1
  <2>2. QED
    BY <1>1, <2>1 DEF LowerOf
<1>3. ASSUME NEW i \in 2..Len(s) PROVE s[i] \in FramesOf(t)
  <2>1. i + 1 \in 3..Len(t) /\ t[i + 1] = s[(i + 1) - 1] /\ (i + 1) - 1 = i
    BY <1>0, <1>1
  <2>2. i + 1 \in 1..Len(t)
    BY <1>0, <1>1
  <2>3. QED
    BY <2>1, <2>2 DEF FramesOf
<1>4. \A i \in 1..Len(t) : i = 1 \/ i = 2 \/ i \in 3..Len(t)
  BY <1>0, <1>1
<1>5. 1 \in 1..Len(t) /\ 2 \in 1..Len(t)
  BY <1>0, <1>1
<1>6. FramesOf(t) = {a, b} \cup LowerOf(s)
  <2>1. FramesOf(t) \subseteq {a, b} \cup LowerOf(s)
    BY <1>1, <1>2, <1>4 DEF FramesOf
  <2>2. a \in FramesOf(t) /\ b \in FramesOf(t)
    BY <1>1, <1>5 DEF FramesOf
  <2>3. LowerOf(s) \subseteq FramesOf(t)
    BY <1>3 DEF LowerOf
  <2>4. QED
    BY <2>1, <2>2, <2>3
<1>7. ASSUME Orderly(s), Above(a, b), b.op \notin Leaf,
             \A g \in LowerOf(s) : Above(a, g) /\ Above(b, g)
      PROVE  Orderly(t)
  <2>1. ASSUME NEW i \in 1..Len(t), NEW j \in 1..Len(t), i < j
        PROVE  Above(t[i], t[j])
    <3>1. CASE i = 1 /\ j = 2
      BY <1>1, <1>7, <3>1
    <3>2. CASE i \in {1, 2} /\ j \in 3..Len(t)
      BY <1>1, <1>2, <1>7, <3>2
    <3>3. CASE i \in 3..Len(t)
      <4>1. j \in 3..Len(t) /\ i - 1 < j - 1
        BY <1>4, <2>1, <3>3
      <4>2. Above(s[i - 1], s[j - 1])
        BY <1>2, <1>7, <3>3, <4>1 DEF Orderly
      <4>3. QED
        BY <1>1, <3>3, <4>1, <4>2
    <3>4. QED
      BY <1>4, <2>1, <3>1, <3>2, <3>3
  <2>2. ASSUME NEW i \in 2..Len(t) PROVE t[i].op \notin Leaf
    <3>1. CASE i = 2
      BY <1>1, <1>7, <3>1
    <3>2. CASE i # 2
      <4>1. i \in 3..Len(t)
        BY <1>0, <1>1, <3>2
      <4>2. QED
        BY <1>1, <1>2, <1>7, <4>1 DEF Orderly
    <3>3. QED
      BY <3>1, <3>2
  <2>3. QED
    BY <2>1, <2>2 DEF Orderly
<1>8. QED
  BY <1>6, <1>7

-----------------------------------------------------------------------------
(* Levels *)

LEMMA HeightFalls ==
  ASSUME Acyclic
  PROVE  Height \in [Key -> Nat] /\ Descending(Height)
  BY DEF Acyclic, Height

(* The numbers that are compared. *)
LEMMA Levels ==
  ASSUME Acyclic
  PROVE  /\ \A k \in Key : Height[k] \in Nat
         /\ \A n \in Node : Level(n) \in Nat
         /\ \A f \in Frame : f.op \notin Completing => FrameLevel(f) \in Nat
<1>1. \A k \in Key : Height[k] \in Nat
  BY HeightFalls
<1>2. \A n \in Node : Level(n) \in Nat
  BY <1>1, NodeType DEF Level
<1>3. ASSUME NEW f \in Frame, f.op \notin Completing
      PROVE  FrameLevel(f) \in Nat
  <2>1. CASE f.op = "add"
    BY <1>1, <2>1, FrameKinds DEF FrameLevel, AddFrame
  <2>2. CASE f.op # "add"
    <3>1. f.node \in Node
      BY <1>3, <2>2 DEF Frame, AddFrame, RestoreFrame, UpdateFrame, ExtrasFrame,
         RequiresFrame, CompleteFrame, CompletesFrame, RemoveFrame, DropFrame,
         Completing
    <3>2. QED
      BY <1>2, <2>2, <3>1 DEF FrameLevel
  <2>3. QED
    BY <2>1, <2>2
<1>4. QED
  BY <1>1, <1>2, <1>3

(* What a distribution requires lies below it. *)
LEMMA OwnReqFalls ==
  ASSUME Acyclic, CompileInv, NEW m \in Node, NEW r, OwnReq(m, r)
  PROVE  r \in Req /\ r.name \in Key /\ Height[r.name] < Level(m)
<1>1. PICK e \in Extra \cup {None} : r \in Reqs(metadata[m], e)
  BY DEF OwnReq
<1>2. metadata[m] \in Dist /\ metadata[m].name = KeyOf(m)
  BY DEF OwnReq, CompileInv, NamesInv, KeysAgree, IInv, TypeOK
<1>3. r \in Req /\ r.name \in Key
  <2>1. PICK l \in Seq(Req) : l = metadata[m].requires[e]
    BY <1>1, <1>2, DistAssumption DEF Container
  <2>2. PICK i \in DOMAIN l : r = l[i]
    BY <1>1, <2>1 DEF Reqs
  <2>3. r \in Req
    BY <2>2, ElementOfSeq
  <2>4. QED
    BY <2>3 DEF Req
<1>4. Height[r.name] < Height[metadata[m].name]
  BY <1>1, <1>2, HeightFalls DEF Descending
<1>5. QED
  BY <1>2, <1>3, <1>4 DEF Level

(* A frame on no higher a level takes the place of f. *)
LEMMA StaysAbove ==
  ASSUME Acyclic, NEW f \in Frame, NEW a \in Frame, NEW g \in Frame,
         Above(f, g), f.op \notin Completing, a.op \notin Completing,
         FrameLevel(a) <= FrameLevel(f),
         PartOf(f, g) => PartOf(a, g) \/ FrameLevel(a) < FrameLevel(f)
  PROVE  Above(a, g)
<1>1. CASE g.op \in Completing
  BY <1>1 DEF Above
<1>2. CASE g.op \notin Completing /\ PartOf(f, g)
  <2>1. FrameLevel(f) = FrameLevel(g)
    BY <1>2 DEF PartOf, FrameLevel
  <2>2. QED
    BY <1>2, <2>1 DEF Above
<1>3. CASE g.op \notin Completing /\ ~PartOf(f, g)
  <2>1. FrameLevel(f) < FrameLevel(g)
    BY <1>3 DEF Above
  <2>2. FrameLevel(a) \in Nat /\ FrameLevel(f) \in Nat /\ FrameLevel(g) \in Nat
    BY <1>3, Levels
  <2>3. QED
    BY <2>1, <2>2 DEF Above
<1>4. QED
  BY <1>1, <1>2, <1>3

(* What a step of the graph may use of the stack, and what becomes of it.  *)
LEMMA StackMoves ==
  ASSUME CompileInv, Layered, stack # <<>>, NEW a, NEW b
  PROVE  /\ Top \in Frame /\ Lower \subseteq Frame /\ Frames = {Top} \cup Lower
         /\ Placed(Top) /\ Caller(Top)
         /\ \A g \in Lower : Above(Top, g) /\ g.op \notin Leaf /\ Placed(g)
         /\ Return => Frames' = Lower /\ Orderly(stack)'
         /\ Then(<<a>>) =>
              /\ Frames' = {a} \cup Lower
              /\ (\A g \in Lower : Above(a, g)) => Orderly(stack)'
         /\ Then(<<a, b>>) =>
              /\ Frames' = {a, b} \cup Lower
              /\ /\ Above(a, b) /\ b.op \notin Leaf
                 /\ \A g \in Lower : Above(a, g) /\ Above(b, g)
                 => Orderly(stack)'
<1>1. stack \in Seq(Frame) /\ Orderly(stack)
  BY DEF CompileInv, NamesInv, IInv, TypeOK, Layered
<1>2. /\ Top \in Frame /\ Lower \subseteq Frame /\ Frames = {Top} \cup Lower
      /\ \A g \in Lower : Above(Top, g) /\ g.op \notin Leaf
  BY <1>1, FramesBefore DEF Top, Lower, Frames
<1>3. \A f \in Frames : Placed(f) /\ Caller(f)
  BY DEF Layered
<1>4. Return => Frames' = Lower /\ Orderly(stack)'
  BY <1>1, ReturnFrames DEF Return, Frames, Lower
<1>5. ASSUME Then(<<a>>)
      PROVE  /\ Frames' = {a} \cup Lower
             /\ (\A g \in Lower : Above(a, g)) => Orderly(stack)'
  BY <1>1, <1>5, OneFrameMore DEF Then, Frames, Lower
<1>6. ASSUME Then(<<a, b>>)
      PROVE  /\ Frames' = {a, b} \cup Lower
             /\ /\ Above(a, b) /\ b.op \notin Leaf
                /\ \A g \in Lower : Above(a, g) /\ Above(b, g)
                => Orderly(stack)'
  BY <1>1, <1>6, TwoFramesMore DEF Then, Frames, Lower
<1>7. QED
  BY <1>2, <1>3, <1>4, <1>5, <1>6

(* A frame that waits works on another node than the innermost one, unless *)
(* the innermost one is a part of it. *)
LEMMA OtherNode ==
  ASSUME Acyclic, CompileInv, Layered, stack # <<>>, NEW g \in Lower,
         Top.op \notin Completing, g.op \notin Completing, ~PartOf(Top, g)
  PROVE  /\ g.node \in Node /\ FrameLevel(Top) < Level(g.node)
         /\ FrameLevel(Top) \in Nat /\ Level(g.node) \in Nat
         /\ Top.op = "add" => Top.key # KeyOf(g.node)
         /\ Top.op # "add" => Top.node # g.node /\ KeyOf(Top.node) # KeyOf(g.node)
<1>1. Top \in Frame /\ g \in Frame /\ Above(Top, g) /\ g.op \notin Leaf
  BY StackMoves
<1>2. g.node \in Node /\ FrameLevel(g) = Level(g.node)
  BY <1>1 DEF Frame, AddFrame, RestoreFrame, UpdateFrame, ExtrasFrame,
     RequiresFrame, CompleteFrame, CompletesFrame, RemoveFrame, DropFrame,
     Completing, Leaf, FrameLevel
<1>3. FrameLevel(Top) < Level(g.node)
  BY <1>1, <1>2 DEF Above
<1>4. FrameLevel(Top) \in Nat /\ Level(g.node) \in Nat
  BY <1>1, <1>2, Levels
<1>5. Top.op = "add" => Top.key # KeyOf(g.node)
  BY <1>3, <1>4 DEF FrameLevel, Level
<1>6. Top.op # "add" => Top.node # g.node /\ KeyOf(Top.node) # KeyOf(g.node)
  BY <1>3, <1>4 DEF FrameLevel, Level
<1>7. QED
  BY <1>2, <1>3, <1>4, <1>5, <1>6

(* The new frames N take the place of the innermost one: what is left to   *)
(* show for the frames that wait. *)
LEMMA LayeredFollows ==
  ASSUME CompileInv, Layered, stack # <<>>,
         EdgesDescend', Latest', Fresh', Orderly(stack)',
         NEW N, Frames' = N \cup Lower, \A f \in N : Placed(f)' /\ Caller(f)',
         \A g \in Lower : g.op \in {"restore", "extras", "requires"} =>
           /\ Live(g.node)'
           /\ g.op # "restore" => metadata'[g.node] = metadata[g.node]
           /\ Extras(g.node) \subseteq Extras(g.node)',
         \A g \in Lower : g.op = "drop" /\ g.upstream => ~Live(g.node)'
  PROVE  Layered'
<1>1. ASSUME NEW g \in Lower
      PROVE  Placed(g)'
  <2>1. Placed(g) /\ g.op \notin Leaf
    BY StackMoves
  <2>3. CASE g.op = "restore"
    BY <2>1, <2>3 DEF Placed
  <2>4. CASE g.op = "extras"
    BY <2>1, <2>4 DEF Placed
  <2>5. CASE g.op = "requires"
    <3>1. metadata'[g.node] = metadata[g.node] /\ Live(g.node)'
      BY <2>5
    <3>2. ASSUME NEW i \in DOMAIN g.todo
          PROVE  OwnReq(g.node, g.todo[i])'
      <4>1. OwnReq(g.node, g.todo[i])
        BY <2>1, <2>5, <3>2 DEF Placed
      <4>2. QED
        BY <3>1, <4>1 DEF OwnReq
    <3>3. QED
      BY <2>5, <3>1, <3>2 DEF Placed
  <2>6. CASE g.op = "drop"
    BY <2>1, <2>6 DEF Placed, Level
  <2>7. CASE g.op \notin {"restore", "extras", "requires", "drop"}
    BY <2>1, <2>7 DEF Placed, Leaf
  <2>8. QED
    BY <2>3, <2>4, <2>5, <2>6, <2>7
<1>2. \A g \in Lower : Caller(g)'
  <2>1. \A g \in Lower : g.op # "add"
    BY StackMoves DEF Leaf
  <2>2. QED
    BY <2>1 DEF Caller
<1>3. \A f \in Frames' : Placed(f)' /\ Caller(f)'
  BY <1>1, <1>2
<1>4. QED
  BY <1>3 DEF Layered

(* The same where the step leaves the graph alone. *)
LEMMA QuietLayered ==
  ASSUME CompileInv, Layered, stack # <<>>,
         UNCHANGED <<nodes, born, metadata, deps, rdeps>>, Orderly(stack)',
         NEW N, Frames' = N \cup Lower, \A f \in N : Placed(f)' /\ Caller(f)'
  PROVE  Layered'
<1>1. EdgesDescend' /\ Latest' /\ Fresh'
  BY DEF Layered, EdgesDescend, Latest, Fresh, Born, Level
<1>2. \A g \in Lower : Placed(g)
  BY StackMoves
<1>3. ASSUME NEW g \in Lower, g.op \in {"restore", "extras", "requires"}
      PROVE  /\ Live(g.node)' /\ metadata'[g.node] = metadata[g.node]
             /\ Extras(g.node) \subseteq Extras(g.node)'
  BY <1>2, <1>3 DEF Placed, Live, Extras
<1>4. ASSUME NEW g \in Lower, g.op = "drop", g.upstream
      PROVE  ~Live(g.node)'
  BY <1>2, <1>4 DEF Placed, Live
<1>5. QED
  BY <1>1, <1>3, <1>4, LayeredFollows

-----------------------------------------------------------------------------
(* Each step of the graph keeps the order *)

(* What add_dist does to the graph, n being the object it works on.        *)
Linked(f) == f.source # None /\ nodes'[KeyOf(f.source)] # None

LEMMA AddDistFrame ==
  ASSUME Acyclic, CompileInv, Layered, AddDist, NEW n, n = Target(Top.key)
  PROVE  /\ stack # <<>> /\ Top \in AddFrame /\ Top.key \in Key /\ n \in Node
         /\ Top.op = "add" /\ KeyOf(n) = Top.key /\ Placed(Top) /\ Caller(Top)
         /\ Top.source # None =>
              /\ Top.source \in Node /\ Born(Top.source)
              /\ Level(n) < Level(Top.source) /\ Top.source # n
              /\ KeyOf(Top.source) # Top.key
         /\ nodes[Top.key] # None => nodes[Top.key] = n /\ Live(n) /\ Born(n)
         /\ nodes[Top.key] = None =>
              /\ ~Live(n) /\ ~Born(n)
              /\ rdeps[n] = {} /\ DOMAIN deps[n] = {}
<1>1. stack # <<>> /\ Top.op = "add" /\ Register(Top)
  BY DEF AddDist, InCall
<1>2. Top \in Frame /\ Placed(Top) /\ Caller(Top)
  BY <1>1, StackMoves
<1>3. Top \in AddFrame /\ Top.key \in Key
  BY <1>1, <1>2, FrameKinds DEF AddFrame
<1>4. n \in Node
  BY <1>1, <1>3, TargetType DEF Register, CompileInv, NamesInv
<1>5. /\ nodes[Top.key] # None => nodes[Top.key] = n
      /\ nodes[Top.key] = None => n = <<Top.key, born[Top.key] + 1>>
  BY DEF Target
<1>6. KeyOf(n) = Top.key
  BY <1>3, <1>5 DEF KeyOf, CompileInv, NamesInv, KeysAgree
<1>7. ASSUME Top.source # None
      PROVE  /\ Top.source \in Node /\ Born(Top.source)
             /\ Level(n) < Level(Top.source) /\ Top.source # n
             /\ KeyOf(Top.source) # Top.key
  <2>1. Top.source \in Node
    BY <1>3, <1>7 DEF AddFrame
  <2>2. Born(Top.source) /\ Height[Top.key] < Level(Top.source)
    BY <1>1, <1>2, <1>7 DEF Placed
  <2>3. Level(n) = Height[Top.key] /\ Level(n) \in Nat
    BY <1>4, <1>6, Levels DEF Level
  <2>4. QED
    BY <1>6, <2>1, <2>2, <2>3 DEF Level
<1>8. ASSUME nodes[Top.key] # None
      PROVE  nodes[Top.key] = n /\ Live(n) /\ Born(n)
  <2>1. n = <<Top.key, born[Top.key]>>
    BY <1>3, <1>5, <1>8 DEF Layered, Latest
  <2>2. born[Top.key] \in Nat
    BY <1>3 DEF CompileInv, NamesInv, IInv, TypeOK
  <2>3. QED
    BY <1>5, <1>6, <1>8, <2>1, <2>2 DEF Live, Born
<1>9. ASSUME nodes[Top.key] = None
      PROVE  ~Live(n) /\ ~Born(n) /\ rdeps[n] = {} /\ DOMAIN deps[n] = {}
  <2>1. born[Top.key] \in Nat
    BY <1>3 DEF CompileInv, NamesInv, IInv, TypeOK
  <2>2. ~Born(n)
    BY <1>5, <1>6, <1>9, <2>1 DEF Born
  <2>3. DOMAIN deps[n] = {}
    BY <1>4, <2>2 DEF Layered, Fresh
  <2>4. ASSUME NEW r \in rdeps[n] PROVE FALSE
    <3>1. r \in Node /\ n \in DOMAIN deps[r]
      BY <1>4 DEF CompileInv, NamesInv, IInv, TypeOK, RequestersHaveEdge
    <3>2. QED
      BY <2>2, <3>1 DEF Layered, EdgesDescend
  <2>5. n # None
    BY <1>4, NoNodeAssumption
  <2>6. QED
    BY <1>6, <1>9, <2>2, <2>3, <2>4, <2>5 DEF Live
<1>10. QED
  BY <1>1, <1>2, <1>3, <1>4, <1>6, <1>7, <1>8, <1>9

LEMMA AddDistGraph ==
  ASSUME Acyclic, CompileInv, Layered, AddDist, NEW n, n = Target(Top.key)
  PROVE  /\ nodes'[Top.key] = n /\ \A k \in Key : k # Top.key => nodes'[k] = nodes[k]
         /\ \A x \in Node : Live(x)' <=> x = n \/ Live(x)
         /\ metadata'[n] = Held(Top)
         /\ \A x \in Node : x # n => metadata'[x] = metadata[x]
         /\ Live(n) => Held(Top) = metadata[n]
         /\ ~Live(n) => Held(Top) = Top.dist
         /\ \A x \in Node : x # n => rdeps'[x] = rdeps[x]
         /\ \A x \in Node : x # Top.source => deps'[x] = deps[x]
         /\ Linked(Top) =>
              /\ rdeps'[n] = rdeps[n] \cup {Top.source}
              /\ deps'[Top.source] = Put(deps[Top.source], n, Top.reason)
         /\ ~Linked(Top) => UNCHANGED <<rdeps, deps>>
<1>1. stack # <<>> /\ Register(Top) /\ LinkSource(Top)
  BY DEF AddDist, InCall
<1>2. /\ Top.key \in Key /\ n \in Node /\ KeyOf(n) = Top.key
      /\ Top.source # None => Top.source \in Node
      /\ nodes[Top.key] # None => nodes[Top.key] = n /\ Live(n)
      /\ nodes[Top.key] = None => ~Live(n)
  BY AddDistFrame
<1>3. /\ nodes' = [nodes EXCEPT ![Top.key] = n]
      /\ metadata' = [metadata EXCEPT ![n] = Held(Top)]
  BY <1>1 DEF Register
<1>4. /\ nodes \in [Key -> Node \cup {None}] /\ metadata \in [Node -> Dist \cup {None}]
      /\ rdeps \in [Node -> SUBSET Node] /\ DOMAIN deps = Node
  BY DEF CompileInv, NamesInv, IInv, TypeOK
<1>5. nodes'[Top.key] = n /\ \A k \in Key : k # Top.key => nodes'[k] = nodes[k]
  BY <1>2, <1>3, <1>4
<1>6. ASSUME NEW x \in Node
      PROVE  Live(x)' <=> x = n \/ Live(x)
  <2>1. KeyOf(x) \in Key /\ x # None
    BY NodeType, NoNodeAssumption
  <2>2. CASE KeyOf(x) = Top.key
    BY <1>2, <1>5, <2>1, <2>2 DEF Live
  <2>3. CASE KeyOf(x) # Top.key
    BY <1>2, <1>5, <2>1, <2>3 DEF Live
  <2>4. QED
    BY <2>2, <2>3
<1>7. metadata'[n] = Held(Top) /\ \A x \in Node : x # n => metadata'[x] = metadata[x]
  BY <1>2, <1>3, <1>4
<1>8. /\ Live(n) => Held(Top) = metadata[n]
      /\ ~Live(n) => Held(Top) = Top.dist
  BY <1>2 DEF Held
<1>9. CASE Linked(Top)
  <2>1. /\ rdeps' = [rdeps EXCEPT ![n] = @ \cup {Top.source}]
        /\ deps' = [deps EXCEPT ![Top.source] = Put(@, n, Top.reason)]
    BY <1>1, <1>9 DEF LinkSource, Linked
  <2>2. Top.source \in Node
    BY <1>2, <1>9 DEF Linked
  <2>3. QED
    BY <1>2, <1>4, <1>5, <1>6, <1>7, <1>8, <1>9, <2>1, <2>2
<1>10. CASE ~Linked(Top)
  <2>1. UNCHANGED <<rdeps, deps>>
    BY <1>1, <1>10 DEF LinkSource, Linked
  <2>2. QED
    BY <1>5, <1>6, <1>7, <1>8, <1>10, <2>1
<1>11. QED
  BY <1>9, <1>10

(* Nobody but n is asked for other extras than before. *)
LEMMA AddDistExtras ==
  ASSUME Acyclic, CompileInv, Layered, AddDist, NEW n, n = Target(Top.key)
  PROVE  /\ \A x \in Node : x # n => Extras(x)' = Extras(x)
         /\ Extras(n)' \subseteq Extras(n) \cup ReasonExtras(Top.reason)
<1>1. /\ n \in Node
      /\ Top.source # None => Top.source \in Node /\ Top.source # n
  BY AddDistFrame
<1>2. /\ \A x \in Node : x # n => rdeps'[x] = rdeps[x]
      /\ \A x \in Node : x # Top.source => deps'[x] = deps[x]
      /\ Linked(Top) =>
              /\ rdeps'[n] = rdeps[n] \cup {Top.source}
              /\ deps'[Top.source] = Put(deps[Top.source], n, Top.reason)
      /\ ~Linked(Top) => UNCHANGED <<rdeps, deps>>
  BY AddDistGraph
<1>3. \A x \in Node : rdeps[x] \subseteq Node /\ \A r \in rdeps[x] : x \in DOMAIN deps[r]
  BY DEF CompileInv, NamesInv, IInv, TypeOK, RequestersHaveEdge
<1>4. ASSUME NEW x \in Node, x # n
      PROVE  Extras(x)' = Extras(x)
  <2>1. rdeps'[x] = rdeps[x]
    BY <1>2, <1>4
  <2>2. \A r \in rdeps[x] : deps'[r][x] = deps[r][x]
    <3>1. TAKE r \in rdeps[x]
    <3>2. r \in Node /\ x \in DOMAIN deps[r]
      BY <1>3
    <3>3. CASE r # Top.source
      BY <1>2, <3>2, <3>3
    <3>4. CASE r = Top.source /\ Linked(Top)
      BY <1>2, <1>4, <3>2, <3>4 DEF Put
    <3>5. CASE ~Linked(Top)
      BY <1>2, <3>5
    <3>6. QED
      BY <3>3, <3>4, <3>5
  <2>3. QED
    BY <2>1, <2>2 DEF Extras
<1>5. Extras(n)' \subseteq Extras(n) \cup ReasonExtras(Top.reason)
  <2>1. CASE ~Linked(Top)
    BY <1>2, <2>1 DEF Extras
  <2>2. CASE Linked(Top)
    <3>1. ASSUME NEW r \in rdeps'[n]
          PROVE  ReasonExtras(deps'[r][n])
                   \subseteq Extras(n) \cup ReasonExtras(Top.reason)
      <4>1. CASE r = Top.source
        <5>1. deps'[r][n] = Top.reason
          BY <1>2, <2>2, <4>1 DEF Put
        <5>2. QED
          BY <5>1
      <4>2. CASE r # Top.source
        <5>1. r \in rdeps[n] /\ deps'[r][n] = deps[r][n]
          BY <1>1, <1>2, <1>3, <2>2, <3>1, <4>2
        <5>2. ReasonExtras(deps[r][n]) \subseteq Extras(n)
          BY <5>1 DEF Extras
        <5>3. QED
          BY <5>1, <5>2
      <4>3. QED
        BY <4>1, <4>2
    <3>2. QED
      BY <3>1 DEF Extras
  <2>3. QED
    BY <2>1, <2>2
<1>6. QED
  BY <1>4, <1>5

(* Objects are counted. *)
LEMMA NodeNumber ==
  ASSUME NEW x \in Node
  PROVE  x[2] \in Nat
<1>1. PICK k \in Key : \E i \in 1..MaxObjects[k] : x = <<k, i>>
  BY DEF Node
<1>2. PICK i \in 1..MaxObjects[k] : x = <<k, i>>
  BY <1>1
<1>3. MaxObjects[k] \in Nat
  BY MaxObjectsAssumption
<1>4. QED
  BY <1>2, <1>3

(* The number of objects a key has had never falls. *)
LEMMA BornStays ==
  ASSUME CompileInv, AddDist, NEW x \in Node, Born(x)
  PROVE  Born(x)'
<1>1. born' = [born EXCEPT ![Top.key] = IF nodes[Top.key] = None THEN @ + 1 ELSE @]
  BY DEF AddDist, Register
<1>2. born \in [Key -> Nat]
  BY DEF CompileInv, NamesInv, IInv, TypeOK
<1>3. KeyOf(x) \in Key /\ x[2] \in Nat
  BY NodeType, NodeNumber
<1>4. born[KeyOf(x)] \in Nat /\ born'[KeyOf(x)] \in {born[KeyOf(x)], born[KeyOf(x)] + 1}
  BY <1>1, <1>2, <1>3
<1>5. QED
  BY <1>3, <1>4 DEF Born

LEMMA AddDistLayered ==
  ASSUME Acyclic, CompileInv, CompileInv', Layered, AddDist
  PROVE  Layered'
<1>1. PICK n : n = Target(Top.key)
  OBVIOUS
<1>2. /\ stack # <<>> /\ Top \in AddFrame /\ Top.key \in Key /\ n \in Node
      /\ Top.op = "add" /\ KeyOf(n) = Top.key /\ Placed(Top)
      /\ Top.source # None =>
           /\ Top.source \in Node /\ Born(Top.source)
           /\ Level(n) < Level(Top.source) /\ Top.source # n
      /\ nodes[Top.key] # None => nodes[Top.key] = n /\ Live(n) /\ Born(n)
      /\ nodes[Top.key] = None => ~Live(n) /\ ~Born(n)
  BY <1>1, AddDistFrame
<1>3. /\ nodes'[Top.key] = n /\ \A k \in Key : k # Top.key => nodes'[k] = nodes[k]
      /\ \A x \in Node : Live(x)' <=> x = n \/ Live(x)
      /\ \A x \in Node : x # n => metadata'[x] = metadata[x]
      /\ Live(n) => metadata'[n] = metadata[n]
      /\ \A x \in Node : x # Top.source => deps'[x] = deps[x]
      /\ Linked(Top) => deps'[Top.source] = Put(deps[Top.source], n, Top.reason)
      /\ ~Linked(Top) => UNCHANGED <<rdeps, deps>>
  BY <1>1, AddDistGraph
<1>4. /\ born' = [born EXCEPT ![Top.key] = IF nodes[Top.key] = None THEN @ + 1 ELSE @]
      /\ born \in [Key -> Nat] /\ DOMAIN deps = Node
      /\ \A x \in Node : DOMAIN deps[x] \subseteq Node
  BY DEF AddDist, Register, CompileInv, NamesInv, IInv, TypeOK, IsDependencies
<1>5. /\ \A k \in Key : k # Top.key => born'[k] = born[k]
      /\ nodes[Top.key] = None => born'[Top.key] = born[Top.key] + 1
      /\ nodes[Top.key] # None => born'[Top.key] = born[Top.key]
      /\ born[Top.key] \in Nat
  BY <1>2, <1>4
<1>6. n = <<Top.key, born'[Top.key]>> /\ Born(n)'
  <2>1. CASE nodes[Top.key] = None
    <3>1. n = <<Top.key, born[Top.key] + 1>>
      BY <1>1, <2>1 DEF Target
    <3>2. QED
      BY <1>5, <2>1, <3>1 DEF Born, KeyOf
  <2>2. CASE nodes[Top.key] # None
    <3>1. n = <<Top.key, born[Top.key]>>
      BY <1>2, <2>2 DEF Layered, Latest
    <3>2. QED
      BY <1>5, <2>2, <3>1 DEF Born, KeyOf
  <2>3. QED
    BY <2>1, <2>2
<1>7. \A x \in Node : Born(x) => Born(x)'
  BY BornStays
<1>8. EdgesDescend'
  <2>1. ASSUME NEW x \in Node, NEW y \in DOMAIN deps'[x]
        PROVE  Level(y) < Level(x) /\ Born(y)'
    <3>1. CASE x = Top.source /\ Linked(Top) /\ y = n
      BY <1>2, <1>6, <3>1 DEF Linked
    <3>2. CASE ~(x = Top.source /\ Linked(Top) /\ y = n)
      <4>1. y \in DOMAIN deps[x]
        <5>1. CASE x = Top.source /\ Linked(Top)
          BY <1>3, <2>1, <3>2, <5>1 DEF Put
        <5>2. CASE x # Top.source \/ ~Linked(Top)
          BY <1>3, <2>1, <5>2
        <5>3. QED
          BY <5>1, <5>2
      <4>2. y \in Node
        BY <1>4, <4>1
      <4>3. QED
        BY <1>7, <4>1, <4>2 DEF Layered, EdgesDescend
    <3>3. QED
      BY <3>1, <3>2
  <2>2. QED
    BY <2>1 DEF EdgesDescend, Level
<1>9. Latest'
  BY <1>3, <1>5, <1>6 DEF Layered, Latest
<1>10. Fresh'
  <2>1. ASSUME NEW x \in Node, ~Born(x)'
        PROVE  DOMAIN deps'[x] = {}
    <3>1. ~Born(x)
      BY <1>7, <2>1
    <3>2. x # Top.source
      BY <1>2, <3>1, NoNodeAssumption
    <3>3. QED
      BY <1>3, <3>1, <3>2 DEF Layered, Fresh
  <2>2. QED
    BY <2>1 DEF Fresh
<1>11. ASSUME NEW g \in Lower, g.op \in {"restore", "extras", "requires"}
       PROVE  /\ Live(g.node)' /\ metadata'[g.node] = metadata[g.node]
              /\ Extras(g.node) \subseteq Extras(g.node)'
  <2>1. ~PartOf(Top, g)
    BY <1>2 DEF PartOf
  <2>2. g.node \in Node /\ g.node # n
    BY <1>2, <1>11, <2>1, OtherNode DEF Completing
  <2>3. Live(g.node)
    BY <1>2, <1>11, StackMoves DEF Placed
  <2>4. Extras(g.node)' = Extras(g.node)
    BY <1>1, <2>2, AddDistExtras
  <2>5. QED
    BY <1>3, <2>2, <2>3, <2>4
<1>12. ASSUME NEW g \in Lower, g.op = "drop", g.upstream
       PROVE  FALSE
  <2>1. PICK i \in 2..Len(stack) : g = stack[i]
    BY DEF Lower, LowerOf
  <2>2. stack \in Seq(Frame) /\ Top = stack[1]
    BY <1>2, Positions DEF CompileInv, NamesInv, IInv, TypeOK, Top
  <2>3. 1 \in 1..Len(stack) /\ i \in 1..Len(stack) /\ 1 < i
    BY <2>1, <2>2
  <2>4. stack[1].op \in Removal
    BY <1>12, <2>1, <2>3 DEF CompileInv, NamesInv, IInv, StackSafe
  <2>5. QED
    BY <1>2, <2>2, <2>4 DEF Removal
<1>13. PICK a : a = Remove(n, FALSE)
  OBVIOUS
<1>14. PICK b : b = [op |-> "update", node |-> n, dist |-> ToApply(Top)]
  OBVIOUS
<1>15. PICK c : c = [op |-> "restore", node |-> n]
  OBVIOUS
<1>16. \/ Then(<<a>>)
       \/ Then(<<b, c>>)
       \/ Return
  BY <1>1, <1>13, <1>14, <1>15 DEF AddDist
<1>17. /\ a.op = "remove" /\ a.node = n /\ b.op = "update" /\ b.node = n
       /\ c.op = "restore" /\ c.node = n
  BY <1>13, <1>14, <1>15 DEF Remove
<1>18. \A g \in Lower : Above(a, g) /\ Above(b, g) /\ Above(c, g)
  <2>1. TAKE g \in Lower
  <2>2. CASE g.op \in Completing
    BY <2>2 DEF Above
  <2>3. CASE g.op \notin Completing
    <3>1. ~PartOf(Top, g) /\ g.op \notin Leaf
      BY <1>2, StackMoves DEF PartOf
    <3>2. FrameLevel(Top) < Level(g.node)
      BY <1>2, <2>3, <3>1, OtherNode DEF Completing
    <3>3. /\ FrameLevel(a) = FrameLevel(Top) /\ FrameLevel(b) = FrameLevel(Top)
          /\ FrameLevel(c) = FrameLevel(Top) /\ FrameLevel(g) = Level(g.node)
      BY <1>2, <1>17, <3>1 DEF FrameLevel, Level, Leaf
    <3>4. QED
      BY <3>2, <3>3 DEF Above
  <2>4. QED
    BY <2>2, <2>3
<1>19. Above(b, c) /\ c.op \notin Leaf
  BY <1>17 DEF Above, PartOf, Leaf
<1>20. /\ Placed(a)' /\ Caller(a)' /\ Placed(b)' /\ Caller(b)'
       /\ Placed(c)' /\ Caller(c)'
  <2>1. Live(n)'
    BY <1>2, <1>3
  <2>2. QED
    BY <1>17, <2>1 DEF Placed, Caller
<1>21. PICK N : /\ Frames' = N \cup Lower /\ Orderly(stack)'
                /\ \A f \in N : f \in {a, b, c}
  <2>1. CASE Then(<<a>>)
    <3>1. Frames' = {a} \cup Lower /\ Orderly(stack)'
      BY <1>2, <1>18, <2>1, StackMoves
    <3>2. QED
      BY <3>1
  <2>2. CASE Then(<<b, c>>)
    <3>1. Frames' = {b, c} \cup Lower /\ Orderly(stack)'
      BY <1>2, <1>18, <1>19, <2>2, StackMoves
    <3>2. QED
      BY <3>1
  <2>3. CASE Return
    <3>1. Frames' = Lower /\ Orderly(stack)'
      BY <1>2, <2>3, StackMoves
    <3>2. PICK N : N = {}
      OBVIOUS
    <3>3. Frames' = N \cup Lower /\ \A f \in N : f \in {a, b, c}
      BY <3>1, <3>2
    <3>4. QED
      BY <3>1, <3>3
  <2>4. QED
    BY <1>16, <2>1, <2>2, <2>3
<1>22. \A f \in N : Placed(f)' /\ Caller(f)'
  BY <1>20, <1>21
<1>23. QED
  BY <1>2, <1>8, <1>9, <1>10, <1>11, <1>12, <1>21, <1>22, LayeredFollows

LEMMA SameExtras ==
  ASSUME UNCHANGED <<deps, rdeps>>, NEW n
  PROVE  Extras(n)' = Extras(n)
<1>1. deps' = deps /\ rdeps' = rdeps
  OBVIOUS
<1>2. rdeps'[n] = rdeps[n] /\ \A r \in rdeps[n] : deps'[r][n] = deps[r][n]
  BY <1>1
<1>3. QED
  BY <1>2 DEF Extras

LEMMA RestoreLayered ==
  ASSUME Acyclic, CompileInv, Layered, Restore
  PROVE  Layered' /\ UNCHANGED <<nodes, born, metadata, deps, rdeps>>
<1>1. stack # <<>> /\ Top.op = "restore"
  BY DEF Restore, InCall
<1>2. Top.node \in Node /\ Live(Top.node)
  BY <1>1, StackMoves, FrameKinds DEF Placed, RestoreFrame
<1>3. nodes' = nodes
  <2>1. nodes[KeyOf(Top.node)] # None
    BY <1>2, NoNodeAssumption DEF Live
  <2>2. nodes \in [Key -> Node \cup {None}]
    BY DEF CompileInv, NamesInv, IInv, TypeOK
  <2>3. nodes' = [nodes EXCEPT ![KeyOf(Top.node)] = IF @ = None THEN Top.node ELSE @]
    BY DEF Restore
  <2>4. QED
    BY <2>1, <2>2, <2>3
<1>4. UNCHANGED <<nodes, born, metadata, deps, rdeps>>
  BY <1>3 DEF Restore
<1>5. Frames' = Lower /\ Orderly(stack)'
  BY <1>1, StackMoves DEF Restore
<1>6. PICK N : N = {}
  OBVIOUS
<1>7. Frames' = N \cup Lower /\ \A f \in N : Placed(f)' /\ Caller(f)'
  BY <1>5, <1>6
<1>8. QED
  BY <1>1, <1>4, <1>5, <1>7, QuietLayered

(* A new node may be solved, an unsolved one or one that is given what it  *)
(* already holds. *)
LEMMA UpdateDistsLayered ==
  ASSUME Acyclic, CompileInv, Layered, UpdateDists, error' = None,
         NEW n, n = Top.node, NEW dist, dist = Top.dist,
         NEW a, a = [op |-> "extras", node |-> n, dist |-> dist,
                     todo |-> Extras(n) \cup {None}]
  PROVE  /\ Layered' /\ stack # <<>> /\ Top.op = "update"
         /\ n \in Node /\ Live(n) /\ dist \in Dist
         /\ \E b : b.op = "complete" /\ Frames' = {a, b} \cup Lower
<1>1. stack # <<>> /\ Top.op = "update"
  BY DEF UpdateDists, InCall
<1>2. n \in Node /\ Live(n) /\ dist \in Dist
  BY <1>1, StackMoves, FrameKinds DEF Placed, UpdateFrame
<1>4. PICK b : b = Complete(n)
  OBVIOUS
<1>5. Then(<<a, b>>)
  BY <1>4, NoErrorAssumption DEF UpdateDists, AssertFails, Fail
<1>6. /\ a.op = "extras" /\ a.node = n /\ a.dist = dist
      /\ a.todo = Extras(n) \cup {None}
      /\ b.op = "complete"
  BY <1>4 DEF Complete
<1>7. Above(a, b) /\ \A g \in Lower : Above(a, g) /\ Above(b, g)
  <2>1. \A g \in Lower : Above(Top, g)
    BY <1>1, StackMoves
  <2>2. FrameLevel(a) = FrameLevel(Top)
    BY <1>1, <1>6 DEF FrameLevel
  <2>3. \A g \in Lower : PartOf(Top, g) => PartOf(a, g)
    BY <1>1, <1>6 DEF PartOf
  <2>4. QED
    BY <1>1, <1>6, <2>1, <2>2, <2>3 DEF Above, Completing
<1>8. Frames' = {a, b} \cup Lower /\ Orderly(stack)'
  <2>1. b.op \notin Leaf
    BY <1>6 DEF Leaf
  <2>2. QED
    BY <1>1, <1>5, <1>7, <2>1, StackMoves
<1>9. /\ metadata' = [metadata EXCEPT ![n] = dist]
      /\ metadata \in [Node -> Dist \cup {None}]
      /\ UNCHANGED <<nodes, born, deps, rdeps>>
  BY DEF UpdateDists, CompileInv, NamesInv, IInv, TypeOK
<1>10. EdgesDescend' /\ Latest' /\ Fresh'
  BY <1>9 DEF Layered, EdgesDescend, Latest, Fresh, Born, Level
<1>11. ASSUME NEW g \in Lower, g.op \in {"restore", "extras", "requires"}
       PROVE  /\ Live(g.node)'
              /\ g.op # "restore" => metadata'[g.node] = metadata[g.node]
              /\ Extras(g.node) \subseteq Extras(g.node)'
  <2>1. Live(g.node)' /\ Extras(g.node)' = Extras(g.node)
    <3>1. Live(g.node)
      BY <1>1, <1>11, StackMoves DEF Placed
    <3>2. QED
      BY <1>9, <3>1, SameExtras DEF Live
  <2>2. ASSUME g.op # "restore" PROVE metadata'[g.node] = metadata[g.node]
    <3>1. ~PartOf(Top, g)
      BY <1>1, <2>2 DEF PartOf
    <3>2. g.node \in Node /\ g.node # Top.node
      BY <1>1, <1>11, <3>1, OtherNode DEF Completing
    <3>3. QED
      BY <1>9, <3>2
  <2>3. QED
    BY <2>1, <2>2
<1>12. ASSUME NEW g \in Lower, g.op = "drop", g.upstream
       PROVE  ~Live(g.node)'
  BY <1>1, <1>9, <1>12, StackMoves DEF Placed, Live
<1>13. Placed(a)' /\ Caller(a)' /\ Placed(b)' /\ Caller(b)'
  <2>1. Live(n)' /\ Extras(n)' = Extras(n) /\ metadata'[n] = dist
    BY <1>2, <1>9, SameExtras DEF Live
  <2>2. Placed(a)'
    BY <1>6, <2>1 DEF Placed
  <2>3. QED
    BY <1>6, <2>2 DEF Placed, Caller
<1>14. PICK N : N = {a, b}
  OBVIOUS
<1>15. Frames' = N \cup Lower /\ \A f \in N : Placed(f)' /\ Caller(f)'
  BY <1>8, <1>13, <1>14
<1>16. Layered'
  BY <1>1, <1>8, <1>10, <1>11, <1>12, <1>15, LayeredFollows
<1>17. QED
  BY <1>1, <1>2, <1>6, <1>8, <1>16

(* Every extra of the list is still asked for. *)
LEMMA NextExtraLayered ==
  ASSUME Acyclic, CompileInv, Layered, NextExtra, error' = None, NEW f, f = Top
  PROVE  /\ Layered' /\ stack # <<>> /\ f \in ExtrasFrame /\ f.op = "extras"
         /\ \E e \in f.todo : \E a, b :
              /\ a.op = "requires" /\ a.node = f.node /\ a.todo = f.dist.requires[e]
              /\ b.op = "extras" /\ b.node = f.node /\ b.dist = f.dist
              /\ b.todo = f.todo \ {e}
              /\ Frames' = {a, b} \cup Lower
<1>1. stack # <<>> /\ f.op = "extras"
  BY DEF NextExtra, InCall
<1>2. f \in ExtrasFrame /\ Placed(f)
  BY <1>1, StackMoves, FrameKinds
<1>3. PICK e \in f.todo :
        LET rest == [Top EXCEPT !.todo = @ \ {e}] IN
        \/ /\ e # None /\ ~RequestersSolved(Top.node)
           /\ AssertFails
        \/ /\ e # None /\ RequestersSolved(Top.node) /\ e \notin Extras(Top.node)
           /\ Then(<<rest>>)
           /\ UNCHANGED error
        \/ /\ e = None \/ (RequestersSolved(Top.node) /\ e \in Extras(Top.node))
           /\ Then(<<[op |-> "requires", node |-> Top.node,
                      todo |-> Top.dist.requires[e]], rest>>)
           /\ UNCHANGED error
  BY DEF NextExtra
<1>4. PICK a : a = [op |-> "requires", node |-> f.node, todo |-> f.dist.requires[e]]
  OBVIOUS
<1>5. PICK b : b = [f EXCEPT !.todo = @ \ {e}]
  OBVIOUS
<1>6. ~AssertFails
  BY NoErrorAssumption DEF AssertFails, Fail
<1>7. e = None \/ e \in Extras(f.node)
  BY <1>1, <1>2 DEF Placed
<1>8. Then(<<a, b>>)
  BY <1>3, <1>4, <1>5, <1>6, <1>7
<1>9. /\ a.op = "requires" /\ a.node = f.node /\ a.todo = f.dist.requires[e]
      /\ b.op = "extras" /\ b.node = f.node /\ b.dist = f.dist
      /\ b.todo = f.todo \ {e}
  BY <1>1, <1>2, <1>4, <1>5 DEF ExtrasFrame
<1>10. Above(a, b) /\ \A g \in Lower : Above(a, g) /\ Above(b, g)
  <2>1. \A g \in Lower : Above(f, g)
    BY <1>1, StackMoves
  <2>2. FrameLevel(a) = FrameLevel(f) /\ FrameLevel(b) = FrameLevel(f)
    BY <1>1, <1>9 DEF FrameLevel
  <2>3. \A g \in Lower : PartOf(f, g) => PartOf(a, g) /\ PartOf(b, g)
    BY <1>1, <1>9 DEF PartOf
  <2>4. PartOf(a, b)
    BY <1>9 DEF PartOf
  <2>5. QED
    BY <1>1, <1>9, <2>1, <2>2, <2>3, <2>4 DEF Above, Completing
<1>11. Frames' = {a, b} \cup Lower /\ Orderly(stack)'
  <2>1. b.op \notin Leaf
    BY <1>9 DEF Leaf
  <2>2. QED
    BY <1>1, <1>8, <1>10, <2>1, StackMoves
<1>12. UNCHANGED <<nodes, born, metadata, deps, rdeps>>
  BY DEF NextExtra, graph
<1>13. Placed(a) /\ Caller(a)
  <2>1. Live(f.node) /\ metadata[f.node] = f.dist
    BY <1>1, <1>2 DEF Placed
  <2>2. f.dist # None /\ e \in Extra \cup {None}
    BY <1>2, NoneAssumption DEF ExtrasFrame
  <2>3. \A i \in DOMAIN a.todo : OwnReq(f.node, a.todo[i])
    BY <1>9, <2>1, <2>2 DEF OwnReq, Reqs
  <2>4. QED
    BY <1>9, <2>1, <2>3 DEF Placed, Caller
<1>14. Placed(b) /\ Caller(b)
  BY <1>1, <1>2, <1>9 DEF Placed, Caller
<1>15. Placed(a)' /\ Placed(b)'
  <2>1. PICK n : n = f.node
    OBVIOUS
  <2>2. Live(n)' = Live(n) /\ metadata'[n] = metadata[n] /\ Extras(n)' = Extras(n)
    BY <1>12, SameExtras DEF Live
  <2>3. \A r : OwnReq(n, r)' = OwnReq(n, r)
    BY <1>12 DEF OwnReq
  <2>4. Placed(a)'
    BY <1>9, <1>13, <2>1, <2>2, <2>3 DEF Placed
  <2>5. Placed(b)'
    BY <1>9, <1>14, <2>1, <2>2 DEF Placed
  <2>6. QED
    BY <2>4, <2>5
<1>16. Caller(a)' /\ Caller(b)'
  BY <1>9 DEF Caller
<1>17. PICK N : N = {a, b}
  OBVIOUS
<1>18. Frames' = N \cup Lower /\ \A g \in N : Placed(g)' /\ Caller(g)'
  BY <1>11, <1>15, <1>16, <1>17
<1>19. Layered'
  BY <1>1, <1>11, <1>12, <1>18, QuietLayered
<1>20. QED
  BY <1>1, <1>2, <1>9, <1>11, <1>19

(* A call returns without a word about the graph. *)
LEMMA ReturnLayered ==
  ASSUME CompileInv, Layered, stack # <<>>, Return,
         UNCHANGED <<nodes, born, metadata, deps, rdeps>>
  PROVE  Layered' /\ Frames' = Lower
<1>1. Frames' = Lower /\ Orderly(stack)'
  BY StackMoves
<1>2. PICK N : N = {}
  OBVIOUS
<1>3. Frames' = N \cup Lower /\ \A g \in N : Placed(g)' /\ Caller(g)'
  BY <1>1, <1>2
<1>4. QED
  BY <1>1, <1>3, QuietLayered

LEMMA LiveIsBorn ==
  ASSUME CompileInv, Layered, NEW n \in Node, Live(n)
  PROVE  Born(n)
<1>1. KeyOf(n) \in Key /\ nodes[KeyOf(n)] # None
  BY NodeType, NoNodeAssumption DEF Live
<1>2. n = <<KeyOf(n), born[KeyOf(n)]>> /\ born[KeyOf(n)] \in Nat
  BY <1>1 DEF Live, Layered, Latest, CompileInv, NamesInv, IInv, TypeOK
<1>3. n[2] = born[KeyOf(n)]
  BY <1>2
<1>4. QED
  BY <1>2, <1>3 DEF Born

LEMMA NextRequirementLayered ==
  ASSUME Acyclic, CompileInv, Layered, NextRequirement, NEW f, f = Top
  PROVE  /\ Layered' /\ stack # <<>> /\ f \in RequiresFrame /\ f.op = "requires"
         /\ f.todo = <<>> => Frames' = Lower
         /\ f.todo # <<>> => \E a, b :
              /\ a = Add(Head(f.todo).name, None, f.node, Head(f.todo))
              /\ b.op = "requires" /\ b.node = f.node /\ b.todo = Tail(f.todo)
              /\ Frames' = {a, b} \cup Lower
<1>1. stack # <<>> /\ f.op = "requires"
  BY DEF NextRequirement, InCall
<1>2. f \in Frame /\ f \in RequiresFrame /\ Placed(f) /\ Live(f.node) /\ f.node \in Node
  <2>1. f \in Frame /\ f \in RequiresFrame /\ Placed(f)
    BY <1>1, StackMoves, FrameKinds
  <2>2. QED
    BY <1>1, <2>1 DEF Placed, RequiresFrame
<1>3. UNCHANGED <<nodes, born, metadata, deps, rdeps>>
  BY DEF NextRequirement, graph
<1>4. CASE f.todo = <<>>
  <2>1. Return
    BY <1>4 DEF NextRequirement
  <2>2. QED
    BY <1>1, <1>2, <1>3, <1>4, <2>1, ReturnLayered
<1>5. CASE f.todo # <<>>
  <2>1. PICK req : req = Head(f.todo)
    OBVIOUS
  <2>2. PICK a : a = Add(req.name, None, f.node, req)
    OBVIOUS
  <2>3. PICK b : b = [f EXCEPT !.todo = Tail(@)]
    OBVIOUS
  <2>4. Then(<<a, b>>)
    BY <1>5, <2>1, <2>2, <2>3 DEF NextRequirement
  <2>5. /\ b.op = "requires" /\ b.node = f.node /\ b.todo = Tail(f.todo)
        /\ a.op = "add" /\ a.key = req.name /\ a.dist = None
        /\ a.source = f.node /\ a.reason = req
    BY <1>1, <1>2, <2>2, <2>3 DEF RequiresFrame, Add
  <2>6. PICK s \in Seq(Req) : s = f.todo
    BY <1>2 DEF RequiresFrame
  <2>7. /\ Len(s) \in Nat \ {0} /\ req = s[1] /\ req \in Req
        /\ Len(Tail(s)) = Len(s) - 1 /\ Tail(s) \in Seq(Req)
        /\ \A i \in 1..Len(Tail(s)) : Tail(s)[i] = s[i + 1]
    BY <1>5, <2>1, <2>6, HeadTailProperties, EmptySeq
  <2>8. OwnReq(f.node, req)
    <3>1. 1 \in DOMAIN f.todo /\ f.todo[1] = req
      BY <2>6, <2>7
    <3>2. \A i \in DOMAIN f.todo : OwnReq(f.node, f.todo[i])
      BY <1>1, <1>2 DEF Placed
    <3>3. QED
      BY <3>1, <3>2
  <2>9. req.name \in Key /\ Height[req.name] < Level(f.node)
    BY <1>2, <2>8, OwnReqFalls
  <2>10. FrameLevel(a) < FrameLevel(f) /\ FrameLevel(b) = FrameLevel(f)
         /\ FrameLevel(a) \in Nat /\ FrameLevel(f) \in Nat
    <3>1. FrameLevel(f) = Level(f.node) /\ FrameLevel(b) = Level(f.node)
      BY <1>1, <2>5 DEF FrameLevel
    <3>2. FrameLevel(a) = Height[req.name]
      BY <2>5 DEF FrameLevel
    <3>3. QED
      BY <1>2, <2>9, <3>1, <3>2, Levels
  <2>11. a \in Frame
    <3>1. a \in AddFrame
      BY <1>2, <2>2, <2>7, <2>9 DEF Add, AddFrame
    <3>2. QED
      BY <3>1 DEF Frame
  <2>12. \A g \in Lower : Above(f, g) /\ g \in Frame
    BY <1>1, StackMoves
  <2>13. \A g \in Lower : Above(a, g)
    <3>1. TAKE g \in Lower
    <3>2. FrameLevel(a) <= FrameLevel(f)
      BY <2>10
    <3>3. QED
      BY <1>1, <1>2, <2>5, <2>10, <2>11, <2>12, <3>2, StaysAbove DEF Completing
  <2>14. \A g \in Lower : Above(b, g)
    BY <1>1, <2>5, <2>10, <2>12 DEF Above, PartOf, Completing
  <2>15. Above(a, b) /\ b.op \notin Leaf
    BY <2>5, <2>10 DEF Above, Leaf
  <2>16. Frames' = {a, b} \cup Lower /\ Orderly(stack)'
    BY <1>1, <2>4, <2>13, <2>14, <2>15, StackMoves
  <2>17. Placed(b)
    <3>1. ASSUME NEW i \in DOMAIN b.todo
          PROVE  OwnReq(f.node, b.todo[i])
      <4>1. PICK u \in Seq(Req) : u = Tail(s) /\ b.todo = u
        BY <2>5, <2>6, <2>7
      <4>2. i \in 1..Len(u) /\ u[i] = s[i + 1] /\ i + 1 \in DOMAIN s
        BY <2>7, <3>1, <4>1
      <4>3. OwnReq(f.node, s[i + 1])
        BY <1>1, <1>2, <2>6, <4>2 DEF Placed
      <4>4. QED
        BY <4>1, <4>2, <4>3
    <3>2. QED
      BY <1>2, <2>5, <3>1 DEF Placed
  <2>18. Placed(a)
    <3>1. Born(f.node)
      BY <1>2, LiveIsBorn
    <3>2. f.node # None /\ req # None
      BY <1>2, <2>7, NoNodeAssumption, NoneAssumption
    <3>3. QED
      BY <1>2, <2>5, <2>8, <2>9, <3>1, <3>2 DEF Placed
  <2>19. Placed(a)' /\ Placed(b)'
    <3>1. PICK n : n = f.node
      OBVIOUS
    <3>2. Live(n)' = Live(n) /\ Born(n)' = Born(n) /\ Level(n)' = Level(n)
      BY <1>3 DEF Live, Born, Level
    <3>3. \A r : OwnReq(n, r)' = OwnReq(n, r)
      BY <1>3 DEF OwnReq
    <3>4. Placed(a)'
      BY <2>5, <2>18, <3>1, <3>2, <3>3 DEF Placed
    <3>5. Placed(b)'
      BY <2>5, <2>17, <3>1, <3>2, <3>3 DEF Placed
    <3>6. QED
      BY <3>4, <3>5
  <2>20. Caller(a)' /\ Caller(b)'
    <3>1. b \in Frames'
      BY <2>16
    <3>2. PICK n : n = f.node
      OBVIOUS
    <3>3. Updating(n)'
      BY <2>5, <3>1, <3>2 DEF Updating
    <3>4. QED
      BY <2>5, <3>2, <3>3 DEF Caller
  <2>21. PICK N : N = {a, b}
    OBVIOUS
  <2>22. Frames' = N \cup Lower /\ \A g \in N : Placed(g)' /\ Caller(g)'
    BY <2>16, <2>19, <2>20, <2>21
  <2>23. Layered'
    BY <1>1, <1>3, <2>16, <2>22, QuietLayered
  <2>24. QED
    BY <1>1, <1>2, <1>5, <2>1, <2>2, <2>5, <2>16, <2>23
<1>6. QED
  BY <1>4, <1>5

(* Completeness is passed on through any nodes. *)
LEMMA CompletingLayered ==
  ASSUME CompileInv, Layered, UpdateComplete \/ CompleteNext
  PROVE  /\ Layered' /\ stack # <<>> /\ Top.op \in Completing
         /\ \E N : /\ Frames' = N \cup Lower
                   /\ \A g \in N : g.op \in Completing
<1>1. stack # <<>> /\ Top.op \in Completing /\ Top \in Frame
  <2>1. stack # <<>> /\ Top.op \in Completing
    BY DEF UpdateComplete, CompleteNext, InCall, Completing
  <2>2. QED
    BY <2>1, StackMoves
<1>2. UNCHANGED <<nodes, born, metadata, deps, rdeps>>
  BY DEF UpdateComplete, CompleteNext, graph
<1>3. CASE Return
  <2>1. Layered' /\ Frames' = Lower
    BY <1>1, <1>2, <1>3, ReturnLayered
  <2>2. PICK N : N = {}
    OBVIOUS
  <2>3. Frames' = N \cup Lower /\ \A g \in N : g.op \in Completing
    BY <2>1, <2>2
  <2>4. QED
    BY <1>1, <2>1, <2>3
<1>4. ASSUME NEW a, a.op \in Completing, Then(<<a>>)
      PROVE  Layered' /\ Frames' = {a} \cup Lower
  <2>1. \A g \in Lower : Above(a, g)
    BY <1>4 DEF Above
  <2>2. Frames' = {a} \cup Lower /\ Orderly(stack)'
    BY <1>1, <1>4, <2>1, StackMoves
  <2>3. PICK N : N = {a}
    OBVIOUS
  <2>4. Placed(a)' /\ Caller(a)'
    BY <1>4 DEF Completing, Placed, Caller
  <2>5. Frames' = N \cup Lower /\ \A g \in N : Placed(g)' /\ Caller(g)'
    BY <2>2, <2>3, <2>4
  <2>6. QED
    BY <1>1, <1>2, <2>2, <2>5, QuietLayered
<1>5. ASSUME NEW a, a.op \in Completing, NEW b, b.op \in Completing, Then(<<a, b>>)
      PROVE  Layered' /\ Frames' = {a, b} \cup Lower
  <2>1. /\ Above(a, b) /\ b.op \notin Leaf
        /\ \A g \in Lower : Above(a, g) /\ Above(b, g)
    BY <1>5 DEF Above, Completing, Leaf
  <2>2. Frames' = {a, b} \cup Lower /\ Orderly(stack)'
    BY <1>1, <1>5, <2>1, StackMoves
  <2>3. PICK N : N = {a, b}
    OBVIOUS
  <2>4. Placed(a)' /\ Caller(a)' /\ Placed(b)' /\ Caller(b)'
    BY <1>5 DEF Completing, Placed, Caller
  <2>5. Frames' = N \cup Lower /\ \A g \in N : Placed(g)' /\ Caller(g)'
    BY <2>2, <2>3, <2>4
  <2>6. QED
    BY <1>1, <1>2, <2>2, <2>5, QuietLayered
<1>6. ASSUME NEW a, a.op \in Completing, Then(<<a>>)
      PROVE  Layered' /\ \E N : /\ Frames' = N \cup Lower
                                /\ \A g \in N : g.op \in Completing
  <2>1. PICK N : N = {a}
    OBVIOUS
  <2>2. Layered' /\ Frames' = N \cup Lower /\ \A g \in N : g.op \in Completing
    BY <1>4, <1>6, <2>1
  <2>3. QED
    BY <2>2
<1>7. CASE UpdateComplete /\ ~Return
  <2>1. PICK a : a = [op |-> "completes", todo |-> rdeps[Top.node]]
    OBVIOUS
  <2>2. Then(<<a>>) /\ a.op \in Completing
    BY <1>7, <2>1 DEF UpdateComplete, Completing
  <2>3. QED
    BY <1>1, <1>6, <2>2
<1>8. CASE CompleteNext /\ ~Return
  <2>1. Top.op = "completes" /\ Top \in CompletesFrame
    BY <1>1, <1>8, FrameKinds DEF CompleteNext, InCall
  <2>2. PICK n \in Top.todo : Then(<<Complete(n), [Top EXCEPT !.todo = @ \ {n}]>>)
    BY <1>8 DEF CompleteNext
  <2>3. PICK a : a = Complete(n)
    OBVIOUS
  <2>4. PICK b : b = [Top EXCEPT !.todo = @ \ {n}]
    OBVIOUS
  <2>5. Then(<<a, b>>) /\ a.op \in Completing /\ b.op \in Completing
    BY <2>1, <2>2, <2>3, <2>4 DEF Complete, Completing, CompletesFrame
  <2>6. PICK N : N = {a, b}
    OBVIOUS
  <2>7. Layered' /\ Frames' = N \cup Lower /\ \A g \in N : g.op \in Completing
    BY <1>5, <2>5, <2>6
  <2>8. QED
    BY <1>1, <2>7
<1>9. QED
  BY <1>3, <1>7, <1>8

LEMMA AlreadyRemovedLayered ==
  ASSUME CompileInv, Layered, AlreadyRemoved
  PROVE  Layered' /\ stack # <<>> /\ Top.op = "remove" /\ Frames' = Lower
<1>1. stack # <<>> /\ Top.op = "remove" /\ Return
  BY DEF AlreadyRemoved, InCall
<1>2. UNCHANGED <<nodes, born, metadata, deps, rdeps>>
  BY DEF AlreadyRemoved, graph
<1>3. QED
  BY <1>1, <1>2, ReturnLayered

(* The last extra, and the last dependency of a removed node. *)
LEMMA LastExtraLayered ==
  ASSUME CompileInv, Layered, LastExtra
  PROVE  /\ Layered' /\ stack # <<>> /\ Top.op = "extras" /\ Top.todo = {}
         /\ Frames' = Lower
<1>1. stack # <<>> /\ Top.op = "extras" /\ Top.todo = {} /\ Return
  BY DEF LastExtra, InCall
<1>2. UNCHANGED <<nodes, born, metadata, deps, rdeps>>
  BY DEF LastExtra, graph
<1>3. QED
  BY <1>1, <1>2, ReturnLayered

(* A node that leaves the collection is not one that a call works on. *)
LEMMA RemoveDistsLayered ==
  ASSUME Acyclic, CompileInv, Layered, RemoveDists, NEW f, f = Top, NEW n, n = f.node
  PROVE  /\ Layered' /\ stack # <<>> /\ f.op = "remove" /\ n \in Node
         /\ \A x \in Node : deps'[x] = deps[x]
         /\ \A x \in Node : Live(x)' => Live(x)
         /\ f.upstream => ~Live(n)'
         /\ \E a : /\ a.op = "drop" /\ a.node = n /\ a.todo = DOMAIN deps[n]
                   /\ Frames' = {a} \cup Lower
<1>1. stack # <<>> /\ f.op = "remove"
  BY DEF RemoveDists, InCall
<1>2. f \in RemoveFrame /\ n \in Node
  BY <1>1, StackMoves, FrameKinds DEF RemoveFrame
<1>3. f.upstream => rdeps[n] = {}
  <2>1. InCall("remove") /\ IInv
    BY DEF RemoveDists, CompileInv, NamesInv
  <2>2. FrameSafe(f)
    BY <2>1, InnermostFrame
  <2>3. QED
    BY <1>1, <2>2 DEF FrameSafe
<1>4. \A x \in Node : deps'[x] = deps[x]
  BY <1>3 DEF RemoveDists
<1>5. /\ KeyOf(n) \in Key /\ nodes \in [Key -> Node \cup {None}]
      /\ \A x \in Node : x # None /\ KeyOf(x) \in Key
  BY <1>2, NodeType, NoNodeAssumption DEF CompileInv, NamesInv, IInv, TypeOK
<1>6. /\ \A k \in Key : nodes'[k] = nodes[k] \/ nodes'[k] = None
      /\ \A k \in Key : k # KeyOf(n) => nodes'[k] = nodes[k]
      /\ f.upstream => nodes'[KeyOf(n)] = None
  BY <1>5 DEF RemoveDists
<1>7. \A x \in Node : Live(x)' => Live(x)
  BY <1>5, <1>6 DEF Live
<1>8. f.upstream => ~Live(n)'
  BY <1>2, <1>5, <1>6 DEF Live
<1>9. PICK a : a = [op |-> "drop", node |-> n, todo |-> DOMAIN deps'[n],
                    upstream |-> f.upstream]
  OBVIOUS
<1>10. /\ a.op = "drop" /\ a.node = n /\ a.todo = DOMAIN deps[n]
       /\ a.upstream = f.upstream
  BY <1>2, <1>4, <1>9
<1>11. Then(<<a>>)
  BY <1>9 DEF RemoveDists
<1>12. Frames' = {a} \cup Lower /\ Orderly(stack)'
  <2>1. \A g \in Lower : Above(f, g)
    BY <1>1, StackMoves
  <2>2. \A g \in Lower : Above(a, g)
    BY <1>1, <1>10, <2>1 DEF Above, PartOf, FrameLevel, Completing
  <2>3. QED
    BY <1>1, <1>11, <2>2, StackMoves
<1>13. UNCHANGED <<born, metadata, rdeps>>
  BY DEF RemoveDists
<1>14. EdgesDescend' /\ Fresh' /\ Latest'
  <2>1. EdgesDescend'
    BY <1>4, <1>13 DEF Layered, EdgesDescend, Born, Level
  <2>2. Fresh'
    BY <1>4, <1>13 DEF Layered, Fresh, Born
  <2>3. Latest'
    BY <1>6, <1>13 DEF Layered, Latest
  <2>4. QED
    BY <2>1, <2>2, <2>3
<1>15. ASSUME NEW g \in Lower, g.op \in {"restore", "extras", "requires"}
       PROVE  /\ Live(g.node)' /\ metadata'[g.node] = metadata[g.node]
              /\ Extras(g.node) \subseteq Extras(g.node)'
  <2>1. g.node \in Node /\ KeyOf(g.node) # KeyOf(n)
    BY <1>1, <1>15, OtherNode DEF PartOf, Completing
  <2>2. Live(g.node)
    BY <1>1, <1>15, StackMoves DEF Placed
  <2>3. Live(g.node)'
    BY <1>5, <1>6, <2>1, <2>2 DEF Live
  <2>4. rdeps[g.node] \subseteq Node
    BY <2>1 DEF CompileInv, NamesInv, IInv, TypeOK
  <2>5. Extras(g.node)' = Extras(g.node)
    BY <1>4, <1>13, <2>4 DEF Extras
  <2>6. QED
    BY <1>13, <2>3, <2>5
<1>16. ASSUME NEW g \in Lower, g.op = "drop", g.upstream
       PROVE  ~Live(g.node)'
  <2>1. g.node \in Node /\ ~Live(g.node)
    BY <1>1, <1>16, OtherNode, StackMoves DEF PartOf, Completing, Placed
  <2>2. QED
    BY <1>7, <2>1
<1>17. Placed(a)' /\ Caller(a)'
  <2>1. \A d \in a.todo : Level(d) < Level(n)
    BY <1>2, <1>10 DEF Layered, EdgesDescend
  <2>2. QED
    BY <1>8, <1>10, <2>1 DEF Placed, Caller, Level
<1>18. PICK N : N = {a}
  OBVIOUS
<1>19. Frames' = N \cup Lower /\ \A g \in N : Placed(g)' /\ Caller(g)'
  BY <1>12, <1>17, <1>18
<1>20. Layered'
  BY <1>1, <1>12, <1>14, <1>15, <1>16, <1>19, LayeredFollows
<1>21. QED
  BY <1>1, <1>2, <1>4, <1>7, <1>8, <1>10, <1>12, <1>20

(* n no longer counts as a reverse dependency of d. *)
Drops(f, n, d) ==
  /\ rdeps'[d] = rdeps[d] \ {n}
  /\ \A x \in Node : x # d => rdeps'[x] = rdeps[x]
  /\ \E b : /\ b.op = "drop" /\ b.node = n /\ b.todo = f.todo \ {d}
            /\ \/ Frames' = {b} \cup Lower
               \/ Frames' = {Remove(d, TRUE), b} \cup Lower

(* The dependencies that are dropped lie below the node, and the nodes     *)
(* that are worked on above it. *)
LEMMA DropDepLayered ==
  ASSUME Acyclic, CompileInv, Layered, DropDep, NEW f, f = Top, NEW n, n = f.node
  PROVE  /\ Layered' /\ stack # <<>> /\ f.op = "drop" /\ n \in Node
         /\ f.todo \subseteq Node
         /\ \E d \in f.todo : Drops(f, n, d)
<1>1. stack # <<>> /\ f.op = "drop"
  BY DEF DropDep, InCall
<1>2. /\ f \in Frame /\ f \in DropFrame /\ n \in Node /\ f.todo \subseteq Node
      /\ Placed(f)
  <2>1. f \in Frame /\ f \in DropFrame /\ Placed(f)
    BY <1>1, StackMoves, FrameKinds
  <2>2. QED
    BY <2>1 DEF DropFrame
<1>3. PICK d \in f.todo :
        /\ rdeps' = [rdeps EXCEPT ![d] = @ \ {n}]
        /\ \/ Then(<<Remove(d, TRUE), [f EXCEPT !.todo = @ \ {d}]>>)
           \/ Then(<<[f EXCEPT !.todo = @ \ {d}]>>)
  BY DEF DropDep
<1>4. d \in Node /\ Level(d) < Level(n) /\ Level(d) \in Nat /\ Level(n) \in Nat
  BY <1>1, <1>2, Levels DEF Placed
<1>5. PICK a : a = Remove(d, TRUE)
  OBVIOUS
<1>6. PICK b : b = [f EXCEPT !.todo = @ \ {d}]
  OBVIOUS
<1>7. Then(<<a, b>>) \/ Then(<<b>>)
  BY <1>3, <1>5, <1>6
<1>8. /\ a.op = "remove" /\ a.node = d
      /\ b.op = "drop" /\ b.node = n /\ b.todo = f.todo \ {d}
      /\ b.upstream = f.upstream
  BY <1>1, <1>2, <1>5, <1>6 DEF Remove, DropFrame
<1>9. a \in Frame /\ a.op \notin Completing /\ f.op \notin Completing
  <2>1. a \in RemoveFrame
    BY <1>4, <1>5 DEF Remove, RemoveFrame
  <2>2. QED
    BY <1>1, <1>8, <2>1 DEF Frame, Completing
<1>10. FrameLevel(a) < FrameLevel(f) /\ FrameLevel(a) <= FrameLevel(f)
       /\ FrameLevel(b) = FrameLevel(f)
  BY <1>1, <1>4, <1>8 DEF FrameLevel
<1>11. \A g \in Lower : Above(f, g) /\ g \in Frame
  BY <1>1, StackMoves
<1>12. \A g \in Lower : Above(a, g)
  BY <1>2, <1>9, <1>10, <1>11, StaysAbove
<1>13. \A g \in Lower : Above(b, g)
  BY <1>1, <1>8, <1>10, <1>11 DEF Above, PartOf, Completing
<1>14. Above(a, b) /\ b.op \notin Leaf
  BY <1>8, <1>10 DEF Above, Leaf
<1>15. UNCHANGED <<nodes, born, metadata, deps>>
  BY DEF DropDep
<1>16. \A x \in Node : x # d => rdeps'[x] = rdeps[x]
  BY <1>3 DEF CompileInv, NamesInv, IInv, TypeOK
<1>17. EdgesDescend' /\ Latest' /\ Fresh'
  BY <1>15 DEF Layered, EdgesDescend, Latest, Fresh, Born, Level
<1>18. ASSUME NEW g \in Lower, g.op \in {"restore", "extras", "requires"}
       PROVE  /\ Live(g.node)' /\ metadata'[g.node] = metadata[g.node]
              /\ Extras(g.node) \subseteq Extras(g.node)'
  <2>1. /\ g.node \in Node /\ FrameLevel(f) < Level(g.node)
        /\ FrameLevel(f) \in Nat /\ Level(g.node) \in Nat
    BY <1>1, <1>18, OtherNode DEF PartOf, Completing
  <2>2. g.node # d
    BY <1>1, <1>4, <2>1 DEF FrameLevel
  <2>3. Live(g.node)'
    BY <1>1, <1>15, <1>18, StackMoves DEF Placed, Live
  <2>4. Extras(g.node)' = Extras(g.node)
    BY <1>15, <1>16, <2>1, <2>2 DEF Extras
  <2>5. QED
    BY <1>15, <2>3, <2>4
<1>19. ASSUME NEW g \in Lower, g.op = "drop", g.upstream
       PROVE  ~Live(g.node)'
  BY <1>1, <1>15, <1>19, StackMoves DEF Placed, Live
<1>20. Placed(a)' /\ Caller(a)' /\ Placed(b)' /\ Caller(b)'
  <2>1. \A x \in b.todo : Level(x) < Level(n)
    BY <1>1, <1>2, <1>8 DEF Placed
  <2>2. f.upstream => ~Live(n)
    BY <1>1, <1>2 DEF Placed
  <2>3. Live(n)' = Live(n)
    BY <1>15 DEF Live
  <2>4. QED
    BY <1>8, <2>1, <2>2, <2>3 DEF Placed, Caller, Level
<1>21. PICK N : /\ Frames' = N \cup Lower /\ Orderly(stack)'
                /\ \A g \in N : g = b \/ g = a
  <2>1. CASE Then(<<a, b>>)
    <3>1. Frames' = {a, b} \cup Lower /\ Orderly(stack)'
      BY <1>1, <1>12, <1>13, <1>14, <2>1, StackMoves
    <3>2. PICK N : N = {a, b}
      OBVIOUS
    <3>3. \A g \in N : g = b \/ g = a
      BY <3>2
    <3>4. QED
      BY <3>1, <3>2, <3>3
  <2>2. CASE Then(<<b>>)
    <3>1. Frames' = {b} \cup Lower /\ Orderly(stack)'
      BY <1>1, <1>13, <2>2, StackMoves
    <3>2. PICK N : N = {b}
      OBVIOUS
    <3>3. \A g \in N : g = b \/ g = a
      BY <3>2
    <3>4. QED
      BY <3>1, <3>2, <3>3
  <2>3. QED
    BY <1>7, <2>1, <2>2
<1>22. \A g \in N : Placed(g)' /\ Caller(g)'
  BY <1>20, <1>21
<1>23. Layered'
  BY <1>1, <1>17, <1>18, <1>19, <1>21, <1>22, LayeredFollows
<1>24. \E c : /\ c.op = "drop" /\ c.node = n /\ c.todo = f.todo \ {d}
              /\ \/ Frames' = {c} \cup Lower
                 \/ Frames' = {Remove(d, TRUE), c} \cup Lower
  <2>1. \/ Frames' = {b} \cup Lower
        \/ Frames' = {Remove(d, TRUE), b} \cup Lower
    BY <1>1, <1>5, <1>7, <1>12, <1>13, <1>14, StackMoves
  <2>2. QED
    BY <1>8, <2>1
<1>25. rdeps'[d] = rdeps[d] \ {n}
  BY <1>3, <1>4 DEF CompileInv, NamesInv, IInv, TypeOK
<1>26. Drops(f, n, d)
  BY <1>16, <1>24, <1>25 DEF Drops
<1>27. QED
  BY <1>1, <1>2, <1>23, <1>26

(* Nobody below the node still lists it when it loses its dependencies. *)
LEMMA UnsolveLayered ==
  ASSUME Acyclic, CompileInv, Layered, Unsolve, NEW f, f = Top, NEW n, n = f.node
  PROVE  /\ Layered' /\ stack # <<>> /\ f.op = "drop" /\ n \in Node /\ f.todo = {}
         /\ UNCHANGED <<nodes, born, rdeps>>
         /\ \A x \in Node : x # n => deps'[x] = deps[x] /\ metadata'[x] = metadata[x]
         /\ \/ ~Live(n) /\ UNCHANGED <<deps, metadata>>
            \/ DOMAIN deps'[n] = {} /\ metadata'[n] = None
         /\ \E N : Frames' = N \cup Lower /\ \A g \in N : g.op \in Completing
<1>1. stack # <<>> /\ f.op = "drop" /\ f.todo = {}
  BY DEF Unsolve, InCall
<1>2. n \in Node /\ Placed(f)
  BY <1>1, StackMoves, FrameKinds DEF DropFrame
<1>3. UNCHANGED <<nodes, born, rdeps>>
  BY DEF Unsolve
<1>4. \A x \in Node : n \notin rdeps[x]
  <2>1. InCall("drop") /\ IInv
    BY DEF Unsolve, CompileInv, NamesInv
  <2>2. FrameSafe(f)
    BY <2>1, InnermostFrame
  <2>3. \A x \in DOMAIN deps[n] : n \notin rdeps[x]
    BY <1>1, <2>2 DEF FrameSafe
  <2>4. \A x \in Node : n \in rdeps[x] => x \in DOMAIN deps[n]
    BY DEF CompileInv, NamesInv, IInv, RequestersHaveEdge
  <2>5. QED
    BY <2>3, <2>4
<1>5. CASE f.upstream
  <2>1. Return /\ UNCHANGED <<deps, metadata>> /\ ~Live(n)
    BY <1>1, <1>2, <1>5 DEF Unsolve, Placed
  <2>2. Layered' /\ Frames' = Lower
    BY <1>1, <1>3, <2>1, ReturnLayered
  <2>3. PICK N : N = {}
    OBVIOUS
  <2>4. Frames' = N \cup Lower /\ \A g \in N : g.op \in Completing
    BY <2>2, <2>3
  <2>5. QED
    BY <1>1, <1>2, <1>3, <2>1, <2>2, <2>4
<1>6. CASE ~f.upstream
  <2>1. PICK a : a = Complete(n)
    OBVIOUS
  <2>2. Then(<<a>>) /\ a.op \in Completing
    BY <1>6, <2>1 DEF Unsolve, Complete, Completing
  <2>3. /\ deps' = [deps EXCEPT ![n] = [m \in {} |-> None]]
        /\ metadata' = [metadata EXCEPT ![n] = None]
        /\ DOMAIN deps = Node /\ metadata \in [Node -> Dist \cup {None}]
    BY <1>6 DEF Unsolve, CompileInv, NamesInv, IInv, TypeOK
  <2>4. /\ \A x \in Node : x # n => deps'[x] = deps[x] /\ metadata'[x] = metadata[x]
        /\ DOMAIN deps'[n] = {} /\ metadata'[n] = None
    BY <1>2, <2>3
  <2>5. \A g \in Lower : Above(a, g)
    BY <2>2 DEF Above
  <2>6. Frames' = {a} \cup Lower /\ Orderly(stack)'
    BY <1>1, <2>2, <2>5, StackMoves
  <2>7. PICK N : N = {a}
    OBVIOUS
  <2>8. Frames' = N \cup Lower /\ \A g \in N : g.op \in Completing
    BY <2>2, <2>6, <2>7
  <2>9. \A g \in N : Placed(g)' /\ Caller(g)'
    BY <2>8 DEF Completing, Placed, Caller
  <2>10. EdgesDescend' /\ Latest' /\ Fresh'
    <3>1. \A x \in Node : deps'[x] = deps[x] \/ DOMAIN deps'[x] = {}
      BY <2>4
    <3>2. EdgesDescend'
      BY <1>3, <3>1 DEF Layered, EdgesDescend, Born, Level
    <3>3. Fresh'
      BY <1>3, <3>1 DEF Layered, Fresh, Born
    <3>4. Latest'
      BY <1>3 DEF Layered, Latest
    <3>5. QED
      BY <3>2, <3>3, <3>4
  <2>11. ASSUME NEW g \in Lower, g.op \in {"restore", "extras", "requires"}
         PROVE  /\ Live(g.node)' /\ metadata'[g.node] = metadata[g.node]
                /\ Extras(g.node) \subseteq Extras(g.node)'
    <3>1. g.node \in Node /\ g.node # n
      BY <1>1, <2>11, OtherNode DEF PartOf, Completing
    <3>2. Live(g.node)'
      BY <1>1, <1>3, <2>11, StackMoves DEF Placed, Live
    <3>3. rdeps[g.node] \subseteq Node /\ n \notin rdeps[g.node]
      BY <1>4, <3>1 DEF CompileInv, NamesInv, IInv, TypeOK
    <3>4. \A r \in rdeps[g.node] : deps'[r] = deps[r]
      BY <2>4, <3>3
    <3>5. Extras(g.node)' = Extras(g.node)
      BY <1>3, <3>4 DEF Extras
    <3>6. QED
      BY <2>4, <3>1, <3>2, <3>5
  <2>12. ASSUME NEW g \in Lower, g.op = "drop", g.upstream
         PROVE  ~Live(g.node)'
    BY <1>1, <1>3, <2>12, StackMoves DEF Placed, Live
  <2>13. Layered'
    BY <1>1, <2>6, <2>8, <2>9, <2>10, <2>11, <2>12, LayeredFollows
  <2>14. QED
    BY <1>1, <1>2, <1>3, <2>4, <2>8, <2>13
<1>7. QED
  BY <1>5, <1>6

-----------------------------------------------------------------------------
(* What the frames say about the nodes *)

(* A call is about to change what m holds or requires. *)
Busy(m) == \E f \in Frames : f.op \in {"update", "remove", "drop"} /\ f.node = m
(* f still has to draw the edge for the requirement r of m. *)
Waits(f, m, r) ==
  \/ f.op = "extras" /\ f.node = m /\ \E e \in f.todo : r \in Reqs(f.dist, e)
  \/ f.op = "requires" /\ f.node = m /\ \E i \in DOMAIN f.todo : f.todo[i] = r
  \/ f.op = "add" /\ f.dist = None /\ f.source = m /\ f.reason = r
Waiting(m, r) == \E f \in Frames : Waits(f, m, r)
(* m is solved and has drawn the edge for its requirement r. *)
Settled(m, r) == /\ Live(m) /\ metadata[m] # None /\ r \in Active(m)
                 /\ ~Busy(m) /\ ~Waiting(m, r)
(* m is giving up its dependencies, n already. *)
Dropped(m, n) == \E f \in Frames : f.op = "drop" /\ f.node = m /\ n \notin f.todo

VersionFits(d, r) == d.version = None \/ Contains(r.spec, d.version)
(* n holds a distribution for what r names. *)
Serves(n, r) == KeyOf(n) = r.name /\ Live(n) /\ metadata[n] # None

BothSides ==
  \A m \in Node : Live(m) => \A n \in DOMAIN deps[m] : m \in rdeps[n] \/ Dropped(m, n)
Fit ==
  \A m \in Node : \A r \in Req : Settled(m, r) =>
    \A n \in Node : Serves(n, r) /\ ~Busy(n) /\ m \in rdeps[n] =>
      VersionFits(metadata[n], r)
(* While the requirements of m are added, those that are settled have      *)
(* reached whoever serves them. *)
Covered ==
  \A m \in Node : \A r \in Req : Settled(m, r) /\ Updating(m) =>
    \A n \in Node : Serves(n, r) => m \in rdeps[n]
(* What is about to be applied fits the settled requirements. *)
Given(f) ==
  /\ f.op = "update" =>
       /\ \A m \in rdeps[f.node] : \A r \in Req :
            Settled(m, r) /\ r.name = KeyOf(f.node) => VersionFits(f.dist, r)
       /\ metadata[f.node] # None \/ \A m \in Node : ~Updating(m)
  /\ f.op = "add" /\ f.dist # None =>
       \A m \in rdeps[Target(f.key)] \cup {f.source} : m # None => \A r \in Req :
         Settled(m, r) /\ r.name = f.key => VersionFits(f.dist, r)

(* A call of compile_roots is going to solve n for m.  It is a requirement *)
(* of m if m is still a reverse dependency of n, or of the node that has   *)
(* taken the place of n.                                                   *)
Asking(f, m, n) ==
  \/ f.op = "compile" /\ f.source # None /\ f.source = m /\ f.node = n
  \/ f.op = "deps" /\ f.node = m /\ n \in f.todo
CallSet == FramesOf(calls)
Pending(m, n) == \E f \in CallSet : Asking(f, m, n)
PairsPlaced == \A m, n \in Node : Pending(m, n) =>
                 Born(m) /\ Born(n) /\ Level(n) < Level(m)
PairSafe(m, n) ==
  \A r \in Req : Settled(m, r) /\ r.name = KeyOf(n) =>
    \E t \in Node : m \in rdeps[t] /\ KeyOf(t) = KeyOf(n) /\ t[2] >= n[2]
PairsSafe == \A m, n \in Node : Pending(m, n) => PairSafe(m, n)
InputsGiven ==
  \A f \in CallSet : f.op \in {"start", "constrain"} =>
    \A i \in DOMAIN f.todo : f.todo[i] \in InputDists(input)

Fitting == BothSides /\ Fit /\ Covered /\ PairsSafe /\ \A f \in Frames : Given(f)

(* An exception may end a call in the middle. *)
Off == error # None \/ outcome \notin {"running", "solved"}
Going == Layered /\ PairsPlaced /\ InputsGiven /\ Fitting
AcyclicInv == Off \/ Going

-----------------------------------------------------------------------------
(* What holds for the requirements still holds after a step of the graph   *)

LEMMA ActiveIsOwn ==
  ASSUME NEW m, NEW r, metadata[m] # None, r \in Active(m),
         Extras(m) \subseteq Extra
  PROVE  OwnReq(m, r)
<1>1. PICK e \in Extras(m) \cup {None} : r \in Reqs(metadata[m], e)
  BY DEF Active, Reqs
<1>2. QED
  BY <1>1 DEF OwnReq

LEMMA SmallerActive ==
  ASSUME NEW m, metadata'[m] = metadata[m], Extras(m)' \subseteq Extras(m)
  PROVE  Active(m)' \subseteq Active(m)
<1>1. PICK E \in SUBSET Extras(m) : E = Extras(m)'
  OBVIOUS
<1>2. Active(m)' = UNION {Reqs(metadata[m], e) : e \in E \cup {None}}
  BY <1>1 DEF Active, Reqs
<1>3. Active(m) = UNION {Reqs(metadata[m], e) : e \in Extras(m) \cup {None}}
  BY DEF Active, Reqs
<1>4. QED
  BY <1>2, <1>3

(* A step that takes away and never gives: what is settled was settled     *)
(* before. *)
Shrinks ==
  /\ \A x \in Node : Live(x)' => Live(x)
  /\ \A x \in Node : metadata'[x] = metadata[x] \/ metadata'[x] = None
  /\ \A x \in Node : rdeps'[x] \subseteq rdeps[x]
  /\ \A x \in Node : Extras(x)' \subseteq Extras(x)
  /\ \A x \in Node : Live(x)' => DOMAIN deps'[x] \subseteq DOMAIN deps[x]
  /\ UNCHANGED <<born, calls, input>>
(* What the innermost frame, on node n, answers for is handed on. *)
HandsOn(n) ==
  /\ Top.op \in {"update", "remove", "drop"} =>
       Busy(n)' \/ ~Live(n)' \/ metadata'[n] = None
  /\ \A m \in Node : \A r \in Req : Waits(Top, m, r) => Waiting(m, r)'
  /\ \A m, x \in Node : m \in rdeps[x] => m \in rdeps'[x] \/ Dropped(m, x)'
  /\ Top.op = "drop" =>
       \A x \in DOMAIN deps[n] : x \notin Top.todo =>
         Dropped(n, x)' \/ ~Live(n)' \/ x \notin DOMAIN deps'[n]

LEMMA StepKeepsFitting ==
  ASSUME CompileInv, Going, stack # <<>>, Shrinks,
         NEW n, n = Top.node, HandsOn(n), NEW N, Frames' = N \cup Lower,
         \A g \in N : /\ g.op # "update"
                      /\ g.op = "add" => g.dist = None
                      /\ g.op \in {"extras", "requires"} => Updating(g.node)
  PROVE  (PairsPlaced /\ InputsGiven /\ Fitting)'
<1>1. /\ Frames = {Top} \cup Lower
      /\ \A g \in Lower : g.op \notin Leaf /\ g \in Frames /\ g \in Frames'
  BY StackMoves DEF Going
<1>2. \A m \in Node : Busy(m) => Busy(m)' \/ ~Live(m)' \/ metadata'[m] = None
  <2>1. TAKE m \in Node
  <2>2. HAVE Busy(m)
  <2>3. PICK f \in Frames : f.op \in {"update", "remove", "drop"} /\ f.node = m
    BY <2>2 DEF Busy
  <2>4. CASE f \in Lower
    BY <1>1, <2>3, <2>4 DEF Busy
  <2>5. CASE f = Top
    BY <2>3, <2>5 DEF HandsOn
  <2>6. QED
    BY <1>1, <2>4, <2>5
<1>3. \A m \in Node : \A r \in Req : Waiting(m, r) => Waiting(m, r)'
  <2>1. TAKE m \in Node
  <2>2. TAKE r \in Req
  <2>3. HAVE Waiting(m, r)
  <2>4. PICK f \in Frames : Waits(f, m, r)
    BY <2>3 DEF Waiting
  <2>5. CASE f \in Lower
    <3>1. f \in Frames' /\ Waits(f, m, r)'
      BY <1>1, <2>4, <2>5 DEF Waits
    <3>2. QED
      BY <3>1 DEF Waiting
  <2>6. CASE f = Top
    BY <2>4, <2>6 DEF HandsOn
  <2>7. QED
    BY <1>1, <2>5, <2>6
<1>4. ASSUME NEW m \in Node, NEW r \in Req, Settled(m, r)'
      PROVE  Settled(m, r) /\ ~Busy(m)'
  <2>1. Live(m) /\ metadata[m] # None /\ metadata'[m] = metadata[m] /\ ~Busy(m)'
    BY <1>4 DEF Settled, Shrinks
  <2>2. Active(m)' \subseteq Active(m)
    BY <2>1, SmallerActive DEF Shrinks
  <2>3. ~Busy(m) /\ ~Waiting(m, r)
    BY <1>2, <1>3, <1>4 DEF Settled
  <2>4. r \in Active(m)
    BY <1>4, <2>2 DEF Settled
  <2>5. QED
    BY <2>1, <2>3, <2>4 DEF Settled
<1>5. ASSUME NEW x \in Node, NEW r \in Req, Serves(x, r)'
      PROVE  Serves(x, r) /\ metadata'[x] = metadata[x] /\ (Busy(x) => Busy(x)')
  BY <1>2, <1>5 DEF Serves, Shrinks
<1>6. \A m \in Node : Updating(m)' => Updating(m)
  <2>1. TAKE m \in Node
  <2>2. HAVE Updating(m)'
  <2>3. PICK f \in Frames' : f.op \in {"extras", "requires"} /\ f.node = m
    BY <2>2 DEF Updating
  <2>4. CASE f \in Lower
    BY <1>1, <2>3, <2>4 DEF Updating
  <2>5. CASE f \in N
    BY <2>3, <2>5
  <2>6. QED
    BY <2>4, <2>5
<1>7. BothSides'
  <2>1. ASSUME NEW m \in Node, Live(m)', NEW x \in DOMAIN deps'[m]
        PROVE  m \in rdeps'[x] \/ Dropped(m, x)'
    <3>1. Live(m) /\ x \in DOMAIN deps[m]
      BY <2>1 DEF Shrinks
    <3>2. x \in Node
      BY <3>1 DEF CompileInv, NamesInv, IInv, TypeOK, IsDependencies
    <3>3. CASE m \in rdeps[x]
      BY <3>2, <3>3 DEF HandsOn
    <3>4. CASE Dropped(m, x)
      <4>1. PICK f \in Frames : f.op = "drop" /\ f.node = m /\ x \notin f.todo
        BY <3>4 DEF Dropped
      <4>2. CASE f \in Lower
        BY <1>1, <4>1, <4>2 DEF Dropped
      <4>3. CASE f = Top
        BY <2>1, <3>1, <4>1, <4>3 DEF HandsOn
      <4>4. QED
        BY <1>1, <4>2, <4>3
    <3>5. QED
      BY <3>1, <3>3, <3>4 DEF Going, Fitting, BothSides
  <2>2. QED
    BY <2>1 DEF BothSides
<1>8. Fit'
  <2>1. ASSUME NEW m \in Node, NEW r \in Req, Settled(m, r)', NEW x \in Node,
               Serves(x, r)', ~Busy(x)', m \in rdeps'[x]
        PROVE  VersionFits(metadata'[x], r)
    <3>1. Settled(m, r) /\ Serves(x, r) /\ ~Busy(x) /\ m \in rdeps[x]
      BY <1>4, <1>5, <2>1 DEF Shrinks
    <3>2. VersionFits(metadata[x], r)
      BY <3>1 DEF Going, Fitting, Fit
    <3>3. QED
      BY <1>5, <2>1, <3>2
  <2>2. QED
    BY <2>1 DEF Fit, VersionFits
<1>9. Covered'
  <2>1. ASSUME NEW m \in Node, NEW r \in Req, Settled(m, r)', Updating(m)',
               NEW x \in Node, Serves(x, r)'
        PROVE  m \in rdeps'[x]
    <3>1. Settled(m, r) /\ ~Busy(m)' /\ Updating(m) /\ Serves(x, r)
      BY <1>4, <1>5, <1>6, <2>1
    <3>2. m \in rdeps[x]
      BY <3>1 DEF Going, Fitting, Covered
    <3>3. ~Dropped(m, x)'
      BY <3>1 DEF Busy, Dropped
    <3>4. QED
      BY <3>2, <3>3 DEF HandsOn
  <2>2. QED
    BY <2>1 DEF Covered
<1>10. \A f \in Frames' : Given(f)'
  <2>1. \A f \in Frames' : f.op # "update" /\ (f.op = "add" => f.dist = None)
    BY <1>1 DEF Leaf
  <2>2. QED
    BY <2>1 DEF Given
<1>11. PairsSafe'
  <2>1. ASSUME NEW m \in Node, NEW x \in Node, Pending(m, x)', NEW r \in Req,
               Settled(m, r)', r.name = KeyOf(x)
        PROVE  \E t \in Node : m \in rdeps'[t] /\ KeyOf(t) = KeyOf(x) /\ t[2] >= x[2]
    <3>1. Pending(m, x)
      BY <2>1 DEF Pending, CallSet, FramesOf, Asking, Shrinks
    <3>2. Settled(m, r) /\ ~Busy(m)'
      BY <1>4, <2>1
    <3>3. PICK t \in Node : m \in rdeps[t] /\ KeyOf(t) = KeyOf(x) /\ t[2] >= x[2]
      BY <2>1, <3>1, <3>2 DEF Going, Fitting, PairsSafe, PairSafe
    <3>4. ~Dropped(m, t)'
      BY <3>2 DEF Busy, Dropped
    <3>5. m \in rdeps'[t]
      BY <3>3, <3>4 DEF HandsOn
    <3>6. QED
      BY <3>3, <3>5
  <2>2. QED
    BY <2>1 DEF PairsSafe, PairSafe, KeyOf
<1>12. PairsPlaced'
  <2>1. \A m, x : Pending(m, x)' = Pending(m, x)
    BY DEF Pending, CallSet, FramesOf, Asking, Shrinks
  <2>2. \A x : Born(x)' = Born(x)
    BY DEF Born, Shrinks
  <2>3. PairsPlaced
    BY DEF Going
  <2>4. QED
    BY <2>1, <2>2, <2>3 DEF PairsPlaced, Level
<1>13. InputsGiven'
  BY DEF Going, InputsGiven, CallSet, FramesOf, Shrinks
<1>14. QED
  BY <1>7, <1>8, <1>9, <1>10, <1>11, <1>12, <1>13 DEF Fitting

(* The same where the step leaves the graph alone. *)
LEMMA QuietKeepsFitting ==
  ASSUME CompileInv, Going, stack # <<>>,
         UNCHANGED <<nodes, born, metadata, deps, rdeps, calls, input>>,
         Top.op \notin {"update", "drop"},
         NEW n, n = Top.node, Top.op = "remove" => ~Live(n),
         \A m \in Node : \A r \in Req : Waits(Top, m, r) => Waiting(m, r)',
         NEW N, Frames' = N \cup Lower,
         \A g \in N : /\ g.op # "update"
                      /\ g.op = "add" => g.dist = None
                      /\ g.op \in {"extras", "requires"} => Updating(g.node)
  PROVE  (PairsPlaced /\ InputsGiven /\ Fitting)'
<1>1. Shrinks
  <2>1. \A x \in Node : Live(x)' = Live(x)
    BY DEF Live
  <2>2. \A x \in Node : Extras(x)' = Extras(x)
    BY SameExtras
  <2>3. QED
    BY <2>1, <2>2 DEF Shrinks
<1>2. HandsOn(n)
  <2>1. Live(n)' = Live(n)
    BY DEF Live
  <2>2. QED
    BY <2>1 DEF HandsOn
<1>3. QED
  BY <1>1, <1>2, StepKeepsFitting

LEMMA NextExtraFits ==
  ASSUME Acyclic, CompileInv, Going, NextExtra, error' = None, UNCHANGED <<calls, input>>
  PROVE  Going'
<1>1. PICK f : f = Top
  OBVIOUS
<1>2. Layered
  BY DEF Going
<1>3. /\ Layered' /\ stack # <<>> /\ f \in ExtrasFrame /\ f.op = "extras"
      /\ \E e \in f.todo : \E a, b :
              /\ a.op = "requires" /\ a.node = f.node /\ a.todo = f.dist.requires[e]
              /\ b.op = "extras" /\ b.node = f.node /\ b.dist = f.dist
              /\ b.todo = f.todo \ {e}
              /\ Frames' = {a, b} \cup Lower
  BY <1>1, <1>2, NextExtraLayered
<1>4. PICK e \in f.todo : \E a, b :
              /\ a.op = "requires" /\ a.node = f.node /\ a.todo = f.dist.requires[e]
              /\ b.op = "extras" /\ b.node = f.node /\ b.dist = f.dist
              /\ b.todo = f.todo \ {e}
              /\ Frames' = {a, b} \cup Lower
  BY <1>3
<1>5. PICK a, b : /\ a.op = "requires" /\ a.node = f.node /\ a.todo = f.dist.requires[e]
                  /\ b.op = "extras" /\ b.node = f.node /\ b.dist = f.dist
                  /\ b.todo = f.todo \ {e}
                  /\ Frames' = {a, b} \cup Lower
  BY <1>4
<1>6. UNCHANGED <<nodes, born, metadata, deps, rdeps>>
  BY DEF NextExtra, graph
<1>7. ASSUME NEW m \in Node, NEW r \in Req, Waits(f, m, r)
      PROVE  Waiting(m, r)'
  <2>1. f.node = m
    BY <1>3, <1>7 DEF Waits
  <2>2. PICK x \in f.todo : r \in Reqs(f.dist, x)
    BY <1>3, <1>7 DEF Waits
  <2>3. CASE x = e
    <3>1. PICK i \in DOMAIN a.todo : a.todo[i] = r
      BY <1>5, <2>2, <2>3 DEF Reqs
    <3>2. Waits(a, m, r)'
      BY <1>5, <2>1, <3>1 DEF Waits
    <3>3. QED
      BY <1>5, <3>2 DEF Waiting
  <2>4. CASE x # e
    <3>1. x \in b.todo
      BY <1>5, <2>4
    <3>2. Waits(b, m, r)'
      BY <1>5, <2>1, <2>2, <3>1 DEF Waits
    <3>3. QED
      BY <1>5, <3>2 DEF Waiting
  <2>5. QED
    BY <2>3, <2>4
<1>8. Updating(f.node)
  <2>1. f \in Frames
    BY <1>1, <1>2, <1>3, StackMoves
  <2>2. QED
    BY <1>3, <2>1 DEF Updating
<1>9. PICK N : N = {a, b}
  OBVIOUS
<1>10. /\ Frames' = N \cup Lower
       /\ \A g \in N : /\ g.op # "update"
                       /\ g.op = "add" => g.dist = None
                       /\ g.op \in {"extras", "requires"} => Updating(g.node)
  BY <1>5, <1>8, <1>9
<1>11. PICK n : n = f.node
  OBVIOUS
<1>12. (PairsPlaced /\ InputsGiven /\ Fitting)'
  BY <1>1, <1>3, <1>6, <1>7, <1>10, <1>11, QuietKeepsFitting
<1>13. QED
  BY <1>3, <1>12 DEF Going

LEMMA NextRequirementFits ==
  ASSUME Acyclic, CompileInv, Going, NextRequirement, UNCHANGED <<calls, input>>
  PROVE  Going'
<1>1. PICK f : f = Top
  OBVIOUS
<1>2. Layered
  BY DEF Going
<1>3. /\ Layered' /\ stack # <<>> /\ f \in RequiresFrame /\ f.op = "requires"
      /\ f.todo = <<>> => Frames' = Lower
      /\ f.todo # <<>> => \E a, b :
              /\ a = Add(Head(f.todo).name, None, f.node, Head(f.todo))
              /\ b.op = "requires" /\ b.node = f.node /\ b.todo = Tail(f.todo)
              /\ Frames' = {a, b} \cup Lower
  BY <1>1, <1>2, NextRequirementLayered
<1>4. UNCHANGED <<nodes, born, metadata, deps, rdeps>>
  BY DEF NextRequirement, graph
<1>5. PICK s \in Seq(Req) : s = f.todo
  BY <1>3 DEF RequiresFrame
<1>6. PICK n : n = f.node
  OBVIOUS
<1>7. CASE s = <<>>
  <2>1. \A m, r : ~Waits(f, m, r)
    BY <1>3, <1>5, <1>7 DEF Waits
  <2>2. PICK N : N = {}
    OBVIOUS
  <2>3. /\ Frames' = N \cup Lower
        /\ \A g \in N : /\ g.op # "update"
                        /\ g.op = "add" => g.dist = None
                        /\ g.op \in {"extras", "requires"} => Updating(g.node)
    BY <1>3, <1>5, <1>7, <2>2
  <2>4. (PairsPlaced /\ InputsGiven /\ Fitting)'
    BY <1>1, <1>3, <1>4, <1>6, <2>1, <2>3, QuietKeepsFitting
  <2>5. QED
    BY <1>3, <2>4 DEF Going
<1>8. CASE s # <<>>
  <2>0. PICK a, b :
              /\ a = Add(Head(f.todo).name, None, f.node, Head(f.todo))
              /\ b.op = "requires" /\ b.node = f.node /\ b.todo = Tail(f.todo)
              /\ Frames' = {a, b} \cup Lower
    BY <1>3, <1>5, <1>8
  <2>1. b.op = "requires" /\ b.node = f.node /\ b.todo = Tail(s)
    BY <1>5, <2>0
  <2>2. /\ a.op = "add" /\ a.dist = None /\ a.source = f.node /\ a.reason = Head(s)
        /\ Frames' = {a, b} \cup Lower
    BY <1>5, <2>0 DEF Add
  <2>3. PICK u \in Seq(Req) :
          /\ u = Tail(s) /\ Len(u) = Len(s) - 1 /\ Len(s) \in Nat \ {0}
          /\ Head(s) = s[1] /\ \A i \in 1..Len(u) : u[i] = s[i + 1]
    <3>1. /\ Tail(s) \in Seq(Req) /\ Len(Tail(s)) = Len(s) - 1 /\ Len(s) \in Nat \ {0}
          /\ Head(s) = s[1] /\ \A i \in 1..Len(Tail(s)) : Tail(s)[i] = s[i + 1]
      BY <1>8, HeadTailProperties, EmptySeq
    <3>2. QED
      BY <3>1
  <2>4. ASSUME NEW m \in Node, NEW r \in Req, Waits(f, m, r)
        PROVE  Waiting(m, r)'
    <3>1. f.node = m
      BY <1>3, <2>4 DEF Waits
    <3>2. PICK i \in 1..Len(s) : s[i] = r
      BY <1>3, <1>5, <2>4 DEF Waits
    <3>3. CASE i = 1
      <4>1. Waits(a, m, r)'
        BY <2>2, <2>3, <3>1, <3>2, <3>3 DEF Waits
      <4>2. QED
        BY <2>2, <4>1 DEF Waiting
    <3>4. CASE i # 1
      <4>1. i - 1 \in 1..Len(u) /\ (i - 1) + 1 = i
        BY <2>3, <3>4
      <4>2. i - 1 \in DOMAIN b.todo /\ b.todo[i - 1] = r
        BY <2>1, <2>3, <3>2, <4>1
      <4>3. Waits(b, m, r)'
        BY <2>1, <3>1, <4>2 DEF Waits
      <4>4. QED
        BY <2>2, <4>3 DEF Waiting
    <3>5. QED
      BY <3>3, <3>4
  <2>5. Updating(f.node)
    <3>1. f \in Frames
      BY <1>1, <1>2, <1>3, StackMoves
    <3>2. QED
      BY <1>3, <3>1 DEF Updating
  <2>6. PICK N : N = {a, b}
    OBVIOUS
  <2>7. /\ Frames' = N \cup Lower
        /\ \A g \in N : /\ g.op # "update"
                        /\ g.op = "add" => g.dist = None
                        /\ g.op \in {"extras", "requires"} => Updating(g.node)
    BY <2>1, <2>2, <2>5, <2>6
  <2>8. (PairsPlaced /\ InputsGiven /\ Fitting)'
    BY <1>1, <1>3, <1>4, <1>6, <2>4, <2>7, QuietKeepsFitting
  <2>9. QED
    BY <1>3, <2>8 DEF Going
<1>9. QED
  BY <1>7, <1>8

(* Steps whose frame draws no edge and is busy with no registered node.    *)
LEMMA IdleFrameFits ==
  ASSUME CompileInv, Going, Layered', stack # <<>>,
         UNCHANGED <<nodes, born, metadata, deps, rdeps, calls, input>>,
         Top.op \notin {"update", "drop"},
         Top.op = "remove" => ~Live(Top.node),
         \A m, r : ~Waits(Top, m, r),
         NEW N, Frames' = N \cup Lower, \A g \in N : g.op \in Completing
  PROVE  Going'
<1>1. PICK n : n = Top.node
  OBVIOUS
<1>2. \A g \in N : /\ g.op # "update"
                   /\ g.op = "add" => g.dist = None
                   /\ g.op \in {"extras", "requires"} => Updating(g.node)
  BY DEF Completing
<1>3. \A m \in Node : \A r \in Req : Waits(Top, m, r) => Waiting(m, r)'
  OBVIOUS
<1>4. Top.op = "remove" => ~Live(n)
  BY <1>1
<1>5. (PairsPlaced /\ InputsGiven /\ Fitting)'
  BY <1>1, <1>2, <1>3, <1>4, QuietKeepsFitting
<1>6. QED
  BY <1>5 DEF Going

LEMMA QuietFits ==
  ASSUME Acyclic, CompileInv, Going, UNCHANGED <<calls, input>>,
         LastExtra \/ UpdateComplete \/ CompleteNext \/ AlreadyRemoved \/ Restore
  PROVE  Going'
<1>1. Layered
  BY DEF Going
<1>2. PICK M : M = {}
  OBVIOUS
<1>3. CASE LastExtra
  <2>1. /\ Layered' /\ stack # <<>> /\ Top.op = "extras" /\ Top.todo = {}
        /\ Frames' = M \cup Lower /\ \A g \in M : g.op \in Completing
    BY <1>1, <1>2, <1>3, LastExtraLayered
  <2>2. \A m, r : ~Waits(Top, m, r)
    BY <2>1 DEF Waits
  <2>3. UNCHANGED <<nodes, born, metadata, deps, rdeps>>
    BY <1>3 DEF LastExtra, graph
  <2>4. QED
    BY <2>1, <2>2, <2>3, IdleFrameFits
<1>4. CASE UpdateComplete \/ CompleteNext
  <2>1. /\ Layered' /\ stack # <<>> /\ Top.op \in Completing
        /\ \E N : Frames' = N \cup Lower /\ \A g \in N : g.op \in Completing
    BY <1>1, <1>4, CompletingLayered
  <2>2. PICK N : Frames' = N \cup Lower /\ \A g \in N : g.op \in Completing
    BY <2>1
  <2>3. \A m, r : ~Waits(Top, m, r)
    BY <2>1 DEF Waits, Completing
  <2>4. UNCHANGED <<nodes, born, metadata, deps, rdeps>>
    BY <1>4 DEF UpdateComplete, CompleteNext, graph
  <2>5. Top.op \notin {"update", "drop", "remove"}
    BY <2>1 DEF Completing
  <2>6. QED
    BY <2>1, <2>2, <2>3, <2>4, <2>5, IdleFrameFits
<1>5. CASE AlreadyRemoved
  <2>1. /\ Layered' /\ stack # <<>> /\ Top.op = "remove"
        /\ Frames' = M \cup Lower /\ \A g \in M : g.op \in Completing
    BY <1>1, <1>2, <1>5, AlreadyRemovedLayered
  <2>2. Top.node \in Node
    BY <1>1, <2>1, StackMoves, FrameKinds DEF RemoveFrame
  <2>3. ~Live(Top.node)
    BY <1>5, <2>2, NoNodeAssumption DEF AlreadyRemoved, Live
  <2>4. \A m, r : ~Waits(Top, m, r)
    BY <2>1 DEF Waits
  <2>5. UNCHANGED <<nodes, born, metadata, deps, rdeps>>
    BY <1>5 DEF AlreadyRemoved, graph
  <2>6. QED
    BY <2>1, <2>3, <2>4, <2>5, IdleFrameFits
<1>6. CASE Restore
  <2>1. Layered' /\ UNCHANGED <<nodes, born, metadata, deps, rdeps>>
    BY <1>1, <1>6, RestoreLayered
  <2>2. stack # <<>> /\ Top.op = "restore" /\ Return
    BY <1>6 DEF Restore, InCall
  <2>3. Frames' = M \cup Lower /\ \A g \in M : g.op \in Completing
    BY <1>1, <1>2, <2>2, StackMoves
  <2>4. \A m, r : ~Waits(Top, m, r)
    BY <2>2 DEF Waits
  <2>5. QED
    BY <2>1, <2>2, <2>3, <2>4, IdleFrameFits
<1>7. QED
  BY <1>3, <1>4, <1>5, <1>6

LEMMA RemoveDistsFits ==
  ASSUME Acyclic, CompileInv, Going, RemoveDists, UNCHANGED <<calls, input>>
  PROVE  Going'
<1>1. PICK f : f = Top
  OBVIOUS
<1>2. PICK n : n = f.node
  OBVIOUS
<1>3. Layered
  BY DEF Going
<1>4. /\ Layered' /\ stack # <<>> /\ f.op = "remove" /\ n \in Node
      /\ \A x \in Node : deps'[x] = deps[x]
      /\ \A x \in Node : Live(x)' => Live(x)
      /\ f.upstream => ~Live(n)'
      /\ \E a : /\ a.op = "drop" /\ a.node = n /\ a.todo = DOMAIN deps[n]
                /\ Frames' = {a} \cup Lower
  BY <1>1, <1>2, <1>3, RemoveDistsLayered
<1>5. PICK a : /\ a.op = "drop" /\ a.node = n /\ a.todo = DOMAIN deps[n]
               /\ Frames' = {a} \cup Lower
  BY <1>4
<1>6. UNCHANGED <<born, metadata, rdeps>>
  BY DEF RemoveDists
<1>7. Shrinks
  <2>1. \A x \in Node : rdeps[x] \subseteq Node
    BY DEF CompileInv, NamesInv, IInv, TypeOK
  <2>2. \A x \in Node : Extras(x)' = Extras(x)
    BY <1>4, <1>6, <2>1 DEF Extras
  <2>3. QED
    BY <1>4, <1>6, <2>2 DEF Shrinks
<1>8. HandsOn(n)
  <2>1. Busy(n)'
    BY <1>5 DEF Busy
  <2>2. \A m, r : ~Waits(f, m, r)
    BY <1>4 DEF Waits
  <2>3. QED
    BY <1>1, <1>4, <1>6, <2>1, <2>2 DEF HandsOn
<1>9. PICK N : N = {a}
  OBVIOUS
<1>10. /\ Frames' = N \cup Lower
       /\ \A g \in N : /\ g.op # "update"
                       /\ g.op = "add" => g.dist = None
                       /\ g.op \in {"extras", "requires"} => Updating(g.node)
  BY <1>5, <1>9
<1>11. (PairsPlaced /\ InputsGiven /\ Fitting)'
  BY <1>1, <1>2, <1>4, <1>7, <1>8, <1>10, StepKeepsFitting
<1>12. QED
  BY <1>4, <1>11 DEF Going

LEMMA DropDepFits ==
  ASSUME Acyclic, CompileInv, Going, DropDep, UNCHANGED <<calls, input>>
  PROVE  Going'
<1>1. PICK f : f = Top
  OBVIOUS
<1>2. PICK n : n = f.node
  OBVIOUS
<1>3. Layered
  BY DEF Going
<1>4. /\ Layered' /\ stack # <<>> /\ f.op = "drop" /\ n \in Node
      /\ f.todo \subseteq Node
  BY <1>1, <1>2, <1>3, DropDepLayered
<1>5. PICK d \in f.todo : Drops(f, n, d)
  BY <1>1, <1>2, <1>3, DropDepLayered
<1>6. PICK b : /\ b.op = "drop" /\ b.node = n /\ b.todo = f.todo \ {d}
               /\ \/ Frames' = {b} \cup Lower
                  \/ Frames' = {Remove(d, TRUE), b} \cup Lower
  BY <1>5 DEF Drops
<1>7. UNCHANGED <<nodes, born, metadata, deps>>
  BY DEF DropDep
<1>8. /\ \A x \in Node : x # d => rdeps'[x] = rdeps[x]
      /\ rdeps'[d] = rdeps[d] \ {n} /\ d \in Node
      /\ \A x \in Node : rdeps[x] \subseteq Node
  BY <1>4, <1>5 DEF Drops, CompileInv, NamesInv, IInv, TypeOK
<1>9. Shrinks
  <2>1. \A x \in Node : rdeps'[x] \subseteq rdeps[x]
    BY <1>8
  <2>2. \A x \in Node : Extras(x)' \subseteq Extras(x)
    BY <1>7, <2>1 DEF Extras
  <2>3. \A x : Live(x)' = Live(x)
    BY <1>7 DEF Live
  <2>4. QED
    BY <1>7, <2>1, <2>2, <2>3 DEF Shrinks
<1>10. b \in Frames'
  BY <1>6
<1>11. HandsOn(n)
  <2>1. Busy(n)'
    BY <1>6, <1>10 DEF Busy
  <2>2. \A m, r : ~Waits(f, m, r)
    BY <1>4 DEF Waits
  <2>3. Dropped(n, d)'
    BY <1>6, <1>10 DEF Dropped
  <2>4. \A x : x \notin f.todo => Dropped(n, x)'
    BY <1>6, <1>10 DEF Dropped
  <2>5. \A m, x \in Node : m \in rdeps[x] => m \in rdeps'[x] \/ Dropped(m, x)'
    BY <1>8, <2>3
  <2>6. QED
    BY <1>1, <1>4, <2>1, <2>2, <2>4, <2>5 DEF HandsOn
<1>12. PICK a : a = Remove(d, TRUE) /\ a.op = "remove"
  <2>1. Remove(d, TRUE).op = "remove"
    BY DEF Remove
  <2>2. QED
    BY <2>1
<1>13. PICK N : /\ Frames' = N \cup Lower
                /\ \A g \in N : g = b \/ g = a
  <2>1. CASE Frames' = {b} \cup Lower
    <3>1. PICK N : N = {b}
      OBVIOUS
    <3>2. QED
      BY <2>1, <3>1
  <2>2. CASE Frames' = {a, b} \cup Lower
    <3>1. PICK N : N = {a, b}
      OBVIOUS
    <3>2. QED
      BY <2>2, <3>1
  <2>3. QED
    BY <1>6, <1>12, <2>1, <2>2
<1>14. \A g \in N : /\ g.op # "update"
                    /\ g.op = "add" => g.dist = None
                    /\ g.op \in {"extras", "requires"} => Updating(g.node)
  BY <1>6, <1>12, <1>13
<1>15. (PairsPlaced /\ InputsGiven /\ Fitting)'
  BY <1>1, <1>2, <1>4, <1>9, <1>11, <1>13, <1>14, StepKeepsFitting
<1>16. QED
  BY <1>4, <1>15 DEF Going

LEMMA UnsolveFits ==
  ASSUME Acyclic, CompileInv, Going, Unsolve, UNCHANGED <<calls, input>>
  PROVE  Going'
<1>1. PICK f : f = Top
  OBVIOUS
<1>2. PICK n : n = f.node
  OBVIOUS
<1>3. Layered
  BY DEF Going
<1>4. /\ Layered' /\ stack # <<>> /\ f.op = "drop" /\ n \in Node /\ f.todo = {}
      /\ UNCHANGED <<nodes, born, rdeps>>
      /\ \A x \in Node : x # n => deps'[x] = deps[x] /\ metadata'[x] = metadata[x]
      /\ \/ ~Live(n) /\ UNCHANGED <<deps, metadata>>
         \/ DOMAIN deps'[n] = {} /\ metadata'[n] = None
  BY <1>1, <1>2, <1>3, UnsolveLayered
<1>5. PICK N : Frames' = N \cup Lower /\ \A g \in N : g.op \in Completing
  BY <1>1, <1>2, <1>3, UnsolveLayered
<1>6. \A x \in Node : n \notin rdeps[x]
  <2>1. InCall("drop") /\ IInv
    BY DEF Unsolve, CompileInv, NamesInv
  <2>2. FrameSafe(f)
    BY <1>1, <2>1, InnermostFrame
  <2>3. \A x \in DOMAIN deps[n] : n \notin rdeps[x]
    BY <1>2, <1>4, <2>2 DEF FrameSafe
  <2>4. \A x \in Node : n \in rdeps[x] => x \in DOMAIN deps[n]
    BY DEF CompileInv, NamesInv, IInv, RequestersHaveEdge
  <2>5. QED
    BY <2>3, <2>4
<1>7. \A x : Live(x)' = Live(x)
  BY <1>4 DEF Live
<1>8. Shrinks
  <2>1. ASSUME NEW x \in Node
        PROVE  Extras(x)' = Extras(x)
    <3>1. \A r \in rdeps[x] : r \in Node /\ r # n
      BY <1>6 DEF CompileInv, NamesInv, IInv, TypeOK
    <3>2. \A r \in rdeps[x] : deps'[r] = deps[r]
      BY <1>4, <3>1
    <3>3. QED
      BY <1>4, <3>2 DEF Extras
  <2>2. \A x \in Node : metadata'[x] = metadata[x] \/ metadata'[x] = None
    BY <1>4
  <2>3. \A x \in Node : DOMAIN deps'[x] \subseteq DOMAIN deps[x]
    BY <1>4
  <2>4. QED
    BY <1>4, <1>7, <2>1, <2>2, <2>3 DEF Shrinks
<1>9. HandsOn(n)
  <2>1. ~Live(n)' \/ metadata'[n] = None
    BY <1>4, <1>7
  <2>2. \A m, r : ~Waits(f, m, r)
    BY <1>4 DEF Waits
  <2>3. ~Live(n)' \/ DOMAIN deps'[n] = {}
    BY <1>4, <1>7
  <2>4. QED
    BY <1>1, <1>4, <2>1, <2>2, <2>3 DEF HandsOn
<1>10. \A g \in N : /\ g.op # "update"
                    /\ g.op = "add" => g.dist = None
                    /\ g.op \in {"extras", "requires"} => Updating(g.node)
  BY <1>5 DEF Completing
<1>11. (PairsPlaced /\ InputsGiven /\ Fitting)'
  BY <1>1, <1>2, <1>4, <1>5, <1>8, <1>9, <1>10, StepKeepsFitting
<1>12. QED
  BY <1>4, <1>11 DEF Going

(* The node that is solved waits for all of its requirements. *)
LEMMA UpdateDistsFits ==
  ASSUME Acyclic, CompileInv, Going, UpdateDists, error' = None,
         UNCHANGED <<calls, input>>
  PROVE  Going'
<1>1. PICK f : f = Top
  OBVIOUS
<1>2. PICK n : n = f.node
  OBVIOUS
<1>3. PICK dist : dist = f.dist
  OBVIOUS
<1>4. PICK a : a = [op |-> "extras", node |-> n, dist |-> dist,
                    todo |-> Extras(n) \cup {None}]
  OBVIOUS
<1>5. /\ a.op = "extras" /\ a.node = n /\ a.dist = dist
      /\ a.todo = Extras(n) \cup {None}
  BY <1>4
<1>6. Layered
  BY DEF Going
<1>7. n = Top.node /\ dist = Top.dist
  BY <1>1, <1>2, <1>3
<1>8. /\ Layered' /\ stack # <<>> /\ f.op = "update"
      /\ n \in Node /\ Live(n) /\ dist \in Dist
  BY <1>1, <1>4, <1>6, <1>7, UpdateDistsLayered
<1>9. PICK b : b.op = "complete" /\ Frames' = {a, b} \cup Lower
  BY <1>4, <1>6, <1>7, UpdateDistsLayered
<1>10. /\ UNCHANGED <<nodes, born, deps, rdeps>> /\ metadata'[n] = dist
       /\ \A x \in Node : x # n => metadata'[x] = metadata[x]
  BY <1>7, <1>8 DEF UpdateDists, CompileInv, NamesInv, IInv, TypeOK
<1>11. /\ Frames = {f} \cup Lower
       /\ \A g \in Lower : g.op \notin Leaf /\ g \in Frames'
  BY <1>1, <1>6, <1>8, <1>9, StackMoves
<1>12. /\ \A x : Live(x)' = Live(x)
       /\ \A x : Extras(x)' = Extras(x)
  BY <1>10, SameExtras DEF Live
<1>13. ASSUME NEW r \in Req
       PROVE  ~Settled(n, r)'
  <2>1. SUFFICES ASSUME r \in Active(n)' PROVE Waiting(n, r)'
    BY DEF Settled
  <2>2. PICK e \in Extras(n)' \cup {None} : r \in Reqs(metadata'[n], e)
    BY <2>1 DEF Active, Reqs
  <2>3. e \in a.todo /\ r \in Reqs(a.dist, e)
    BY <1>5, <1>10, <1>12, <2>2
  <2>4. Waits(a, n, r)'
    BY <1>5, <2>3 DEF Waits
  <2>5. QED
    BY <1>9, <2>4 DEF Waiting
<1>14. \A m : m # n => (Busy(m) => Busy(m)')
  <2>1. TAKE m
  <2>2. HAVE m # n
  <2>3. HAVE Busy(m)
  <2>4. PICK g \in Frames : g.op \in {"update", "remove", "drop"} /\ g.node = m
    BY <2>3 DEF Busy
  <2>5. g \in Frames'
    BY <1>2, <1>11, <2>2, <2>4
  <2>6. QED
    BY <2>4, <2>5 DEF Busy
<1>15. \A m, r : Waiting(m, r) => Waiting(m, r)'
  <2>1. TAKE m, r
  <2>2. HAVE Waiting(m, r)
  <2>3. PICK g \in Frames : Waits(g, m, r)
    BY <2>2 DEF Waiting
  <2>4. g # f
    BY <1>8, <2>3 DEF Waits
  <2>5. g \in Frames' /\ Waits(g, m, r)'
    BY <1>11, <2>3, <2>4 DEF Waits
  <2>6. QED
    BY <2>5 DEF Waiting
<1>16. ASSUME NEW m \in Node, NEW r \in Req, Settled(m, r)'
       PROVE  m # n /\ Settled(m, r)
  <2>1. m # n
    BY <1>13, <1>16
  <2>2. metadata'[m] = metadata[m] /\ Live(m) /\ metadata[m] # None
    BY <1>10, <1>12, <1>16, <2>1 DEF Settled
  <2>3. Active(m)' \subseteq Active(m)
    BY <1>12, <2>2, SmallerActive
  <2>4. ~Busy(m) /\ ~Waiting(m, r)
    BY <1>14, <1>15, <1>16, <2>1 DEF Settled
  <2>5. r \in Active(m)
    BY <1>16, <2>3 DEF Settled
  <2>6. QED
    BY <2>1, <2>2, <2>4, <2>5 DEF Settled
<1>17. BothSides'
  <2>1. ASSUME NEW m \in Node, Live(m), NEW x \in DOMAIN deps[m]
        PROVE  m \in rdeps[x] \/ Dropped(m, x)'
    <3>1. SUFFICES ASSUME Dropped(m, x) PROVE Dropped(m, x)'
      BY <2>1 DEF Going, Fitting, BothSides
    <3>2. PICK g \in Frames : g.op = "drop" /\ g.node = m /\ x \notin g.todo
      BY <3>1 DEF Dropped
    <3>3. g \in Frames'
      BY <1>8, <1>11, <3>2
    <3>4. QED
      BY <3>2, <3>3 DEF Dropped
  <2>2. QED
    BY <1>10, <1>12, <2>1 DEF BothSides
<1>18. Given(f)
  BY <1>11 DEF Going, Fitting
<1>19. Fit'
  <2>1. ASSUME NEW m \in Node, NEW r \in Req, Settled(m, r)', NEW x \in Node,
               Serves(x, r)', ~Busy(x)', m \in rdeps'[x]
        PROVE  VersionFits(metadata'[x], r)
    <3>1. m # n /\ Settled(m, r) /\ m \in rdeps[x] /\ KeyOf(x) = r.name
      BY <1>10, <1>16, <2>1 DEF Serves
    <3>2. CASE x = n
      <4>1. VersionFits(f.dist, r)
        BY <1>2, <1>8, <1>18, <3>1, <3>2 DEF Given
      <4>2. QED
        BY <1>3, <1>10, <3>2, <4>1
    <3>3. CASE x # n
      <4>1. Serves(x, r) /\ ~Busy(x) /\ metadata'[x] = metadata[x]
        BY <1>10, <1>12, <1>14, <2>1, <3>3 DEF Serves
      <4>2. VersionFits(metadata[x], r)
        BY <3>1, <4>1 DEF Going, Fitting, Fit
      <4>3. QED
        BY <4>1, <4>2
    <3>4. QED
      BY <3>2, <3>3
  <2>2. QED
    BY <2>1 DEF Fit, VersionFits
<1>20. Covered'
  <2>1. ASSUME NEW m \in Node, NEW r \in Req, Settled(m, r)', Updating(m)',
               NEW x \in Node, Serves(x, r)'
        PROVE  m \in rdeps[x]
    <3>1. m # n /\ Settled(m, r)
      BY <1>16, <2>1
    <3>2. Updating(m)
      <4>1. PICK g \in Frames' : g.op \in {"extras", "requires"} /\ g.node = m
        BY <2>1 DEF Updating
      <4>2. g \in Lower
        BY <1>5, <1>9, <3>1, <4>1
      <4>3. QED
        BY <1>11, <4>1, <4>2 DEF Updating
    <3>3. CASE x = n
      <4>1. metadata[n] # None
        BY <1>2, <1>8, <1>18, <3>2 DEF Given
      <4>2. Serves(x, r)
        BY <1>8, <2>1, <3>3, <4>1 DEF Serves
      <4>3. QED
        BY <3>1, <3>2, <4>2 DEF Going, Fitting, Covered
    <3>4. CASE x # n
      <4>1. Serves(x, r)
        BY <1>10, <1>12, <2>1, <3>4 DEF Serves
      <4>2. QED
        BY <3>1, <3>2, <4>1 DEF Going, Fitting, Covered
    <3>5. QED
      BY <3>3, <3>4
  <2>2. QED
    BY <1>10, <2>1 DEF Covered
<1>21. \A g \in Frames' : Given(g)'
  <2>1. \A g \in Frames' : g.op # "update" /\ g.op # "add"
    BY <1>5, <1>9, <1>11 DEF Leaf
  <2>2. QED
    BY <2>1 DEF Given
<1>22. PairsSafe'
  <2>1. ASSUME NEW m \in Node, NEW x \in Node, Pending(m, x)', NEW r \in Req,
               Settled(m, r)', r.name = KeyOf(x)
        PROVE  \E t \in Node : m \in rdeps[t] /\ KeyOf(t) = KeyOf(x) /\ t[2] >= x[2]
    <3>1. Pending(m, x)
      BY <2>1 DEF Pending, CallSet, FramesOf, Asking
    <3>2. Settled(m, r)
      BY <1>16, <2>1
    <3>3. QED
      BY <2>1, <3>1, <3>2 DEF Going, Fitting, PairsSafe, PairSafe
  <2>2. QED
    BY <1>10, <2>1 DEF PairsSafe, PairSafe, KeyOf
<1>23. PairsPlaced'
  <2>1. \A m, x : Pending(m, x)' = Pending(m, x)
    BY DEF Pending, CallSet, FramesOf, Asking
  <2>2. \A x : Born(x)' = Born(x)
    BY <1>10 DEF Born
  <2>3. QED
    BY <2>1, <2>2 DEF Going, PairsPlaced, Level
<1>24. InputsGiven'
  BY DEF Going, InputsGiven, CallSet, FramesOf
<1>25. QED
  BY <1>8, <1>17, <1>19, <1>20, <1>21, <1>22, <1>23, <1>24 DEF Going, Fitting

(* The frame of add_dist gives way to the removal of n, to its update with *)
(* d or to nothing. *)
GivesWay(f, n, d) ==
  /\ Conflicts(f) => Frames' = {Remove(n, FALSE)} \cup Lower
  /\ ~Conflicts(f) /\ d # None =>
       \E b, c : /\ b.op = "update" /\ b.node = n /\ b.dist = d
                 /\ c.op = "restore"
                 /\ Frames' = {b, c} \cup Lower
  /\ ~Conflicts(f) /\ d = None => Frames' = Lower

LEMMA AddDistStack ==
  ASSUME Acyclic, CompileInv, Layered, AddDist, NEW n, n = Target(Top.key),
         NEW f, f = Top, NEW d, d = ToApply(f)
  PROVE  /\ Frames = {f} \cup Lower
         /\ \A g \in Lower : g.op \notin Leaf /\ (g.op = "drop" => g.node # n)
         /\ GivesWay(f, n, d)
<1>1. stack # <<>> /\ Top.op = "add"
  BY DEF AddDist, InCall
<1>2. Frames = {f} \cup Lower
  BY <1>1, StackMoves
<1>3. ASSUME NEW g \in Lower
      PROVE  g.op \notin Leaf /\ (g.op = "drop" => g.node # n)
  <2>1. g.op \notin Leaf
    BY <1>1, StackMoves
  <2>2. ASSUME g.op = "drop" PROVE g.node # n
    <3>1. Top.key # KeyOf(g.node)
      BY <1>1, <2>2, OtherNode DEF Completing, PartOf
    <3>2. KeyOf(n) = Top.key
      BY AddDistFrame
    <3>3. QED
      BY <3>1, <3>2
  <2>3. QED
    BY <2>1, <2>2
<1>4. Conflicts(f) => Frames' = {Remove(n, FALSE)} \cup Lower
  <2>1. PICK a : a = Remove(n, FALSE)
    OBVIOUS
  <2>2. ASSUME Conflicts(f) PROVE Then(<<a>>)
    BY <2>1, <2>2 DEF AddDist
  <2>3. QED
    BY <1>1, <2>1, <2>2, StackMoves
<1>5. ASSUME ~Conflicts(f), d # None
      PROVE  \E b, c : /\ b.op = "update" /\ b.node = n /\ b.dist = d
                       /\ c.op = "restore"
                       /\ Frames' = {b, c} \cup Lower
  <2>1. PICK b : b = [op |-> "update", node |-> n, dist |-> d]
    OBVIOUS
  <2>2. PICK c : c = [op |-> "restore", node |-> n]
    OBVIOUS
  <2>3. Then(<<b, c>>)
    BY <1>5, <2>1, <2>2 DEF AddDist
  <2>4. Frames' = {b, c} \cup Lower
    BY <1>1, <2>3, StackMoves
  <2>5. b.op = "update" /\ b.node = n /\ b.dist = d /\ c.op = "restore"
    BY <2>1, <2>2
  <2>6. QED
    BY <2>4, <2>5
<1>6. ~Conflicts(f) /\ d = None => Frames' = Lower
  <2>1. ASSUME ~Conflicts(f), d = None PROVE Return
    BY <2>1 DEF AddDist
  <2>2. QED
    BY <1>1, <2>1, StackMoves
<1>7. QED
  BY <1>2, <1>3, <1>4, <1>5, <1>6 DEF GivesWay

(* A node is registered, solved or asked for: what is applied to it fits,  *)
(* and the requirement that is drawn is one that it fits. *)
LEMMA AddDistFits ==
  ASSUME Acyclic, CompileInv, CompileInv', Going, AddDist, UNCHANGED <<calls, input>>
  PROVE  Going'
<1>1. PICK f : f = Top
  OBVIOUS
<1>2. PICK n : n = Target(Top.key)
  OBVIOUS
<1>3. PICK held : held = Held(Top)
  OBVIOUS
<1>4. PICK d : d = ToApply(f)
  OBVIOUS
<1>5. Layered /\ Layered'
  BY AddDistLayered DEF Going
<1>6. /\ stack # <<>> /\ f \in AddFrame /\ f.key \in Key /\ n \in Node
      /\ f.op = "add" /\ KeyOf(n) = f.key /\ Placed(f) /\ Caller(f)
      /\ f.source # None => f.source \in Node /\ f.source # n
      /\ nodes[f.key] # None => Live(n)
      /\ nodes[f.key] = None => ~Live(n) /\ DOMAIN deps[n] = {}
  BY <1>1, <1>2, <1>5, AddDistFrame
<1>7. /\ nodes'[f.key] = n /\ \A k \in Key : k # f.key => nodes'[k] = nodes[k]
      /\ \A x \in Node : Live(x)' <=> x = n \/ Live(x)
      /\ metadata'[n] = held
      /\ \A x \in Node : x # n => metadata'[x] = metadata[x]
      /\ Live(n) => held = metadata[n]
      /\ ~Live(n) => held = f.dist
  BY <1>1, <1>2, <1>3, <1>5, AddDistGraph
<1>8. /\ \A x \in Node : x # n => rdeps'[x] = rdeps[x]
      /\ \A x \in Node : x # f.source => deps'[x] = deps[x]
      /\ Linked(f) =>
           /\ rdeps'[n] = rdeps[n] \cup {f.source}
           /\ deps'[f.source] = Put(deps[f.source], n, f.reason)
      /\ ~Linked(f) => UNCHANGED <<rdeps, deps>>
  BY <1>1, <1>2, <1>5, AddDistGraph
<1>9. /\ \A x \in Node : x # n => Extras(x)' = Extras(x)
      /\ Extras(n)' \subseteq Extras(n) \cup ReasonExtras(f.reason)
  BY <1>1, <1>2, <1>5, AddDistExtras
<1>10. /\ Frames = {f} \cup Lower
       /\ \A g \in Lower : g.op \notin Leaf /\ (g.op = "drop" => g.node # n)
  BY <1>1, <1>2, <1>5, AddDistStack
<1>11. /\ Conflicts(f) => Frames' = {Remove(n, FALSE)} \cup Lower
       /\ ~Conflicts(f) /\ d # None =>
            \E b, c : /\ b.op = "update" /\ b.node = n /\ b.dist = d
                      /\ c.op = "restore"
                      /\ Frames' = {b, c} \cup Lower
       /\ ~Conflicts(f) /\ d = None => Frames' = Lower
  <2>1. GivesWay(f, n, d)
    BY <1>1, <1>2, <1>4, <1>5, AddDistStack
  <2>2. QED
    BY <2>1 DEF GivesWay
<1>12. \A x \in Node : rdeps[x] \subseteq rdeps'[x]
  <2>1. CASE Linked(f)
    BY <1>6, <1>8, <2>1
  <2>2. CASE ~Linked(f)
    BY <1>8, <2>2
  <2>3. QED
    BY <2>1, <2>2
<1>13. Lower \subseteq Frames' /\ Lower \subseteq Frames
  BY <1>10, <1>11
<1>14. \A g \in Frames' :
         \/ g \in Lower \/ g.op = "restore"
         \/ g = Remove(n, FALSE)
         \/ /\ ~Conflicts(f) /\ d # None
            /\ g.op = "update" /\ g.node = n /\ g.dist = d
  <2>1. CASE Conflicts(f)
    BY <1>11, <2>1
  <2>2. CASE ~Conflicts(f) /\ d # None
    BY <1>11, <2>2
  <2>3. CASE ~Conflicts(f) /\ d = None
    BY <1>11, <2>3
  <2>4. QED
    BY <2>1, <2>2, <2>3
<1>15. ASSUME ~Busy(n)'
       PROVE  ~Conflicts(f) /\ d = None
  <2>1. ASSUME Conflicts(f) PROVE FALSE
    <3>1. Remove(n, FALSE).op = "remove" /\ Remove(n, FALSE).node = n
      BY DEF Remove
    <3>2. Remove(n, FALSE) \in Frames'
      BY <1>11, <2>1
    <3>3. QED
      BY <1>15, <3>1, <3>2 DEF Busy
  <2>2. ASSUME ~Conflicts(f), d # None PROVE FALSE
    BY <1>11, <1>15, <2>2 DEF Busy
  <2>3. QED
    BY <2>1, <2>2
<1>16. ASSUME ~Conflicts(f), d = None, held # None
       PROVE  /\ f.dist = None /\ Live(n) /\ metadata[n] = held
              /\ ReasonExtras(f.reason) \subseteq Extras(n)
  <2>1. f.dist = None
    BY <1>1, <1>3, <1>4, <1>16 DEF ToApply
  <2>2. Live(n) /\ metadata[n] = held
    BY <1>7, <1>16, <2>1
  <2>3. ~AsksExtras(f) \/ f.reason.extras \subseteq Extras(n)
    BY <1>1, <1>2, <1>3, <1>4, <1>16, <2>1 DEF ToApply
  <2>4. ReasonExtras(f.reason) \subseteq Extras(n)
    BY <1>1, <1>3, <1>16, <2>3 DEF AsksExtras, ReasonExtras
  <2>5. QED
    BY <2>1, <2>2, <2>4
<1>17. \A m : Busy(m) => Busy(m)'
  <2>1. TAKE m
  <2>2. HAVE Busy(m)
  <2>3. PICK g \in Frames : g.op \in {"update", "remove", "drop"} /\ g.node = m
    BY <2>2 DEF Busy
  <2>4. g \in Frames'
    BY <1>6, <1>10, <1>13, <2>3
  <2>5. QED
    BY <2>3, <2>4 DEF Busy
<1>18. \A m, r : Waiting(m, r) =>
         Waiting(m, r)' \/ (f.dist = None /\ f.source = m /\ f.reason = r)
  <2>1. TAKE m, r
  <2>2. HAVE Waiting(m, r)
  <2>3. PICK g \in Frames : Waits(g, m, r)
    BY <2>2 DEF Waiting
  <2>4. CASE g = f
    BY <1>6, <2>3, <2>4 DEF Waits
  <2>5. CASE g # f
    <3>1. g \in Frames' /\ Waits(g, m, r)'
      BY <1>10, <1>13, <2>3, <2>5 DEF Waits
    <3>2. QED
      BY <3>1 DEF Waiting
  <2>6. QED
    BY <2>4, <2>5
<1>19. \A m : Updating(m)' => Updating(m)
  <2>1. TAKE m
  <2>2. HAVE Updating(m)'
  <2>3. PICK g \in Frames' : g.op \in {"extras", "requires"} /\ g.node = m
    BY <2>2 DEF Updating
  <2>4. Remove(n, FALSE).op = "remove"
    BY DEF Remove
  <2>5. g \in Lower
    BY <1>14, <2>3, <2>4
  <2>6. QED
    BY <1>13, <2>3, <2>5 DEF Updating
<1>20. ASSUME f.dist = None
       PROVE  /\ Linked(f) /\ f.source \in Node /\ f.source # n /\ f.reason # None
              /\ f.reason.name = f.key /\ f.source \in rdeps'[n]
              /\ Updating(f.source)
  <2>1. /\ f.source # None /\ f.reason # None /\ f.reason.name = f.key
        /\ Live(f.source) /\ Updating(f.source)
    BY <1>6, <1>20 DEF Placed, Caller
  <2>2. f.source \in Node /\ f.source # n
    BY <1>6, <2>1
  <2>3. Live(f.source)'
    BY <1>7, <2>1, <2>2
  <2>4. Linked(f)
    BY <2>1, <2>2, <2>3, NoNodeAssumption DEF Linked, Live
  <2>5. QED
    BY <1>8, <2>1, <2>2, <2>4
<1>21. ASSUME NEW m \in Node, NEW r \in Req, Settled(m, r)'
       PROVE  Settled(m, r) \/ (f.dist = None /\ f.source = m /\ f.reason = r)
  <2>1. CASE m = n
    <3>1. ~Busy(n)' /\ held # None
      BY <1>7, <1>21, <2>1 DEF Settled
    <3>2. /\ f.dist = None /\ Live(n) /\ metadata[n] = held
          /\ ReasonExtras(f.reason) \subseteq Extras(n)
      BY <1>15, <1>16, <3>1
    <3>3. metadata'[n] = metadata[n] /\ Extras(n)' \subseteq Extras(n)
      BY <1>7, <1>9, <3>2
    <3>4. Active(n)' \subseteq Active(n)
      BY <3>3, SmallerActive
    <3>5. ~Busy(n) /\ ~Waiting(n, r)
      BY <1>17, <1>18, <1>20, <1>21, <2>1, <3>2 DEF Settled
    <3>6. r \in Active(n)
      BY <1>21, <2>1, <3>4 DEF Settled
    <3>7. QED
      BY <2>1, <3>1, <3>2, <3>5, <3>6 DEF Settled
  <2>2. CASE m # n
    <3>1. metadata'[m] = metadata[m] /\ Extras(m)' \subseteq Extras(m) /\ Live(m)
      BY <1>7, <1>9, <1>21, <2>2 DEF Settled
    <3>2. Active(m)' \subseteq Active(m)
      BY <3>1, SmallerActive
    <3>3. ~Busy(m)
      BY <1>17, <1>21 DEF Settled
    <3>4. r \in Active(m) /\ metadata[m] # None
      BY <1>21, <3>1, <3>2 DEF Settled
    <3>5. ~Waiting(m, r) \/ (f.dist = None /\ f.source = m /\ f.reason = r)
      BY <1>18, <1>21 DEF Settled
    <3>6. QED
      BY <3>1, <3>3, <3>4, <3>5 DEF Settled
  <2>3. QED
    BY <2>1, <2>2
<1>22. ASSUME NEW x \in Node, NEW r \in Req, Serves(x, r)', x # n
       PROVE  /\ Serves(x, r) /\ metadata'[x] = metadata[x] /\ r.name # f.key
  <2>1. KeyOf(x) = r.name /\ nodes'[KeyOf(x)] = x /\ Live(x) /\ metadata'[x] # None
    BY <1>7, <1>22 DEF Serves, Live
  <2>2. r.name # f.key
    BY <1>7, <1>22, <2>1
  <2>3. QED
    BY <1>7, <1>22, <2>1, <2>2 DEF Serves
(* A settled requirement of a reverse dependency that n fits now.          *)
<1>23. ASSUME NEW m \in Node, NEW r \in Req, Settled(m, r)', m \in rdeps'[n],
              r.name = f.key, f.dist = None, ~Conflicts(f), held # None, ~Busy(n)
       PROVE  VersionFits(held, r)
  <2>1. Live(n) /\ metadata[n] = held
    BY <1>7, <1>23
  <2>2. CASE f.source = m /\ f.reason = r
    BY <1>1, <1>3, <1>20, <1>23, <2>2 DEF Conflicts, VersionFits
  <2>3. CASE Settled(m, r)
    <3>1. Serves(n, r)
      BY <1>6, <1>23, <2>1 DEF Serves
    <3>2. m \in rdeps[n]
      <4>1. CASE m = f.source
        <5>1. Updating(m)
          BY <1>20, <1>23, <4>1
        <5>2. QED
          BY <1>6, <1>23, <2>3, <3>1, <5>1 DEF Going, Fitting, Covered
      <4>2. CASE m # f.source
        BY <1>8, <1>20, <1>23, <4>2
      <4>3. QED
        BY <4>1, <4>2
    <3>3. QED
      BY <1>6, <1>23, <2>1, <2>3, <3>1, <3>2 DEF Going, Fitting, Fit
  <2>4. QED
    BY <1>21, <1>23, <2>2, <2>3
<1>24. BothSides'
  <2>1. ASSUME NEW m \in Node, Live(m)', NEW x \in DOMAIN deps'[m]
        PROVE  m \in rdeps'[x] \/ Dropped(m, x)'
    <3>1. CASE m = f.source /\ Linked(f) /\ x = n
      BY <1>8, <3>1
    <3>2. CASE ~(m = f.source /\ Linked(f) /\ x = n)
      <4>1. x \in DOMAIN deps[m]
        <5>1. CASE m = f.source /\ Linked(f)
          BY <1>8, <2>1, <3>2, <5>1 DEF Put
        <5>2. CASE m # f.source \/ ~Linked(f)
          BY <1>8, <2>1, <5>2
        <5>3. QED
          BY <5>1, <5>2
      <4>2. Live(m) /\ x \in Node
        BY <1>6, <1>7, <2>1, <4>1
        DEF CompileInv, NamesInv, IInv, TypeOK, IsDependencies
      <4>3. m \in rdeps[x] \/ Dropped(m, x)
        BY <4>1, <4>2 DEF Going, Fitting, BothSides
      <4>4. CASE m \in rdeps[x]
        BY <1>12, <4>2, <4>4
      <4>5. CASE Dropped(m, x)
        <5>1. PICK g \in Frames : g.op = "drop" /\ g.node = m /\ x \notin g.todo
          BY <4>5 DEF Dropped
        <5>2. g \in Frames'
          BY <1>6, <1>10, <1>13, <5>1
        <5>3. QED
          BY <5>1, <5>2 DEF Dropped
      <4>6. QED
        BY <4>3, <4>4, <4>5
    <3>3. QED
      BY <3>1, <3>2
  <2>2. QED
    BY <2>1 DEF BothSides
<1>25. Fit'
  <2>1. ASSUME NEW m \in Node, NEW r \in Req, Settled(m, r)', NEW x \in Node,
               Serves(x, r)', ~Busy(x)', m \in rdeps'[x]
        PROVE  VersionFits(metadata'[x], r)
    <3>1. CASE x # n
      <4>1. /\ Serves(x, r) /\ metadata'[x] = metadata[x] /\ r.name # f.key
            /\ ~Busy(x) /\ m \in rdeps[x]
        BY <1>8, <1>17, <1>22, <2>1, <3>1
      <4>2. Settled(m, r)
        BY <1>20, <1>21, <2>1, <4>1
      <4>3. VersionFits(metadata[x], r)
        BY <4>1, <4>2 DEF Going, Fitting, Fit
      <4>4. QED
        BY <4>1, <4>3
    <3>2. CASE x = n
      <4>1. ~Busy(n) /\ ~Conflicts(f) /\ d = None /\ held # None /\ r.name = f.key
        BY <1>6, <1>7, <1>15, <1>17, <2>1, <3>2 DEF Serves
      <4>2. f.dist = None
        BY <1>16, <4>1
      <4>3. VersionFits(held, r)
        BY <1>23, <2>1, <3>2, <4>1, <4>2
      <4>4. QED
        BY <1>7, <3>2, <4>3
    <3>3. QED
      BY <3>1, <3>2
  <2>2. QED
    BY <2>1 DEF Fit, VersionFits
<1>26. Covered'
  <2>1. ASSUME NEW m \in Node, NEW r \in Req, Settled(m, r)', Updating(m)',
               NEW x \in Node, Serves(x, r)'
        PROVE  m \in rdeps'[x]
    <3>1. Updating(m) /\ f.dist = None
      BY <1>6, <1>19, <2>1 DEF Caller
    <3>2. CASE x # n
      <4>1. Serves(x, r) /\ r.name # f.key
        BY <1>22, <2>1, <3>2
      <4>2. Settled(m, r)
        BY <1>20, <1>21, <2>1, <4>1
      <4>3. m \in rdeps[x]
        BY <3>1, <4>1, <4>2 DEF Going, Fitting, Covered
      <4>4. QED
        BY <1>12, <4>3
    <3>3. CASE x = n
      <4>1. CASE m = f.source
        BY <1>20, <3>1, <3>3, <4>1
      <4>2. CASE m # f.source
        <5>1. Settled(m, r) /\ held # None
          BY <1>7, <1>21, <2>1, <3>3, <4>2 DEF Serves
        <5>2. Live(n) /\ metadata[n] = held
          BY <1>7, <3>1, <5>1
        <5>3. Serves(n, r)
          BY <2>1, <3>3, <5>1, <5>2 DEF Serves
        <5>4. m \in rdeps[n]
          BY <1>6, <3>1, <5>1, <5>3 DEF Going, Fitting, Covered
        <5>5. QED
          BY <1>6, <1>12, <3>3, <5>4
      <4>3. QED
        BY <4>1, <4>2
    <3>4. QED
      BY <3>2, <3>3
  <2>2. QED
    BY <2>1 DEF Covered
<1>27. \A g \in Frames' : Given(g)'
  <2>1. ASSUME NEW g \in Frames', g.op = "add"
        PROVE  FALSE
    <3>1. Remove(n, FALSE).op = "remove"
      BY DEF Remove
    <3>2. QED
      BY <1>10, <1>14, <2>1, <3>1 DEF Leaf
  <2>2. ASSUME NEW g \in Frames', g.op = "update"
        PROVE  Given(g)'
    <3>1. ~Conflicts(f) /\ d # None /\ g.node = n /\ g.dist = d
      <4>1. Remove(n, FALSE).op = "remove"
        BY DEF Remove
      <4>2. QED
        BY <1>10, <1>14, <2>2, <4>1 DEF Leaf
    <3>2. f.dist # None => d = f.dist
      BY <1>4 DEF ToApply
    <3>3. f.dist = None => d = held /\ held # None
      BY <1>1, <1>3, <1>4, <3>1 DEF ToApply
    <3>4. ASSUME f.dist = None PROVE ~Busy(n)
      <4>1. ASSUME NEW h \in Frames, h.op \in {"update", "remove", "drop"}, h.node = n
            PROVE  FALSE
        BY <1>6, <1>10, <4>1 DEF Leaf
      <4>2. QED
        BY <4>1 DEF Busy
    <3>5. ASSUME NEW m \in rdeps'[n], NEW r \in Req, Settled(m, r)', r.name = KeyOf(n)
          PROVE  VersionFits(d, r)
      <4>0. m \in Node
        BY <1>6 DEF CompileInv, NamesInv, IInv, TypeOK
      <4>1. CASE f.dist = None
        BY <1>6, <1>23, <3>1, <3>3, <3>4, <3>5, <4>0, <4>1
      <4>2. CASE f.dist # None
        <5>1. Settled(m, r) /\ m # None
          BY <1>21, <3>5, <4>0, <4>2, NoNodeAssumption
        <5>2. m \in rdeps[n] \cup {f.source}
          BY <1>8
        <5>3. Given(f)
          BY <1>10 DEF Going, Fitting
        <5>4. m \in rdeps[Target(f.key)] \cup {f.source}
          BY <1>1, <1>2, <5>2
        <5>5. VersionFits(f.dist, r)
          BY <1>6, <3>5, <4>2, <5>1, <5>3, <5>4 DEF Given
        <5>6. QED
          BY <3>2, <4>2, <5>5
      <4>3. QED
        BY <4>1, <4>2
    <3>6. metadata'[n] # None \/ \A m \in Node : ~Updating(m)'
      <4>1. CASE f.dist = None
        BY <1>7, <3>3, <4>1
      <4>2. CASE f.dist # None
        BY <1>6, <1>19, <4>2 DEF Caller
      <4>3. QED
        BY <4>1, <4>2
    <3>7. QED
      BY <2>2, <3>1, <3>5, <3>6 DEF Given, VersionFits, KeyOf
  <2>3. QED
    BY <2>1, <2>2 DEF Given
<1>28. PairsPlaced'
  <2>1. \A m, x : Pending(m, x)' = Pending(m, x)
    BY DEF Pending, CallSet, FramesOf, Asking
  <2>2. \A x \in Node : Born(x) => Born(x)'
    BY BornStays
  <2>3. PairsPlaced
    BY DEF Going
  <2>4. QED
    BY <2>1, <2>2, <2>3 DEF PairsPlaced, Level
<1>29. PairsSafe'
  <2>1. ASSUME NEW m \in Node, NEW x \in Node, Pending(m, x)', NEW r \in Req,
               Settled(m, r)', r.name = KeyOf(x)
        PROVE  \E t \in Node : m \in rdeps'[t] /\ KeyOf(t) = KeyOf(x) /\ t[2] >= x[2]
    <3>1. CASE Settled(m, r)
      <4>1. Pending(m, x)
        BY <2>1 DEF Pending, CallSet, FramesOf, Asking
      <4>2. PICK t \in Node : m \in rdeps[t] /\ KeyOf(t) = KeyOf(x) /\ t[2] >= x[2]
        BY <2>1, <3>1, <4>1 DEF Going, Fitting, PairsSafe, PairSafe
      <4>3. m \in rdeps'[t]
        BY <1>12, <4>2
      <4>4. QED
        BY <4>2, <4>3
    <3>2. CASE f.dist = None /\ f.source = m /\ f.reason = r
      <4>1. m \in rdeps'[n] /\ KeyOf(n) = KeyOf(x)
        BY <1>6, <1>20, <2>1, <3>2
      <4>2. Born(x)'
        BY <1>28, <2>1 DEF PairsPlaced
      <4>3. n = <<f.key, born'[f.key]>>
        BY <1>5, <1>6, <1>7, NoNodeAssumption DEF Layered, Latest
      <4>4. x[2] <= n[2]
        BY <1>6, <4>1, <4>2, <4>3 DEF Born
      <4>5. x[2] \in Nat /\ n[2] \in Nat
        BY <1>6, NodeNumber
      <4>6. QED
        BY <1>6, <4>1, <4>4, <4>5
    <3>3. QED
      BY <1>21, <2>1, <3>1, <3>2
  <2>2. QED
    BY <2>1 DEF PairsSafe, PairSafe, KeyOf
<1>30. InputsGiven'
  BY DEF Going, InputsGiven, CallSet, FramesOf
<1>31. QED
  BY <1>5, <1>24, <1>25, <1>26, <1>27, <1>28, <1>29, <1>30 DEF Going, Fitting

(* A step of the graph that raises nothing keeps the invariant.            *)
LEMMA GraphFits ==
  ASSUME Acyclic, CompileInv, CompileInv', Going, GraphStep, UNCHANGED compileVars
  PROVE  AcyclicInv'
<1>1. UNCHANGED <<calls, input>>
  BY DEF compileVars
<1>2. ASSUME error' # None PROVE AcyclicInv'
  BY <1>2 DEF AcyclicInv, Off
<1>3. ASSUME error' = None PROVE Going'
  <2>1. ~TooManyFrames /\ ~AddAssertFails
    BY <1>3, NoErrorAssumption DEF TooManyFrames, AddAssertFails, AssertFails, Fail
  <2>2. CASE AddDist
    BY <1>1, <2>2, AddDistFits
  <2>3. CASE UpdateDists
    BY <1>1, <1>3, <2>3, UpdateDistsFits
  <2>4. CASE NextExtra
    BY <1>1, <1>3, <2>4, NextExtraFits
  <2>5. CASE NextRequirement
    BY <1>1, <2>5, NextRequirementFits
  <2>6. CASE LastExtra \/ UpdateComplete \/ CompleteNext \/ AlreadyRemoved \/ Restore
    BY <1>1, <2>6, QuietFits
  <2>7. CASE RemoveDists
    BY <1>1, <2>7, RemoveDistsFits
  <2>8. CASE DropDep
    BY <1>1, <2>8, DropDepFits
  <2>9. CASE Unsolve
    BY <1>1, <2>9, UnsolveFits
  <2>10. QED
    BY <2>1, <2>2, <2>3, <2>4, <2>5, <2>6, <2>7, <2>8, <2>9 DEF GraphStep
<1>4. QED
  BY <1>2, <1>3 DEF AcyclicInv

-----------------------------------------------------------------------------
(* The steps of the resolver *)

(* What the innermost call becomes. *)
LEMMA CallsBecome ==
  ASSUME CompileInv, calls # <<>>, NEW a, NEW b
  PROVE  /\ CTop \in CallSet /\ CTop \in CallFrame
         /\ CThen(<<>>) => CallSet' \subseteq CallSet
         /\ CThen(<<a>>) => CallSet' \subseteq {a} \cup CallSet
         /\ CThen(<<a, b>>) => CallSet' \subseteq {a, b} \cup CallSet
<1>1. calls \in Seq(CallFrame)
  BY DEF CompileInv, ResolverSound, CallsSound
<1>2. /\ CTop \in CallFrame /\ CallSet = {CTop} \cup LowerOf(calls)
  BY <1>1, FramesBefore DEF CTop, CallSet
<1>3. ASSUME CThen(<<>>) PROVE CallSet' \subseteq CallSet
  <2>1. PICK t : t = Tail(calls)
    OBVIOUS
  <2>2. t \in Seq(CallFrame)
    BY <1>1, <2>1, HeadTailProperties
  <2>3. <<>> \o t = t
    BY <2>2, ConcatEmptySeq
  <2>4. calls' = Tail(calls)
    BY <1>3, <2>1, <2>3 DEF CThen
  <2>5. FramesOf(calls') = LowerOf(calls)
    BY <1>1, <2>4, ReturnFrames
  <2>6. QED
    BY <1>2, <2>5 DEF CallSet, FramesOf
<1>4. ASSUME CThen(<<a>>) PROVE CallSet' \subseteq {a} \cup CallSet
  <2>1. FramesOf(calls') = {a} \cup LowerOf(calls)
    BY <1>1, <1>4, OneFrameMore DEF CThen
  <2>2. QED
    BY <1>2, <2>1 DEF CallSet, FramesOf
<1>5. ASSUME CThen(<<a, b>>) PROVE CallSet' \subseteq {a, b} \cup CallSet
  <2>1. FramesOf(calls') = {a, b} \cup LowerOf(calls)
    BY <1>1, <1>5, TwoFramesMore DEF CThen
  <2>2. QED
    BY <1>2, <2>1 DEF CallSet, FramesOf
<1>6. QED
  BY <1>2, <1>3, <1>4, <1>5

(* What the calls of the resolver promise.                                 *)
Answerable(m, n) == Born(m) /\ Born(n) /\ Level(n) < Level(m) /\ PairSafe(m, n)
GoodCall(f) ==
  /\ f.op \in {"start", "constrain"} =>
       \A i \in DOMAIN f.todo : f.todo[i] \in InputDists(input)
  /\ \A m, n \in Node : Asking(f, m, n) => Answerable(m, n)

LEMMA CallsAreGood ==
  ASSUME Going
  PROVE  \A f \in CallSet : GoodCall(f)
<1>1. ASSUME NEW f \in CallSet, NEW m \in Node, NEW n \in Node, Asking(f, m, n)
      PROVE  Answerable(m, n)
  <2>1. Pending(m, n)
    BY <1>1 DEF Pending
  <2>2. QED
    BY <2>1 DEF Going, Fitting, PairsPlaced, PairsSafe, Answerable
<1>2. QED
  BY <1>1 DEF GoodCall, Going, InputsGiven

(* The resolver works while no call of the graph is active, and may call   *)
(* the graph for f. *)
LEMMA ClientFits ==
  ASSUME CompileInv, Going, stack = <<>>, UNCHANGED <<graph, input>>,
         NEW f, stack' \in {<<>>, <<f>>},
         stack' # <<>> => /\ f.op = "remove" \/ (f.op = "add" /\ f.dist # None)
                          /\ Placed(f) /\ Given(f),
         NEW N, CallSet' \subseteq N \cup CallSet, \A g \in N : GoodCall(g)
  PROVE  Going'
<1>1. UNCHANGED <<nodes, born, metadata, deps, rdeps, input>>
  BY DEF graph
<1>2. Frames = {}
  <2>1. Len(stack) = 0
    OBVIOUS
  <2>2. QED
    BY <2>1 DEF Frames, FramesOf
<1>3. /\ Frames' \subseteq {f} /\ (stack' = <<>> => Frames' = {})
      /\ Orderly(stack)'
  <2>1. CASE stack' = <<>>
    <3>1. Len(stack') = 0
      BY <2>1
    <3>2. QED
      BY <2>1, <3>1 DEF Frames, FramesOf, Orderly
  <2>2. CASE stack' = <<f>>
    <3>1. Len(stack') = 1 /\ stack'[1] = f
      BY <2>2
    <3>2. \A i \in 1..Len(stack') : stack'[i] = f
      BY <3>1
    <3>3. Frames' \subseteq {f}
      BY <3>2 DEF Frames, FramesOf
    <3>4. \A i, j \in 1..Len(stack') : ~(i < j)
      BY <3>1
    <3>5. \A i \in 2..Len(stack') : FALSE
      BY <3>1
    <3>6. Orderly(stack)'
      BY <3>4, <3>5 DEF Orderly
    <3>7. stack' # <<>>
      BY <3>1
    <3>8. QED
      BY <3>3, <3>6, <3>7
  <2>3. QED
    BY <2>1, <2>2
<1>4. ASSUME NEW g \in Frames'
      PROVE  /\ g.op = "remove" \/ (g.op = "add" /\ g.dist # None)
             /\ Placed(g) /\ Given(g) /\ g = f
  BY <1>3, <1>4
<1>5. \A m : ~Busy(m) /\ ~Updating(m)
  BY <1>2 DEF Busy, Updating
<1>6. \A m, r : ~Waiting(m, r) /\ ~Dropped(m, r)
  BY <1>2 DEF Waiting, Dropped
<1>7. \A m : ~Updating(m)'
  BY <1>4 DEF Updating
<1>8. \A x : Live(x)' = Live(x) /\ Extras(x)' = Extras(x) /\ Born(x)' = Born(x)
  BY <1>1, SameExtras DEF Live, Born
<1>9. ASSUME NEW m, NEW r, Settled(m, r)'
      PROVE  Settled(m, r)
  <2>1. Active(m)' \subseteq Active(m)
    BY <1>1, <1>8, SmallerActive
  <2>2. QED
    BY <1>1, <1>5, <1>6, <1>8, <1>9, <2>1 DEF Settled
<1>10. EdgesDescend' /\ Latest' /\ Fresh'
  BY <1>1, <1>8 DEF Going, Layered, EdgesDescend, Latest, Fresh, Level
<1>11. ASSUME NEW g \in Frames'
       PROVE  Placed(g)' /\ Caller(g)'
  <2>1. Placed(g)'
    BY <1>4, <1>8, <1>11 DEF Placed, Level
  <2>2. Caller(g)'
    BY <1>4, <1>7, <1>11 DEF Caller
  <2>3. QED
    BY <2>1, <2>2
<1>12. Layered'
  BY <1>3, <1>10, <1>11 DEF Layered
<1>13. BothSides'
  BY <1>1, <1>6, <1>8 DEF Going, Fitting, BothSides
<1>14. Fit'
  BY <1>1, <1>5, <1>8, <1>9 DEF Going, Fitting, Fit, Serves, VersionFits
<1>15. Covered'
  BY <1>7 DEF Covered
<1>16. ASSUME NEW g \in Frames'
       PROVE  Given(g)'
  <2>1. CASE g.op = "remove"
    BY <2>1 DEF Given
  <2>2. CASE g.op = "add" /\ g.dist # None
    <3>1. Given(g) /\ Target(g.key)' = Target(g.key)
      BY <1>1, <1>4, <1>16 DEF Target
    <3>2. QED
      BY <1>1, <1>9, <2>2, <3>1 DEF Given, VersionFits
  <2>3. QED
    BY <1>4, <1>16, <2>1, <2>2
<1>17. \A g \in CallSet' : GoodCall(g)
  BY CallsAreGood
<1>18. PairsPlaced' /\ PairsSafe'
  <2>1. ASSUME NEW m \in Node, NEW x \in Node, Pending(m, x)'
        PROVE  Answerable(m, x)
    <3>1. PICK g \in CallSet' : Asking(g, m, x)
      BY <2>1 DEF Pending, Asking
    <3>2. QED
      BY <1>17, <3>1 DEF GoodCall
  <2>2. PairsPlaced'
    BY <1>8, <2>1 DEF PairsPlaced, Answerable, Level
  <2>3. PairsSafe'
    BY <1>1, <1>9, <2>1 DEF PairsSafe, PairSafe, Answerable, KeyOf
  <2>4. QED
    BY <2>2, <2>3
<1>19. InputsGiven'
  BY <1>1, <1>17 DEF InputsGiven, GoodCall, InputDists
<1>20. QED
  BY <1>12, <1>13, <1>14, <1>15, <1>16, <1>18, <1>19 DEF Going, Fitting

LEMMA SilentFits ==
  ASSUME CompileInv, Going, Idle, Quiet, UNCHANGED input,
         NEW N, CallSet' \subseteq N \cup CallSet, \A g \in N : GoodCall(g)
  PROVE  Going'
<1>1. stack = <<>> /\ UNCHANGED <<graph, input>>
  BY DEF Idle, Quiet, vars
<1>2. stack' = <<>>
  BY <1>1 DEF Quiet, vars
<1>3. QED
  BY <1>1, <1>2, ClientFits

(* Calls that ask for nothing on their own. *)
LEMMA AsksNothing ==
  ASSUME NEW g, \/ g.op \in {"loop", "round", "block", "try", "finally", "descend"}
                \/ g.op = "compile" /\ g.source = None
  PROVE  GoodCall(g)
  BY DEF GoodCall, Asking

LEMMA WaitsForCalls ==
  ASSUME Acyclic, CompileInv, Going,
         Unwind \/ NoNeed \/ AlreadySolved \/ Retry \/ Round \/ NextRoot
  PROVE  AcyclicInv'
<1>1. PICK N : N = {}
  OBVIOUS
<1>2. ASSUME CThen(<<>>), calls # <<>>, Idle, Quiet, UNCHANGED input
      PROVE  Going'
  <2>1. CallSet' \subseteq N \cup CallSet /\ \A g \in N : GoodCall(g)
    BY <1>1, <1>2, CallsBecome
  <2>2. QED
    BY <1>2, <2>1, SilentFits
<1>3. ASSUME NEW a, NEW b, CThen(<<a>>) \/ CThen(<<a, b>>), GoodCall(a), GoodCall(b),
             calls # <<>>, Idle, Quiet, UNCHANGED input
      PROVE  Going'
  <2>1. PICK M : M = {a, b}
    OBVIOUS
  <2>2. CallSet' \subseteq M \cup CallSet /\ \A g \in M : GoodCall(g)
    BY <1>3, <2>1, CallsBecome
  <2>3. QED
    BY <1>3, <2>2, SilentFits
<1>4. CASE Unwind
  BY <1>2, <1>4 DEF Unwind, AcyclicInv
<1>5. CASE NoNeed
  BY <1>2, <1>5 DEF NoNeed, Entered, Running, AcyclicInv
<1>6. CASE AlreadySolved
  <2>1. PICK a : a = Descend(CTop)
    OBVIOUS
  <2>2. a.op = "descend"
    BY <2>1 DEF Descend
  <2>3. GoodCall(a)
    BY <2>2, AsksNothing
  <2>4. CThen(<<a>>) /\ calls # <<>> /\ Idle /\ Quiet /\ UNCHANGED input
    BY <1>6, <2>1 DEF AlreadySolved, ToProcess, Entered, Running
  <2>5. QED
    BY <1>3, <2>3, <2>4 DEF AcyclicInv
<1>7. CASE Retry
  <2>1. PICK a : a = CompileRoots(CTop.node, None, CTop.depth, CTop.downgrade,
                                  CTop.path, CTop.budget)
    OBVIOUS
  <2>2. PICK b : b = [op |-> "finally", node |-> CTop.entry]
    OBVIOUS
  <2>3. a.op = "compile" /\ a.source = None /\ b.op = "finally"
    BY <2>1, <2>2 DEF CompileRoots
  <2>4. GoodCall(a) /\ GoodCall(b)
    BY <2>3, AsksNothing
  <2>5. CThen(<<a, b>>) /\ calls # <<>> /\ Idle /\ Quiet /\ UNCHANGED input
    BY <1>7, <2>1, <2>2 DEF Retry, Running
  <2>6. QED
    BY <1>3, <2>4, <2>5 DEF AcyclicInv
<1>8. CASE Round
  <2>1. calls # <<>> /\ Idle /\ Quiet /\ UNCHANGED input /\ CTop.op = "loop"
    BY <1>8 DEF Round, Running
  <2>2. CASE CThen(<<>>)
    BY <1>2, <2>1, <2>2 DEF AcyclicInv
  <2>3. CASE outcome' = "IterationLimit"
    BY <2>3 DEF AcyclicInv, Off
  <2>4. CASE CThen(<<[op |-> "round", todo |-> roots], CTop>>)
    <3>1. PICK a : a = [op |-> "round", todo |-> roots]
      OBVIOUS
    <3>2. PICK b : b = CTop
      OBVIOUS
    <3>3. a.op = "round" /\ b.op = "loop" /\ CThen(<<a, b>>)
      BY <2>1, <2>4, <3>1, <3>2
    <3>4. GoodCall(a) /\ GoodCall(b)
      BY <3>3, AsksNothing
    <3>5. QED
      BY <1>3, <2>1, <3>3, <3>4 DEF AcyclicInv
  <2>5. QED
    BY <1>8, <2>2, <2>3, <2>4 DEF Round, Raise
<1>9. CASE NextRoot
  <2>1. calls # <<>> /\ Idle /\ Quiet /\ UNCHANGED input /\ CTop.op = "round"
    BY <1>9 DEF NextRoot, Running
  <2>2. CASE CThen(<<>>)
    BY <1>2, <2>1, <2>2 DEF AcyclicInv
  <2>3. ASSUME NEW n \in CTop.todo,
               \/ CThen(<<[CTop EXCEPT !.todo = @ \ {n}]>>)
               \/ CThen(<<CompileRoots(n, None, 1, MaxDowngrade, {}, MaxDowngrade),
                          [CTop EXCEPT !.todo = @ \ {n}]>>)
        PROVE  Going'
    <3>1. PICK b : b = [CTop EXCEPT !.todo = @ \ {n}]
      OBVIOUS
    <3>2. PICK a : a = CompileRoots(n, None, 1, MaxDowngrade, {}, MaxDowngrade)
      OBVIOUS
    <3>3. CTop \in RoundCall
      BY <2>1, CallsBecome, CallKinds
    <3>4. b.op = "round" /\ a.op = "compile" /\ a.source = None
      BY <3>1, <3>2, <3>3 DEF CompileRoots, RoundCall
    <3>5. GoodCall(a) /\ GoodCall(b)
      BY <3>4, AsksNothing
    <3>6. CThen(<<b>>) \/ CThen(<<a, b>>)
      BY <2>3, <3>1, <3>2
    <3>7. QED
      BY <1>3, <2>1, <3>5, <3>6
  <2>4. QED
    BY <1>9, <2>2, <2>3 DEF NextRoot, AcyclicInv
<1>10. QED
  BY <1>4, <1>5, <1>6, <1>7, <1>8, <1>9

(* A settled requirement is one of the distribution that the node holds.   *)
LEMMA SettledOwn ==
  ASSUME CompileInv, NEW m \in Node, NEW r, Settled(m, r)
  PROVE  /\ OwnReq(m, r) /\ metadata[m] \in Dist
         /\ \E e \in Extra \cup {None} : r \in Reqs(metadata[m], e)
<1>1. Extras(m) \subseteq Extra
  BY ExtrasType DEF CompileInv, NamesInv
<1>2. metadata[m] # None /\ r \in Active(m)
  BY DEF Settled
<1>3. OwnReq(m, r)
  BY <1>1, <1>2, ActiveIsOwn
<1>4. QED
  BY <1>2, <1>3 DEF OwnReq, CompileInv, NamesInv, IInv, TypeOK

(* EnterDeps: every edge is drawn on both sides while no call is active.   *)
LEMMA EnterDepsFits ==
  ASSUME Acyclic, CompileInv, Going, EnterDeps
  PROVE  Going'
<1>1. calls # <<>> /\ Idle /\ Quiet /\ UNCHANGED input /\ CTop.op = "descend"
  BY DEF EnterDeps, Running
<1>2. PICK n : n = CTop.node
  OBVIOUS
<1>3. n \in Node
  BY <1>1, <1>2, CallsBecome, CallKinds DEF DescendCall
<1>4. PICK a : a = [op |-> "deps", node |-> CTop.node, depth |-> CTop.depth,
                    downgrade |-> CTop.downgrade, path |-> CTop.path,
                    todo |-> DOMAIN deps[CTop.node]]
  OBVIOUS
<1>5. a.op = "deps" /\ a.node = n /\ a.todo = DOMAIN deps[n] /\ CThen(<<a>>)
  BY <1>2, <1>4 DEF EnterDeps
<1>6. \A m, x : ~Dropped(m, x)
  <2>1. Len(stack) = 0
    BY <1>1 DEF Idle
  <2>2. QED
    BY <2>1 DEF Dropped, Frames, FramesOf
<1>7. ASSUME NEW x \in Node, x \in DOMAIN deps[n]
      PROVE  Answerable(n, x)
  <2>1. Level(x) < Level(n) /\ Born(x) /\ Born(n)
    BY <1>3, <1>7 DEF Going, Layered, EdgesDescend, Fresh
  <2>2. ASSUME NEW r \in Req, Settled(n, r)
        PROVE  n \in rdeps[x]
    BY <1>3, <1>6, <1>7, <2>2 DEF Settled, Going, Fitting, BothSides
  <2>3. x[2] >= x[2]
    BY NodeNumber
  <2>4. PairSafe(n, x)
    BY <2>2, <2>3 DEF PairSafe
  <2>5. QED
    BY <2>1, <2>4 DEF Answerable
<1>8. GoodCall(a)
  BY <1>5, <1>7 DEF GoodCall, Asking
<1>9. PICK N : N = {a}
  OBVIOUS
<1>10. CallSet' \subseteq N \cup CallSet /\ \A g \in N : GoodCall(g)
  BY <1>1, <1>5, <1>8, <1>9, CallsBecome
<1>11. QED
  BY <1>1, <1>10, SilentFits

(* NextDep: it asks for what the loop had still to ask for.                *)
LEMMA NextDepFits ==
  ASSUME Acyclic, CompileInv, Going, NextDep
  PROVE  Going'
<1>1. calls # <<>> /\ Idle /\ Quiet /\ UNCHANGED input /\ CTop.op = "deps"
  BY DEF NextDep, Running
<1>2. PICK f : f = CTop
  OBVIOUS
<1>3. f \in DepsCall /\ f \in CallSet /\ f.op = "deps"
  BY <1>1, <1>2, CallsBecome, CallKinds
<1>4. GoodCall(f)
  BY <1>3, CallsAreGood
<1>5. CASE CThen(<<>>)
  <2>1. PICK N : N = {}
    OBVIOUS
  <2>2. CallSet' \subseteq N \cup CallSet /\ \A g \in N : GoodCall(g)
    BY <1>1, <1>5, <2>1, CallsBecome
  <2>3. QED
    BY <1>1, <2>2, SilentFits
<1>6. ASSUME NEW d \in f.todo,
             \/ CThen(<<[f EXCEPT !.todo = @ \ {d}]>>)
             \/ CThen(<<CompileRoots(d, f.node, f.depth + 1, f.downgrade,
                                     f.path \cup {f.node}, f.downgrade),
                        [f EXCEPT !.todo = @ \ {d}]>>)
      PROVE  Going'
  <2>1. PICK b : b = [f EXCEPT !.todo = @ \ {d}]
    OBVIOUS
  <2>2. PICK a : a = CompileRoots(d, f.node, f.depth + 1, f.downgrade,
                                  f.path \cup {f.node}, f.downgrade)
    OBVIOUS
  <2>3. /\ b.op = "deps" /\ b.node = f.node /\ b.todo = f.todo \ {d}
        /\ a.op = "compile" /\ a.source = f.node /\ a.node = d
    BY <1>3, <2>1, <2>2 DEF CompileRoots, DepsCall
  <2>4. ASSUME NEW m, NEW x, Asking(a, m, x) \/ Asking(b, m, x)
        PROVE  Asking(f, m, x)
    BY <1>3, <1>6, <2>3, <2>4 DEF Asking
  <2>5. GoodCall(a) /\ GoodCall(b)
    BY <1>4, <2>3, <2>4 DEF GoodCall
  <2>6. CThen(<<b>>) \/ CThen(<<a, b>>)
    BY <1>6, <2>1, <2>2
  <2>7. PICK N : N = {a, b}
    OBVIOUS
  <2>8. CallSet' \subseteq N \cup CallSet /\ \A g \in N : GoodCall(g)
    BY <1>1, <2>5, <2>6, <2>7, CallsBecome
  <2>9. QED
    BY <1>1, <2>8, SilentFits
<1>7. QED
  BY <1>2, <1>5, <1>6 DEF NextDep

(* A call of the graph. *)
LEMMA CallingFits ==
  ASSUME CompileInv, Going, Idle, calls # <<>>, UNCHANGED input, NEW f, Call(f),
         f.op = "remove" \/ (f.op = "add" /\ f.dist # None), Placed(f), Given(f),
         NEW a, CThen(<<>>) \/ CThen(<<a>>), GoodCall(a)
  PROVE  Going'
<1>1. stack = <<>> /\ stack' = <<f>> /\ UNCHANGED <<graph, input>>
  BY DEF Idle, Call
<1>2. PICK N : N = {a}
  OBVIOUS
<1>3. CallSet' \subseteq N \cup CallSet /\ \A g \in N : GoodCall(g)
  BY <1>2, CallsBecome
<1>4. QED
  BY <1>1, <1>3, ClientFits

LEMMA RemovingFits ==
  ASSUME Acyclic, CompileInv, Going, WalkBack \/ Unblock
  PROVE  Going'
<1>1. ASSUME NEW n, CallRemove(n), Idle, calls # <<>>, UNCHANGED input,
             NEW a, CThen(<<>>) \/ CThen(<<a>>), GoodCall(a)
      PROVE  Going'
  <2>1. PICK f : f = Remove(n, FALSE)
    OBVIOUS
  <2>2. f.op = "remove" /\ Call(f)
    BY <1>1, <2>1 DEF Remove, CallRemove
  <2>3. Placed(f) /\ Given(f)
    BY <2>2 DEF Placed, Given
  <2>4. QED
    BY <1>1, <2>2, <2>3, CallingFits
<1>2. CASE WalkBack
  <2>1. Idle /\ calls # <<>> /\ UNCHANGED input
    BY <1>2 DEF WalkBack, Impossible, Unsolved, ToProcess, Entered, Running
  <2>2. PICK b : CallRemove(b) /\ CThen(<<WalkBackTo(CTop, b)>>)
    BY <1>2 DEF WalkBack
  <2>3. PICK a : a = WalkBackTo(CTop, b)
    OBVIOUS
  <2>4. a.op = "block" /\ CThen(<<a>>)
    BY <2>2, <2>3 DEF WalkBackTo
  <2>5. GoodCall(a)
    BY <2>4, AsksNothing
  <2>6. QED
    BY <1>1, <2>1, <2>2, <2>4, <2>5
<1>3. CASE Unblock
  <2>1. /\ Idle /\ calls # <<>> /\ UNCHANGED input /\ CallRemove(CTop.node)
        /\ CThen(<<>>)
    BY <1>3 DEF Unblock, Running
  <2>2. PICK n : n = CTop.node
    OBVIOUS
  <2>3. PICK a : a = [op |-> "loop"]
    OBVIOUS
  <2>4. GoodCall(a)
    BY <2>3, AsksNothing
  <2>5. QED
    BY <1>1, <2>1, <2>2, <2>4
<1>4. QED
  BY <1>2, <1>3

(* A distribution without a source: what the settled requirements leave    *)
(* out is given. *)
LEMMA SourcelessFits ==
  ASSUME Acyclic, CompileInv, NEW d \in Dist, NEW k \in Key, NEW f,
         nodes[k] = None => born[k] < MaxObjects[k],
         f = Add(k, d, None, None),
         \A c \in Dist : \A e \in Extra \cup {None} : \A r \in Reqs(c, e) :
           r.name # k \/ VersionFits(d, r)
  PROVE  f.op = "add" /\ f.dist # None /\ Placed(f) /\ Given(f)
<1>1. /\ f.op = "add" /\ f.dist = d /\ f.key = k /\ f.source = None
      /\ d # None
  BY NoneAssumption DEF Add
<1>2. Target(k) \in Node
  BY TargetType DEF CompileInv, NamesInv
<1>3. rdeps[Target(k)] \subseteq Node
  BY <1>2 DEF CompileInv, NamesInv, IInv, TypeOK
<1>4. ASSUME NEW m \in rdeps[Target(k)], NEW r \in Req, Settled(m, r), r.name = k
      PROVE  VersionFits(d, r)
  <2>1. PICK e \in Extra \cup {None} : r \in Reqs(metadata[m], e)
    BY <1>3, <1>4, SettledOwn
  <2>2. metadata[m] \in Dist
    BY <1>3, <1>4, SettledOwn
  <2>3. QED
    BY <1>4, <2>1, <2>2
<1>5. Placed(f)
  BY <1>1 DEF Placed
<1>6. Given(f)
  BY <1>1, <1>4 DEF Given
<1>7. QED
  BY <1>1, <1>5, <1>6

(* AddRoot and AddConstraints: nothing is required of an input that comes  *)
(* with a version. *)
LEMMA InputFits ==
  ASSUME Acyclic, InputsApart, CompileInv, Going, Idle, calls # <<>>,
         CTop.op \in {"start", "constrain"}, CTop.todo # <<>>,
         NEW d, d = Head(CTop.todo), CallAdd(d.name, d, None, None),
         CThen(<<[CTop EXCEPT !.todo = Tail(@)]>>), UNCHANGED input
  PROVE  Going'
<1>1. PICK g : g = CTop
  OBVIOUS
<1>2. g \in CallSet /\ g \in ListCall /\ GoodCall(g) /\ g.op \in {"start", "constrain"}
  BY <1>1, CallsBecome, CallKinds, CallsAreGood
<1>3. PICK s \in Seq(Dist) : s = g.todo /\ s # <<>>
  BY <1>1, <1>2 DEF ListCall
<1>4. /\ Tail(s) \in Seq(Dist) /\ d = s[1] /\ Len(s) \in Nat \ {0}
      /\ Len(Tail(s)) = Len(s) - 1
      /\ \A i \in 1..Len(Tail(s)) : Tail(s)[i] = s[i + 1]
  <2>1. d = Head(s)
    BY <1>1, <1>3
  <2>2. QED
    BY <1>3, <2>1, HeadTailProperties, EmptySeq
<1>5. \A i \in 1..Len(s) : s[i] \in InputDists(input)
  BY <1>2, <1>3 DEF GoodCall
<1>6. d \in Dist /\ d \in InputDists(input) /\ d.name \in Key
  <2>1. 1 \in 1..Len(s)
    BY <1>4
  <2>2. d \in Dist /\ d \in InputDists(input)
    BY <1>3, <1>4, <1>5, <2>1, ElementOfSeq
  <2>3. QED
    BY <2>2, DistAssumption DEF Container
<1>7. PICK a : a = [g EXCEPT !.todo = Tail(@)]
  OBVIOUS
<1>8. a.op \in {"start", "constrain"} /\ a.todo = Tail(s)
  BY <1>2, <1>3, <1>7 DEF ListCall
<1>9. GoodCall(a)
  <2>1. PICK t \in Seq(Dist) : /\ t = Tail(s) /\ Len(t) = Len(s) - 1
                               /\ \A i \in 1..Len(t) : t[i] = s[i + 1]
    BY <1>4
  <2>2. \A i \in 1..Len(t) : t[i] \in InputDists(input)
    <3>1. \A i \in 1..Len(t) : i + 1 \in 1..Len(s)
      BY <1>4, <2>1
    <3>2. QED
      BY <1>5, <2>1, <3>1
  <2>3. \A i \in DOMAIN a.todo : a.todo[i] \in InputDists(input)
    BY <1>8, <2>1, <2>2
  <2>4. QED
    BY <1>8, <2>3 DEF GoodCall, Asking
<1>10. \A c \in Dist : \A e \in Extra \cup {None} : \A r \in Reqs(c, e) :
         r.name # d.name \/ VersionFits(d, r)
  <2>1. CASE d.version = None
    BY <2>1 DEF VersionFits
  <2>2. CASE d.version # None
    BY <1>6, <2>2 DEF InputsApart, CompileInv, ResolverSound
  <2>3. QED
    BY <2>1, <2>2
<1>11. PICK f : f = Add(d.name, d, None, None)
  OBVIOUS
<1>12. /\ nodes[d.name] = None => born[d.name] < MaxObjects[d.name]
       /\ Call(f)
  BY <1>11 DEF CallAdd
<1>13. f.op = "add" /\ f.dist # None /\ Placed(f) /\ Given(f)
  BY <1>6, <1>10, <1>11, <1>12, SourcelessFits
<1>14. CThen(<<a>>)
  BY <1>1, <1>7
<1>15. QED
  BY <1>9, <1>12, <1>13, <1>14, CallingFits

LEMMA InputsFit ==
  ASSUME Acyclic, InputsApart, CompileInv, Going, AddRoot \/ AddConstraints
  PROVE  Going'
<1>1. /\ Idle /\ calls # <<>> /\ CTop.op \in {"start", "constrain"} /\ UNCHANGED input
  BY DEF AddRoot, AddConstraints, Running
<1>2. CASE CTop.todo = <<>>
  <2>1. CThen(<<>>) /\ Quiet
    BY <1>2 DEF AddRoot, AddConstraints
  <2>2. PICK N : N = {}
    OBVIOUS
  <2>3. CallSet' \subseteq N \cup CallSet /\ \A g \in N : GoodCall(g)
    BY <1>1, <2>1, <2>2, CallsBecome
  <2>4. QED
    BY <1>1, <2>1, <2>3, SilentFits
<1>3. CASE CTop.todo # <<>>
  <2>1. PICK d : d = Head(CTop.todo)
    OBVIOUS
  <2>2. CallAdd(d.name, d, None, None) /\ CThen(<<[CTop EXCEPT !.todo = Tail(@)]>>)
    BY <1>3, <2>1 DEF AddRoot, AddConstraints
  <2>3. QED
    BY <1>1, <1>3, <2>1, <2>2, InputFits
<1>4. QED
  BY <1>2, <1>3

(* Block: nothing requires a do-not-use entry. *)
LEMMA BlockFits ==
  ASSUME Acyclic, CompileInv, Going, Block
  PROVE  Going'
<1>1. Idle /\ calls # <<>> /\ CTop.op = "block" /\ UNCHANGED input
  BY DEF Block, Running
<1>2. PICK d : d = BadDist(KeyOf(CTop.node), CTop.version)
  OBVIOUS
<1>3. PICK a : a = [op |-> "try", node |-> CTop.node, depth |-> CTop.depth,
                    downgrade |-> CTop.downgrade, path |-> CTop.path,
                    budget |-> CTop.budget, entry |-> Target(d.name)]
  OBVIOUS
<1>4. CallAdd(d.name, d, None, None) /\ CThen(<<a>>) /\ a.op = "try"
  BY <1>2, <1>3 DEF Block
<1>5. GoodCall(a)
  BY <1>4, AsksNothing
<1>6. d \in Dist
  BY <1>1, <1>2, InnermostCall DEF Sound
<1>7. d.name \in Key
  BY <1>6, DistAssumption DEF Container
<1>8. d.meta /\ d.version # None
  BY <1>2, NoneAssumption DEF BadDist
<1>9. d.name \in EntryKey
  BY <1>6, <1>8, MetaAssumption
<1>10. \A c \in Dist : \A e \in Extra \cup {None} : \A r \in Reqs(c, e) :
         r.name # d.name \/ VersionFits(d, r)
  BY <1>9, EntryAssumption DEF Reqs
<1>11. PICK f : f = Add(d.name, d, None, None)
  OBVIOUS
<1>12. /\ nodes[d.name] = None => born[d.name] < MaxObjects[d.name]
       /\ Call(f)
  BY <1>4, <1>11 DEF CallAdd
<1>13. f.op = "add" /\ f.dist # None /\ Placed(f) /\ Given(f)
  BY <1>6, <1>7, <1>10, <1>11, <1>12, SourcelessFits
<1>14. QED
  BY <1>1, <1>4, <1>5, <1>12, <1>13, CallingFits

(* An object that is as young as the registered one is the registered one. *)
LEMMA YoungestIsLive ==
  ASSUME CompileInv, Going, NEW n \in Node, Live(n), NEW m \in Node, NEW t \in Node,
         m \in rdeps[t], KeyOf(t) = KeyOf(n), t[2] >= n[2]
  PROVE  t = n
<1>1. PICK k \in Key : k = KeyOf(n)
  BY NodeType
<1>2. Born(t)
  BY DEF Going, Layered, EdgesDescend, CompileInv, NamesInv, IInv, RequestersHaveEdge
<1>3. n = <<k, born[k]>>
  BY <1>1, NoNodeAssumption DEF Live, Going, Layered, Latest
<1>4. PICK i \in Nat, j \in Nat : t = <<k, i>> /\ n = <<k, j>>
  <2>1. PICK a \in Key : \E i \in 1..MaxObjects[a] : t = <<a, i>>
    BY DEF Node
  <2>2. PICK i \in 1..MaxObjects[a] : t = <<a, i>>
    BY <2>1
  <2>3. PICK b \in Key : \E j \in 1..MaxObjects[b] : n = <<b, j>>
    BY DEF Node
  <2>4. PICK j \in 1..MaxObjects[b] : n = <<b, j>>
    BY <2>3
  <2>5. a = k /\ b = k
    BY <1>1, <2>2, <2>4 DEF KeyOf
  <2>6. QED
    BY <2>2, <2>4, <2>5
<1>5. i <= j /\ i >= j
  BY <1>2, <1>3, <1>4 DEF Born, KeyOf
<1>6. QED
  BY <1>4, <1>5

(* Acquire: the candidate was chosen for all the requesters of the node.   *)
LEMMA AcquireFits ==
  ASSUME Acyclic, CompileInv, Going, Acquire
  PROVE  Going'
<1>1. /\ ToProcess /\ calls # <<>> /\ CTop \in CompileCall /\ CTop.op = "compile"
      /\ Idle /\ UNCHANGED input
  BY CompileCallSound DEF Acquire, Unsolved, ToProcess, Entered, Running
<1>2. PICK c : c = CTop
  OBVIOUS
<1>3. PICK n \in Node : n = c.node
  BY <1>1, <1>2 DEF CompileCall
<1>4. PICK k \in Key : k = KeyOf(n)
  BY NodeType
<1>5. Live(n) /\ Target(k) = n
  BY <1>1, <1>2, <1>3, <1>4, NoNodeAssumption DEF ToProcess, Live, Target
<1>6. PICK v \in Fits(k, Wanted(n)) :
        \E d \in IF index[<<k, v>>] = None THEN Offers[<<k, v>>]
                 ELSE {index[<<k, v>>]} :
          /\ index' = [index EXCEPT ![<<k, v>>] = d]
          /\ CallAdd(k, d, c.source, Reason(n, c.source, d))
  BY <1>2, <1>3, <1>4 DEF Acquire
<1>7. k \in Project /\ v \in Published[k] /\ Contains(Wanted(n), v)
  BY <1>6 DEF Fits
<1>8. PICK d \in Offers[<<k, v>>] : CallAdd(k, d, c.source, Reason(n, c.source, d))
  BY <1>6, <1>7 DEF CompileInv, ResolverSound, IndexSound
<1>9. d \in Dist /\ d.name = k /\ d.version = v
  BY <1>7, <1>8, OffersAssumption
<1>10. c.source \in Node \cup {None}
  BY <1>1, <1>2 DEF CompileCall
<1>11. PICK f : f = Add(k, d, c.source, Reason(n, c.source, d))
  OBVIOUS
<1>12. /\ f.op = "add" /\ f.dist = d /\ f.key = k /\ f.source = c.source
       /\ Call(f) /\ d # None
  BY <1>8, <1>9, <1>11, NoneAssumption DEF Add, CallAdd
<1>13. ASSUME c.source # None
       PROVE  c.source \in Node /\ Answerable(c.source, n)
  <2>1. GoodCall(c)
    BY <1>1, <1>2, CallsBecome, CallsAreGood
  <2>2. Asking(c, c.source, n)
    BY <1>1, <1>2, <1>3, <1>13 DEF Asking
  <2>3. QED
    BY <1>3, <1>10, <1>13, <2>1, <2>2 DEF GoodCall
<1>14. Placed(f)
  BY <1>4, <1>12, <1>13 DEF Placed, Answerable, Level
<1>15. ASSUME NEW m \in Node, m \in rdeps[n], NEW r \in Req, Settled(m, r), r.name = k
       PROVE  VersionFits(d, r)
  <2>1. r \in Active(m)
    BY <1>15 DEF Settled
  <2>2. r.spec \subseteq Constraints(n)
    BY <1>4, <1>15, <2>1 DEF Constraints
  <2>3. r.spec \subseteq Wanted(n)
    BY <2>2 DEF Wanted
  <2>4. QED
    BY <1>7, <1>9, <2>3 DEF Contains, VersionFits
<1>16. ASSUME NEW m \in rdeps[n] \cup {c.source}, m # None,
              NEW r \in Req, Settled(m, r), r.name = k
       PROVE  VersionFits(d, r)
  <2>1. rdeps[n] \subseteq Node
    BY <1>3 DEF CompileInv, NamesInv, IInv, TypeOK
  <2>2. CASE m \in rdeps[n]
    BY <1>15, <1>16, <2>1, <2>2
  <2>3. CASE m \notin rdeps[n]
    <3>1. m \in Node /\ PairSafe(m, n)
      BY <1>13, <1>16, <2>3 DEF Answerable
    <3>2. PICK t \in Node : m \in rdeps[t] /\ KeyOf(t) = KeyOf(n) /\ t[2] >= n[2]
      BY <1>4, <1>16, <3>1 DEF PairSafe
    <3>3. t = n
      BY <1>5, <3>1, <3>2, YoungestIsLive
    <3>4. QED
      BY <2>3, <3>2, <3>3
  <2>4. QED
    BY <2>2, <2>3
<1>17. Given(f)
  BY <1>5, <1>12, <1>16 DEF Given
<1>18. PICK a : a = Descend(CTop)
  OBVIOUS
<1>19. a.op = "descend" /\ CThen(<<a>>)
  BY <1>18 DEF Acquire, Descend
<1>20. GoodCall(a)
  BY <1>19, AsksNothing
<1>21. QED
  BY <1>1, <1>12, <1>14, <1>17, <1>19, <1>20, CallingFits

-----------------------------------------------------------------------------
(* The resolver from its start to its end *)

LEMMA RaisingEnds ==
  ASSUME \/ TooDeep \/ CompileAssertFails \/ GiveUp \/ NoCandidate
         \/ RepositoryError \/ CircularDependency
  PROVE  Off'
<1>1. outcome' \in {"RecursionTooDeep", "AssertionError", "NoCandidate",
                    "RepositoryError", "CircularDependency"}
  BY DEF TooDeep, CompileAssertFails, GiveUp, NoCandidate, RepositoryError,
         CircularDependency, Raise
<1>2. QED
  BY <1>1 DEF Off

LEMMA FailureEnds ==
  ASSUME CompileInv, GraphFailed
  PROVE  Off'
<1>1. error \in {"AssertionError", "RecursionError"}
  BY DEF GraphFailed, Catch, CompileInv, NamesInv, IInv, TypeOK
<1>2. QED
  BY <1>1 DEF GraphFailed, Raise, Off

LEMMA OffStays ==
  ASSUME CompileInv, Off, [CNext]_allVars
  PROVE  Off'
<1>1. CASE GraphStep /\ UNCHANGED compileVars
  <2>1. error' = error \/ error' \in {"AssertionError", "RecursionError"}
    BY <1>1 DEF GraphStep, TooManyFrames, AddAssertFails, AssertFails, Fail, AddDist,
                Restore, UpdateDists, NextExtra, LastExtra, NextRequirement,
                UpdateComplete, CompleteNext, AlreadyRemoved, RemoveDists,
                DropDep, Unsolve
  <2>2. UNCHANGED outcome
    BY <1>1 DEF compileVars
  <2>3. QED
    BY <2>1, <2>2, NoErrorAssumption DEF Off
<1>2. CASE GraphFailed
  BY <1>2, FailureEnds
<1>3. CASE Done \/ UNCHANGED allVars
  BY <1>3 DEF Done, allVars, vars, compileVars, Off
<1>4. ASSUME Idle, UNCHANGED outcome
      PROVE  Off'
  BY <1>4 DEF Idle, Off
<1>5. CASE AddRoot \/ NextRoot \/ Unwind \/ NoNeed \/ AlreadySolved \/ WalkBack
  BY <1>4, <1>5 DEF AddRoot, NextRoot, Unwind, NoNeed, AlreadySolved, WalkBack,
     Impossible, Unsolved, ToProcess, Entered, Running
<1>6. CASE Block \/ Retry \/ Unblock \/ Acquire \/ EnterDeps \/ NextDep
  BY <1>4, <1>6 DEF Block, Retry, Unblock, Acquire, EnterDeps, NextDep,
     Unsolved, ToProcess, Entered, Running
<1>7. CASE Round
  BY <1>7 DEF Round, Running, Idle, Raise, Off
<1>8. CASE AddConstraints
  BY <1>8 DEF AddConstraints, Running, Idle, Off
<1>9. CASE \/ TooDeep \/ CompileAssertFails \/ GiveUp \/ NoCandidate
           \/ RepositoryError \/ CircularDependency
  BY <1>9, RaisingEnds
<1>10. QED
  BY <1>1, <1>2, <1>3, <1>5, <1>6, <1>7, <1>8, <1>9 DEF CNext, CompileStep

LEMMA GoingStays ==
  ASSUME Going, UNCHANGED allVars
  PROVE  Going'
<1>1. /\ UNCHANGED <<nodes, born, metadata, deps, rdeps, complete, stack, error>>
      /\ UNCHANGED <<input, calls>>
  BY DEF allVars, vars, graph, compileVars
<1>2. Frames' = Frames /\ CallSet' = CallSet
  BY <1>1 DEF Frames, CallSet
<1>3. \A x : /\ Live(x)' = Live(x) /\ Born(x)' = Born(x) /\ Extras(x)' = Extras(x)
             /\ Updating(x)' = Updating(x) /\ Busy(x)' = Busy(x)
  BY <1>1, <1>2, SameExtras DEF Live, Born, Updating, Busy
<1>4. \A m, r : Waiting(m, r)' = Waiting(m, r) /\ Dropped(m, r)' = Dropped(m, r)
  BY <1>2 DEF Waiting, Dropped, Waits
<1>5. \A m, r : OwnReq(m, r)' = OwnReq(m, r)
  BY <1>1 DEF OwnReq
<1>6. \A m, r : Settled(m, r)' => Settled(m, r)
  <2>1. \A m : Active(m)' \subseteq Active(m)
    BY <1>1, <1>3, SmallerActive
  <2>2. QED
    BY <1>1, <1>3, <1>4, <2>1 DEF Settled
<1>7. Layered'
  <2>1. EdgesDescend' /\ Latest' /\ Fresh' /\ Orderly(stack)'
    BY <1>1, <1>3 DEF Going, Layered, EdgesDescend, Latest, Fresh, Level, Orderly,
       Above, FrameLevel, PartOf
  <2>2. ASSUME NEW f \in Frames PROVE Placed(f)' /\ Caller(f)'
    BY <1>1, <1>3, <1>5, <2>2 DEF Going, Layered, Placed, Caller, Level
  <2>3. QED
    BY <1>2, <2>1, <2>2 DEF Layered
<1>8. PairsPlaced' /\ InputsGiven'
  BY <1>1, <1>2, <1>3 DEF Going, PairsPlaced, InputsGiven, Pending, Asking, Level,
     InputDists
<1>9. BothSides' /\ Fit' /\ Covered'
  BY <1>1, <1>3, <1>4, <1>6 DEF Going, Fitting, BothSides, Fit, Covered, Serves,
     VersionFits
<1>10. PairsSafe'
  BY <1>1, <1>2, <1>6 DEF Going, Fitting, PairsSafe, PairSafe, Pending, Asking, KeyOf
<1>11. ASSUME NEW f \in Frames PROVE Given(f)'
  <2>1. Given(f) /\ Target(f.key)' = Target(f.key)
    BY <1>1 DEF Target, Going, Fitting
  <2>2. QED
    BY <1>1, <1>3, <1>6, <2>1 DEF Given, VersionFits, KeyOf
<1>12. QED
  BY <1>2, <1>7, <1>8, <1>9, <1>10, <1>11 DEF Going, Fitting

LEMMA AcyclicKeeps ==
  ASSUME Acyclic, InputsApart, CompileInv, CompileInv', AcyclicInv, [CNext]_allVars
  PROVE  AcyclicInv'
<1>1. CASE Off
  BY <1>1, OffStays DEF AcyclicInv
<1>2. CASE Going
  <2>1. CASE GraphStep /\ UNCHANGED compileVars
    BY <1>2, <2>1, GraphFits
  <2>2. CASE Done \/ UNCHANGED allVars
    BY <1>2, <2>2, GoingStays DEF Done, AcyclicInv
  <2>3. CASE CompileStep
    BY <1>2, <2>3, WaitsForCalls, InputsFit, FailureEnds, RaisingEnds, RemovingFits,
       BlockFits, AcquireFits, EnterDepsFits, NextDepFits
       DEF CompileStep, AcyclicInv
  <2>4. QED
    BY <2>1, <2>2, <2>3 DEF CNext
<1>3. QED
  BY <1>1, <1>2 DEF AcyclicInv

LEMMA AcyclicStarts ==
  ASSUME CInit
  PROVE  Going
<1>1. /\ nodes = [k \in Key |-> None] /\ metadata = [n \in Node |-> None]
      /\ deps = [n \in Node |-> [m \in {} |-> None]]
      /\ rdeps = [n \in Node |-> {}] /\ stack = <<>>
  BY DEF CInit, Init
<1>2. Frames = {} /\ Orderly(stack)
  <2>1. Len(stack) = 0
    BY <1>1
  <2>2. QED
    BY <2>1 DEF Frames, FramesOf, Orderly
<1>3. \A n \in Node : DOMAIN deps[n] = {} /\ rdeps[n] = {} /\ ~Live(n)
  BY <1>1, NodeType, NoNodeAssumption DEF Live
<1>4. Layered
  BY <1>1, <1>2, <1>3 DEF Layered, EdgesDescend, Latest, Fresh
<1>5. Fitting
  <2>1. \A m \in Node : \A r : ~Settled(m, r)
    BY <1>3 DEF Settled
  <2>2. BothSides /\ Fit /\ Covered /\ PairsSafe
    BY <1>3, <2>1 DEF BothSides, Fit, Covered, PairsSafe, PairSafe
  <2>3. QED
    BY <1>2, <2>2 DEF Fitting
<1>6. PICK a, b, c : /\ a = [op |-> "start", todo |-> Sources]
                     /\ b = [op |-> "loop"]
                     /\ c = [op |-> "constrain", todo |-> Afterwards]
  OBVIOUS
<1>7. CallSet = {a, b, c}
  <2>1. Len(calls) = 3 /\ calls[1] = a /\ calls[2] = b /\ calls[3] = c
    BY <1>6 DEF CInit
  <2>2. 1..Len(calls) = {1, 2, 3}
    BY <2>1
  <2>3. QED
    BY <2>1, <2>2 DEF CallSet, FramesOf
<1>8. PairsPlaced
  <2>1. a.op = "start" /\ b.op = "loop" /\ c.op = "constrain"
    BY <1>6
  <2>2. QED
    BY <1>7, <2>1 DEF PairsPlaced, Pending, Asking
<1>9. /\ \A i \in DOMAIN Sources : Sources[i] \in InputDists(input)
      /\ \A i \in DOMAIN Afterwards : Afterwards[i] \in InputDists(input)
  <2>1. input.constraints \in Seq(Dist) /\ input.roots \in Seq(Dist)
    BY InputsAssumption DEF CInit, Input
  <2>2. PICK cs \in Seq(Dist), rs \in Seq(Dist) :
          cs = input.constraints /\ rs = input.roots
    BY <2>1
  <2>3. /\ \A i \in DOMAIN cs : cs[i] \in InputDists(input)
        /\ \A i \in DOMAIN rs : rs[i] \in InputDists(input)
    BY <2>2 DEF InputDists
  <2>4. PICK both : both = cs \o rs
    OBVIOUS
  <2>5. /\ Len(both) = Len(cs) + Len(rs) /\ Len(cs) \in Nat /\ Len(rs) \in Nat
        /\ DOMAIN both = 1..(Len(cs) + Len(rs))
        /\ DOMAIN cs = 1..Len(cs) /\ DOMAIN rs = 1..Len(rs)
        /\ \A i \in 1..(Len(cs) + Len(rs)) :
             both[i] = IF i <= Len(cs) THEN cs[i] ELSE rs[i - Len(cs)]
    <3>1. cs \in Seq(Dist) /\ rs \in Seq(Dist)
      BY <2>2
    <3>2. both \in Seq(Dist)
      BY <2>4, <3>1
    <3>3. QED
      BY <2>4, <3>1, <3>2, ConcatProperties
  <2>6. ASSUME NEW i \in DOMAIN both
        PROVE  both[i] \in InputDists(input)
    <3>1. CASE i <= Len(cs)
      BY <2>3, <2>5, <3>1
    <3>2. CASE i > Len(cs)
      <4>1. i - Len(cs) \in 1..Len(rs) /\ both[i] = rs[i - Len(cs)]
        BY <2>5, <3>2
      <4>2. QED
        BY <2>3, <2>5, <4>1
    <3>3. QED
      BY <2>5, <3>1, <3>2
  <2>7. Sources \in {rs, both} /\ Afterwards \in {cs, <<>>} /\ DOMAIN <<>> = {}
    BY <2>2, <2>4 DEF Sources, Afterwards
  <2>8. QED
    BY <2>3, <2>6, <2>7
<1>10. InputsGiven
  BY <1>6, <1>7, <1>9 DEF InputsGiven
<1>11. QED
  BY <1>4, <1>5, <1>8, <1>10 DEF Going

LEMMA AcyclicInvariant ==
  ASSUME Acyclic, InputsApart
  PROVE  CSpec => []AcyclicInv
<1>1. CInit => AcyclicInv
  BY AcyclicStarts DEF AcyclicInv
<1>2. CompileInv /\ CompileInv' /\ AcyclicInv /\ [CNext]_allVars => AcyclicInv'
  BY AcyclicKeeps
<1>3. QED
  BY <1>1, <1>2, CompileInvariant, PTL DEF CSpec

(* On an acyclic index, whatever its versions, extras and inputs, every    *)
(* solved node fits what the registered nodes require of it between any    *)
(* two steps of the resolver and in the solution (compile.py:124,          *)
(* dists.py:250): also in the middle of a walkback, after extras arrived   *)
(* late and while outer calls hold nodes that were replaced since.         *)
THEOREM SolutionsFit ==
  ASSUME Acyclic, InputsApart
  PROVE  CSpec => []SolutionsFitRequesters
<1>1. ASSUME CompileInv, AcyclicInv, Idle, outcome \in {"running", "solved"},
             NEW n \in LiveSolved, NEW m \in rdeps[n] \cap LiveSolved,
             metadata[n].version # None, NEW r \in Active(m), r.name = KeyOf(n)
      PROVE  Contains(r.spec, metadata[n].version)
  <2>1. Going
    BY <1>1 DEF AcyclicInv, Off, Idle
  <2>2. Frames = {}
    <3>1. Len(stack) = 0
      BY <1>1 DEF Idle
    <3>2. QED
      BY <3>1 DEF Frames, FramesOf
  <2>3. Settled(m, r) /\ ~Busy(n) /\ Serves(n, r) /\ m \in Node /\ n \in Node
    BY <1>1, <2>2 DEF Settled, Busy, Waiting, Serves, LiveSolved
  <2>4. r \in Req
    <3>1. PICK e \in Extra \cup {None} : r \in Reqs(metadata[m], e)
      BY <1>1, <2>3, SettledOwn
    <3>2. metadata[m] \in Dist
      BY <1>1, <2>3, SettledOwn
    <3>3. PICK s \in Seq(Req) : s = metadata[m].requires[e]
      BY <3>2, DistAssumption DEF Container
    <3>4. PICK i \in DOMAIN s : r = s[i]
      BY <3>1, <3>3 DEF Reqs
    <3>5. QED
      BY <3>3, <3>4, ElementOfSeq
  <2>5. VersionFits(metadata[n], r)
    BY <1>1, <2>1, <2>3, <2>4 DEF Going, Fitting, Fit
  <2>6. QED
    BY <1>1, <2>5 DEF VersionFits
<1>2. CompileInv /\ AcyclicInv => SolutionsFitRequesters
  BY <1>1 DEF SolutionsFitRequesters
<1>3. QED
  BY <1>2, AcyclicInvariant, CompileInvariant, PTL

-----------------------------------------------------------------------------
(* What a solved node asks for lies outside its cycle *)

(* The smallest of some natural numbers. *)
LEMMA SmallestNumber ==
  ASSUME NEW S \in SUBSET Nat, S # {}
  PROVE  \E m \in S : \A k \in S : m <= k
<1> DEFINE Below(k) == 0..k
           T == {Below(k) : k \in S}
<1>1. T \subseteq FiniteSubsetsOf(Nat)
  <2>1. ASSUME NEW k \in S PROVE IsFiniteSet(Below(k)) /\ Below(k) \subseteq Nat
    BY FS_Interval
  <2>2. QED
    BY <2>1 DEF FiniteSubsetsOf
<1>2. PICK t \in T : \A u \in T : ~ (<<u, t>> \in StrictSubsetOrdering(Nat))
  <2>1. T # {}
    OBVIOUS
  <2> HIDE DEF T
  <2>2. QED
    BY <1>1, <2>1, FS_StrictSubsetOrderingWellFounded, WFMin
<1>3. PICK m \in S : t = Below(m)
  BY <1>2
<1>4. ASSUME NEW k \in S, k < m PROVE FALSE
  <2>1. Below(k) \subseteq Below(m) /\ m \in Below(m) /\ m \notin Below(k)
    BY <1>4
  <2>2. Below(k) \in T /\ <<Below(k), Below(m)>> \in StrictSubsetOrdering(Nat)
    BY <2>1 DEF StrictSubsetOrdering
  <2>3. QED
    BY <1>2, <1>3, <2>2
<1>5. QED
  BY <1>3, <1>4

(* One round of the search in the solved graph. *)
Grown(S) == S \cup UNION {SolvedDeps(m) : m \in S}
Closes(f) == f = [S \in SUBSET Node |->
                    LET T == Grown(S) IN IF T = S THEN S ELSE f[T]]

(* The search has a result for every set: the least one that holds it and  *)
(* is closed.                                                              *)
LEMMA SearchEnds ==
  ASSUME CompileInv
  PROVE  \E f : Closes(f)
<1> DEFINE Enclosing(S) == {C \in SUBSET Node : S \subseteq C /\ Grown(C) = C}
           Least(S) == {x \in Node : \A C \in Enclosing(S) : x \in C}
           least == [S \in SUBSET Node |-> Least(S)]
<1>1. \A m \in Node : SolvedDeps(m) \subseteq Node
  BY DEF CompileInv, NamesInv, IInv, TypeOK, IsDependencies, SolvedDeps
<1>2. ASSUME NEW S \in SUBSET Node
      PROVE  Grown(S) \in SUBSET Node /\ S \subseteq Grown(S)
  BY <1>1 DEF Grown
<1>3. ASSUME NEW S \in SUBSET Node, Grown(S) = S
      PROVE  Least(S) = S
  <2>1. S \in Enclosing(S)
    BY <1>3
  <2>2. QED
    BY <2>1
<1>4. ASSUME NEW S \in SUBSET Node
      PROVE  Enclosing(Grown(S)) = Enclosing(S)
  <2>1. ASSUME NEW C \in Enclosing(S)
        PROVE  Grown(S) \subseteq C
    <3>1. S \subseteq C /\ Grown(C) = C
      OBVIOUS
    <3>2. Grown(S) \subseteq Grown(C)
      BY <3>1 DEF Grown
    <3>3. QED
      BY <3>1, <3>2
  <2>2. S \subseteq Grown(S)
    BY <1>2
  <2>3. QED
    BY <2>1, <2>2
<1>5. ASSUME NEW S \in SUBSET Node
      PROVE  least[S] = IF Grown(S) = S THEN S ELSE least[Grown(S)]
  <2>1. least[S] = Least(S)
    OBVIOUS
  <2>2. least[Grown(S)] = Least(Grown(S))
    BY <1>2
  <2>3. Least(Grown(S)) = Least(S)
    <3>1. Enclosing(Grown(S)) = Enclosing(S)
      BY <1>4
    <3> HIDE DEF Enclosing
    <3>2. QED
      BY <3>1
  <2> HIDE DEF Least, least
  <2>4. QED
    BY <1>3, <2>1, <2>2, <2>3
<1>6. Closes(least)
  <2>1. least = [S \in SUBSET Node |-> IF Grown(S) = S THEN S ELSE least[Grown(S)]]
    <3> HIDE DEF Least, Grown
    <3>1. QED
      BY <1>5
  <2>2. QED
    BY <2>1 DEF Closes
<1>7. QED
  BY <1>6

(* The search from a node does not leave the levels below it: a node that  *)
(* is found in one round was reached from a higher one in the round before *)
(* it.                                                                     *)
ClosedFrom(S, i) == \A m \in S : Level(m) >= i => SolvedDeps(m) \subseteq S

LEMMA SearchGoesDown ==
  ASSUME Acyclic, CompileInv, Layered, NEW f, Closes(f), NEW l \in Nat,
         NEW U, U = {m \in Node : Level(m) <= l}, NEW S \in SUBSET U
  PROVE  f[S] \subseteq U
<1>1. \A m \in Node : Level(m) \in Nat
  BY Levels
<1>2. ASSUME NEW m \in Node, NEW d \in SolvedDeps(m)
      PROVE  d \in Node /\ Level(d) < Level(m)
  BY <1>2 DEF SolvedDeps, Layered, EdgesDescend, CompileInv, NamesInv, IInv, TypeOK,
     IsDependencies
<1>3. ASSUME NEW T \in SUBSET U
      PROVE  /\ Grown(T) \in SUBSET U
             /\ f[T] = IF Grown(T) = T THEN T ELSE f[Grown(T)]
  <2>1. Grown(T) \in SUBSET U
    <3>1. ASSUME NEW m \in T, NEW d \in SolvedDeps(m) PROVE d \in U
      BY <1>1, <1>2, <3>1
    <3>2. QED
      BY <3>1 DEF Grown
  <2>2. T \in SUBSET Node
    OBVIOUS
  <2>3. QED
    BY <2>1, <2>2 DEF Closes
<1>4. ASSUME NEW T \in SUBSET U, NEW i \in Nat, ClosedFrom(T, i + 1)
      PROVE  ClosedFrom(Grown(T), i)
  <2>1. ASSUME NEW m \in Grown(T), Level(m) >= i, NEW d \in SolvedDeps(m)
        PROVE  d \in Grown(T)
    <3>1. CASE m \in T
      BY <2>1, <3>1 DEF Grown
    <3>2. CASE m \notin T
      <4>1. PICK p \in T : m \in SolvedDeps(p)
        BY <2>1, <3>2 DEF Grown
      <4>2. p \in Node /\ Level(p) \in Nat /\ Level(m) \in Nat /\ Level(m) < Level(p)
        BY <1>1, <1>2, <4>1
      <4>3. Level(p) >= i + 1
        BY <2>1, <4>2
      <4>4. QED
        BY <1>4, <3>2, <4>1, <4>3 DEF ClosedFrom
    <3>3. QED
      BY <3>1, <3>2
  <2>2. QED
    BY <2>1 DEF ClosedFrom
<1>5. ASSUME NEW T \in SUBSET U, ClosedFrom(T, 0)
      PROVE  Grown(T) = T
  <2>1. \A m \in T : Level(m) >= 0
    BY <1>1
  <2>2. QED
    BY <1>5, <2>1 DEF ClosedFrom, Grown
<1> DEFINE Bad == {i \in Nat : \E T \in SUBSET U : ClosedFrom(T, i) /\ ~(f[T] \subseteq U)}
<1>6. Bad = {}
  <2>1. SUFFICES ASSUME Bad # {} PROVE FALSE
    OBVIOUS
  <2>2. PICK i \in Bad : \A k \in Bad : i <= k
    <3>1. Bad \in SUBSET Nat
      OBVIOUS
    <3> HIDE DEF Bad
    <3>2. QED
      BY <2>1, <3>1, SmallestNumber
  <2>3. PICK T \in SUBSET U : ClosedFrom(T, i) /\ ~(f[T] \subseteq U)
    BY <2>2
  <2>4. Grown(T) # T /\ f[T] = f[Grown(T)] /\ Grown(T) \in SUBSET U
    BY <1>3, <2>3
  <2>5. i # 0
    BY <1>5, <2>3, <2>4
  <2>6. PICK j \in Nat : i = j + 1
    <3>1. i \in Nat /\ i - 1 \in Nat /\ i = (i - 1) + 1
      BY <2>2, <2>5
    <3>2. QED
      BY <3>1
  <2>7. ClosedFrom(Grown(T), j)
    BY <1>4, <2>3, <2>6
  <2>8. j \in Bad
    BY <2>3, <2>4, <2>7
  <2>9. QED
    BY <2>2, <2>6, <2>8
<1>7. l + 1 \in Nat /\ ClosedFrom(S, l + 1)
  BY <1>1 DEF ClosedFrom
<1>8. ASSUME ~(f[S] \subseteq U) PROVE FALSE
  <2>1. l + 1 \in Bad
    BY <1>7, <1>8
  <2>2. QED
    BY <1>6, <2>1
<1>9. QED
  BY <1>8

LEMMA DependencyBelow ==
  ASSUME Acyclic, CompileInv, Layered, NEW n \in Node, NEW d \in DOMAIN deps[n]
  PROVE  d \notin Cycle(n)
<1>1. d \in Node /\ Level(d) \in Nat /\ Level(n) \in Nat /\ Level(d) < Level(n)
  BY Levels DEF Layered, EdgesDescend, CompileInv, NamesInv, IInv, TypeOK,
     IsDependencies
<1>2. PICK U : U = {m \in Node : Level(m) <= Level(d)}
  OBVIOUS
<1> DEFINE search == CHOOSE f : Closes(f)
<1>3. Closes(search)
  BY SearchEnds
<1>4. SolvedReach(d) = search[{d}]
  BY DEF SolvedReach, Closes, Grown
<1>5. {d} \in SUBSET U
  BY <1>1, <1>2
<1>6. search[{d}] \subseteq U
  <2> HIDE DEF search
  <2>1. QED
    BY <1>1, <1>2, <1>3, <1>5, SearchGoesDown
<1>7. n \notin SolvedReach(d)
  BY <1>1, <1>2, <1>4, <1>6
<1>8. d # n
  BY <1>1
<1>9. QED
  BY <1>7, <1>8 DEF Cycle

(* So the flag is computed from all dependencies. *)
LEMMA CompleteNeedsAll ==
  ASSUME Acyclic, CompileInv, Layered, NEW n \in Node, NowComplete(n)
  PROVE  metadata[n] # None /\ \A d \in DOMAIN deps[n] : complete[d] /\ d # n
<1>1. \A d \in DOMAIN deps[n] : d \notin Cycle(n)
  BY DependencyBelow
<1>2. \A d \in DOMAIN deps[n] : d # n
  <2>1. \A d \in DOMAIN deps[n] : Level(d) < Level(n) /\ Level(n) \in Nat
    BY Levels DEF Layered, EdgesDescend
  <2>2. QED
    BY <2>1
<1>3. QED
  BY <1>1, <1>2 DEF NowComplete

-----------------------------------------------------------------------------
(* The flag complete *)

(* update_complete of m is still to come: the flag of m may be stale.      *)
DueBy(f, m) ==
  \/ f.op = "complete" /\ f.node = m
  \/ f.op = "completes" /\ m \in f.todo
  \/ f.op = "drop" /\ f.node = m /\ ~f.upstream
Due(m) == \E f \in Frames : DueBy(f, m)

(* The loops of _update_dists run above the update_complete of their node. *)
Drawing == {"extras", "requires"}
Backed(s) ==
  \A i \in 1..Len(s) : s[i].op \in Drawing =>
    \E j \in (i + 1)..Len(s) : s[j].op = "complete" /\ s[j].node = s[i].node

UnbornUnsolved == \A n \in Node : ~Born(n) => metadata[n] = None
FlaggedSolved == \A n \in Node : complete[n] => metadata[n] # None \/ Due(n)
FlaggedAbove ==
  \A m \in Node : Live(m) /\ complete[m] /\ ~Due(m) => \A d \in Asks(m) : complete[d]
(* A distribution that comes with a reason goes where an edge with one     *)
(* leads already.                                                          *)
Offered(f) ==
  f.op = "add" /\ f.dist # None /\ f.source # None /\ f.reason # None =>
    Target(f.key) \in Asks(f.source)

Flags == /\ UnbornUnsolved /\ FlaggedSolved /\ FlaggedAbove /\ Backed(stack)
         /\ \A f \in Frames : Offered(f)
FlagsInv == Off \/ Flags

(* Backed after a return, and after one or two frames took the place of    *)
(* the innermost one. *)
LEMMA BackedReturn ==
  ASSUME NEW S, NEW s \in Seq(S), s # <<>>, Backed(s), NEW t, t = Tail(s)
  PROVE  Backed(t)
<1>1. /\ Len(s) \in Nat \ {0} /\ Len(t) = Len(s) - 1
      /\ \A i \in 1..Len(t) : t[i] = s[i + 1]
  BY Positions
<1>2. ASSUME NEW i \in 1..Len(t), t[i].op \in Drawing
      PROVE  \E j \in (i + 1)..Len(t) : t[j].op = "complete" /\ t[j].node = t[i].node
  <2>1. i + 1 \in 1..Len(s) /\ t[i] = s[i + 1]
    BY <1>1
  <2>2. PICK j \in (i + 1 + 1)..Len(s) :
          s[j].op = "complete" /\ s[j].node = s[i + 1].node
    BY <1>2, <2>1 DEF Backed
  <2>3. j - 1 \in (i + 1)..Len(t) /\ j - 1 \in 1..Len(t) /\ (j - 1) + 1 = j
    BY <1>1, <2>2
  <2>4. t[j - 1] = s[j]
    BY <1>1, <2>3
  <2>5. QED
    BY <2>1, <2>2, <2>3, <2>4
<1>3. QED
  BY <1>2 DEF Backed

LEMMA BackedOne ==
  ASSUME NEW S, NEW s \in Seq(S), s # <<>>, Backed(s),
         NEW a, NEW t, t = <<a>> \o Tail(s),
         a.op \in Drawing => Head(s).op \in Drawing /\ a.node = Head(s).node
  PROVE  Backed(t)
<1>1. /\ Len(s) \in Nat \ {0} /\ Head(s) = s[1] /\ Len(t) = Len(s) /\ t[1] = a
      /\ \A i \in 2..Len(t) : t[i] = s[i]
  BY Positions
<1>2. ASSUME NEW i \in 1..Len(t), t[i].op \in Drawing
      PROVE  \E j \in (i + 1)..Len(t) : t[j].op = "complete" /\ t[j].node = t[i].node
  <2>1. i \in 1..Len(s) /\ s[i].op \in Drawing /\ t[i].node = s[i].node
    <3>1. CASE i = 1
      BY <1>1, <1>2, <3>1
    <3>2. CASE i # 1
      <4>1. i \in 2..Len(t)
        BY <1>1, <3>2
      <4>2. QED
        BY <1>1, <1>2, <4>1
    <3>3. QED
      BY <3>1, <3>2
  <2>2. PICK j \in (i + 1)..Len(s) : s[j].op = "complete" /\ s[j].node = s[i].node
    BY <2>1 DEF Backed
  <2>3. j \in 2..Len(t) /\ j \in (i + 1)..Len(t)
    BY <1>1, <2>2
  <2>4. QED
    BY <1>1, <2>1, <2>2, <2>3
<1>3. QED
  BY <1>2 DEF Backed

LEMMA BackedTwo ==
  ASSUME NEW S, NEW s \in Seq(S), s # <<>>, Backed(s),
         NEW a, NEW b, NEW t, t = <<a, b>> \o Tail(s),
         a.op \in Drawing => \/ b.op = "complete" /\ b.node = a.node
                             \/ Head(s).op \in Drawing /\ a.node = Head(s).node,
         b.op \in Drawing => Head(s).op \in Drawing /\ b.node = Head(s).node
  PROVE  Backed(t)
<1>1. /\ Len(s) \in Nat \ {0} /\ Head(s) = s[1] /\ Len(t) = Len(s) + 1
      /\ t[1] = a /\ t[2] = b /\ \A i \in 3..Len(t) : t[i] = s[i - 1]
  BY Positions
<1>2. ASSUME NEW i \in 1..Len(t), t[i].op \in Drawing,
             NEW k \in 1..Len(s), k >= i - 1, s[k].op \in Drawing, s[k].node = t[i].node
      PROVE  \E j \in (i + 1)..Len(t) : t[j].op = "complete" /\ t[j].node = t[i].node
  <2>1. PICK j \in (k + 1)..Len(s) : s[j].op = "complete" /\ s[j].node = s[k].node
    BY <1>2 DEF Backed
  <2>2. /\ j + 1 \in 3..Len(t) /\ j + 1 \in (i + 1)..Len(t) /\ (j + 1) - 1 = j
    BY <1>1, <1>2, <2>1
  <2>3. t[j + 1] = s[j]
    BY <1>1, <2>2
  <2>4. QED
    BY <1>2, <2>1, <2>2, <2>3
<1>3. ASSUME NEW i \in 1..Len(t), t[i].op \in Drawing
      PROVE  \E j \in (i + 1)..Len(t) : t[j].op = "complete" /\ t[j].node = t[i].node
  <2>1. CASE i = 1 /\ b.op = "complete" /\ b.node = a.node
    <3>1. 2 \in (i + 1)..Len(t)
      BY <1>1, <2>1
    <3>2. QED
      BY <1>1, <2>1, <3>1
  <2>2. CASE i = 1 /\ Head(s).op \in Drawing /\ a.node = Head(s).node
    <3>1. 1 \in 1..Len(s) /\ 1 >= i - 1
      BY <1>1, <2>2
    <3>2. s[1].op \in Drawing /\ s[1].node = t[i].node
      BY <1>1, <2>2
    <3>3. QED
      BY <1>2, <1>3, <3>1, <3>2
  <2>3. CASE i = 2
    <3>1. 1 \in 1..Len(s) /\ 1 >= i - 1
      BY <1>1, <2>3
    <3>2. s[1].op \in Drawing /\ s[1].node = t[i].node
      BY <1>1, <1>3, <2>3
    <3>3. QED
      BY <1>2, <1>3, <3>1, <3>2
  <2>4. CASE i # 1 /\ i # 2
    <3>1. i \in 3..Len(t) /\ i - 1 \in 1..Len(s) /\ i - 1 >= i - 1
      BY <1>1, <2>4
    <3>2. t[i] = s[i - 1]
      BY <1>1, <3>1
    <3>3. QED
      BY <1>2, <1>3, <3>1, <3>2
  <2>5. QED
    BY <1>1, <1>3, <2>1, <2>2, <2>3, <2>4
<1>4. QED
  BY <1>3 DEF Backed

LEMMA BackedMoves ==
  ASSUME CompileInv, Backed(stack), stack # <<>>, NEW a, NEW b
  PROVE  /\ Return => Backed(stack)'
         /\ /\ Then(<<a>>)
            /\ a.op \in Drawing => Top.op \in Drawing /\ a.node = Top.node
            => Backed(stack)'
         /\ /\ Then(<<a, b>>)
            /\ a.op \in Drawing => \/ b.op = "complete" /\ b.node = a.node
                                   \/ Top.op \in Drawing /\ a.node = Top.node
            /\ b.op \in Drawing => Top.op \in Drawing /\ b.node = Top.node
            => Backed(stack)'
<1>1. stack \in Seq(Frame)
  BY DEF CompileInv, NamesInv, IInv, TypeOK
<1>2. Return => Backed(stack')
  BY <1>1, BackedReturn DEF Return
<1>3. ASSUME Then(<<a>>),
             a.op \in Drawing => Top.op \in Drawing /\ a.node = Top.node
      PROVE  Backed(stack')
  BY <1>1, <1>3, BackedOne DEF Then, Top
<1>4. ASSUME Then(<<a, b>>),
             a.op \in Drawing => \/ b.op = "complete" /\ b.node = a.node
                                 \/ Top.op \in Drawing /\ a.node = Top.node,
             b.op \in Drawing => Top.op \in Drawing /\ b.node = Top.node
      PROVE  Backed(stack')
  BY <1>1, <1>4, BackedTwo DEF Then, Top
<1>5. Backed(stack)' <=> Backed(stack')
  BY DEF Backed
<1>6. QED
  BY <1>2, <1>3, <1>4, <1>5

(* While requirements of m are drawn, its flag is due. *)
LEMMA UpdatingIsDue ==
  ASSUME Backed(stack), NEW m, Updating(m)
  PROVE  Due(m)
<1>1. PICK i \in 1..Len(stack) : stack[i].op \in Drawing /\ stack[i].node = m
  BY DEF Updating, Frames, FramesOf, Drawing
<1>2. PICK j \in (i + 1)..Len(stack) : stack[j].op = "complete" /\ stack[j].node = m
  BY <1>1 DEF Backed
<1>3. j \in 1..Len(stack)
  BY <1>1, <1>2
<1>4. QED
  BY <1>2, <1>3 DEF Due, DueBy, Frames, FramesOf

(* A step that leaves the flags as they are: what is left to show is that  *)
(* a flag that gets stale is due. *)
LEMMA FlagsFollow ==
  ASSUME CompileInv, Layered, Flags, stack # <<>>, Backed(stack)',
         NEW N, Frames' = N \cup Lower,
         \A g \in N : g.op = "add" => g.dist = None,
         UNCHANGED complete,
         \A m \in Node : DueBy(Top, m) => Due(m)',
         \A m \in Node : ~Born(m)' => metadata'[m] = None,
         \A m \in Node : metadata[m] # None => metadata'[m] # None \/ Due(m)',
         \A m \in Node : Live(m)' /\ complete[m] /\ ~Due(m)' =>
           Live(m) /\ Asks(m)' \subseteq Asks(m)
  PROVE  Flags'
<1>1. ASSUME NEW m \in Node, Due(m)
      PROVE  Due(m)'
  <2>1. PICK g \in Frames : DueBy(g, m)
    BY <1>1 DEF Due
  <2>2. CASE g = Top
    BY <2>1, <2>2
  <2>3. CASE g # Top
    <3>1. g \in Lower
      BY <2>3, StackMoves
    <3>2. g \in Frames'
      BY <3>1
    <3>3. QED
      BY <2>1, <3>2 DEF Due, DueBy
  <2>4. QED
    BY <2>2, <2>3
<1>2. UnbornUnsolved'
  BY DEF UnbornUnsolved
<1>3. FlaggedSolved'
  BY <1>1 DEF Flags, FlaggedSolved
<1>4. FlaggedAbove'
  <2>1. ASSUME NEW m \in Node, Live(m)', complete[m], ~Due(m)', NEW d \in Asks(m)'
        PROVE  complete[d]
    <3>1. Live(m) /\ ~Due(m) /\ d \in Asks(m)
      BY <1>1, <2>1
    <3>2. QED
      BY <2>1, <3>1 DEF Flags, FlaggedAbove
  <2>2. QED
    BY <2>1 DEF FlaggedAbove
<1>5. \A g \in Frames' : Offered(g)'
  <2>1. \A g \in Lower : g.op # "add"
    BY StackMoves DEF Leaf
  <2>2. QED
    BY <2>1 DEF Offered
<1>6. QED
  BY <1>2, <1>3, <1>4, <1>5 DEF Flags

LEMMA QuietFlags ==
  ASSUME CompileInv, Layered, Flags, stack # <<>>, Backed(stack)',
         UNCHANGED <<nodes, born, metadata, deps, complete>>,
         NEW N, Frames' = N \cup Lower,
         \A g \in N : g.op = "add" => g.dist = None,
         \A m \in Node : DueBy(Top, m) => Due(m)'
  PROVE  Flags'
<1>1. \A m \in Node : /\ Live(m)' = Live(m) /\ Born(m)' = Born(m)
                      /\ Asks(m)' = Asks(m) /\ metadata'[m] = metadata[m]
  BY DEF Live, Born, Asks
<1>2. \A m \in Node : ~Born(m)' => metadata'[m] = None
  BY <1>1 DEF Flags, UnbornUnsolved
<1>3. QED
  BY <1>1, <1>2, FlagsFollow

LEMMA AddDistFlags ==
  ASSUME Acyclic, CompileInv, Layered, Flags, AddDist
  PROVE  Flags'
<1>1. PICK n : n = Target(Top.key)
  OBVIOUS
<1>2. PICK f : f = Top
  OBVIOUS
<1>3. /\ stack # <<>> /\ f.op = "add" /\ n \in Node /\ Caller(f)
      /\ f.source # None => /\ f.source \in Node /\ f.source # n
      /\ nodes[f.key] # None => Live(n) /\ Born(n)
      /\ nodes[f.key] = None => ~Born(n) /\ DOMAIN deps[n] = {}
  BY <1>1, <1>2, AddDistFrame
<1>4. /\ \A x \in Node : Live(x)' <=> x = n \/ Live(x)
      /\ metadata'[n] = Held(f)
      /\ \A x \in Node : x # n => metadata'[x] = metadata[x]
      /\ Live(n) => Held(f) = metadata[n]
      /\ \A x \in Node : x # f.source => deps'[x] = deps[x]
      /\ Linked(f) => deps'[f.source] = Put(deps[f.source], n, f.reason)
      /\ ~Linked(f) => UNCHANGED deps
  BY <1>1, <1>2, AddDistGraph
<1>5. UNCHANGED complete
  BY DEF AddDist
<1>6. \A m : ~DueBy(f, m)
  BY <1>3 DEF DueBy
<1>7. Frames = {f} \cup Lower
  BY <1>2, <1>3, StackMoves
<1>8. PICK a : a = Remove(n, FALSE)
  OBVIOUS
<1>9. PICK b : b = [op |-> "update", node |-> n, dist |-> ToApply(f)]
  OBVIOUS
<1>10. PICK c : c = [op |-> "restore", node |-> n]
  OBVIOUS
<1>11. a.op = "remove" /\ b.op = "update" /\ c.op = "restore"
  BY <1>8, <1>9, <1>10 DEF Remove
<1>12. Then(<<a>>) \/ Then(<<b, c>>) \/ Return
  BY <1>1, <1>2, <1>8, <1>9, <1>10 DEF AddDist
<1>13. /\ Backed(stack)'
       /\ \E N : Frames' = N \cup Lower /\ \A g \in N : g.op # "add"
  <2>1. Backed(stack)
    BY DEF Flags
  <2>2. CASE Then(<<a>>)
    <3>1. PICK N : N = {a}
      OBVIOUS
    <3>2. Backed(stack)' /\ Frames' = N \cup Lower
      BY <1>3, <1>11, <2>1, <2>2, <3>1, BackedMoves, StackMoves DEF Drawing
    <3>3. QED
      BY <1>11, <3>1, <3>2
  <2>3. CASE Then(<<b, c>>)
    <3>1. PICK N : N = {b, c}
      OBVIOUS
    <3>2. Backed(stack)' /\ Frames' = N \cup Lower
      BY <1>3, <1>11, <2>1, <2>3, <3>1, BackedMoves, StackMoves DEF Drawing
    <3>3. QED
      BY <1>11, <3>1, <3>2
  <2>4. CASE Return
    <3>1. PICK N : N = {}
      OBVIOUS
    <3>2. Backed(stack)' /\ Frames' = N \cup Lower
      BY <1>3, <2>1, <2>4, <3>1, BackedMoves, StackMoves
    <3>3. QED
      BY <3>1, <3>2
  <2>5. QED
    BY <1>12, <2>2, <2>3, <2>4
<1>14. PICK N : Frames' = N \cup Lower /\ \A g \in N : g.op # "add"
  BY <1>13
<1>15. ASSUME NEW m, Due(m)
       PROVE  Due(m)'
  BY <1>6, <1>7, <1>14, <1>15 DEF Due, DueBy
<1>16. ASSUME NEW m \in Node, ~Born(m)'
       PROVE  metadata'[m] = None
  <2>1. ~Born(m)
    BY <1>16, BornStays
  <2>2. m # n
    <3>1. n[2] <= born'[KeyOf(n)]
      <4>1. /\ born' = [born EXCEPT ![f.key] = IF nodes[f.key] = None THEN @ + 1 ELSE @]
            /\ n = Target(f.key)
        BY <1>1, <1>2 DEF AddDist, Register
      <4>2. f.key \in Key /\ KeyOf(n) = f.key /\ born \in [Key -> Nat]
        BY <1>1, <1>2, AddDistFrame DEF CompileInv, NamesInv, IInv, TypeOK
      <4>3. CASE nodes[f.key] = None
        BY <4>1, <4>2, <4>3 DEF Target
      <4>4. CASE nodes[f.key] # None
        BY <1>3, <4>1, <4>2, <4>4 DEF Born
      <4>5. QED
        BY <4>3, <4>4
    <3>2. QED
      BY <1>16, <3>1 DEF Born
  <2>3. QED
    BY <1>4, <2>1, <2>2 DEF Flags, UnbornUnsolved
<1>17. ASSUME NEW m \in Node, metadata[m] # None
       PROVE  metadata'[m] # None
  <2>1. Born(m)
    BY <1>17 DEF Flags, UnbornUnsolved
  <2>2. QED
    BY <1>3, <1>4, <1>17, <2>1
<1>18. ASSUME NEW m \in Node, Live(m)', complete[m], ~Due(m)'
       PROVE  Live(m) /\ Asks(m)' \subseteq Asks(m)
  <2>1. ~Due(m)
    BY <1>15, <1>18
  <2>2. metadata[m] # None
    BY <1>18, <2>1 DEF Flags, FlaggedSolved
  <2>3. Born(m)
    BY <2>2 DEF Flags, UnbornUnsolved
  <2>4. Live(m)
    BY <1>3, <1>4, <1>18, <2>3
  <2>5. CASE m # f.source \/ ~Linked(f)
    <3>1. deps'[m] = deps[m]
      BY <1>4, <2>5
    <3>2. QED
      BY <2>4, <3>1 DEF Asks
  <2>6. CASE m = f.source /\ Linked(f)
    <3>1. /\ DOMAIN deps'[m] = DOMAIN deps[m] \cup {n}
          /\ deps'[m][n] = f.reason
          /\ \A x \in DOMAIN deps[m] : x # n => deps'[m][x] = deps[m][x]
      BY <1>4, <2>6 DEF Put
    <3>2. f.reason # None => n \in Asks(m)
      <4>1. CASE f.dist = None
        <5>1. Updating(m)
          BY <1>3, <2>6, <4>1 DEF Caller
        <5>2. QED
          BY <2>1, <5>1, UpdatingIsDue DEF Flags
      <4>2. CASE f.dist # None
        <5>1. Offered(f)
          BY <1>7 DEF Flags
        <5>2. f.source # None
          BY <2>6 DEF Linked
        <5>3. QED
          BY <1>1, <1>2, <1>3, <2>6, <4>2, <5>1, <5>2 DEF Offered
      <4>3. QED
        BY <4>1, <4>2
    <3>3. QED
      BY <2>4, <3>1, <3>2 DEF Asks
  <2>7. QED
    BY <2>4, <2>5, <2>6
<1>19. QED
  BY <1>2, <1>3, <1>5, <1>6, <1>13, <1>14, <1>16, <1>17, <1>18, FlagsFollow

(* _update_dists will end in update_complete. *)
LEMMA UpdateDistsFlags ==
  ASSUME Acyclic, CompileInv, Layered, Flags, UpdateDists, error' = None
  PROVE  Flags'
<1>1. PICK n : n = Top.node
  OBVIOUS
<1>2. PICK a : a = [op |-> "extras", node |-> n, dist |-> Top.dist,
                    todo |-> Extras(n) \cup {None}]
  OBVIOUS
<1>3. PICK b : b = Complete(n)
  OBVIOUS
<1>4. /\ a.op = "extras" /\ a.node = n
      /\ b.op = "complete" /\ b.node = n
  BY <1>2, <1>3 DEF Complete
<1>5. /\ stack # <<>> /\ Top.op = "update" /\ n \in Node /\ Live(n)
      /\ Top.dist \in Dist
  BY <1>1, UpdateDistsLayered
<1>6. Then(<<a, b>>)
  BY <1>1, <1>2, <1>3, NoErrorAssumption DEF UpdateDists, AssertFails, Fail
<1>7. Backed(stack)'
  BY <1>4, <1>5, <1>6, BackedMoves DEF Flags, Drawing
<1>8. PICK N : N = {a, b}
  OBVIOUS
<1>9. Frames' = N \cup Lower
  BY <1>5, <1>6, <1>8, StackMoves
<1>10. \A g \in N : g.op # "add"
  BY <1>4, <1>8
<1>11. \A m : ~DueBy(Top, m)
  BY <1>5 DEF DueBy
<1>12. /\ UNCHANGED <<nodes, born, deps, complete>> /\ metadata'[n] # None
       /\ \A x \in Node : x # n => metadata'[x] = metadata[x]
  BY <1>1, <1>5, NoneAssumption DEF UpdateDists, CompileInv, NamesInv, IInv, TypeOK
<1>13. \A m \in Node : /\ Live(m)' = Live(m) /\ Born(m)' = Born(m)
                       /\ Asks(m)' = Asks(m)
  BY <1>12 DEF Live, Born, Asks
<1>14. \A m \in Node : ~Born(m)' => metadata'[m] = None
  BY <1>5, <1>12, <1>13, LiveIsBorn DEF Flags, UnbornUnsolved
<1>15. \A m \in Node : metadata[m] # None => metadata'[m] # None
  BY <1>12
<1>16. QED
  BY <1>5, <1>7, <1>9, <1>10, <1>11, <1>12, <1>13, <1>14, <1>15, FlagsFollow

LEMMA DrawingFlags ==
  ASSUME Acyclic, CompileInv, Layered, Flags,
         (NextExtra /\ error' = None) \/ LastExtra \/ NextRequirement
  PROVE  Flags'
<1>1. stack # <<>> /\ Top.op \in Drawing /\ Top \in Frame
  <2>1. stack # <<>> /\ Top.op \in Drawing
    BY DEF NextExtra, LastExtra, NextRequirement, InCall, Drawing
  <2>2. QED
    BY <2>1, StackMoves
<1>2. UNCHANGED <<nodes, born, metadata, deps, complete>>
  BY DEF NextExtra, LastExtra, NextRequirement, graph
<1>3. \A m : ~DueBy(Top, m)
  BY <1>1 DEF DueBy, Drawing
<1>4. Backed(stack)
  BY DEF Flags
<1>5. CASE Return
  <2>1. PICK N : N = {}
    OBVIOUS
  <2>2. Backed(stack)' /\ Frames' = N \cup Lower
    BY <1>1, <1>4, <1>5, <2>1, BackedMoves, StackMoves
  <2>3. QED
    BY <1>1, <1>2, <1>3, <2>1, <2>2, QuietFlags
<1>6. ASSUME NEW a, Then(<<a>>), a.op \in Drawing, a.node = Top.node
      PROVE  Flags'
  <2>1. PICK N : N = {a}
    OBVIOUS
  <2>2. \A g \in N : g.op = "add" => g.dist = None
    BY <1>6, <2>1 DEF Drawing
  <2>3. Backed(stack)' /\ Frames' = N \cup Lower
    BY <1>1, <1>4, <1>6, <2>1, BackedMoves, StackMoves
  <2>4. QED
    BY <1>1, <1>2, <1>3, <2>2, <2>3, QuietFlags
<1>7. ASSUME NEW a, NEW b, Then(<<a, b>>), b.op \in Drawing, b.node = Top.node,
             \/ a.op \in Drawing /\ a.node = Top.node
             \/ a.op = "add" /\ a.dist = None
      PROVE  Flags'
  <2>1. PICK N : N = {a, b}
    OBVIOUS
  <2>2. a.op \in Drawing => Top.op \in Drawing /\ a.node = Top.node
    BY <1>1, <1>7 DEF Drawing
  <2>3. \A g \in N : g.op = "add" => g.dist = None
    BY <1>7, <2>1 DEF Drawing
  <2>4. Backed(stack)' /\ Frames' = N \cup Lower
    BY <1>1, <1>4, <1>7, <2>1, <2>2, BackedMoves, StackMoves
  <2>5. QED
    BY <1>1, <1>2, <1>3, <2>3, <2>4, QuietFlags
<1>8. CASE NextExtra /\ error' = None
  <2>1. Top.op = "extras" /\ Top \in ExtrasFrame
    BY <1>1, <1>8, FrameKinds DEF NextExtra, InCall
  <2>2. PICK e \in Top.todo :
          \/ Then(<<[Top EXCEPT !.todo = @ \ {e}]>>)
          \/ Then(<<[op |-> "requires", node |-> Top.node,
                     todo |-> Top.dist.requires[e]],
                    [Top EXCEPT !.todo = @ \ {e}]>>)
    BY <1>8, NoErrorAssumption DEF NextExtra, AssertFails, Fail
  <2>3. PICK a : a = [op |-> "requires", node |-> Top.node,
                      todo |-> Top.dist.requires[e]]
    OBVIOUS
  <2>4. PICK b : b = [Top EXCEPT !.todo = @ \ {e}]
    OBVIOUS
  <2>5. /\ a.op = "requires" /\ a.node = Top.node
        /\ b.op = "extras" /\ b.node = Top.node
    BY <2>1, <2>3, <2>4 DEF ExtrasFrame
  <2>6. Then(<<b>>) \/ Then(<<a, b>>)
    BY <2>2, <2>3, <2>4
  <2>7. QED
    BY <1>6, <1>7, <2>5, <2>6 DEF Drawing
<1>9. CASE NextRequirement /\ ~Return
  <2>1. Top.op = "requires" /\ Top \in RequiresFrame
    BY <1>1, <1>9, FrameKinds DEF NextRequirement, InCall
  <2>2. PICK q : q = Head(Top.todo)
    OBVIOUS
  <2>3. PICK a : a = Add(q.name, None, Top.node, q)
    OBVIOUS
  <2>4. PICK b : b = [Top EXCEPT !.todo = Tail(@)]
    OBVIOUS
  <2>5. /\ a.op = "add" /\ a.dist = None
        /\ b.op = "requires" /\ b.node = Top.node
    BY <2>1, <2>3, <2>4 DEF RequiresFrame, Add
  <2>6. Then(<<a, b>>)
    BY <1>9, <2>2, <2>3, <2>4 DEF NextRequirement
  <2>7. QED
    BY <1>7, <2>5, <2>6 DEF Drawing
<1>10. CASE LastExtra
  BY <1>5, <1>10 DEF LastExtra
<1>11. QED
  BY <1>5, <1>8, <1>9, <1>10

(* update_complete: the flag tells the truth about the node, and whoever   *)
(* asks for it will be told. *)
LEMMA UpdateCompleteFlags ==
  ASSUME Acyclic, CompileInv, Going, Flags, UpdateComplete
  PROVE  Flags'
<1>1. PICK n : n = Top.node
  OBVIOUS
<1>2. Layered /\ BothSides
  BY DEF Going, Fitting
<1>3. stack # <<>> /\ Top.op = "complete" /\ n \in Node
  <2>1. stack # <<>> /\ Top.op = "complete"
    BY DEF UpdateComplete, InCall
  <2>2. QED
    BY <1>1, <1>2, <2>1, StackMoves, FrameKinds DEF CompleteFrame
<1>4. /\ complete' = [complete EXCEPT ![n] = NowComplete(n)]
      /\ UNCHANGED <<nodes, born, metadata, deps, rdeps, error>>
  BY <1>1 DEF UpdateComplete
<1>5. /\ complete'[n] = NowComplete(n)
      /\ \A m \in Node : m # n => complete'[m] = complete[m]
  BY <1>3, <1>4 DEF CompileInv, NamesInv, IInv, TypeOK
<1>6. \A m \in Node : /\ Live(m)' = Live(m) /\ Born(m)' = Born(m)
                      /\ Asks(m)' = Asks(m) /\ metadata'[m] = metadata[m]
                      /\ Asks(m) \subseteq DOMAIN deps[m]
                      /\ DOMAIN deps[m] \subseteq Node
  BY <1>4 DEF Live, Born, Asks, CompileInv, NamesInv, IInv, TypeOK, IsDependencies
<1>7. /\ Frames = {Top} \cup Lower
      /\ \A g \in Lower : g.op \notin Leaf /\ Placed(g)
  BY <1>2, <1>3, StackMoves
<1>8. PICK a : a = [op |-> "completes", todo |-> rdeps[n]]
  OBVIOUS
<1>9. a.op = "completes" /\ a.todo = rdeps[n]
  BY <1>8
<1>10. /\ complete[n] = NowComplete(n) => Return
       /\ complete[n] # NowComplete(n) => Then(<<a>>)
  BY <1>1, <1>8 DEF UpdateComplete
<1>11. /\ Backed(stack)' /\ Lower \subseteq Frames'
       /\ \A g \in Frames' : g = a \/ g \in Lower
       /\ complete[n] # NowComplete(n) => a \in Frames'
  <2>1. CASE complete[n] = NowComplete(n)
    BY <1>2, <1>3, <1>10, <2>1, BackedMoves, StackMoves DEF Flags
  <2>2. CASE complete[n] # NowComplete(n)
    <3>1. a.op \notin Drawing
      BY <1>9 DEF Drawing
    <3>2. Frames' = {a} \cup Lower
      BY <1>2, <1>3, <1>10, <2>2, StackMoves
    <3>3. Backed(stack)'
      BY <1>2, <1>3, <1>10, <2>2, <3>1, BackedMoves DEF Flags
    <3>4. QED
      BY <3>2, <3>3
  <2>3. QED
    BY <2>1, <2>2
<1>12. ASSUME NEW m, m # n, Due(m)
       PROVE  Due(m)'
  <2>1. PICK g \in Frames : DueBy(g, m)
    BY <1>12 DEF Due
  <2>2. g \in Lower
    BY <1>1, <1>3, <1>7, <1>12, <2>1 DEF DueBy
  <2>3. QED
    BY <1>11, <2>1, <2>2 DEF Due, DueBy
<1>13. UnbornUnsolved'
  BY <1>6 DEF Flags, UnbornUnsolved
<1>14. FlaggedSolved'
  <2>1. ASSUME NEW m \in Node, complete'[m]
        PROVE  metadata'[m] # None \/ Due(m)'
    <3>1. CASE m = n
      BY <1>5, <1>6, <2>1, <3>1 DEF NowComplete
    <3>2. CASE m # n
      BY <1>5, <1>6, <1>12, <2>1, <3>2 DEF Flags, FlaggedSolved
    <3>3. QED
      BY <3>1, <3>2
  <2>2. QED
    BY <2>1 DEF FlaggedSolved
<1>15. ASSUME NEW m \in Node, Live(m), complete'[m], ~Due(m)', NEW d \in Asks(m)
       PROVE  complete'[d]
  <2>1. CASE m = n
    <3>1. NowComplete(n)
      BY <1>5, <1>15, <2>1
    <3>2. complete[d] /\ d # n /\ d \in Node
      BY <1>2, <1>6, <1>15, <2>1, <3>1, CompleteNeedsAll
    <3>3. QED
      BY <1>5, <3>2
  <2>2. CASE m # n
    <3>1. complete[m] /\ ~Due(m)
      BY <1>5, <1>12, <1>15, <2>2
    <3>2. complete[d] /\ d \in Node
      BY <1>6, <1>15, <3>1 DEF Flags, FlaggedAbove
    <3>3. CASE d # n
      BY <1>5, <3>2, <3>3
    <3>4. CASE d = n /\ NowComplete(n)
      BY <1>5, <3>4
    <3>5. CASE d = n /\ ~NowComplete(n)
      <4>1. a \in Frames'
        BY <1>11, <3>2, <3>5
      <4>2. m \notin rdeps[n]
        BY <1>9, <1>15, <4>1 DEF Due, DueBy
      <4>3. PICK g \in Frames : g.op = "drop" /\ g.node = m
        BY <1>2, <1>6, <1>15, <3>5, <4>2 DEF BothSides, Dropped
      <4>4. g \in Lower
        BY <1>3, <1>7, <4>3
      <4>5. ~g.upstream
        BY <1>7, <1>15, <4>3, <4>4 DEF Placed
      <4>6. Due(m)'
        BY <1>11, <4>3, <4>4, <4>5 DEF Due, DueBy
      <4>7. QED
        BY <1>15, <4>6
    <3>6. QED
      BY <3>3, <3>4, <3>5
  <2>3. QED
    BY <2>1, <2>2
<1>16. FlaggedAbove'
  BY <1>6, <1>15 DEF FlaggedAbove
<1>17. \A g \in Frames' : Offered(g)'
  <2>1. \A g \in Frames' : g.op # "add"
    BY <1>7, <1>9, <1>11 DEF Leaf
  <2>2. QED
    BY <2>1 DEF Offered
<1>18. QED
  BY <1>11, <1>13, <1>14, <1>16, <1>17 DEF Flags

LEMMA WaitingFlags ==
  ASSUME Acyclic, CompileInv, Layered, Flags,
         CompleteNext \/ AlreadyRemoved \/ Restore \/ DropDep
  PROVE  Flags'
<1>1. /\ stack # <<>>
      /\ Top.op = IF CompleteNext THEN "completes" ELSE IF AlreadyRemoved THEN "remove"
                  ELSE IF Restore THEN "restore" ELSE "drop"
  BY DEF CompleteNext, AlreadyRemoved, Restore, DropDep, InCall
<1>2. Top \in Frame /\ Backed(stack)
  BY <1>1, StackMoves DEF Flags
<1>3. UNCHANGED <<nodes, born, metadata, deps, complete>>
  <2>1. CASE Restore
    BY <2>1, RestoreLayered DEF Restore
  <2>2. CASE CompleteNext \/ AlreadyRemoved \/ DropDep
    BY <2>2 DEF CompleteNext, AlreadyRemoved, DropDep, graph
  <2>3. QED
    BY <2>1, <2>2
<1>4. ASSUME Return, \A m \in Node : ~DueBy(Top, m)
      PROVE  Flags'
  <2>1. PICK N : N = {}
    OBVIOUS
  <2>2. Backed(stack)' /\ Frames' = N \cup Lower
    BY <1>1, <1>2, <1>4, <2>1, BackedMoves, StackMoves
  <2>3. QED
    BY <1>1, <1>3, <1>4, <2>1, <2>2, QuietFlags
<1>5. ASSUME NEW a, a.op \notin Drawing \cup {"add"}, Then(<<a>>),
             \A m \in Node : DueBy(Top, m) => DueBy(a, m)
      PROVE  Flags'
  <2>1. PICK N : N = {a}
    OBVIOUS
  <2>2. Backed(stack)' /\ Frames' = N \cup Lower
    BY <1>1, <1>2, <1>5, <2>1, BackedMoves, StackMoves
  <2>3. \A m \in Node : DueBy(Top, m) => Due(m)'
    BY <1>5, <2>1, <2>2 DEF Due, DueBy
  <2>4. \A g \in N : g.op = "add" => g.dist = None
    BY <1>5, <2>1
  <2>5. QED
    BY <1>1, <1>3, <2>2, <2>3, <2>4, QuietFlags
<1>6. ASSUME NEW a, NEW b, a.op \notin Drawing \cup {"add"},
             b.op \notin Drawing \cup {"add"}, Then(<<a, b>>),
             \A m \in Node : DueBy(Top, m) => DueBy(a, m) \/ DueBy(b, m)
      PROVE  Flags'
  <2>1. PICK N : N = {a, b}
    OBVIOUS
  <2>2. Backed(stack)' /\ Frames' = N \cup Lower
    BY <1>1, <1>2, <1>6, <2>1, BackedMoves, StackMoves
  <2>3. \A m \in Node : DueBy(Top, m) => Due(m)'
    BY <1>6, <2>1, <2>2 DEF Due, DueBy
  <2>4. \A g \in N : g.op = "add" => g.dist = None
    BY <1>6, <2>1
  <2>5. QED
    BY <1>1, <1>3, <2>2, <2>3, <2>4, QuietFlags
<1>7. CASE AlreadyRemoved \/ Restore
  <2>1. Return /\ Top.op \in {"remove", "restore"}
    BY <1>7 DEF AlreadyRemoved, Restore, InCall
  <2>2. QED
    BY <1>4, <2>1 DEF DueBy
<1>8. CASE CompleteNext
  <2>1. Top.op = "completes" /\ Top \in CompletesFrame
    BY <1>2, <1>8, FrameKinds DEF CompleteNext, InCall
  <2>2. CASE Top.todo = {} /\ Return
    BY <1>4, <2>1, <2>2 DEF DueBy
  <2>3. CASE ~(Top.todo = {} /\ Return)
    <3>1. PICK n \in Top.todo : Then(<<Complete(n), [Top EXCEPT !.todo = @ \ {n}]>>)
      BY <1>8, <2>3 DEF CompleteNext
    <3>2. PICK a : a = Complete(n)
      OBVIOUS
    <3>3. PICK b : b = [Top EXCEPT !.todo = @ \ {n}]
      OBVIOUS
    <3>4. /\ a.op = "complete" /\ a.node = n
          /\ b.op = "completes" /\ b.todo = Top.todo \ {n}
      BY <2>1, <3>2, <3>3 DEF Complete, CompletesFrame
    <3>5. Then(<<a, b>>)
      BY <3>1, <3>2, <3>3
    <3>6. \A m \in Node : DueBy(Top, m) => DueBy(a, m) \/ DueBy(b, m)
      BY <2>1, <3>4 DEF DueBy
    <3>7. QED
      BY <1>6, <3>4, <3>5, <3>6 DEF Drawing
  <2>4. QED
    BY <2>2, <2>3
<1>9. CASE DropDep
  <2>1. Top.op = "drop" /\ Top \in DropFrame
    BY <1>2, <1>9, FrameKinds DEF DropDep, InCall
  <2>2. PICK d \in Top.todo :
          \/ Then(<<Remove(d, TRUE), [Top EXCEPT !.todo = @ \ {d}]>>)
          \/ Then(<<[Top EXCEPT !.todo = @ \ {d}]>>)
    BY <1>9 DEF DropDep
  <2>3. PICK a : a = Remove(d, TRUE)
    OBVIOUS
  <2>4. PICK b : b = [Top EXCEPT !.todo = @ \ {d}]
    OBVIOUS
  <2>5. /\ a.op = "remove" /\ b.op = "drop"
        /\ b.node = Top.node /\ b.upstream = Top.upstream
    BY <2>1, <2>3, <2>4 DEF Remove, DropFrame
  <2>6. Then(<<a, b>>) \/ Then(<<b>>)
    BY <2>2, <2>3, <2>4
  <2>7. \A m \in Node : DueBy(Top, m) => DueBy(b, m)
    BY <2>1, <2>5 DEF DueBy
  <2>8. a.op \notin Drawing \cup {"add"} /\ b.op \notin Drawing \cup {"add"}
    BY <2>5 DEF Drawing
  <2>9. QED
    BY <1>5, <1>6, <2>6, <2>7, <2>8
<1>10. QED
  BY <1>7, <1>8, <1>9

LEMMA RemoveDistsFlags ==
  ASSUME Acyclic, CompileInv, Layered, Flags, RemoveDists
  PROVE  Flags'
<1>1. PICK f : f = Top
  OBVIOUS
<1>2. PICK n : n = f.node
  OBVIOUS
<1>3. /\ stack # <<>> /\ f.op = "remove"
      /\ \A x \in Node : deps'[x] = deps[x]
      /\ \A x \in Node : Live(x)' => Live(x)
  BY <1>1, <1>2, RemoveDistsLayered
<1>4. PICK a : a = [op |-> "drop", node |-> n, todo |-> DOMAIN deps'[n],
                    upstream |-> f.upstream]
  OBVIOUS
<1>5. a.op = "drop" /\ Then(<<a>>)
  BY <1>1, <1>2, <1>4 DEF RemoveDists
<1>6. PICK N : N = {a}
  OBVIOUS
<1>7. Backed(stack)' /\ Frames' = N \cup Lower
  BY <1>3, <1>5, <1>6, BackedMoves, StackMoves DEF Flags, Drawing
<1>8. \A g \in N : g.op # "add"
  BY <1>5, <1>6
<1>9. \A m : ~DueBy(Top, m)
  BY <1>1, <1>3 DEF DueBy
<1>10. UNCHANGED <<born, metadata, complete>>
  BY DEF RemoveDists
<1>11. \A m \in Node : ~Born(m)' => metadata'[m] = None
  BY <1>10 DEF Flags, UnbornUnsolved, Born
<1>12. \A m \in Node : Asks(m)' \subseteq Asks(m)
  BY <1>3 DEF Asks
<1>13. QED
  BY <1>3, <1>7, <1>8, <1>9, <1>10, <1>11, <1>12, FlagsFollow

LEMMA UnsolveFlags ==
  ASSUME Acyclic, CompileInv, Layered, Flags, Unsolve
  PROVE  Flags'
<1>1. PICK f : f = Top
  OBVIOUS
<1>2. PICK n : n = f.node
  OBVIOUS
<1>3. /\ stack # <<>> /\ f.op = "drop" /\ n \in Node
      /\ UNCHANGED <<nodes, born, rdeps>>
      /\ \A x \in Node : x # n => deps'[x] = deps[x] /\ metadata'[x] = metadata[x]
  BY <1>1, <1>2, UnsolveLayered
<1>4. Backed(stack) /\ UNCHANGED complete
  BY DEF Flags, Unsolve
<1>5. CASE f.upstream
  <2>1. Return /\ UNCHANGED <<deps, metadata>>
    BY <1>1, <1>5 DEF Unsolve
  <2>2. PICK N : N = {}
    OBVIOUS
  <2>3. Backed(stack)' /\ Frames' = N \cup Lower
    BY <1>3, <1>4, <2>1, <2>2, BackedMoves, StackMoves
  <2>4. \A m : ~DueBy(Top, m)
    BY <1>1, <1>3, <1>5 DEF DueBy
  <2>5. QED
    BY <1>3, <1>4, <2>1, <2>2, <2>3, <2>4, QuietFlags
<1>6. CASE ~f.upstream
  <2>1. PICK a : a = Complete(n)
    OBVIOUS
  <2>2. a.op = "complete" /\ a.node = n
    BY <2>1 DEF Complete
  <2>3. Then(<<a>>) /\ metadata' = [metadata EXCEPT ![n] = None]
    BY <1>1, <1>2, <1>6, <2>1 DEF Unsolve
  <2>4. PICK N : N = {a}
    OBVIOUS
  <2>5. Backed(stack)' /\ Frames' = N \cup Lower
    BY <1>3, <1>4, <2>2, <2>3, <2>4, BackedMoves, StackMoves DEF Drawing
  <2>6. Due(n)'
    BY <2>2, <2>4, <2>5 DEF Due, DueBy
  <2>7. \A m : DueBy(Top, m) => Due(m)'
    BY <1>1, <1>2, <1>3, <2>6 DEF DueBy
  <2>8. \A m \in Node : Live(m)' = Live(m) /\ Born(m)' = Born(m)
    BY <1>3 DEF Live, Born
  <2>9. metadata'[n] = None
    BY <1>3, <2>3 DEF CompileInv, NamesInv, IInv, TypeOK
  <2>10. \A m \in Node : ~Born(m)' => metadata'[m] = None
    BY <1>3, <2>8, <2>9 DEF Flags, UnbornUnsolved
  <2>11. \A m \in Node : metadata[m] # None => metadata'[m] # None \/ Due(m)'
    BY <1>3, <2>6
  <2>12. ASSUME NEW m \in Node, Live(m)', ~Due(m)'
         PROVE  Live(m) /\ Asks(m)' \subseteq Asks(m)
    <3>1. deps'[m] = deps[m]
      BY <1>3, <2>6, <2>12
    <3>2. QED
      BY <2>8, <2>12, <3>1 DEF Asks
  <2>13. \A g \in N : g.op # "add"
    BY <2>2, <2>4
  <2>14. QED
    BY <1>3, <1>4, <2>5, <2>7, <2>10, <2>11, <2>12, <2>13, FlagsFollow
<1>7. QED
  BY <1>5, <1>6

LEMMA GraphFlags ==
  ASSUME Acyclic, CompileInv, Going, Flags, GraphStep, UNCHANGED compileVars
  PROVE  FlagsInv'
<1>1. CASE error' # None
  BY <1>1 DEF FlagsInv, Off
<1>2. CASE error' = None
  <2>1. ~TooManyFrames /\ ~AddAssertFails
    BY <1>2, NoErrorAssumption DEF TooManyFrames, AddAssertFails, AssertFails, Fail
  <2>2. Layered
    BY DEF Going
  <2>3. Flags'
    BY <1>2, <2>1, <2>2, AddDistFlags, UpdateDistsFlags, DrawingFlags,
       UpdateCompleteFlags, WaitingFlags, RemoveDistsFlags, UnsolveFlags DEF GraphStep
  <2>4. QED
    BY <2>3 DEF FlagsInv
<1>3. QED
  BY <1>1, <1>2

(* The resolver reads the flags and calls the graph between two updates. *)
LEMMA FlagsStay ==
  ASSUME Flags, UNCHANGED vars
  PROVE  Flags'
<1>1. UNCHANGED <<nodes, born, metadata, deps, rdeps, complete, stack>>
  BY DEF vars, graph
<1>2. Frames' = Frames
  BY <1>1 DEF Frames
<1>3. \A m : /\ Live(m)' = Live(m) /\ Born(m)' = Born(m)
             /\ Asks(m)' = Asks(m) /\ Due(m)' = Due(m)
  BY <1>1, <1>2 DEF Live, Born, Asks, Due
<1>4. UnbornUnsolved' /\ FlaggedSolved' /\ FlaggedAbove'
  BY <1>1, <1>3 DEF Flags, UnbornUnsolved, FlaggedSolved, FlaggedAbove
<1>5. Backed(stack)'
  BY <1>1 DEF Flags, Backed
<1>6. ASSUME NEW g \in Frames PROVE Offered(g)'
  <2>1. Offered(g) /\ Target(g.key)' = Target(g.key)
    BY <1>1 DEF Flags, Target
  <2>2. QED
    BY <1>3, <2>1 DEF Offered
<1>7. QED
  BY <1>2, <1>4, <1>5, <1>6 DEF Flags

LEMMA CallFlags ==
  ASSUME Flags, Idle, NEW f, Call(f), f.op \notin Drawing, Offered(f)
  PROVE  Flags'
<1>1. /\ stack = <<>> /\ stack' = <<f>>
      /\ UNCHANGED <<nodes, born, metadata, deps, rdeps, complete>>
  BY DEF Idle, Call, graph
<1>2. Frames = {}
  <2>1. Len(stack) = 0
    BY <1>1
  <2>2. QED
    BY <2>1 DEF Frames, FramesOf
<1>3. Len(stack') = 1 /\ stack'[1] = f
  BY <1>1
<1>4. \A g \in Frames' : g = f
  BY <1>3 DEF Frames, FramesOf
<1>5. \A m : ~Due(m)
  BY <1>2 DEF Due
<1>6. \A m : Live(m)' = Live(m) /\ Born(m)' = Born(m) /\ Asks(m)' = Asks(m)
  BY <1>1 DEF Live, Born, Asks
<1>7. UnbornUnsolved' /\ FlaggedSolved' /\ FlaggedAbove'
  BY <1>1, <1>5, <1>6 DEF Flags, UnbornUnsolved, FlaggedSolved, FlaggedAbove
<1>8. Backed(stack)'
  <2>1. \A i \in 1..Len(stack') : stack'[i].op \notin Drawing
    BY <1>3
  <2>2. QED
    BY <2>1 DEF Backed
<1>9. Offered(f)'
  <2>1. Target(f.key)' = Target(f.key)
    BY <1>1 DEF Target
  <2>2. QED
    BY <1>6, <2>1 DEF Offered
<1>10. QED
  BY <1>4, <1>7, <1>8, <1>9 DEF Flags

LEMMA SourcelessFlags ==
  ASSUME Flags, Idle, NEW k, NEW d, CallAdd(k, d, None, None)
  PROVE  Flags'
<1>1. PICK f : f = Add(k, d, None, None)
  OBVIOUS
<1>2. f.op = "add" /\ f.source = None /\ Call(f)
  BY <1>1 DEF Add, CallAdd
<1>3. QED
  BY <1>2, CallFlags DEF Offered, Drawing

LEMMA RemovingFlags ==
  ASSUME Flags, Idle, NEW n, CallRemove(n)
  PROVE  Flags'
<1>1. PICK f : f = Remove(n, FALSE)
  OBVIOUS
<1>2. f.op = "remove" /\ Call(f)
  BY <1>1 DEF Remove, CallRemove
<1>3. QED
  BY <1>2, CallFlags DEF Offered, Drawing

(* The reason that comes with a candidate is that of an edge. *)
LEMMA AcquireFlags ==
  ASSUME CompileInv, Flags, Acquire
  PROVE  Flags'
<1>1. PICK c : c = CTop
  OBVIOUS
<1>2. Idle /\ Live(c.node) /\ c \in CompileCall
  BY <1>1, CompileCallSound DEF Acquire, Unsolved, ToProcess, Entered, Running
<1>3. PICK n \in Node : n = c.node
  BY <1>2 DEF CompileCall
<1>4. Live(n) /\ Target(KeyOf(n)) = n
  BY <1>2, <1>3, NoNodeAssumption DEF Live, Target
<1>5. PICK d : CallAdd(KeyOf(n), d, c.source, Reason(n, c.source, d))
  BY <1>1, <1>3 DEF Acquire
<1>6. PICK f : f = Add(KeyOf(n), d, c.source, Reason(n, c.source, d))
  OBVIOUS
<1>7. /\ f.op = "add" /\ f.key = KeyOf(n) /\ f.source = c.source
      /\ f.reason = Reason(n, c.source, d) /\ Call(f)
  BY <1>5, <1>6 DEF Add, CallAdd
<1>8. ASSUME f.reason # None
      PROVE  n \in Asks(c.source)
  BY <1>7, <1>8 DEF Reason, Asks
<1>9. Offered(f)
  BY <1>4, <1>7, <1>8 DEF Offered
<1>10. QED
  BY <1>2, <1>7, <1>9, CallFlags DEF Drawing

LEMMA ResolverFlags ==
  ASSUME CompileInv, Flags, CompileStep
  PROVE  FlagsInv'
<1>1. CASE GraphFailed
  BY <1>1, FailureEnds DEF FlagsInv
<1>2. CASE \/ TooDeep \/ CompileAssertFails \/ GiveUp \/ NoCandidate
           \/ RepositoryError \/ CircularDependency
  BY <1>2, RaisingEnds DEF FlagsInv
<1>3. CASE AddRoot
  <2>1. Idle /\ (Quiet \/ \E d : CallAdd(d.name, d, None, None))
    BY <1>3 DEF AddRoot, Running
  <2>2. QED
    BY <2>1, FlagsStay, SourcelessFlags DEF Quiet, FlagsInv
<1>4. CASE AddConstraints
  <2>1. Idle /\ (Quiet \/ \E d : CallAdd(d.name, d, None, None))
    BY <1>4 DEF AddConstraints, Running
  <2>2. QED
    BY <2>1, FlagsStay, SourcelessFlags DEF Quiet, FlagsInv
<1>5. CASE Block
  <2>1. Idle /\ \E d : CallAdd(d.name, d, None, None)
    BY <1>5 DEF Block, Running
  <2>2. QED
    BY <2>1, SourcelessFlags DEF FlagsInv
<1>6. CASE WalkBack
  <2>1. Idle /\ \E n : CallRemove(n)
    BY <1>6 DEF WalkBack, Impossible, Unsolved, ToProcess, Entered, Running
  <2>2. QED
    BY <2>1, RemovingFlags DEF FlagsInv
<1>7. CASE Unblock
  <2>1. Idle /\ \E n : CallRemove(n)
    BY <1>7 DEF Unblock, Running
  <2>2. QED
    BY <2>1, RemovingFlags DEF FlagsInv
<1>8. CASE Acquire
  BY <1>8, AcquireFlags DEF FlagsInv
<1>9. CASE \/ Round \/ NextRoot \/ Unwind \/ NoNeed \/ AlreadySolved
           \/ Retry \/ EnterDeps \/ NextDep
  <2>1. UNCHANGED vars
    BY <1>9 DEF Round, NextRoot, Unwind, NoNeed, AlreadySolved, Retry, EnterDeps,
       NextDep, Quiet
  <2>2. QED
    BY <2>1, FlagsStay DEF FlagsInv
<1>10. QED
  BY <1>1, <1>2, <1>3, <1>4, <1>5, <1>6, <1>7, <1>8, <1>9 DEF CompileStep

LEMMA FlagsKeep ==
  ASSUME Acyclic, CompileInv, AcyclicInv, FlagsInv, [CNext]_allVars
  PROVE  FlagsInv'
<1>1. CASE Off
  BY <1>1, OffStays DEF FlagsInv
<1>2. CASE ~Off
  <2>1. Going /\ Flags
    BY <1>2 DEF AcyclicInv, FlagsInv
  <2>2. CASE GraphStep /\ UNCHANGED compileVars
    BY <2>1, <2>2, GraphFlags
  <2>3. CASE Done \/ UNCHANGED allVars
    BY <2>1, <2>3, FlagsStay DEF Done, allVars, FlagsInv
  <2>4. CASE CompileStep
    BY <2>1, <2>4, ResolverFlags
  <2>5. QED
    BY <2>2, <2>3, <2>4 DEF CNext
<1>3. QED
  BY <1>1, <1>2

LEMMA FlagsStart ==
  ASSUME CInit
  PROVE  Flags
<1>1. /\ nodes = [k \in Key |-> None] /\ metadata = [n \in Node |-> None]
      /\ complete = [n \in Node |-> FALSE] /\ stack = <<>>
  BY DEF CInit, Init
<1>2. Len(stack) = 0
  BY <1>1
<1>3. QED
  BY <1>1, <1>2 DEF Flags, UnbornUnsolved, FlaggedSolved, FlaggedAbove, Backed,
     Frames, FramesOf

(* On an acyclic index the flag that stops the main loop is right: as long *)
(* as the resolution goes on and in its result, no registered node carries *)
(* it while something it asks for is unsolved or does not carry it         *)
(* (dists.py:38, 106), although one call of add_dist or remove_dists       *)
(* changes the flags of many nodes one after the other.                    *)
THEOREM CompletionIsTrue ==
  ASSUME Acyclic, InputsApart
  PROVE  CSpec => [](outcome \in {"running", "solved"} => CompleteMeansSolved)
<1>1. CInit => FlagsInv
  BY FlagsStart DEF FlagsInv
<1>2. CompileInv /\ AcyclicInv /\ FlagsInv /\ [CNext]_allVars => FlagsInv'
  BY FlagsKeep
<1>3. ASSUME CompileInv, FlagsInv, outcome \in {"running", "solved"}, Idle,
             NEW n \in LiveSolved, complete[n], NEW d \in Asks(n)
      PROVE  metadata[d] # None /\ complete[d]
  <2>1. Flags
    BY <1>3 DEF FlagsInv, Off, Idle
  <2>2. Len(stack) = 0
    BY <1>3 DEF Idle
  <2>3. \A m : ~Due(m)
    BY <2>2 DEF Due, Frames, FramesOf
  <2>4. n \in Node /\ Live(n) /\ d \in Node
    BY <1>3 DEF LiveSolved, Asks, CompileInv, NamesInv, IInv, TypeOK, IsDependencies
  <2>5. complete[d]
    BY <1>3, <2>1, <2>3, <2>4 DEF Flags, FlaggedAbove
  <2>6. metadata[d] # None
    BY <2>1, <2>3, <2>4, <2>5 DEF Flags, FlaggedSolved
  <2>7. QED
    BY <2>5, <2>6
<1>4. CompileInv /\ FlagsInv =>
        (outcome \in {"running", "solved"} => CompleteMeansSolved)
  BY <1>3 DEF CompleteMeansSolved
<1>5. QED
  BY <1>1, <1>2, <1>4, AcyclicInvariant, CompileInvariant, PTL DEF CSpec

-----------------------------------------------------------------------------
(* The reasons on the edges *)

(* A do-not-use entry of one name always holds the same requirement        *)
(* (compile.py:210). *)
EntriesApart ==
  \A c, d \in Dist : c.name \in EntryKey /\ d.name = c.name => d = c
(* The inputs of one call have names of their own, and what joins the      *)
(* results at the end is no project. *)
InputsDistinct ==
  \A in \in Inputs :
    /\ \A c, d \in InputDists(in) : c.name = d.name => c = d
    /\ \A i \in DOMAIN in.constraints : in.constraints[i].name \notin Project

(* While the roots are added everything is an input, and so is always      *)
(* what is neither a project nor an entry. *)
Starting == \E f \in CallSet : f.op = "start"
FromInputs(d) ==
  Starting \/ d.name \notin Project \cup EntryKey => d \in InputDists(input)
(* The roots are added first, and files join the results last. *)
JoinsFile(f) == f.op = "constrain" =>
                  \A i \in DOMAIN f.todo : f.todo[i].name \notin Project
CallsInOrder == /\ \A f \in LowerOf(calls) : f.op # "start"
                /\ \A f \in CallSet : JoinsFile(f)

(* The distribution of n requires of k what the reason says. *)
Reasoned(n, k, why) ==
  /\ metadata[n] # None
  /\ \E r \in Own(n) : /\ r.name = k /\ r.spec = why.spec
                       /\ r.extras \subseteq why.extras
(* A distribution is applied to a node without one, or once more. *)
Prepared(f) ==
  /\ f.op = "update" => metadata[f.node] \in {None, f.dist} /\ FromInputs(f.dist)
  /\ f.op = "add" /\ f.dist # None =>
       /\ nodes[f.key] # None => metadata[nodes[f.key]] \in {None, f.dist}
       /\ FromInputs(f.dist)
       /\ f.source # None /\ f.reason # None => Reasoned(f.source, f.key, f.reason)

EdgesReasoned ==
  \A n \in Node : \A d \in Asks(n) : Reasoned(n, KeyOf(d), deps[n][d])
HeldFromInputs == \A n \in Node : metadata[n] # None => FromInputs(metadata[n])
Reasons == /\ EdgesReasoned /\ HeldFromInputs /\ CallsInOrder
           /\ \A f \in Frames : Prepared(f)
ReasonsInv == Off \/ Reasons

LEMMA OwnIsOwn ==
  ASSUME CompileInv, NEW m \in Node, NEW r, OwnReq(m, r)
  PROVE  metadata[m] # None /\ r \in Own(m)
<1>1. PICK e \in Extra \cup {None} : r \in Reqs(metadata[m], e)
  BY DEF OwnReq
<1>2. metadata[m] \in Dist /\ metadata[m] # None
  BY DEF OwnReq, CompileInv, NamesInv, IInv, TypeOK
<1>3. PICK q \in [Extra \cup {None} -> Seq(Req)] : q = metadata[m].requires
  BY <1>2, DistAssumption DEF Container
<1>4. PICK i \in DOMAIN q[e] : r = q[e][i]
  BY <1>1, <1>3 DEF Reqs
<1>5. e \in DOMAIN q
  BY <1>3
<1>6. Own(m) = UNION {{q[x][j] : j \in DOMAIN q[x]} : x \in DOMAIN q}
  BY <1>3 DEF Own
<1>7. r \in Own(m)
  BY <1>4, <1>5, <1>6
<1>8. QED
  BY <1>2, <1>7

(* A node keeps its distribution, and with it what it requires. *)
LEMMA ReasonStays ==
  ASSUME NEW n, metadata'[n] = metadata[n]
  PROVE  \A k, why : Reasoned(n, k, why) => Reasoned(n, k, why)'
<1>1. PICK S : S = Own(n)
  OBVIOUS
<1>2. Own(n)' = S
  BY <1>1 DEF Own
<1>3. QED
  BY <1>1, <1>2 DEF Reasoned

LEMMA InputsRemain ==
  ASSUME UNCHANGED input, Starting' => Starting
  PROVE  \A d : FromInputs(d) => FromInputs(d)'
  BY DEF FromInputs, InputDists

(* A step of the graph. *)
LEMMA ReasonsFollow ==
  ASSUME CompileInv, Layered, Reasons, stack # <<>>, UNCHANGED compileVars,
         EdgesReasoned', NEW N, Frames' = N \cup Lower,
         \A g \in N : Prepared(g)',
         \A n \in Node : metadata'[n] # None =>
           metadata'[n] = metadata[n] \/ FromInputs(metadata'[n])
  PROVE  Reasons'
<1>1. UNCHANGED <<input, calls>> /\ CallSet' = CallSet /\ LowerOf(calls)' = LowerOf(calls)
  BY DEF compileVars, CallSet
<1>2. Starting' = Starting
  BY <1>1 DEF Starting
<1>3. CallsInOrder'
  BY <1>1 DEF Reasons, CallsInOrder
<1>4. HeldFromInputs'
  <2>1. ASSUME NEW n \in Node, NEW c, c = metadata'[n], c # None
        PROVE  FromInputs(c)'
    <3>1. FromInputs(c)
      BY <2>1 DEF Reasons, HeldFromInputs
    <3>2. QED
      BY <1>1, <1>2, <3>1, InputsRemain
  <2>2. QED
    BY <2>1 DEF HeldFromInputs
<1>5. \A g \in Frames' : Prepared(g)'
  <2>1. \A g \in Lower : g.op # "add" /\ g.op # "update"
    BY StackMoves DEF Leaf
  <2>2. \A g \in Lower : Prepared(g)'
    BY <2>1 DEF Prepared
  <2>3. QED
    BY <2>2
<1>6. QED
  BY <1>3, <1>4, <1>5 DEF Reasons

(* A step that leaves the distributions alone and adds no edge. *)
LEMMA QuietReasons ==
  ASSUME CompileInv, Layered, Reasons, stack # <<>>,
         UNCHANGED compileVars, UNCHANGED metadata,
         \A n \in Node : deps'[n] = deps[n],
         NEW N, Frames' = N \cup Lower,
         \A g \in N : g.op # "update" /\ (g.op = "add" => g.dist = None)
  PROVE  Reasons'
<1>1. EdgesReasoned'
  <2>1. ASSUME NEW n \in Node, NEW d, d \in Asks(n)', NEW why, why = deps[n][d]
        PROVE  Reasoned(n, KeyOf(d), why)'
    <3>1. deps'[n] = deps[n]
      OBVIOUS
    <3>2. d \in Asks(n)
      BY <2>1, <3>1 DEF Asks
    <3>3. Reasoned(n, KeyOf(d), why)
      BY <2>1, <3>2 DEF Reasons, EdgesReasoned
    <3>4. KeyOf(d)' = KeyOf(d) /\ metadata'[n] = metadata[n]
      OBVIOUS
    <3>5. QED
      BY <3>3, <3>4, ReasonStays
  <2>2. QED
    BY <2>1 DEF EdgesReasoned
<1>2. \A g \in N : Prepared(g)'
  BY DEF Prepared
<1>3. QED
  BY <1>1, <1>2, ReasonsFollow

(* add_dist draws an edge with a requirement of its source, or draws one   *)
(* again with the reason it had. *)
LEMMA AddDistReasons ==
  ASSUME Acyclic, CompileInv, Layered, Reasons, AddDist, UNCHANGED compileVars
  PROVE  Reasons'
<1>1. PICK n : n = Target(Top.key)
  OBVIOUS
<1>2. PICK f : f = Top
  OBVIOUS
<1>3. /\ stack # <<>> /\ f.op = "add" /\ n \in Node /\ KeyOf(n) = f.key /\ Placed(f)
      /\ f.source # None => f.source \in Node /\ f.source # n
      /\ nodes[f.key] # None => nodes[f.key] = n /\ Live(n)
      /\ nodes[f.key] = None => ~Live(n) /\ DOMAIN deps[n] = {}
  BY <1>1, <1>2, AddDistFrame
<1>4. /\ metadata'[n] = Held(f)
      /\ \A x \in Node : x # n => metadata'[x] = metadata[x]
      /\ Live(n) => Held(f) = metadata[n]
      /\ ~Live(n) => Held(f) = f.dist
      /\ \A x \in Node : x # f.source => deps'[x] = deps[x]
      /\ Linked(f) => deps'[f.source] = Put(deps[f.source], n, f.reason)
      /\ ~Linked(f) => UNCHANGED deps
  BY <1>1, <1>2, AddDistGraph
<1>5. Frames = {f} \cup Lower /\ f \in Frame
  BY <1>2, <1>3, StackMoves
<1>6. Prepared(f)
  BY <1>5 DEF Reasons
<1>7. PICK a : a = Remove(n, FALSE)
  OBVIOUS
<1>8. PICK b : b = [op |-> "update", node |-> n, dist |-> ToApply(f)]
  OBVIOUS
<1>9. PICK c : c = [op |-> "restore", node |-> n]
  OBVIOUS
<1>10. /\ a.op = "remove" /\ c.op = "restore"
       /\ b.op = "update" /\ b.node = n /\ b.dist = ToApply(f)
  BY <1>7, <1>8, <1>9 DEF Remove
<1>11. Then(<<a>>) \/ (Then(<<b, c>>) /\ b.dist # None) \/ Return
  BY <1>1, <1>2, <1>7, <1>8, <1>9 DEF AddDist
<1>12. ASSUME NEW x \in Node, metadata'[x] # None
       PROVE  metadata'[x] = metadata[x] \/ FromInputs(metadata'[x])
  <2>1. CASE x # n \/ Live(n)
    BY <1>4, <2>1
  <2>2. CASE x = n /\ ~Live(n)
    <3>1. metadata'[n] = f.dist /\ f.dist # None
      BY <1>4, <1>12, <2>2
    <3>2. FromInputs(f.dist)
      BY <1>3, <1>6, <3>1 DEF Prepared
    <3>3. QED
      BY <2>2, <3>1, <3>2
  <2>3. QED
    BY <2>1, <2>2
<1>13. EdgesReasoned'
  <2>1. ASSUME NEW x \in Node, NEW d, d \in Asks(x)', NEW why, why = deps'[x][d]
        PROVE  Reasoned(x, KeyOf(d), why)'
    <3>1. CASE d \in Asks(x) /\ why = deps[x][d]
      <4>1. Reasoned(x, KeyOf(d), why)
        BY <3>1 DEF Reasons, EdgesReasoned
      <4>2. metadata'[x] = metadata[x]
        BY <1>3, <1>4, <3>1 DEF Asks
      <4>3. QED
        BY <4>1, <4>2, ReasonStays
    <3>2. CASE ~(d \in Asks(x) /\ why = deps[x][d])
      <4>1. x = f.source /\ Linked(f)
        <5>1. CASE deps'[x] = deps[x]
          BY <2>1, <3>2, <5>1 DEF Asks
        <5>2. CASE deps'[x] # deps[x]
          BY <1>4, <5>2
        <5>3. QED
          BY <5>1, <5>2
      <4>2. /\ DOMAIN deps'[x] = DOMAIN deps[x] \cup {n}
            /\ deps'[x][n] = f.reason
            /\ \A y \in DOMAIN deps[x] : y # n => deps'[x][y] = deps[x][y]
        BY <1>4, <4>1 DEF Put
      <4>3. d = n /\ why = f.reason /\ f.reason # None
        BY <2>1, <3>2, <4>2 DEF Asks
      <4>4. x # n /\ f.source # None
        BY <1>3, <4>1 DEF Linked
      <4>5. Reasoned(x, f.key, why)
        <5>1. CASE f.dist = None
          <6>1. OwnReq(x, why) /\ why.name = f.key
            BY <1>3, <4>1, <4>3, <5>1 DEF Placed
          <6>2. QED
            BY <6>1, OwnIsOwn DEF Reasoned
        <5>2. CASE f.dist # None
          BY <1>3, <1>6, <4>1, <4>3, <4>4, <5>2 DEF Prepared
        <5>3. QED
          BY <5>1, <5>2
      <4>6. metadata'[x] = metadata[x] /\ KeyOf(d) = f.key
        BY <1>3, <1>4, <4>3, <4>4
      <4>7. QED
        BY <4>5, <4>6, ReasonStays
    <3>3. QED
      BY <3>1, <3>2
  <2>2. QED
    BY <2>1 DEF EdgesReasoned
<1>14. ASSUME b.dist # None
       PROVE  Prepared(b)'
  <2>1. b.dist \in {f.dist, Held(f)}
    BY <1>10 DEF ToApply
  <2>2. Held(f) \in {None, b.dist}
    <3>1. CASE b.dist = Held(f)
      BY <3>1
    <3>2. CASE b.dist = f.dist
      <4>1. CASE Live(n)
        <5>1. nodes[f.key] = n /\ nodes[f.key] # None
          BY <1>3, <4>1, NoNodeAssumption
        <5>2. metadata[n] \in {None, f.dist}
          BY <1>3, <1>6, <1>14, <3>2, <5>1 DEF Prepared
        <5>3. QED
          BY <1>4, <3>2, <4>1, <5>2
      <4>2. CASE ~Live(n)
        BY <1>4, <3>2, <4>2
      <4>3. QED
        BY <4>1, <4>2
    <3>3. QED
      BY <2>1, <3>1, <3>2
  <2>3. FromInputs(b.dist)
    <3>1. CASE b.dist = f.dist
      BY <1>3, <1>6, <1>14, <3>1 DEF Prepared
    <3>2. CASE b.dist = metadata[n]
      <4>1. FromInputs(metadata[n])
        BY <1>3, <1>14, <3>2 DEF Reasons, HeldFromInputs
      <4>2. QED
        BY <3>2, <4>1
    <3>3. QED
      BY <1>4, <2>1, <3>1, <3>2
  <2>4. FromInputs(b.dist)'
    BY <2>3, InputsRemain DEF compileVars, Starting, CallSet
  <2>5. metadata'[b.node] \in {None, b.dist}
    BY <1>4, <1>10, <2>2
  <2>6. QED
    BY <1>10, <2>4, <2>5 DEF Prepared
<1>15. \E N : Frames' = N \cup Lower /\ \A g \in N : Prepared(g)'
  <2>1. CASE Then(<<a>>)
    <3>1. PICK N : N = {a}
      OBVIOUS
    <3>2. Frames' = N \cup Lower
      BY <1>3, <2>1, <3>1, StackMoves
    <3>3. Prepared(a)'
      BY <1>10 DEF Prepared
    <3>4. QED
      BY <3>1, <3>2, <3>3
  <2>2. CASE Then(<<b, c>>) /\ b.dist # None
    <3>1. PICK N : N = {b, c}
      OBVIOUS
    <3>2. Frames' = N \cup Lower
      BY <1>3, <2>2, <3>1, StackMoves
    <3>3. Prepared(c)'
      BY <1>10 DEF Prepared
    <3>4. QED
      BY <1>14, <2>2, <3>1, <3>2, <3>3
  <2>3. CASE Return
    <3>1. PICK N : N = {}
      OBVIOUS
    <3>2. Frames' = N \cup Lower
      BY <1>3, <2>3, <3>1, StackMoves
    <3>3. QED
      BY <3>1, <3>2
  <2>4. QED
    BY <1>11, <2>1, <2>2, <2>3
<1>16. PICK N : Frames' = N \cup Lower /\ \A g \in N : Prepared(g)'
  BY <1>15
<1>17. QED
  BY <1>3, <1>12, <1>13, <1>16, ReasonsFollow

LEMMA UpdateDistsReasons ==
  ASSUME Acyclic, CompileInv, Layered, Reasons, UpdateDists, error' = None,
         UNCHANGED compileVars
  PROVE  Reasons'
<1>1. PICK f : f = Top
  OBVIOUS
<1>2. PICK n : n = f.node
  OBVIOUS
<1>3. PICK a : a = [op |-> "extras", node |-> n, dist |-> f.dist,
                    todo |-> Extras(n) \cup {None}]
  OBVIOUS
<1>4. PICK b : b = Complete(n)
  OBVIOUS
<1>5. a.op = "extras" /\ b.op = "complete"
  BY <1>3, <1>4 DEF Complete
<1>6. stack # <<>> /\ f.op = "update" /\ n \in Node /\ f.dist \in Dist
  BY <1>1, <1>2, UpdateDistsLayered
<1>7. Then(<<a, b>>)
  BY <1>1, <1>2, <1>3, <1>4, NoErrorAssumption DEF UpdateDists, AssertFails, Fail
<1>8. PICK N : N = {a, b}
  OBVIOUS
<1>9. Frames' = N \cup Lower
  BY <1>6, <1>7, <1>8, StackMoves
<1>10. \A g \in N : Prepared(g)'
  BY <1>5, <1>8 DEF Prepared
<1>11. Prepared(f)
  BY <1>1, <1>6, StackMoves DEF Reasons
<1>12. metadata[n] \in {None, f.dist} /\ FromInputs(f.dist)
  BY <1>2, <1>6, <1>11 DEF Prepared
<1>13. /\ UNCHANGED deps /\ metadata'[n] = f.dist
       /\ \A x \in Node : x # n => metadata'[x] = metadata[x]
  BY <1>1, <1>2, <1>6 DEF UpdateDists, CompileInv, NamesInv, IInv, TypeOK
<1>14. EdgesReasoned'
  <2>1. ASSUME NEW x \in Node, NEW d, d \in Asks(x)', NEW why, why = deps[x][d]
        PROVE  Reasoned(x, KeyOf(d), why)'
    <3>1. d \in Asks(x)
      BY <1>13, <2>1 DEF Asks
    <3>2. Reasoned(x, KeyOf(d), why)
      BY <2>1, <3>1 DEF Reasons, EdgesReasoned
    <3>3. metadata'[x] = metadata[x]
      BY <1>12, <1>13, <3>2 DEF Reasoned
    <3>4. QED
      BY <3>2, <3>3, ReasonStays
  <2>2. QED
    BY <1>13, <2>1 DEF EdgesReasoned
<1>15. \A x \in Node : metadata'[x] # None =>
         metadata'[x] = metadata[x] \/ FromInputs(metadata'[x])
  BY <1>12, <1>13
<1>16. QED
  BY <1>6, <1>9, <1>10, <1>14, <1>15, ReasonsFollow

(* A node that is unsolved gives up its edges with its distribution.       *)
LEMMA UnsolveReasons ==
  ASSUME Acyclic, CompileInv, Layered, Reasons, Unsolve, UNCHANGED compileVars
  PROVE  Reasons'
<1>1. PICK f : f = Top
  OBVIOUS
<1>2. PICK n : n = f.node
  OBVIOUS
<1>3. /\ stack # <<>> /\ f.op = "drop" /\ n \in Node
      /\ \A x \in Node : x # n => deps'[x] = deps[x] /\ metadata'[x] = metadata[x]
  BY <1>1, <1>2, UnsolveLayered
<1>4. CASE f.upstream
  <2>1. Return /\ UNCHANGED <<deps, metadata>>
    BY <1>1, <1>4 DEF Unsolve
  <2>2. PICK N : N = {}
    OBVIOUS
  <2>3. Frames' = N \cup Lower
    BY <1>3, <2>1, <2>2, StackMoves
  <2>4. QED
    BY <1>3, <2>1, <2>2, <2>3, QuietReasons
<1>5. CASE ~f.upstream
  <2>1. PICK a : a = Complete(n)
    OBVIOUS
  <2>2. /\ a.op = "complete" /\ Then(<<a>>)
        /\ metadata' = [metadata EXCEPT ![n] = None]
        /\ deps' = [deps EXCEPT ![n] = [m \in {} |-> None]]
    BY <1>1, <1>2, <1>5, <2>1 DEF Unsolve, Complete
  <2>3. PICK N : N = {a}
    OBVIOUS
  <2>4. Frames' = N \cup Lower
    BY <1>3, <2>2, <2>3, StackMoves
  <2>5. \A g \in N : Prepared(g)'
    BY <2>2, <2>3 DEF Prepared
  <2>6. metadata'[n] = None /\ DOMAIN deps'[n] = {}
    BY <1>3, <2>2 DEF CompileInv, NamesInv, IInv, TypeOK
  <2>7. EdgesReasoned'
    <3>1. ASSUME NEW x \in Node, NEW d, d \in Asks(x)', NEW why, why = deps'[x][d]
          PROVE  Reasoned(x, KeyOf(d), why)'
      <4>1. x # n
        BY <2>6, <3>1 DEF Asks
      <4>2. deps'[x] = deps[x] /\ metadata'[x] = metadata[x]
        BY <1>3, <4>1
      <4>3. d \in Asks(x)
        BY <3>1, <4>2 DEF Asks
      <4>4. Reasoned(x, KeyOf(d), why)
        BY <3>1, <4>2, <4>3 DEF Reasons, EdgesReasoned
      <4>5. QED
        BY <4>2, <4>4, ReasonStays
    <3>2. QED
      BY <3>1 DEF EdgesReasoned
  <2>8. \A x \in Node : metadata'[x] # None => metadata'[x] = metadata[x]
    BY <1>3, <2>6
  <2>9. QED
    BY <1>3, <2>4, <2>5, <2>7, <2>8, ReasonsFollow
<1>6. QED
  BY <1>4, <1>5

(* The other steps add no frame that brings a distribution. *)
LEMMA PlainFrames ==
  ASSUME CompileInv, Layered,
         \/ Restore \/ (NextExtra /\ error' = None) \/ LastExtra \/ NextRequirement
         \/ UpdateComplete \/ CompleteNext \/ AlreadyRemoved \/ RemoveDists \/ DropDep
  PROVE  /\ stack # <<>>
         /\ \E N : /\ Frames' = N \cup Lower
                   /\ \A g \in N : g.op # "update" /\ (g.op = "add" => g.dist = None)
<1>1. stack # <<>>
  BY DEF Restore, NextExtra, LastExtra, NextRequirement, UpdateComplete, CompleteNext,
     AlreadyRemoved, RemoveDists, DropDep, InCall
<1> DEFINE Plain(g) == g.op # "update" /\ (g.op = "add" => g.dist = None)
           Goal == \E N : Frames' = N \cup Lower /\ \A g \in N : Plain(g)
<1>2. Top \in Frame
  BY <1>1, StackMoves
<1>3. ASSUME Return PROVE Goal
  <2>1. PICK N : N = {}
    OBVIOUS
  <2>2. Frames' = N \cup Lower
    BY <1>1, <1>3, <2>1, StackMoves
  <2>3. QED
    BY <2>1, <2>2
<1>4. ASSUME NEW a, NEW b, Then(<<a>>) \/ Then(<<b, a>>), Plain(a), Plain(b)
      PROVE  Goal
  <2>1. PICK N : Frames' = N \cup Lower /\ N \subseteq {a, b}
    <3>1. Frames' = {a} \cup Lower \/ Frames' = {b, a} \cup Lower
      BY <1>1, <1>4, StackMoves
    <3>2. QED
      BY <3>1
  <2>2. QED
    BY <1>4, <2>1
<1>5. CASE Restore \/ LastExtra \/ AlreadyRemoved
  <2>1. Return
    BY <1>5 DEF Restore, LastExtra, AlreadyRemoved
  <2>2. QED
    BY <1>1, <1>3, <2>1
<1>6. CASE NextExtra /\ error' = None
  <2>1. Top.op = "extras" /\ Top \in ExtrasFrame
    BY <1>2, <1>6, FrameKinds DEF NextExtra, InCall
  <2>2. PICK e \in Top.todo :
          \/ Then(<<[Top EXCEPT !.todo = @ \ {e}]>>)
          \/ Then(<<[op |-> "requires", node |-> Top.node,
                     todo |-> Top.dist.requires[e]],
                    [Top EXCEPT !.todo = @ \ {e}]>>)
    BY <1>6, NoErrorAssumption DEF NextExtra, AssertFails, Fail
  <2>3. PICK b : b = [op |-> "requires", node |-> Top.node,
                      todo |-> Top.dist.requires[e]]
    OBVIOUS
  <2>4. PICK a : a = [Top EXCEPT !.todo = @ \ {e}]
    OBVIOUS
  <2>5. b.op = "requires" /\ a.op = "extras"
    BY <2>1, <2>3, <2>4 DEF ExtrasFrame
  <2>6. Then(<<a>>) \/ Then(<<b, a>>)
    BY <2>2, <2>3, <2>4
  <2>7. QED
    BY <1>1, <1>4, <2>5, <2>6
<1>7. CASE NextRequirement /\ ~Return
  <2>1. Top.op = "requires" /\ Top \in RequiresFrame
    BY <1>2, <1>7, FrameKinds DEF NextRequirement, InCall
  <2>2. PICK q : q = Head(Top.todo)
    OBVIOUS
  <2>3. PICK b : b = Add(q.name, None, Top.node, q)
    OBVIOUS
  <2>4. PICK a : a = [Top EXCEPT !.todo = Tail(@)]
    OBVIOUS
  <2>5. b.op = "add" /\ b.dist = None /\ a.op = "requires"
    BY <2>1, <2>3, <2>4 DEF RequiresFrame, Add
  <2>6. Then(<<b, a>>)
    BY <1>7, <2>2, <2>3, <2>4 DEF NextRequirement
  <2>7. QED
    BY <1>1, <1>4, <2>5, <2>6
<1>8. CASE UpdateComplete
  <2>1. PICK a : a = [op |-> "completes", todo |-> rdeps[Top.node]]
    OBVIOUS
  <2>2. a.op = "completes" /\ (Return \/ Then(<<a>>))
    BY <1>8, <2>1 DEF UpdateComplete
  <2>3. QED
    BY <1>1, <1>3, <1>4, <2>2
<1>9. CASE CompleteNext /\ ~Return
  <2>1. Top.op = "completes" /\ Top \in CompletesFrame
    BY <1>2, <1>9, FrameKinds DEF CompleteNext, InCall
  <2>2. PICK n \in Top.todo : Then(<<Complete(n), [Top EXCEPT !.todo = @ \ {n}]>>)
    BY <1>9 DEF CompleteNext
  <2>3. PICK b : b = Complete(n)
    OBVIOUS
  <2>4. PICK a : a = [Top EXCEPT !.todo = @ \ {n}]
    OBVIOUS
  <2>5. b.op = "complete" /\ a.op = "completes"
    BY <2>1, <2>3, <2>4 DEF Complete, CompletesFrame
  <2>6. Then(<<b, a>>)
    BY <2>2, <2>3, <2>4
  <2>7. QED
    BY <1>1, <1>4, <2>5, <2>6
<1>10. CASE RemoveDists
  <2>1. PICK a : a = [op |-> "drop", node |-> Top.node, todo |-> DOMAIN deps'[Top.node],
                      upstream |-> Top.upstream]
    OBVIOUS
  <2>2. a.op = "drop" /\ Then(<<a>>)
    BY <1>10, <2>1 DEF RemoveDists
  <2>3. QED
    BY <1>1, <1>4, <2>2
<1>11. CASE DropDep
  <2>1. Top.op = "drop" /\ Top \in DropFrame
    BY <1>2, <1>11, FrameKinds DEF DropDep, InCall
  <2>2. PICK d \in Top.todo :
          \/ Then(<<Remove(d, TRUE), [Top EXCEPT !.todo = @ \ {d}]>>)
          \/ Then(<<[Top EXCEPT !.todo = @ \ {d}]>>)
    BY <1>11 DEF DropDep
  <2>3. PICK b : b = Remove(d, TRUE)
    OBVIOUS
  <2>4. PICK a : a = [Top EXCEPT !.todo = @ \ {d}]
    OBVIOUS
  <2>5. b.op = "remove" /\ a.op = "drop"
    BY <2>1, <2>3, <2>4 DEF Remove, DropFrame
  <2>6. Then(<<b, a>>) \/ Then(<<a>>)
    BY <2>2, <2>3, <2>4
  <2>7. QED
    BY <1>1, <1>4, <2>5, <2>6
<1>12. CASE Return
  BY <1>1, <1>3, <1>12
<1>13. QED
  BY <1>5, <1>6, <1>7, <1>8, <1>9, <1>10, <1>11, <1>12

LEMMA GraphReasons ==
  ASSUME Acyclic, CompileInv, Going, Reasons, GraphStep, UNCHANGED compileVars
  PROVE  ReasonsInv'
<1>1. CASE error' # None
  BY <1>1 DEF ReasonsInv, Off
<1>2. CASE error' = None
  <2>1. ~TooManyFrames /\ ~AddAssertFails
    BY <1>2, NoErrorAssumption DEF TooManyFrames, AddAssertFails, AssertFails, Fail
  <2>2. Layered
    BY DEF Going
  <2>3. CASE AddDist \/ UpdateDists \/ Unsolve
    BY <1>2, <2>2, <2>3, AddDistReasons, UpdateDistsReasons, UnsolveReasons
       DEF ReasonsInv
  <2>4. CASE \/ Restore \/ NextExtra \/ LastExtra \/ NextRequirement \/ UpdateComplete
             \/ CompleteNext \/ AlreadyRemoved \/ RemoveDists \/ DropDep
    <3>1. UNCHANGED metadata
      BY <2>4 DEF Restore, NextExtra, LastExtra, NextRequirement, UpdateComplete,
         CompleteNext, AlreadyRemoved, RemoveDists, DropDep, graph
    <3>2. \A x \in Node : deps'[x] = deps[x]
      <4>1. CASE RemoveDists
        BY <2>2, <4>1, RemoveDistsLayered
      <4>2. CASE ~RemoveDists
        BY <2>4, <4>2 DEF Restore, NextExtra, LastExtra, NextRequirement,
           UpdateComplete, CompleteNext, AlreadyRemoved, DropDep, graph
      <4>3. QED
        BY <4>1, <4>2
    <3>3. stack # <<>>
      BY <1>2, <2>2, <2>4, PlainFrames
    <3>4. PICK N : /\ Frames' = N \cup Lower
                   /\ \A g \in N : g.op # "update" /\ (g.op = "add" => g.dist = None)
      BY <1>2, <2>2, <2>4, PlainFrames
    <3>5. Reasons'
      BY <2>2, <3>1, <3>2, <3>3, <3>4, QuietReasons
    <3>6. QED
      BY <3>5 DEF ReasonsInv
  <2>5. QED
    BY <2>1, <2>3, <2>4 DEF GraphStep
<1>3. QED
  BY <1>1, <1>2

(* The calls of the resolver. *)
LEMMA CallsAdvance ==
  ASSUME CompileInv, CallsInOrder, calls # <<>>, NEW a, NEW b,
         JoinsFile(a), JoinsFile(b), b.op # "start",
         a.op = "start" => CTop.op = "start" /\ CThen(<<a>>),
         CThen(<<>>) \/ CThen(<<a>>) \/ CThen(<<a, b>>)
  PROVE  CallsInOrder' /\ (Starting' => Starting)
<1>1. PICK s \in Seq(CallFrame) : s = calls
  BY DEF CompileInv, ResolverSound, CallsSound
<1>2. PICK t : t = calls'
  OBVIOUS
<1>3. t = <<>> \o Tail(s) \/ t = <<a>> \o Tail(s) \/ t = <<a, b>> \o Tail(s)
  BY <1>1, <1>2 DEF CThen
<1>4. /\ Tail(s) \in Seq(CallFrame) /\ <<>> \o Tail(s) = Tail(s)
      /\ Len(s) \in Nat \ {0} /\ s # <<>> /\ Head(s) = CTop
      /\ FramesOf(s) = {CTop} \cup LowerOf(s)
  BY <1>1, HeadTailProperties, ConcatEmptySeq, Positions, FramesBefore DEF CTop
<1>5. /\ \A f \in LowerOf(s) : f.op # "start"
      /\ \A f \in FramesOf(s) : JoinsFile(f)
  BY <1>1 DEF CallsInOrder, CallSet
<1>6. /\ \A f \in LowerOf(t) : f.op # "start"
      /\ \A f \in FramesOf(t) : JoinsFile(f)
      /\ (\E f \in FramesOf(t) : f.op = "start") => CTop.op = "start"
  <2>1. \A r : LowerOf(r) \subseteq FramesOf(r)
    BY DEF LowerOf, FramesOf
  <2>2. CASE t = Tail(s)
    <3>1. FramesOf(t) = LowerOf(s)
      BY <1>4, <2>2, ReturnFrames
    <3>2. QED
      BY <1>4, <1>5, <2>1, <3>1
  <2>3. CASE t = <<a>> \o Tail(s)
    <3>1. FramesOf(t) = {a} \cup LowerOf(s)
      BY <1>4, <2>3, OneFrameMore
    <3>2. LowerOf(t) = LowerOf(s)
      BY <1>4, <2>3, Positions DEF LowerOf
    <3>3. QED
      BY <1>4, <1>5, <3>1, <3>2
  <2>4. CASE t = <<a, b>> \o Tail(s) /\ a.op # "start"
    <3>1. FramesOf(t) = {a, b} \cup LowerOf(s)
      BY <1>4, <2>4, TwoFramesMore
    <3>2. QED
      BY <1>4, <1>5, <2>1, <2>4, <3>1
  <2>5. CASE t = <<a, b>> \o Tail(s) /\ a.op = "start"
    <3>1. t = <<a>> \o Tail(s)
      BY <1>1, <1>2, <2>5 DEF CThen
    <3>2. QED
      BY <2>3, <3>1
  <2>6. QED
    BY <1>3, <1>4, <2>2, <2>3, <2>4, <2>5
<1>7. Starting' => Starting
  <2>1. CTop \in FramesOf(s)
    BY <1>4
  <2>2. QED
    BY <1>1, <1>2, <1>6, <2>1 DEF Starting, CallSet
<1>8. CallsInOrder'
  <2>1. \A f : JoinsFile(f)' = JoinsFile(f)
    BY DEF JoinsFile
  <2>2. QED
    BY <1>2, <1>6, <2>1 DEF CallsInOrder, CallSet
<1>9. QED
  BY <1>7, <1>8

LEMMA StartIsOver ==
  ASSUME CompileInv, CallsInOrder, calls # <<>>, CTop.op # "start"
  PROVE  ~Starting
<1>1. calls \in Seq(CallFrame)
  BY DEF CompileInv, ResolverSound, CallsSound
<1>2. CallSet = {CTop} \cup LowerOf(calls)
  BY <1>1, FramesBefore DEF CallSet, CTop
<1>3. QED
  BY <1>2 DEF CallsInOrder, Starting

(* What the calls become, but for the roots and the files. *)
LEMMA OtherCallsBecome ==
  ASSUME CompileInv,
         \/ Unwind \/ NoNeed \/ AlreadySolved \/ Retry \/ (Round /\ ~Off') \/ NextRoot
         \/ WalkBack \/ Block \/ Unblock \/ Acquire \/ EnterDeps \/ NextDep
  PROVE  /\ calls # <<>> /\ UNCHANGED input
         /\ \E a, b : /\ a.op \notin {"start", "constrain"}
                      /\ b.op \notin {"start", "constrain"}
                      /\ CThen(<<>>) \/ CThen(<<a>>) \/ CThen(<<a, b>>)
<1> DEFINE Goal == \E a, b : /\ a.op \notin {"start", "constrain"}
                             /\ b.op \notin {"start", "constrain"}
                             /\ CThen(<<>>) \/ CThen(<<a>>) \/ CThen(<<a, b>>)
<1>1. /\ calls # <<>> /\ UNCHANGED input
  BY DEF Unwind, NoNeed, AlreadySolved, Retry, Round, NextRoot, WalkBack, Block, Unblock,
     Acquire, EnterDeps, NextDep, Impossible, Unsolved, ToProcess, Entered, Running
<1>2. CTop \in CallFrame
  BY <1>1, CallsBecome
<1>3. PICK l : l.op = "loop"
  <2>1. PICK l : l = [op |-> "loop"]
    OBVIOUS
  <2>2. QED
    BY <2>1
<1>4. ASSUME CThen(<<>>) PROVE Goal
  BY <1>3, <1>4
<1>5. ASSUME NEW a, NEW b, CThen(<<a>>) \/ CThen(<<a, b>>),
             a.op \notin {"start", "constrain"}, b.op \notin {"start", "constrain"}
      PROVE  Goal
  BY <1>5
<1>6. CASE Unwind \/ NoNeed \/ Unblock
  BY <1>1, <1>4, <1>6 DEF Unwind, NoNeed, Unblock
<1>7. CASE AlreadySolved \/ Acquire
  <2>1. PICK a : a = Descend(CTop)
    OBVIOUS
  <2>2. a.op = "descend" /\ CThen(<<a>>)
    BY <1>7, <2>1 DEF Descend, AlreadySolved, Acquire
  <2>3. QED
    BY <1>1, <1>5, <2>2
<1>8. CASE Retry
  <2>1. PICK a : a = CompileRoots(CTop.node, None, CTop.depth, CTop.downgrade,
                                  CTop.path, CTop.budget)
    OBVIOUS
  <2>2. PICK b : b = [op |-> "finally", node |-> CTop.entry]
    OBVIOUS
  <2>3. a.op = "compile" /\ b.op = "finally" /\ CThen(<<a, b>>)
    BY <1>8, <2>1, <2>2 DEF CompileRoots, Retry
  <2>4. QED
    BY <1>1, <1>5, <2>3
<1>9. CASE Round /\ ~Off'
  <2>1. PICK a : a = [op |-> "round", todo |-> roots]
    OBVIOUS
  <2>2. PICK b : b = CTop
    OBVIOUS
  <2>3. CThen(<<>>) \/ CThen(<<a, b>>)
    BY <1>9, <2>1, <2>2 DEF Round, Raise, Off
  <2>4. a.op = "round" /\ b.op = "loop"
    BY <1>9, <2>1, <2>2 DEF Round, Running
  <2>5. QED
    BY <1>1, <1>4, <1>5, <2>3, <2>4
<1>10. CASE NextRoot /\ ~CThen(<<>>)
  <2>1. PICK n \in CTop.todo :
          \/ CThen(<<[CTop EXCEPT !.todo = @ \ {n}]>>)
          \/ CThen(<<CompileRoots(n, None, 1, MaxDowngrade, {}, MaxDowngrade),
                     [CTop EXCEPT !.todo = @ \ {n}]>>)
    BY <1>10 DEF NextRoot
  <2>2. PICK a : a = CompileRoots(n, None, 1, MaxDowngrade, {}, MaxDowngrade)
    OBVIOUS
  <2>3. PICK b : b = [CTop EXCEPT !.todo = @ \ {n}]
    OBVIOUS
  <2>4. CTop.op = "round" /\ CTop \in RoundCall
    BY <1>2, <1>10, CallKinds DEF NextRoot, Running
  <2>5. a.op = "compile" /\ b.op = "round"
    BY <2>2, <2>3, <2>4 DEF CompileRoots, RoundCall
  <2>6. CThen(<<b>>) \/ CThen(<<a, b>>)
    BY <2>1, <2>2, <2>3
  <2>7. QED
    BY <1>1, <1>5, <2>5, <2>6
<1>11. CASE WalkBack
  <2>1. PICK b : CThen(<<WalkBackTo(CTop, b)>>)
    BY <1>11 DEF WalkBack
  <2>2. PICK a : a = WalkBackTo(CTop, b)
    OBVIOUS
  <2>3. a.op = "block" /\ CThen(<<a>>)
    BY <2>1, <2>2 DEF WalkBackTo
  <2>4. QED
    BY <1>1, <1>5, <2>3
<1>12. CASE Block
  <2>1. PICK a : a = [op |-> "try", node |-> CTop.node, depth |-> CTop.depth,
                      downgrade |-> CTop.downgrade, path |-> CTop.path,
                      budget |-> CTop.budget,
                      entry |-> Target(BadDist(KeyOf(CTop.node), CTop.version).name)]
    OBVIOUS
  <2>2. a.op = "try" /\ CThen(<<a>>)
    BY <1>12, <2>1 DEF Block
  <2>3. QED
    BY <1>1, <1>5, <2>2
<1>13. CASE EnterDeps
  <2>1. PICK a : a = [op |-> "deps", node |-> CTop.node, depth |-> CTop.depth,
                      downgrade |-> CTop.downgrade, path |-> CTop.path,
                      todo |-> DOMAIN deps[CTop.node]]
    OBVIOUS
  <2>2. a.op = "deps" /\ CThen(<<a>>)
    BY <1>13, <2>1 DEF EnterDeps
  <2>3. QED
    BY <1>1, <1>5, <2>2
<1>14. CASE NextDep /\ ~CThen(<<>>)
  <2>1. PICK d \in CTop.todo :
          \/ CThen(<<[CTop EXCEPT !.todo = @ \ {d}]>>)
          \/ CThen(<<CompileRoots(d, CTop.node, CTop.depth + 1, CTop.downgrade,
                                  CTop.path \cup {CTop.node}, CTop.downgrade),
                     [CTop EXCEPT !.todo = @ \ {d}]>>)
    BY <1>14 DEF NextDep
  <2>2. PICK a : a = CompileRoots(d, CTop.node, CTop.depth + 1, CTop.downgrade,
                                  CTop.path \cup {CTop.node}, CTop.downgrade)
    OBVIOUS
  <2>3. PICK b : b = [CTop EXCEPT !.todo = @ \ {d}]
    OBVIOUS
  <2>4. CTop.op = "deps" /\ CTop \in DepsCall
    BY <1>2, <1>14, CallKinds DEF NextDep, Running
  <2>5. a.op = "compile" /\ b.op = "deps"
    BY <2>2, <2>3, <2>4 DEF CompileRoots, DepsCall
  <2>6. CThen(<<b>>) \/ CThen(<<a, b>>)
    BY <2>1, <2>2, <2>3
  <2>7. QED
    BY <1>1, <1>5, <2>5, <2>6
<1>15. CASE (NextRoot \/ NextDep) /\ CThen(<<>>)
  BY <1>1, <1>4, <1>15
<1>16. QED
  BY <1>6, <1>7, <1>8, <1>9, <1>10, <1>11, <1>12, <1>13, <1>14, <1>15

LEMMA OtherCallsAdvance ==
  ASSUME CompileInv, CallsInOrder,
         \/ Unwind \/ NoNeed \/ AlreadySolved \/ Retry \/ (Round /\ ~Off') \/ NextRoot
         \/ WalkBack \/ Block \/ Unblock \/ Acquire \/ EnterDeps \/ NextDep
  PROVE  CallsInOrder' /\ (Starting' => Starting) /\ UNCHANGED input
<1>1. PICK a, b : /\ a.op \notin {"start", "constrain"}
                  /\ b.op \notin {"start", "constrain"}
                  /\ CThen(<<>>) \/ CThen(<<a>>) \/ CThen(<<a, b>>)
  BY OtherCallsBecome
<1>2. JoinsFile(a) /\ JoinsFile(b)
  BY <1>1 DEF JoinsFile
<1>3. calls # <<>> /\ UNCHANGED input
  BY OtherCallsBecome
<1>4. QED
  BY <1>1, <1>2, <1>3, CallsAdvance

(* The resolver works between two calls of the graph, or calls it for f.   *)
LEMMA ReasonsWait ==
  ASSUME Reasons, Idle, UNCHANGED graph, UNCHANGED input,
         CallsInOrder', Starting' => Starting,
         NEW N, Frames' = N, \A f \in N : Prepared(f)
  PROVE  Reasons'
<1>1. UNCHANGED <<nodes, metadata, deps>>
  BY DEF graph
<1>2. \A n, k, why : Reasoned(n, k, why) => Reasoned(n, k, why)'
  BY <1>1, ReasonStays
<1>3. \A d : FromInputs(d) => FromInputs(d)'
  BY InputsRemain
<1>4. EdgesReasoned'
  <2>1. \A n : Asks(n)' = Asks(n)
    BY <1>1 DEF Asks
  <2>2. ASSUME NEW n \in Node, NEW d \in Asks(n), NEW why, why = deps[n][d]
        PROVE  Reasoned(n, KeyOf(d), why)'
    <3>1. Reasoned(n, KeyOf(d), why)
      BY <2>2 DEF Reasons, EdgesReasoned
    <3>2. QED
      BY <1>2, <3>1
  <2>3. QED
    BY <1>1, <2>1, <2>2 DEF EdgesReasoned
<1>5. HeldFromInputs'
  <2>1. ASSUME NEW n \in Node, NEW c, c = metadata[n], c # None
        PROVE  FromInputs(c)'
    BY <1>3, <2>1 DEF Reasons, HeldFromInputs
  <2>2. QED
    BY <1>1, <2>1 DEF HeldFromInputs
<1>6. ASSUME NEW f \in N PROVE Prepared(f)'
  <2>1. Prepared(f)
    OBVIOUS
  <2>2. QED
    BY <1>1, <1>2, <1>3, <2>1 DEF Prepared
<1>7. QED
  BY <1>4, <1>5, <1>6 DEF Reasons

LEMMA ReasonsQuiet ==
  ASSUME Reasons, Idle, UNCHANGED vars, UNCHANGED input,
         CallsInOrder', Starting' => Starting
  PROVE  Reasons'
<1>1. PICK N : N = {}
  OBVIOUS
<1>2. Len(stack') = 0 /\ UNCHANGED graph
  BY DEF Idle, vars
<1>3. Frames' = N
  BY <1>1, <1>2 DEF Frames, FramesOf
<1>4. QED
  BY <1>1, <1>2, <1>3, ReasonsWait

LEMMA ReasonsCall ==
  ASSUME Reasons, Idle, UNCHANGED input, CallsInOrder', Starting' => Starting,
         NEW f, Call(f), Prepared(f)
  PROVE  Reasons'
<1>1. PICK N : N = {f}
  OBVIOUS
<1>2. stack' = <<f>> /\ UNCHANGED graph
  BY DEF Call
<1>3. Len(stack') = 1 /\ stack'[1] = f /\ 1..1 = {1}
  BY <1>2
<1>4. Frames' = N
  BY <1>1, <1>3 DEF Frames, FramesOf
<1>5. QED
  BY <1>1, <1>2, <1>4, ReasonsWait

(* An input is added to a node that nothing holds yet, or once more. *)
LEMMA InputReasons ==
  ASSUME InputsDistinct, CompileInv, Going, Reasons, Idle, calls # <<>>,
         CTop.op \in {"start", "constrain"}, CTop.todo # <<>>,
         NEW d, d = Head(CTop.todo), CallAdd(d.name, d, None, None),
         CThen(<<[CTop EXCEPT !.todo = Tail(@)]>>), UNCHANGED input
  PROVE  Reasons'
<1>1. PICK g : g = CTop
  OBVIOUS
<1>2. g \in CallSet /\ g \in ListCall /\ GoodCall(g) /\ JoinsFile(g)
  BY <1>1, CallsBecome, CallKinds, CallsAreGood DEF Reasons, CallsInOrder
<1>3. PICK s \in Seq(Dist) : s = g.todo /\ s # <<>>
  BY <1>1, <1>2 DEF ListCall
<1>4. /\ d = s[1] /\ Len(s) \in Nat \ {0}
      /\ Len(Tail(s)) = Len(s) - 1
      /\ \A i \in 1..Len(Tail(s)) : Tail(s)[i] = s[i + 1]
      /\ Tail(s) \in Seq(Dist)
  <2>1. d = Head(s)
    BY <1>1, <1>3
  <2>2. QED
    BY <1>3, <2>1, HeadTailProperties, EmptySeq
<1>5. 1 \in DOMAIN s
  BY <1>3, <1>4
<1>6. d \in Dist /\ d \in InputDists(input) /\ d.name \in Key
  <2>1. d \in Dist /\ d \in InputDists(input)
    BY <1>1, <1>2, <1>3, <1>4, <1>5, ElementOfSeq DEF GoodCall
  <2>2. QED
    BY <2>1, DistAssumption DEF Container
<1>7. PICK a : a = [g EXCEPT !.todo = Tail(@)]
  OBVIOUS
<1>8. a.op = g.op /\ a.todo = Tail(s) /\ CThen(<<a>>)
  BY <1>1, <1>2, <1>3, <1>7 DEF ListCall
<1>9. JoinsFile(a)
  <2>1. ASSUME a.op = "constrain", NEW i \in DOMAIN a.todo
        PROVE  a.todo[i].name \notin Project
    <3>1. i \in 1..Len(Tail(s)) /\ a.todo[i] = s[i + 1] /\ i + 1 \in DOMAIN s
      BY <1>3, <1>4, <1>8, <2>1
    <3>2. QED
      BY <1>2, <1>3, <1>8, <2>1, <3>1 DEF JoinsFile
  <2>2. QED
    BY <2>1 DEF JoinsFile
<1>10. CallsInOrder' /\ (Starting' => Starting)
  <2>1. PICK l : l = [op |-> "loop"]
    OBVIOUS
  <2>2. l.op = "loop" /\ JoinsFile(l)
    BY <2>1 DEF JoinsFile
  <2>3. QED
    BY <1>1, <1>8, <1>9, <2>2, CallsAdvance DEF Reasons
<1>11. d.name \notin EntryKey
  BY <1>6, EntryAssumption DEF InputDists, CompileInv, ResolverSound
<1>12. Starting \/ d.name \notin Project
  <2>1. CASE g.op = "start"
    BY <1>2, <2>1 DEF Starting
  <2>2. CASE g.op = "constrain"
    BY <1>2, <1>3, <1>4, <1>5, <2>2 DEF JoinsFile
  <2>3. QED
    BY <1>1, <2>1, <2>2
<1>13. PICK f : f = Add(d.name, d, None, None)
  OBVIOUS
<1>14. /\ f.op = "add" /\ f.dist = d /\ f.key = d.name /\ f.source = None /\ Call(f)
  BY <1>13 DEF Add, CallAdd
<1>15. ASSUME nodes[d.name] # None
       PROVE  metadata[nodes[d.name]] \in {None, d}
  <2>1. PICK n \in Node : n = nodes[d.name] /\ KeyOf(n) = d.name
    BY <1>6, <1>15 DEF CompileInv, NamesInv, IInv, TypeOK, KeysAgree
  <2>2. ASSUME metadata[n] # None
        PROVE  metadata[n] = d
    <3>1. PICK c : c = metadata[n] /\ c.name = d.name
      BY <2>1, <2>2 DEF CompileInv, NamesInv, KeysAgree
    <3>2. FromInputs(c)
      BY <2>2, <3>1 DEF Reasons, HeldFromInputs
    <3>3. c \in InputDists(input)
      BY <1>11, <1>12, <3>1, <3>2 DEF FromInputs
    <3>4. QED
      BY <1>6, <3>1, <3>3 DEF InputsDistinct, CompileInv, ResolverSound
  <2>3. QED
    BY <2>1, <2>2
<1>16. Prepared(f)
  BY <1>6, <1>14, <1>15 DEF Prepared, FromInputs
<1>17. QED
  BY <1>10, <1>14, <1>16, ReasonsCall

(* Block: an entry that is registered already is the same. *)
LEMMA BlockReasons ==
  ASSUME EntriesApart, CompileInv, Reasons, Block
  PROVE  Reasons'
<1>1. Idle /\ calls # <<>> /\ CTop.op = "block"
  BY DEF Block, Running
<1>2. PICK d : d = BadDist(KeyOf(CTop.node), CTop.version)
  OBVIOUS
<1>3. CallAdd(d.name, d, None, None)
  BY <1>2 DEF Block
<1>4. d \in Dist
  BY <1>1, <1>2, InnermostCall DEF Sound
<1>5. d.name \in Key
  BY <1>4, DistAssumption DEF Container
<1>6. d.meta /\ d.version # None
  BY <1>2, NoneAssumption DEF BadDist
<1>7. d.name \in EntryKey
  BY <1>4, <1>6, MetaAssumption
<1>8. CallsInOrder' /\ (Starting' => Starting) /\ UNCHANGED input
  BY OtherCallsAdvance DEF Reasons
<1>9. ~Starting
  BY <1>1, StartIsOver DEF Reasons
<1>10. PICK f : f = Add(d.name, d, None, None)
  OBVIOUS
<1>11. /\ f.op = "add" /\ f.dist = d /\ f.key = d.name /\ f.source = None /\ Call(f)
  BY <1>3, <1>10 DEF Add, CallAdd
<1>12. ASSUME nodes[d.name] # None
       PROVE  metadata[nodes[d.name]] \in {None, d}
  <2>1. PICK n \in Node : n = nodes[d.name] /\ KeyOf(n) = d.name
    BY <1>5, <1>12 DEF CompileInv, NamesInv, IInv, TypeOK, KeysAgree
  <2>2. ASSUME metadata[n] # None
        PROVE  metadata[n] = d
    <3>1. metadata[n] \in Dist /\ metadata[n].name = d.name
      BY <2>1, <2>2 DEF CompileInv, NamesInv, IInv, TypeOK, KeysAgree
    <3>2. QED
      BY <1>4, <1>7, <3>1 DEF EntriesApart
  <2>3. QED
    BY <2>1, <2>2
<1>13. Prepared(f)
  BY <1>7, <1>9, <1>11, <1>12 DEF Prepared, FromInputs
<1>14. QED
  BY <1>1, <1>8, <1>11, <1>13, ReasonsCall

(* Acquire: the candidate comes with the reason of an edge, or with more   *)
(* extras. *)
LEMMA AcquireReasons ==
  ASSUME CompileInv, Reasons, Acquire
  PROVE  Reasons'
<1>1. /\ calls # <<>> /\ CTop \in CompileCall /\ CTop.op = "compile" /\ Idle
      /\ Live(CTop.node) /\ metadata[CTop.node] = None
  BY CompileCallSound DEF Acquire, Unsolved, ToProcess, Entered, Running
<1>2. PICK c : c = CTop
  OBVIOUS
<1>3. PICK n \in Node : n = c.node
  BY <1>1, <1>2 DEF CompileCall
<1>4. PICK k \in Key : k = KeyOf(n)
  BY NodeType
<1>5. PICK v \in Fits(k, Wanted(n)) :
        \E d \in IF index[<<k, v>>] = None THEN Offers[<<k, v>>]
                 ELSE {index[<<k, v>>]} :
          CallAdd(k, d, c.source, Reason(n, c.source, d))
  BY <1>2, <1>3, <1>4 DEF Acquire
<1>6. k \in Project /\ v \in Published[k]
  BY <1>5 DEF Fits
<1>7. PICK d \in Offers[<<k, v>>] : CallAdd(k, d, c.source, Reason(n, c.source, d))
  BY <1>5, <1>6 DEF CompileInv, ResolverSound, IndexSound
<1>8. d.name = k /\ k \notin EntryKey
  BY <1>6, <1>7, OffersAssumption, EntryAssumption
<1>9. PICK why : why = Reason(n, c.source, d)
  OBVIOUS
<1>10. PICK f : f = Add(k, d, c.source, why)
  OBVIOUS
<1>11. /\ f.op = "add" /\ f.dist = d /\ f.key = k /\ f.source = c.source
       /\ f.reason = why /\ Call(f)
  BY <1>7, <1>9, <1>10 DEF Add, CallAdd
<1>12. CallsInOrder' /\ (Starting' => Starting) /\ UNCHANGED input
  BY OtherCallsAdvance DEF Reasons
<1>13. ~Starting
  BY <1>1, StartIsOver DEF Reasons
<1>14. metadata[nodes[k]] = None
  BY <1>1, <1>2, <1>3, <1>4 DEF Live
<1>15. ASSUME c.source # None, why # None
       PROVE  Reasoned(c.source, k, why)
  <2>1. /\ n \in DOMAIN deps[c.source] /\ deps[c.source][n] # None
        /\ \/ why = deps[c.source][n]
           \/ why = [deps[c.source][n] EXCEPT !.extras = @ \cup input.extras]
    BY <1>9, <1>15 DEF Reason
  <2>2. PICK m \in Node : m = c.source
    BY <1>1, <1>2, <1>15 DEF CompileCall
  <2>3. PICK q \in Req : q = deps[m][n]
    BY <2>1, <2>2 DEF CompileInv, NamesInv, IInv, TypeOK, IsDependencies
  <2>4. why.spec = q.spec /\ q.extras \subseteq why.extras
    BY <2>1, <2>2, <2>3 DEF Req
  <2>5. n \in Asks(m)
    BY <2>1, <2>2 DEF Asks
  <2>6. Reasoned(m, KeyOf(n), deps[m][n])
    BY <2>2, <2>5 DEF Reasons, EdgesReasoned
  <2>7. Reasoned(m, k, q)
    BY <1>4, <2>3, <2>6
  <2>8. QED
    BY <2>2, <2>4, <2>7 DEF Reasoned
<1>16. FromInputs(d)
  BY <1>6, <1>8, <1>13 DEF FromInputs
<1>17. Prepared(f)
  BY <1>11, <1>14, <1>15, <1>16 DEF Prepared
<1>18. QED
  BY <1>1, <1>11, <1>12, <1>17, ReasonsCall

LEMMA InputsReason ==
  ASSUME InputsDistinct, CompileInv, Going, Reasons, AddRoot \/ AddConstraints
  PROVE  Reasons'
<1>1. /\ Idle /\ calls # <<>> /\ CTop.op \in {"start", "constrain"} /\ UNCHANGED input
  BY DEF AddRoot, AddConstraints, Running
<1>2. CASE CTop.todo = <<>>
  <2>1. CThen(<<>>) /\ UNCHANGED vars
    BY <1>2 DEF AddRoot, AddConstraints, Quiet
  <2>2. PICK l : l = [op |-> "loop"]
    OBVIOUS
  <2>3. l.op = "loop" /\ JoinsFile(l)
    BY <2>2 DEF JoinsFile
  <2>4. CallsInOrder' /\ (Starting' => Starting)
    BY <1>1, <2>1, <2>3, CallsAdvance DEF Reasons
  <2>5. QED
    BY <1>1, <2>1, <2>4, ReasonsQuiet
<1>3. CASE CTop.todo # <<>>
  <2>1. PICK d : d = Head(CTop.todo)
    OBVIOUS
  <2>2. CallAdd(d.name, d, None, None) /\ CThen(<<[CTop EXCEPT !.todo = Tail(@)]>>)
    BY <1>3, <2>1 DEF AddRoot, AddConstraints
  <2>3. QED
    BY <1>1, <1>3, <2>1, <2>2, InputReasons
<1>4. QED
  BY <1>2, <1>3

LEMMA ResolverReasons ==
  ASSUME InputsDistinct, EntriesApart, CompileInv, Going, Reasons, CompileStep
  PROVE  ReasonsInv'
<1>1. CASE Off'
  BY <1>1 DEF ReasonsInv
<1>2. CASE ~Off'
  <2>1. ~GraphFailed
    BY <1>2, FailureEnds
  <2>2. ~(TooDeep \/ CompileAssertFails \/ GiveUp \/ NoCandidate \/ RepositoryError
            \/ CircularDependency)
    BY <1>2, RaisingEnds
  <2>3. CASE AddRoot \/ AddConstraints
    BY <2>3, InputsReason DEF ReasonsInv
  <2>4. CASE Block \/ Acquire
    BY <2>4, BlockReasons, AcquireReasons DEF ReasonsInv
  <2>5. CASE WalkBack \/ Unblock
    <3>1. PICK n : Idle /\ CallRemove(n)
      BY <2>5 DEF WalkBack, Unblock, Impossible, Unsolved, ToProcess, Entered, Running
    <3>2. PICK f : f = Remove(n, FALSE)
      OBVIOUS
    <3>3. f.op = "remove" /\ Call(f)
      BY <3>1, <3>2 DEF Remove, CallRemove
    <3>4. Prepared(f)
      BY <3>3 DEF Prepared
    <3>5. CallsInOrder' /\ (Starting' => Starting) /\ UNCHANGED input
      BY <2>5, OtherCallsAdvance DEF Reasons
    <3>6. Reasons'
      BY <3>1, <3>3, <3>4, <3>5, ReasonsCall
    <3>7. QED
      BY <3>6 DEF ReasonsInv
  <2>6. CASE \/ Round \/ NextRoot \/ Unwind \/ NoNeed \/ AlreadySolved
             \/ Retry \/ EnterDeps \/ NextDep
    <3>1. UNCHANGED vars
      BY <2>6 DEF Round, NextRoot, Unwind, NoNeed, AlreadySolved, Retry, EnterDeps,
         NextDep, Quiet
    <3>2. Idle
      BY <2>6 DEF Round, NextRoot, Unwind, NoNeed, AlreadySolved, Retry, EnterDeps,
         NextDep, ToProcess, Entered, Running
    <3>3. CallsInOrder' /\ (Starting' => Starting) /\ UNCHANGED input
      BY <1>2, <2>6, OtherCallsAdvance DEF Reasons
    <3>4. Reasons'
      BY <3>1, <3>2, <3>3, ReasonsQuiet
    <3>5. QED
      BY <3>4 DEF ReasonsInv
  <2>7. QED
    BY <2>1, <2>2, <2>3, <2>4, <2>5, <2>6 DEF CompileStep
<1>3. QED
  BY <1>1, <1>2

LEMMA ReasonsKeep ==
  ASSUME Acyclic, InputsDistinct, EntriesApart, CompileInv, AcyclicInv, ReasonsInv,
         [CNext]_allVars
  PROVE  ReasonsInv'
<1>1. CASE Off
  BY <1>1, OffStays DEF ReasonsInv
<1>2. CASE ~Off
  <2>1. Going /\ Reasons
    BY <1>2 DEF AcyclicInv, ReasonsInv
  <2>2. CASE GraphStep /\ UNCHANGED compileVars
    BY <2>1, <2>2, GraphReasons
  <2>3. CASE UNCHANGED allVars
    <3>1. UNCHANGED <<nodes, metadata, deps, stack, calls, input>>
      BY <2>3 DEF allVars, vars, graph, compileVars
    <3>2. /\ CallSet' = CallSet /\ LowerOf(calls)' = LowerOf(calls)
          /\ Frames' = Frames /\ Starting' = Starting
      BY <3>1 DEF CallSet, Frames, Starting
    <3>3. \A d : FromInputs(d) => FromInputs(d)'
      BY <3>1, <3>2, InputsRemain
    <3>4. \A n, k, why : Reasoned(n, k, why) => Reasoned(n, k, why)'
      BY <3>1, ReasonStays
    <3>5. CallsInOrder'
      BY <2>1, <3>2 DEF Reasons, CallsInOrder
    <3>6. HeldFromInputs'
      BY <2>1, <3>1, <3>3 DEF Reasons, HeldFromInputs
    <3>7. \A f \in Frames : Prepared(f)'
      BY <2>1, <3>1, <3>3, <3>4 DEF Reasons, Prepared
    <3>8. EdgesReasoned'
      <4>1. \A n : Asks(n)' = Asks(n)
        BY <3>1 DEF Asks
      <4>2. QED
        BY <2>1, <3>1, <3>4, <4>1 DEF Reasons, EdgesReasoned
    <3>9. QED
      BY <3>2, <3>5, <3>6, <3>7, <3>8 DEF Reasons, ReasonsInv
  <2>4. CASE CompileStep
    BY <2>1, <2>4, ResolverReasons
  <2>5. QED
    BY <2>2, <2>3, <2>4 DEF CNext, Done
<1>3. QED
  BY <1>1, <1>2

LEMMA ReasonsStart ==
  ASSUME InputsDistinct, CInit
  PROVE  Reasons
<1>1. /\ metadata = [n \in Node |-> None] /\ deps = [n \in Node |-> [m \in {} |-> None]]
      /\ stack = <<>> /\ input \in Inputs
  BY DEF CInit, Init
<1>2. Len(stack) = 0
  BY <1>1
<1>3. EdgesReasoned /\ HeldFromInputs /\ \A f \in Frames : Prepared(f)
  BY <1>1, <1>2 DEF EdgesReasoned, HeldFromInputs, Asks, Frames, FramesOf
<1>4. PICK a, b, c : /\ a = [op |-> "start", todo |-> Sources]
                     /\ b = [op |-> "loop"]
                     /\ c = [op |-> "constrain", todo |-> Afterwards]
  OBVIOUS
<1>5. /\ a.op = "start" /\ b.op = "loop" /\ c.op = "constrain" /\ c.todo = Afterwards
      /\ Len(calls) = 3 /\ calls[1] = a /\ calls[2] = b /\ calls[3] = c
  BY <1>4 DEF CInit
<1>6. 1..Len(calls) = {1, 2, 3} /\ 2..Len(calls) = {2, 3}
  BY <1>5
<1>7. CallSet = {a, b, c} /\ LowerOf(calls) = {b, c}
  BY <1>5, <1>6 DEF CallSet, FramesOf, LowerOf
<1>8. \A i \in DOMAIN Afterwards : Afterwards[i].name \notin Project
  BY <1>1 DEF InputsDistinct, Afterwards
<1>9. CallsInOrder
  BY <1>5, <1>7, <1>8 DEF CallsInOrder, JoinsFile
<1>10. QED
  BY <1>3, <1>9 DEF Reasons

(* On an acyclic index no edge carries a requirement that its source no    *)
(* longer has, as long as the resolution goes on and in its result: also   *)
(* after a walkback to another version, between the requirements of two    *)
(* extras, and when compile_roots hands on a reason it read before the     *)
(* node was solved (dists.py:295, 334, compile.py:136).                    *)
THEOREM ReasonsAreCurrent ==
  ASSUME Acyclic, InputsApart, InputsDistinct, EntriesApart
  PROVE  CSpec => [](outcome \in {"running", "solved"} => ReasonsCurrent)
<1>1. CInit => ReasonsInv
  BY ReasonsStart DEF ReasonsInv
<1>2. CompileInv /\ AcyclicInv /\ ReasonsInv /\ [CNext]_allVars => ReasonsInv'
  BY ReasonsKeep
<1>3. ASSUME ReasonsInv, outcome \in {"running", "solved"}, Idle
      PROVE  \A n \in LiveSolved : \A d \in Asks(n) : \E r \in Own(n) :
               /\ r.name = KeyOf(d) /\ r.spec = deps[n][d].spec
               /\ r.extras \subseteq deps[n][d].extras
  <2>1. EdgesReasoned
    BY <1>3 DEF ReasonsInv, Off, Idle, Reasons
  <2>2. QED
    BY <2>1 DEF EdgesReasoned, Reasoned, LiveSolved
<1>4. ReasonsInv => (outcome \in {"running", "solved"} => ReasonsCurrent)
  BY <1>3 DEF ReasonsCurrent
<1>5. QED
  BY <1>1, <1>2, <1>4, AcyclicInvariant, CompileInvariant, PTL DEF CSpec

-----------------------------------------------------------------------------
(* The roots, on any index *)

(* The constraint files that join the results at the end, and their pins.  *)
JoinedFiles(in) == IF AllPinned(in.constraints) /\ ~in.removeConstraints
                   THEN {in.constraints[i] : i \in DOMAIN in.constraints}
                   ELSE {}
JoinedPins(in) == UNION {SourceReqs(d) : d \in JoinedFiles(in)}
(* Such a file is neither a project nor an input, and nothing requires it. *)
JoinedApart ==
  \A in \in Inputs : \A d \in JoinedFiles(in) :
    /\ d.name \notin Project
    /\ \A i \in DOMAIN in.roots : in.roots[i].name # d.name
    /\ \A c \in Dist : \A e \in Extra \cup {None} : \A r \in Reqs(c, e) :
         r.name # d.name
(* Their pins agree with each other and with the projects that are given   *)
(* as inputs, and ask for no extras. *)
PinsAgree ==
  \A in \in Inputs : \A r \in JoinedPins(in) :
    /\ r.extras = {}
    /\ \A q \in JoinedPins(in) : q.name = r.name => q.spec = r.spec
    /\ \A i \in DOMAIN in.roots : in.roots[i].name = r.name =>
         VersionFits(in.roots[i], r)

JoinedName(k) == \E d \in JoinedFiles(input) : d.name = k
MeetsPins(d) == \A r \in JoinedPins(input) : r.name = d.name => VersionFits(d, r)
Unasked == \A n \in Node : JoinedName(KeyOf(n)) => rdeps[n] = {}
HeldMeets == \A n \in Node : metadata[n] # None => MeetsPins(metadata[n])

(* All along: what a frame brings meets the pins and is not for a file.    *)
Tidy(f) ==
  /\ f.op = "add" => /\ f.source # None => ~JoinedName(f.key)
                     /\ f.dist # None => MeetsPins(f.dist)
  /\ f.op = "update" => MeetsPins(f.dist)
  /\ f.op = "requires" => \A i \in DOMAIN f.todo : ~JoinedName(f.todo[i].name)
(* While the files join: only a file is updated, and every pin finds what  *)
(* it asks for. *)
Joins(f) ==
  /\ f.op \in {"add", "restore", "update", "extras", "requires", "complete", "completes"}
  /\ f.op = "add" =>
       \/ f.dist \in JoinedFiles(input) /\ f.key = f.dist.name /\ f.reason = None
       \/ f.dist = None /\ f.reason \in JoinedPins(input) /\ f.key = f.reason.name
  /\ f.op \in {"update", "extras"} => f.dist \in JoinedFiles(input)
  /\ f.op \in {"update", "extras", "complete"} => JoinedName(KeyOf(f.node))
  /\ f.op = "extras" => f.todo \subseteq {None}
  /\ f.op = "requires" => \A i \in DOMAIN f.todo : f.todo[i] \in JoinedPins(input)
  /\ f.op = "completes" => f.todo = {}

(* _add_constraints is the last call, and comes after the loop. *)
Listed(f) ==
  /\ f.op = "start" => \A i \in DOMAIN f.todo :
                         MeetsPins(f.todo[i]) /\ ~JoinedName(f.todo[i].name)
  /\ f.op = "constrain" => \A i \in DOMAIN f.todo : f.todo[i] \in JoinedFiles(input)
Joining == Len(calls) <= 1
LoopIsLast(s) ==
  /\ s # <<>> => s[Len(s)].op = "constrain"
  /\ Len(s) > 1 => s[Len(s) - 1].op = "loop"
  /\ \A i \in 1..(Len(s) - 1) : s[i].op # "constrain"
CallsPlaced == /\ \A f \in CallSet : Listed(f)
               /\ LoopIsLast(calls)
               /\ outcome = "solved" => calls = <<>>

RootsDone == Joining => (\A n \in roots : complete[n]) /\ \A f \in Frames : Joins(f)
RootsSafe == /\ Unasked /\ HeldMeets /\ CallsPlaced /\ RootsDone
             /\ \A f \in Frames : Tidy(f)
             /\ \A n \in roots : ~JoinedName(KeyOf(n))
RootsInv == Off \/ RootsSafe

LEMMA JoinedType ==
  ASSUME CompileInv
  PROVE  /\ input \in Inputs /\ input.constraints \in Seq(Dist) /\ input.roots \in Seq(Dist)
         /\ \A d \in JoinedFiles(input) : d \in Dist /\ d # None /\ d.name \in Key
         /\ \A r \in JoinedPins(input) :
              /\ r \in Req /\ r # None
              /\ \E c \in Dist : r \in Reqs(c, None)
<1>1. input \in Inputs /\ input.constraints \in Seq(Dist) /\ input.roots \in Seq(Dist)
  BY InputsAssumption DEF CompileInv, ResolverSound, Input
<1>2. ASSUME NEW d \in JoinedFiles(input)
      PROVE  d \in Dist /\ d # None /\ d.name \in Key
  <2>1. PICK i \in DOMAIN input.constraints : d = input.constraints[i]
    BY <1>2 DEF JoinedFiles
  <2>2. d \in Dist
    BY <1>1, <2>1, ElementOfSeq
  <2>3. QED
    BY <2>2, DistAssumption, NoneAssumption DEF Container
<1>3. ASSUME NEW r \in JoinedPins(input)
      PROVE  r \in Req /\ r # None /\ \E c \in Dist : r \in Reqs(c, None)
  <2>1. PICK d \in JoinedFiles(input) : r \in SourceReqs(d)
    BY <1>3 DEF JoinedPins
  <2>2. d \in Dist /\ r \in Reqs(d, None)
    BY <1>2, <2>1 DEF SourceReqs, Reqs
  <2>3. d.requires \in [Extra \cup {None} -> Seq(Req)]
    BY <2>2, DistAssumption DEF Container
  <2>4. PICK s \in Seq(Req) : s = d.requires[None]
    BY <2>3
  <2>5. PICK i \in DOMAIN s : r = s[i]
    BY <2>2, <2>4 DEF Reqs
  <2>6. r \in Req
    BY <2>4, <2>5, ElementOfSeq
  <2>7. QED
    BY <2>2, <2>6, NoneAssumption
<1>4. QED
  BY <1>1, <1>2, <1>3

(* Of the files that pin a project the last one counts; they all agree. *)
LEMMA FittingMeets ==
  ASSUME PinsAgree, CompileInv, NEW k \in Project, NEW w, Pins(k) \subseteq w,
         NEW v \in Fits(k, w), NEW d, d.name = k, d.version = v
  PROVE  MeetsPins(d)
<1>1. ASSUME NEW r \in JoinedPins(input), r.name = k
      PROVE  Contains(r.spec, v)
  <2>1. PICK cs \in Seq(Dist) : cs = input.constraints
    BY JoinedType
  <2>2. PICK i \in DOMAIN cs : AllPinned(cs) /\ r \in SourceReqs(cs[i])
    BY <1>1, <2>1 DEF JoinedPins, JoinedFiles
  <2>3. PICK mine : mine = {j \in DOMAIN cs : \E q \in SourceReqs(cs[j]) : q.name = k}
    OBVIOUS
  <2>4. i \in mine /\ mine \subseteq 1..Len(cs) /\ Len(cs) \in Nat
    BY <1>1, <2>1, <2>2, <2>3
  <2>5. \E j \in mine : \A m \in mine : m <= j
    <3>1. PICK S : S = {Len(cs) - j : j \in mine}
      OBVIOUS
    <3>2. S \in SUBSET Nat /\ S # {}
      BY <2>4, <3>1
    <3>3. PICK a \in S : \A b \in S : a <= b
      BY <3>2, SmallestNumber
    <3>4. PICK j \in mine : a = Len(cs) - j
      BY <3>1, <3>3
    <3>5. \A m \in mine : Len(cs) - j <= Len(cs) - m
      BY <3>1, <3>3, <3>4
    <3>6. QED
      BY <2>4, <3>4, <3>5
  <2>6. PICK last : last = CHOOSE j \in mine : \A m \in mine : m <= j
    OBVIOUS
  <2>7. last \in mine
    BY <2>5, <2>6
  <2>8. Pins(k) = UNION {q.spec : q \in {q \in SourceReqs(cs[last]) : q.name = k}}
    BY <2>1, <2>2, <2>3, <2>4, <2>6 DEF Pins
  <2>9. PICK q \in SourceReqs(cs[last]) : q.name = k
    BY <2>3, <2>7
  <2>10. q \in JoinedPins(input)
    <3>1. JoinedFiles(input) = {cs[j] : j \in DOMAIN cs}
      BY <1>1, <2>1 DEF JoinedPins, JoinedFiles
    <3>2. QED
      BY <2>3, <2>7, <2>9, <3>1 DEF JoinedPins
  <2>11. r.spec = q.spec
    BY <1>1, <2>9, <2>10, JoinedType DEF PinsAgree
  <2>12. r.spec \subseteq w
    BY <2>8, <2>9, <2>11
  <2>13. QED
    BY <2>12 DEF Fits, Contains
<1>2. QED
  BY <1>1 DEF MeetsPins, VersionFits

LEMMA RootsTop ==
  ASSUME CompileInv, RootsSafe, stack # <<>>, NEW a, NEW b
  PROVE  /\ Top \in Frame /\ Tidy(Top) /\ (Joining => Joins(Top))
         /\ Return => Frames' = Lower
         /\ Then(<<a>>) => Frames' = {a} \cup Lower
         /\ Then(<<a, b>>) => Frames' = {a, b} \cup Lower
         /\ Lower \subseteq Frames
<1>1. stack \in Seq(Frame)
  BY DEF CompileInv, NamesInv, IInv, TypeOK
<1>2. Top \in Frame /\ Frames = {Top} \cup Lower
  BY <1>1, FramesBefore DEF Top, Lower, Frames
<1>3. Return => Frames' = Lower
  BY <1>1, ReturnFrames DEF Return, Frames, Lower
<1>4. Then(<<a>>) => Frames' = {a} \cup Lower
  BY <1>1, OneFrameMore DEF Then, Frames, Lower
<1>5. Then(<<a, b>>) => Frames' = {a, b} \cup Lower
  BY <1>1, TwoFramesMore DEF Then, Frames, Lower
<1>6. QED
  BY <1>2, <1>3, <1>4, <1>5 DEF RootsSafe, RootsDone

LEMMA PinsRemain ==
  ASSUME UNCHANGED input
  PROVE  /\ \A k : JoinedName(k)' = JoinedName(k)
         /\ \A d : MeetsPins(d)' = MeetsPins(d)
         /\ \A f : Tidy(f)' = Tidy(f) /\ Joins(f)' = Joins(f) /\ Listed(f)' = Listed(f)
<1>1. \A k : JoinedName(k)' = JoinedName(k)
  BY DEF JoinedName, JoinedFiles, AllPinned, SourceReqs
<1>2. \A d : MeetsPins(d)' = MeetsPins(d)
  BY DEF MeetsPins, JoinedPins, JoinedFiles, AllPinned, SourceReqs
<1>3. \A f : Tidy(f)' = Tidy(f)
  BY <1>1, <1>2 DEF Tidy
<1>4. \A f : Joins(f)' = Joins(f)
  <2>1. JoinedFiles(input)' = JoinedFiles(input) /\ JoinedPins(input)' = JoinedPins(input)
    BY DEF JoinedPins, JoinedFiles, AllPinned, SourceReqs
  <2>2. QED
    BY <1>1, <2>1 DEF Joins
<1>5. \A f : Listed(f)' = Listed(f)
  <2>1. JoinedFiles(input)' = JoinedFiles(input)
    BY DEF JoinedFiles, AllPinned, SourceReqs
  <2>2. QED
    BY <1>1, <1>2, <2>1 DEF Listed
<1>6. QED
  BY <1>1, <1>2, <1>3, <1>4, <1>5

(* A step of the graph. *)
LEMMA RootsFollow ==
  ASSUME CompileInv, RootsSafe, stack # <<>>, UNCHANGED compileVars,
         NEW N, Frames' = N \cup Lower, \A g \in N : Tidy(g),
         Joining => \A g \in N : Joins(g),
         Joining => \A n \in roots : complete'[n] = complete[n],
         \A n \in Node : JoinedName(KeyOf(n)) => rdeps'[n] = {},
         \A n \in Node : metadata'[n] # None => MeetsPins(metadata'[n])
  PROVE  RootsSafe'
<1>1. UNCHANGED <<input, roots, calls, outcome>>
  BY DEF compileVars
<1>2. /\ \A k : JoinedName(k)' = JoinedName(k)
      /\ \A d : MeetsPins(d)' = MeetsPins(d)
      /\ \A f : Tidy(f)' = Tidy(f) /\ Joins(f)' = Joins(f) /\ Listed(f)' = Listed(f)
  BY <1>1, PinsRemain
<1>3. Unasked'
  <2>1. ASSUME NEW n \in Node, NEW k, k = KeyOf(n), JoinedName(k)'
        PROVE  rdeps'[n] = {}
    BY <1>2, <2>1
  <2>2. QED
    BY <2>1 DEF Unasked
<1>4. HeldMeets'
  <2>1. ASSUME NEW n \in Node, NEW d, d = metadata'[n], d # None
        PROVE  MeetsPins(d)'
    BY <1>2, <2>1
  <2>2. QED
    BY <2>1 DEF HeldMeets
<1>5. \A f \in Frames' : Tidy(f)' /\ (Joining => Joins(f)')
  BY <1>2, RootsTop DEF RootsSafe, RootsDone
<1>6. Joining' = Joining
  BY <1>1 DEF Joining
<1>7. RootsDone'
  BY <1>1, <1>5, <1>6 DEF RootsDone, RootsSafe
<1>8. CallsPlaced'
  BY <1>1, <1>2 DEF CallsPlaced, CallSet, RootsSafe
<1>9. \A n \in roots : ~JoinedName(KeyOf(n))'
  <2>1. ASSUME NEW n \in roots, NEW k, k = KeyOf(n)
        PROVE  ~JoinedName(k)'
    BY <1>2, <2>1 DEF RootsSafe
  <2>2. QED
    BY <2>1
<1>10. QED
  BY <1>1, <1>3, <1>4, <1>5, <1>7, <1>8, <1>9 DEF RootsSafe

LEMMA AddDistRoots ==
  ASSUME PinsAgree, CompileInv, RootsSafe, AddDist, UNCHANGED compileVars
  PROVE  RootsSafe'
<1>1. PICK f : f = Top
  OBVIOUS
<1>2. /\ stack # <<>> /\ f.op = "add" /\ Register(f) /\ LinkSource(f) /\ UNCHANGED complete
  BY <1>1 DEF AddDist, InCall
<1>3. f \in AddFrame /\ Tidy(f) /\ (Joining => Joins(f))
  BY <1>1, <1>2, RootsTop, FrameKinds
<1>4. PICK n : n = Target(f.key)
  OBVIOUS
<1>5. /\ n \in Node /\ KeyOf(n) = f.key /\ IInv
      /\ nodes[f.key] # None => nodes[f.key] = n
  <2>1. IInv /\ KeysAgree /\ f.key \in Key
    BY <1>3 DEF CompileInv, NamesInv, AddFrame
  <2>2. n \in Node
    BY <1>2, <1>4, <2>1, TargetType DEF Register
  <2>3. KeyOf(n) = f.key
    BY <1>4, <2>1 DEF Target, KeysAgree, KeyOf
  <2>4. QED
    BY <1>4, <2>1, <2>2, <2>3 DEF Target
<1>6. PICK h : h = Held(f)
  OBVIOUS
<1>7. /\ nodes[f.key] = None => h = f.dist
      /\ nodes[f.key] # None => h = metadata[n]
  BY <1>4, <1>6 DEF Held
<1>8. h # None => MeetsPins(h)
  BY <1>2, <1>3, <1>5, <1>7 DEF Tidy, RootsSafe, HeldMeets
<1>9. \A x \in Node : metadata'[x] # None => MeetsPins(metadata'[x])
  <2>1. metadata' = [metadata EXCEPT ![n] = h] /\ DOMAIN metadata = Node
    BY <1>2, <1>4, <1>5, <1>6 DEF Register, IInv, TypeOK
  <2>2. QED
    BY <1>8, <2>1 DEF RootsSafe, HeldMeets
<1>10. \A x \in Node : JoinedName(KeyOf(x)) => rdeps'[x] = {}
  <2>1. CASE f.source # None
    <3>1. ~JoinedName(KeyOf(n))
      BY <1>2, <1>3, <1>5, <2>1 DEF Tidy
    <3>2. \A x \in Node : x # n => rdeps'[x] = rdeps[x]
      BY <1>2, <1>4, <1>5 DEF LinkSource, IInv, TypeOK
    <3>3. QED
      BY <3>1, <3>2 DEF RootsSafe, Unasked
  <2>2. CASE f.source = None
    BY <1>2, <2>2 DEF LinkSource, RootsSafe, Unasked
  <2>3. QED
    BY <2>1, <2>2
<1>11. ASSUME Joining
       PROVE  ~Conflicts(f) /\ ToApply(f) = f.dist
  <2>1. CASE f.dist \in JoinedFiles(input) /\ f.reason = None
    BY <2>1 DEF Conflicts, ToApply, AsksExtras
  <2>2. CASE f.dist = None /\ f.reason \in JoinedPins(input) /\ f.key = f.reason.name
    <3>1. PICK r : r = f.reason
      OBVIOUS
    <3>2. r.extras = {}
      BY <2>2, <3>1, JoinedType DEF PinsAgree
    <3>3. ToApply(f) = f.dist
      BY <3>1, <3>2 DEF ToApply, AsksExtras
    <3>4. ASSUME h # None PROVE VersionFits(h, r)
      <4>1. h = metadata[n]
        BY <1>7, <2>2, <3>4
      <4>2. h.name = KeyOf(n)
        BY <1>5, <3>4, <4>1 DEF CompileInv, NamesInv, KeysAgree
      <4>3. QED
        BY <1>5, <1>8, <2>2, <3>1, <3>4, <4>2 DEF MeetsPins
    <3>5. ~Conflicts(f)
      BY <1>6, <3>1, <3>4 DEF Conflicts, VersionFits
    <3>6. QED
      BY <3>3, <3>5
  <2>3. QED
    BY <1>2, <1>3, <1>11, <2>1, <2>2 DEF Joins
<1>12. PICK a : a = Remove(n, FALSE)
  OBVIOUS
<1>13. PICK b : b = [op |-> "update", node |-> n, dist |-> ToApply(f)]
  OBVIOUS
<1>14. PICK c : c = [op |-> "restore", node |-> n]
  OBVIOUS
<1>15. /\ a.op = "remove" /\ c.op = "restore"
       /\ b.op = "update" /\ b.node = n /\ b.dist = ToApply(f)
  BY <1>12, <1>13, <1>14 DEF Remove
<1>16. \/ Conflicts(f) /\ Then(<<a>>)
       \/ Then(<<b, c>>) /\ b.dist # None
       \/ Return
  BY <1>1, <1>4, <1>12, <1>13, <1>14 DEF AddDist
<1>17. CASE Conflicts(f) /\ Then(<<a>>)
  <2>1. PICK N : N = {a}
    OBVIOUS
  <2>2. Frames' = N \cup Lower
    BY <1>2, <1>17, <2>1, RootsTop
  <2>3. \A g \in N : Tidy(g)
    BY <1>15, <2>1 DEF Tidy
  <2>4. QED
    BY <1>2, <1>9, <1>10, <1>11, <1>17, <2>2, <2>3, RootsFollow
<1>18. CASE Then(<<b, c>>) /\ b.dist # None
  <2>1. PICK N : N = {b, c}
    OBVIOUS
  <2>2. Frames' = N \cup Lower
    BY <1>2, <1>18, <2>1, RootsTop
  <2>3. ToApply(f) = f.dist \/ ToApply(f) = h
    BY <1>6 DEF ToApply
  <2>4. MeetsPins(b.dist)
    BY <1>2, <1>3, <1>8, <1>15, <1>18, <2>3 DEF Tidy
  <2>5. \A g \in N : Tidy(g)
    BY <1>15, <2>1, <2>4 DEF Tidy
  <2>6. ASSUME Joining PROVE \A g \in N : Joins(g)
    <3>1. b.dist = f.dist /\ f.dist # None
      BY <1>11, <1>15, <1>18, <2>6
    <3>2. f.dist \in JoinedFiles(input) /\ f.key = f.dist.name
      BY <1>2, <1>3, <2>6, <3>1 DEF Joins
    <3>3. JoinedName(KeyOf(n))
      BY <1>5, <3>2 DEF JoinedName
    <3>4. QED
      BY <1>15, <2>1, <3>1, <3>2, <3>3 DEF Joins
  <2>7. QED
    BY <1>2, <1>9, <1>10, <2>2, <2>5, <2>6, RootsFollow
<1>19. CASE Return
  <2>1. PICK N : N = {}
    OBVIOUS
  <2>2. Frames' = N \cup Lower
    BY <1>2, <1>19, <2>1, RootsTop
  <2>3. QED
    BY <1>2, <1>9, <1>10, <2>1, <2>2, RootsFollow
<1>20. QED
  BY <1>16, <1>17, <1>18, <1>19

LEMMA UpdateDistsRoots ==
  ASSUME CompileInv, RootsSafe, UpdateDists, error' = None, UNCHANGED compileVars
  PROVE  RootsSafe'
<1>1. PICK f : f = Top
  OBVIOUS
<1>2. stack # <<>> /\ f.op = "update" /\ UNCHANGED <<rdeps, complete>>
  BY <1>1 DEF UpdateDists, InCall
<1>3. f \in UpdateFrame /\ Tidy(f) /\ (Joining => Joins(f))
  BY <1>1, <1>2, RootsTop, FrameKinds
<1>4. PICK n \in Node : n = f.node
  BY <1>3 DEF UpdateFrame
<1>5. PICK a : a = [op |-> "extras", node |-> n, dist |-> f.dist,
                    todo |-> Extras(n) \cup {None}]
  OBVIOUS
<1>6. PICK b : b = Complete(n)
  OBVIOUS
<1>7. /\ a.op = "extras" /\ a.node = n /\ a.dist = f.dist /\ a.todo = Extras(n) \cup {None}
      /\ b.op = "complete" /\ b.node = n
  BY <1>5, <1>6 DEF Complete
<1>8. Then(<<a, b>>) /\ metadata' = [metadata EXCEPT ![n] = f.dist]
  BY <1>1, <1>4, <1>5, <1>6, NoErrorAssumption DEF UpdateDists, AssertFails, Fail
<1>9. PICK N : N = {a, b}
  OBVIOUS
<1>10. Frames' = N \cup Lower
  BY <1>2, <1>8, <1>9, RootsTop
<1>11. \A g \in N : Tidy(g)
  BY <1>7, <1>9 DEF Tidy
<1>12. ASSUME Joining PROVE \A g \in N : Joins(g)
  <2>1. f.dist \in JoinedFiles(input) /\ JoinedName(KeyOf(n))
    BY <1>2, <1>3, <1>4, <1>12 DEF Joins
  <2>2. Extras(n) = {}
    BY <2>1 DEF RootsSafe, Unasked, Extras
  <2>3. QED
    BY <1>7, <1>9, <2>1, <2>2 DEF Joins
<1>13. \A x \in Node : metadata'[x] # None => MeetsPins(metadata'[x])
  <2>1. MeetsPins(f.dist)
    BY <1>2, <1>3 DEF Tidy
  <2>2. DOMAIN metadata = Node
    BY DEF CompileInv, NamesInv, IInv, TypeOK
  <2>3. QED
    BY <1>8, <2>1, <2>2 DEF RootsSafe, HeldMeets
<1>14. \A x \in Node : JoinedName(KeyOf(x)) => rdeps'[x] = {}
  BY <1>2 DEF RootsSafe, Unasked
<1>15. QED
  BY <1>2, <1>10, <1>11, <1>12, <1>13, <1>14, RootsFollow

(* The steps that only work on the stack, the others of _update_dists. *)
LEMMA DrawingRoots ==
  ASSUME JoinedApart, CompileInv, RootsSafe, UNCHANGED compileVars,
         (NextExtra /\ error' = None) \/ NextRequirement
  PROVE  RootsSafe'
<1>1. PICK f : f = Top
  OBVIOUS
<1>2. stack # <<>> /\ UNCHANGED <<metadata, rdeps, complete>>
  BY DEF NextExtra, NextRequirement, InCall, graph
<1>3. f \in Frame /\ Tidy(f) /\ (Joining => Joins(f))
  BY <1>1, <1>2, RootsTop
<1>4. /\ \A x \in Node : metadata'[x] # None => MeetsPins(metadata'[x])
      /\ \A x \in Node : JoinedName(KeyOf(x)) => rdeps'[x] = {}
  BY <1>2 DEF RootsSafe, HeldMeets, Unasked
<1>5. ASSUME NEW N, Frames' = N \cup Lower, \A g \in N : Tidy(g),
             Joining => \A g \in N : Joins(g)
      PROVE  RootsSafe'
  BY <1>2, <1>4, <1>5, RootsFollow
<1>6. CASE NextExtra /\ error' = None
  <2>1. f.op = "extras" /\ f \in ExtrasFrame
    BY <1>1, <1>3, <1>6, FrameKinds DEF NextExtra, InCall
  <2>2. PICK e \in f.todo :
          \/ Then(<<[f EXCEPT !.todo = @ \ {e}]>>)
          \/ Then(<<[op |-> "requires", node |-> f.node, todo |-> f.dist.requires[e]],
                    [f EXCEPT !.todo = @ \ {e}]>>)
    BY <1>1, <1>6, NoErrorAssumption DEF NextExtra, AssertFails, Fail
  <2>3. PICK b : b = [op |-> "requires", node |-> f.node, todo |-> f.dist.requires[e]]
    OBVIOUS
  <2>4. PICK a : a = [f EXCEPT !.todo = @ \ {e}]
    OBVIOUS
  <2>5. /\ b.op = "requires" /\ b.todo = f.dist.requires[e]
        /\ a.op = "extras" /\ a.node = f.node /\ a.dist = f.dist /\ a.todo \subseteq f.todo
    BY <2>1, <2>3, <2>4 DEF ExtrasFrame
  <2>6. \A i \in DOMAIN b.todo : b.todo[i] \in Reqs(f.dist, e)
    BY <2>5 DEF Reqs
  <2>7. f.dist \in Dist /\ e \in Extra \cup {None} /\ input \in Inputs
    BY <2>1, JoinedType DEF ExtrasFrame
  <2>8. \A i \in DOMAIN b.todo : ~JoinedName(b.todo[i].name)
    BY <2>6, <2>7 DEF JoinedName, JoinedApart
  <2>9. Tidy(a) /\ Tidy(b)
    BY <2>5, <2>8 DEF Tidy
  <2>10. ASSUME Joining PROVE Joins(a) /\ Joins(b)
    <3>1. f.dist \in JoinedFiles(input) /\ JoinedName(KeyOf(f.node)) /\ f.todo \subseteq {None}
      BY <1>3, <2>1, <2>10 DEF Joins
    <3>2. e = None
      BY <3>1
    <3>3. \A r \in Reqs(f.dist, None) : r \in SourceReqs(f.dist)
      BY DEF Reqs, SourceReqs
    <3>4. \A i \in DOMAIN b.todo : b.todo[i] \in JoinedPins(input)
      BY <2>6, <3>1, <3>2, <3>3 DEF JoinedPins
    <3>5. QED
      BY <2>5, <3>1, <3>4 DEF Joins
  <2>11. PICK N : N \subseteq {a, b} /\ Frames' = N \cup Lower
    <3>1. Then(<<a>>) \/ Then(<<b, a>>)
      BY <2>2, <2>3, <2>4
    <3>2. Frames' = {a} \cup Lower \/ Frames' = {b, a} \cup Lower
      BY <1>2, <3>1, RootsTop
    <3>3. QED
      BY <3>2
  <2>12. QED
    BY <1>5, <2>9, <2>10, <2>11
<1>7. CASE NextRequirement /\ Return
  <2>1. PICK N : N = {}
    OBVIOUS
  <2>2. Frames' = N \cup Lower
    BY <1>2, <1>7, <2>1, RootsTop
  <2>3. QED
    BY <1>5, <2>1, <2>2
<1>8. CASE NextRequirement /\ ~Return
  <2>1. f.op = "requires" /\ f \in RequiresFrame /\ f.todo # <<>>
    BY <1>1, <1>3, <1>8, FrameKinds DEF NextRequirement, InCall
  <2>2. PICK s \in Seq(Req) : s = f.todo /\ s # <<>>
    BY <2>1 DEF RequiresFrame
  <2>3. PICK q : q = Head(s)
    OBVIOUS
  <2>4. PICK b : b = Add(q.name, None, f.node, q)
    OBVIOUS
  <2>5. PICK a : a = [f EXCEPT !.todo = Tail(@)]
    OBVIOUS
  <2>6. /\ b.op = "add" /\ b.key = q.name /\ b.dist = None /\ b.reason = q
        /\ a.op = "requires" /\ a.todo = Tail(s)
    BY <2>1, <2>2, <2>4, <2>5 DEF RequiresFrame, Add
  <2>7. Then(<<b, a>>)
    BY <1>1, <1>8, <2>1, <2>2, <2>3, <2>4, <2>5 DEF NextRequirement
  <2>8. /\ 1 \in DOMAIN s /\ q = s[1]
        /\ \A i \in DOMAIN a.todo : i + 1 \in DOMAIN s /\ a.todo[i] = s[i + 1]
    BY <2>2, <2>3, <2>6, Positions, HeadTailProperties
  <2>9. \A i \in DOMAIN s : ~JoinedName(s[i].name) /\ (Joining => s[i] \in JoinedPins(input))
    BY <1>3, <2>1, <2>2 DEF Tidy, Joins
  <2>10. Tidy(a) /\ Tidy(b) /\ (Joining => Joins(a) /\ Joins(b))
    BY <2>6, <2>8, <2>9 DEF Tidy, Joins
  <2>11. PICK N : N = {b, a}
    OBVIOUS
  <2>12. Frames' = N \cup Lower
    BY <1>2, <2>7, <2>11, RootsTop
  <2>13. (\A g \in N : Tidy(g)) /\ (Joining => \A g \in N : Joins(g))
    BY <2>10, <2>11
  <2>14. QED
    BY <1>5, <2>12, <2>13
<1>9. QED
  BY <1>6, <1>7, <1>8

(* update_complete: while the files join, only of a file, which nothing    *)
(* requires. *)
LEMMA CompletingRoots ==
  ASSUME CompileInv, RootsSafe, UNCHANGED compileVars, UpdateComplete \/ CompleteNext
  PROVE  RootsSafe'
<1>1. PICK f : f = Top
  OBVIOUS
<1>2. stack # <<>> /\ UNCHANGED <<metadata, rdeps>>
  BY DEF UpdateComplete, CompleteNext, InCall, graph
<1>3. f \in Frame /\ Tidy(f) /\ (Joining => Joins(f))
  BY <1>1, <1>2, RootsTop
<1>4. /\ \A x \in Node : metadata'[x] # None => MeetsPins(metadata'[x])
      /\ \A x \in Node : JoinedName(KeyOf(x)) => rdeps'[x] = {}
  BY <1>2 DEF RootsSafe, HeldMeets, Unasked
<1>5. CASE UpdateComplete
  <2>1. f.op = "complete" /\ f \in CompleteFrame
    BY <1>1, <1>3, <1>5, FrameKinds DEF UpdateComplete, InCall
  <2>2. PICK n \in Node : n = f.node
    BY <2>1 DEF CompleteFrame
  <2>3. PICK a : a = [op |-> "completes", todo |-> rdeps[n]]
    OBVIOUS
  <2>4. /\ a.op = "completes" /\ a.todo = rdeps[n] /\ (Return \/ Then(<<a>>))
        /\ complete' = [complete EXCEPT ![n] = NowComplete(n)]
    BY <1>1, <1>5, <2>2, <2>3 DEF UpdateComplete
  <2>5. PICK N : N \subseteq {a} /\ Frames' = N \cup Lower
    <3>1. Frames' = {} \cup Lower \/ Frames' = {a} \cup Lower
      BY <1>2, <2>4, RootsTop
    <3>2. QED
      BY <3>1
  <2>6. \A g \in N : Tidy(g)
    BY <2>4, <2>5 DEF Tidy
  <2>7. ASSUME Joining
        PROVE  (\A g \in N : Joins(g)) /\ \A m \in roots : complete'[m] = complete[m]
    <3>1. JoinedName(KeyOf(n))
      BY <1>3, <2>1, <2>2, <2>7 DEF Joins
    <3>2. rdeps[n] = {}
      BY <3>1 DEF RootsSafe, Unasked
    <3>3. n \notin roots
      BY <3>1 DEF RootsSafe
    <3>4. \A m \in roots : complete'[m] = complete[m]
      BY <2>4, <3>3 DEF CompileInv, ResolverSound, NamesInv, IInv, TypeOK
    <3>5. QED
      BY <2>4, <2>5, <3>2, <3>4 DEF Joins
  <2>8. QED
    BY <1>2, <1>4, <2>5, <2>6, <2>7, RootsFollow
<1>6. CASE CompleteNext /\ Return
  <2>1. PICK N : N = {}
    OBVIOUS
  <2>2. Frames' = N \cup Lower /\ UNCHANGED complete
    BY <1>2, <1>6, <2>1, RootsTop DEF CompleteNext, graph
  <2>3. QED
    BY <1>2, <1>4, <2>1, <2>2, RootsFollow
<1>7. CASE CompleteNext /\ ~Return
  <2>1. f.op = "completes" /\ f \in CompletesFrame
    BY <1>1, <1>3, <1>7, FrameKinds DEF CompleteNext, InCall
  <2>2. PICK n \in f.todo : Then(<<Complete(n), [f EXCEPT !.todo = @ \ {n}]>>)
    BY <1>1, <1>7 DEF CompleteNext
  <2>3. PICK b : b = Complete(n)
    OBVIOUS
  <2>4. PICK a : a = [f EXCEPT !.todo = @ \ {n}]
    OBVIOUS
  <2>5. b.op = "complete" /\ a.op = "completes" /\ Then(<<b, a>>)
    BY <2>1, <2>2, <2>3, <2>4 DEF Complete, CompletesFrame
  <2>6. PICK N : N = {b, a}
    OBVIOUS
  <2>7. Frames' = N \cup Lower /\ UNCHANGED complete
    BY <1>2, <1>7, <2>5, <2>6, RootsTop DEF CompleteNext, graph
  <2>8. \A g \in N : Tidy(g)
    BY <2>5, <2>6 DEF Tidy
  <2>9. ~Joining
    BY <1>3, <2>1, <2>2 DEF Joins
  <2>10. QED
    BY <1>2, <1>4, <2>7, <2>8, <2>9, RootsFollow
<1>8. QED
  BY <1>5, <1>6, <1>7

(* Nothing is removed while the files join. *)
LEMMA RemovingRoots ==
  ASSUME CompileInv, RootsSafe, UNCHANGED compileVars,
         \/ AlreadyRemoved \/ RemoveDists \/ DropDep \/ Unsolve
  PROVE  RootsSafe'
<1>1. stack # <<>> /\ Top.op \in {"remove", "drop"} /\ UNCHANGED complete
  BY DEF AlreadyRemoved, RemoveDists, DropDep, Unsolve, InCall, graph
<1>2. ~Joining
  BY <1>1, RootsTop DEF Joins
<1>3. IInv /\ Top \in Frame
  BY <1>1, RootsTop DEF CompileInv, NamesInv
<1>4. \A x \in Node : metadata'[x] # None => MeetsPins(metadata'[x])
  <2>1. \A x \in Node : metadata'[x] = metadata[x] \/ metadata'[x] = None
    BY <1>3 DEF AlreadyRemoved, RemoveDists, DropDep, Unsolve, graph, IInv, TypeOK
  <2>2. QED
    BY <2>1 DEF RootsSafe, HeldMeets
<1>5. \A x \in Node : JoinedName(KeyOf(x)) => rdeps'[x] = {}
  <2>1. \A x \in Node : rdeps'[x] \subseteq rdeps[x]
    BY <1>3 DEF AlreadyRemoved, RemoveDists, DropDep, Unsolve, graph, IInv, TypeOK
  <2>2. QED
    BY <2>1 DEF RootsSafe, Unasked
<1>6. ASSUME NEW a, NEW b, Return \/ Then(<<a>>) \/ Then(<<b, a>>), Tidy(a), Tidy(b)
      PROVE  RootsSafe'
  <2>1. PICK N : N \subseteq {a, b} /\ Frames' = N \cup Lower
    <3>1. \/ Frames' = {} \cup Lower \/ Frames' = {a} \cup Lower
          \/ Frames' = {b, a} \cup Lower
      BY <1>1, <1>6, RootsTop
    <3>2. QED
      BY <3>1
  <2>2. \A g \in N : Tidy(g)
    BY <1>6, <2>1
  <2>3. QED
    BY <1>1, <1>2, <1>4, <1>5, <2>1, <2>2, RootsFollow
<1>7. PICK n : n = Top.node
  OBVIOUS
<1>8. PICK c : c = Complete(n)
  OBVIOUS
<1>9. c.op = "complete" /\ Tidy(c)
  BY <1>8 DEF Complete, Tidy
<1>10. CASE AlreadyRemoved \/ Unsolve
  <2>1. Return \/ Then(<<c>>)
    BY <1>7, <1>8, <1>10 DEF AlreadyRemoved, Unsolve
  <2>2. QED
    BY <1>6, <1>9, <2>1
<1>11. CASE RemoveDists
  <2>1. PICK a : a = [op |-> "drop", node |-> Top.node, todo |-> DOMAIN deps'[Top.node],
                      upstream |-> Top.upstream]
    OBVIOUS
  <2>2. a.op = "drop" /\ Then(<<a>>)
    BY <1>11, <2>1 DEF RemoveDists
  <2>3. Tidy(a)
    BY <2>2 DEF Tidy
  <2>4. QED
    BY <1>6, <2>2, <2>3
<1>12. CASE DropDep
  <2>1. Top.op = "drop" /\ Top \in DropFrame
    BY <1>3, <1>12, FrameKinds DEF DropDep, InCall
  <2>2. PICK d \in Top.todo :
          \/ Then(<<Remove(d, TRUE), [Top EXCEPT !.todo = @ \ {d}]>>)
          \/ Then(<<[Top EXCEPT !.todo = @ \ {d}]>>)
    BY <1>12 DEF DropDep
  <2>3. PICK b : b = Remove(d, TRUE)
    OBVIOUS
  <2>4. PICK a : a = [Top EXCEPT !.todo = @ \ {d}]
    OBVIOUS
  <2>5. b.op = "remove" /\ a.op = "drop" /\ (Then(<<b, a>>) \/ Then(<<a>>))
    BY <2>1, <2>2, <2>3, <2>4 DEF Remove, DropFrame
  <2>6. Tidy(a) /\ Tidy(b)
    BY <2>5 DEF Tidy
  <2>7. QED
    BY <1>6, <2>5, <2>6
<1>13. QED
  BY <1>10, <1>11, <1>12

LEMMA GraphRoots ==
  ASSUME JoinedApart, PinsAgree, CompileInv, RootsSafe, GraphStep, UNCHANGED compileVars
  PROVE  RootsInv'
<1>1. CASE error' # None
  BY <1>1 DEF RootsInv, Off
<1>2. CASE error' = None
  <2>1. ~TooManyFrames /\ ~AddAssertFails
    BY <1>2, NoErrorAssumption DEF TooManyFrames, AddAssertFails, AssertFails, Fail
  <2>2. CASE Restore \/ LastExtra
    <3>1. stack # <<>> /\ Return /\ UNCHANGED <<metadata, rdeps, complete>>
      BY <2>2 DEF Restore, LastExtra, InCall, graph
    <3>2. PICK N : N = {}
      OBVIOUS
    <3>3. Frames' = N \cup Lower
      BY <3>1, <3>2, RootsTop
    <3>4. /\ \A x \in Node : metadata'[x] # None => MeetsPins(metadata'[x])
          /\ \A x \in Node : JoinedName(KeyOf(x)) => rdeps'[x] = {}
      BY <3>1 DEF RootsSafe, HeldMeets, Unasked
    <3>5. RootsSafe'
      BY <3>1, <3>2, <3>3, <3>4, RootsFollow
    <3>6. QED
      BY <3>5 DEF RootsInv
  <2>3. CASE ~(Restore \/ LastExtra)
    <3>1. RootsSafe'
      BY <1>2, <2>1, <2>3, AddDistRoots, UpdateDistsRoots, DrawingRoots, CompletingRoots,
         RemovingRoots DEF GraphStep
    <3>2. QED
      BY <3>1 DEF RootsInv
  <2>4. QED
    BY <2>2, <2>3
<1>3. QED
  BY <1>1, <1>2

(* The last two calls stay, whatever comes and goes above them. *)
LEMMA LastTwo ==
  ASSUME NEW S, NEW s \in Seq(S), LoopIsLast(s), Len(s) > 1, NEW a, NEW b, NEW t,
         \/ t = Tail(s) /\ Len(s) > 2
         \/ t = <<a>> \o Tail(s) /\ Len(s) > 2 /\ a.op # "constrain"
         \/ /\ t = <<a, b>> \o Tail(s)
            /\ a.op # "constrain" /\ b.op # "constrain"
            /\ Len(s) = 2 => b.op = "loop"
  PROVE  LoopIsLast(t) /\ Len(t) > 1
<1>1. Len(s) \in Nat /\ s # <<>>
  BY EmptySeq
<1>2. CASE t = Tail(s) /\ Len(s) > 2
  <2>1. Len(t) = Len(s) - 1 /\ \A i \in 1..Len(t) : t[i] = s[i + 1]
    BY <1>1, <1>2, Positions
  <2>2. PICK m \in Nat : m + 2 = Len(s)
    <3>1. PICK m : m = Len(s) - 2
      OBVIOUS
    <3>2. m \in Nat /\ m + 2 = Len(s)
      BY <1>1, <1>2, <3>1
    <3>3. QED
      BY <3>2
  <2>3. Len(t) = m + 1 /\ m > 0 /\ m \in 1..(m + 1) /\ m + 1 \in 1..(m + 1)
    BY <1>2, <2>1, <2>2
  <2>4. t[m + 1] = s[m + 2] /\ t[m] = s[m + 1]
    BY <2>1, <2>2, <2>3
  <2>5. /\ s[m + 2].op = "constrain" /\ s[m + 1].op = "loop"
        /\ \A i \in 1..(m + 1) : s[i].op # "constrain"
    BY <1>1, <1>2, <2>2 DEF LoopIsLast
  <2>6. ASSUME NEW i \in 1..m
        PROVE  t[i].op # "constrain"
    <3>1. i \in 1..Len(t) /\ i + 1 \in 1..(m + 1)
      BY <2>3
    <3>2. t[i] = s[i + 1]
      BY <2>1, <3>1
    <3>3. QED
      BY <2>5, <3>1, <3>2
  <2>7. t # <<>> /\ Len(t) - 1 = m /\ Len(t) > 1
    BY <2>3, EmptySeq
  <2>8. QED
    BY <2>3, <2>4, <2>5, <2>6, <2>7 DEF LoopIsLast
<1>3. CASE t = <<a>> \o Tail(s) /\ Len(s) > 2 /\ a.op # "constrain"
  <2>1. Len(t) = Len(s) /\ t[1] = a /\ \A i \in 2..Len(t) : t[i] = s[i]
    BY <1>1, <1>3, Positions
  <2>2. PICK m \in Nat : m + 3 = Len(s)
    <3>1. PICK m : m = Len(s) - 3
      OBVIOUS
    <3>2. m \in Nat /\ m + 3 = Len(s)
      BY <1>1, <1>3, <3>1
    <3>3. QED
      BY <3>2
  <2>3. /\ Len(t) = m + 3 /\ Len(t) - 1 = m + 2
        /\ m + 3 \in 2..Len(t) /\ m + 2 \in 2..Len(t)
    BY <2>1, <2>2
  <2>4. t[m + 3] = s[m + 3] /\ t[m + 2] = s[m + 2]
    BY <2>1, <2>3
  <2>5. /\ s[m + 3].op = "constrain" /\ s[m + 2].op = "loop"
        /\ \A i \in 1..(m + 2) : s[i].op # "constrain"
    BY <1>1, <1>3, <2>2 DEF LoopIsLast
  <2>6. ASSUME NEW i \in 1..(m + 2)
        PROVE  t[i].op # "constrain"
    <3>1. i = 1 \/ i \in 2..Len(t)
      BY <2>3
    <3>2. i = 1 \/ t[i] = s[i]
      BY <2>1, <3>1
    <3>3. QED
      BY <1>3, <2>1, <2>5, <3>2
  <2>7. QED
    BY <2>3, <2>4, <2>5, <2>6 DEF LoopIsLast
<1>4. CASE /\ t = <<a, b>> \o Tail(s)
           /\ a.op # "constrain" /\ b.op # "constrain"
           /\ Len(s) = 2 => b.op = "loop"
  <2>1. /\ Len(t) = Len(s) + 1 /\ t[1] = a /\ t[2] = b
        /\ \A i \in 3..Len(t) : t[i] = s[i - 1]
    BY <1>1, <1>4, Positions
  <2>2. /\ t[Len(t)] = s[Len(s)]
        /\ Len(s) # 2 => t[Len(t) - 1] = s[Len(s) - 1]
        /\ Len(s) = 2 => t[Len(t) - 1] = b
        /\ \A i \in 1..(Len(t) - 1) :
             i = 1 \/ i = 2 \/ (t[i] = s[i - 1] /\ i - 1 \in 1..(Len(s) - 1))
    BY <1>1, <2>1
  <2>3. QED
    BY <1>1, <1>4, <2>1, <2>2 DEF LoopIsLast
<1>5. QED
  BY <1>2, <1>3, <1>4

(* How many calls there are when the innermost one is of a kind. *)
LEMMA CallsBelow ==
  ASSUME CompileInv, CallsPlaced, calls # <<>>
  PROVE  /\ calls \in Seq(CallFrame) /\ Len(calls) \in Nat \ {0}
         /\ CTop.op = "constrain" <=> Len(calls) = 1
         /\ CTop.op \notin {"constrain", "loop"} => Len(calls) > 2
<1>1. calls \in Seq(CallFrame)
  BY DEF CompileInv, ResolverSound, CallsSound
<1>2. Len(calls) \in Nat \ {0} /\ CTop = calls[1]
  BY <1>1, Positions DEF CTop
<1>3. PICK s : s = calls
  OBVIOUS
<1>4. PICK m \in Nat : m = Len(s) /\ m > 0
  BY <1>2, <1>3
<1>5. /\ s[m].op = "constrain"
      /\ m > 1 => s[m - 1].op = "loop"
      /\ \A i \in 1..(m - 1) : s[i].op # "constrain"
  BY <1>3, <1>4 DEF CallsPlaced, LoopIsLast
<1>6. CASE m = 1
  BY <1>1, <1>2, <1>3, <1>4, <1>5, <1>6
<1>7. CASE m # 1
  <2>1. 1 \in 1..(m - 1) /\ m > 1
    BY <1>4, <1>7
  <2>2. s[1].op # "constrain"
    BY <1>5, <2>1
  <2>3. m = 2 => s[1].op = "loop"
    BY <1>5
  <2>4. m = 2 \/ m > 2
    BY <1>4, <2>1
  <2>5. QED
    BY <1>1, <1>2, <1>3, <1>4, <1>7, <2>2, <2>3, <2>4
<1>8. QED
  BY <1>6, <1>7

LEMMA CallsPlace ==
  ASSUME CompileInv, CallsPlaced, UNCHANGED <<input, outcome>>, calls # <<>>,
         NEW a, NEW b, Listed(a), Listed(b), LoopIsLast(calls)',
         CThen(<<>>) \/ CThen(<<a>>) \/ CThen(<<a, b>>)
  PROVE  CallsPlaced'
<1>1. \A f \in CallSet' : Listed(f)
  <2>1. CallSet' \subseteq {a, b} \cup CallSet
    BY CallsBecome
  <2>2. QED
    BY <2>1 DEF CallsPlaced
<1>2. \A f \in CallSet' : Listed(f)'
  BY <1>1, PinsRemain
<1>3. (outcome = "solved" => calls = <<>>)'
  BY DEF CallsPlaced
<1>4. QED
  BY <1>2, <1>3 DEF CallsPlaced

LEMMA CallsMove ==
  ASSUME CompileInv, CallsPlaced, UNCHANGED <<input, outcome>>, calls # <<>>,
         CTop.op \notin {"constrain", "loop"}, NEW a, NEW b, Listed(a), Listed(b),
         a.op # "constrain", b.op # "constrain",
         CThen(<<>>) \/ CThen(<<a>>) \/ CThen(<<a, b>>)
  PROVE  CallsPlaced' /\ ~Joining'
<1>1. PICK s \in Seq(CallFrame) : s = calls /\ Len(s) > 2 /\ LoopIsLast(s)
  BY CallsBelow DEF CallsPlaced
<1>2. PICK t : t = calls'
  OBVIOUS
<1>3. t = Tail(s) \/ t = <<a>> \o Tail(s) \/ t = <<a, b>> \o Tail(s)
  <2>1. Tail(s) \in Seq(CallFrame)
    BY <1>1, EmptySeq, HeadTailProperties
  <2>2. <<>> \o Tail(s) = Tail(s)
    BY <2>1, ConcatEmptySeq
  <2>3. QED
    BY <1>1, <1>2, <2>2 DEF CThen
<1>4. LoopIsLast(t) /\ Len(t) > 1
  <2>1. Len(s) > 1 /\ Len(s) # 2
    <3>1. PICK m \in Nat : m = Len(s)
      BY <1>1
    <3>2. m > 2
      BY <1>1, <3>1
    <3>3. m > 1 /\ m # 2
      BY <3>2
    <3>4. QED
      BY <3>1, <3>3
  <2>2. CASE t = Tail(s) \/ t = <<a>> \o Tail(s)
    BY <1>1, <2>1, <2>2, LastTwo
  <2>3. CASE t = <<a, b>> \o Tail(s)
    BY <1>1, <2>1, <2>3, LastTwo
  <2>4. QED
    BY <1>3, <2>2, <2>3
<1>5. LoopIsLast(calls)' /\ ~Joining'
  <2>1. ~(Len(t) <= 1)
    <3>1. Len(t) \in Nat
      <4>1. s # <<>>
        BY <1>1, EmptySeq
      <4>2. Len(s) \in Nat
        BY <1>1
      <4>3. QED
        BY <1>1, <1>3, <4>1, <4>2, Positions
    <3>2. QED
      BY <1>4, <3>1
  <2>2. QED
    BY <1>2, <1>4, <2>1 DEF LoopIsLast, Joining
<1>6. QED
  BY <1>5, CallsPlace

(* The resolver works between two calls of the graph, or calls it. *)
LEMMA RootsWait ==
  ASSUME RootsSafe, Idle, UNCHANGED graph, UNCHANGED input, CallsPlaced',
         \A n \in roots' : ~JoinedName(KeyOf(n)),
         Joining' => \A n \in roots' : complete[n],
         NEW N, Frames' = N, \A f \in N : Tidy(f) /\ (Joining' => Joins(f))
  PROVE  RootsSafe'
<1>1. UNCHANGED <<metadata, rdeps, complete>>
  BY DEF graph
<1>2. /\ \A k : JoinedName(k)' = JoinedName(k)
      /\ \A d : MeetsPins(d)' = MeetsPins(d)
      /\ \A f : Tidy(f)' = Tidy(f) /\ Joins(f)' = Joins(f)
  BY PinsRemain
<1>3. Unasked'
  <2>1. ASSUME NEW n \in Node, NEW k, k = KeyOf(n), JoinedName(k)'
        PROVE  rdeps[n] = {}
    BY <1>2, <2>1 DEF RootsSafe, Unasked
  <2>2. QED
    BY <1>1, <2>1 DEF Unasked
<1>4. HeldMeets'
  <2>1. ASSUME NEW n \in Node, NEW d, d = metadata[n], d # None
        PROVE  MeetsPins(d)'
    BY <1>2, <2>1 DEF RootsSafe, HeldMeets
  <2>2. QED
    BY <1>1, <2>1 DEF HeldMeets
<1>5. \A f \in N : Tidy(f)' /\ (Joining' => Joins(f)')
  BY <1>2
<1>6. RootsDone'
  BY <1>1, <1>5 DEF RootsDone
<1>7. \A n \in roots' : ~JoinedName(KeyOf(n))'
  <2>1. ASSUME NEW n \in roots', NEW k, k = KeyOf(n)
        PROVE  ~JoinedName(k)'
    BY <1>2, <2>1
  <2>2. QED
    BY <2>1
<1>8. QED
  BY <1>3, <1>4, <1>5, <1>6, <1>7 DEF RootsSafe

LEMMA RootsQuiet ==
  ASSUME RootsSafe, Idle, UNCHANGED vars, UNCHANGED <<input, roots>>, CallsPlaced',
         Joining' => \A n \in roots : complete[n]
  PROVE  RootsSafe'
<1>1. PICK N : N = {}
  OBVIOUS
<1>2. Len(stack') = 0 /\ UNCHANGED graph
  BY DEF Idle, vars
<1>3. Frames' = N
  BY <1>1, <1>2 DEF Frames, FramesOf
<1>4. \A n \in roots' : ~JoinedName(KeyOf(n))
  BY DEF RootsSafe
<1>5. Joining' => \A n \in roots' : complete[n]
  OBVIOUS
<1>6. \A f \in N : Tidy(f) /\ (Joining' => Joins(f))
  BY <1>1
<1>7. QED
  BY <1>2, <1>3, <1>4, <1>5, <1>6, RootsWait

LEMMA RootsCall ==
  ASSUME RootsSafe, Idle, UNCHANGED input, CallsPlaced',
         \A n \in roots' : ~JoinedName(KeyOf(n)),
         Joining' => \A n \in roots' : complete[n],
         NEW f, Call(f), Tidy(f), Joining' => Joins(f)
  PROVE  RootsSafe'
<1>1. PICK N : N = {f}
  OBVIOUS
<1>2. stack' = <<f>> /\ UNCHANGED graph
  BY DEF Call
<1>3. Len(stack') = 1 /\ stack'[1] = f /\ 1..1 = {1}
  BY <1>2
<1>4. Frames' = N
  BY <1>1, <1>3 DEF Frames, FramesOf
<1>5. \A g \in N : Tidy(g) /\ (Joining' => Joins(g))
  BY <1>1
<1>6. QED
  BY <1>2, <1>4, <1>5, RootsWait

(* perform_compile: the inputs are added first, the files last. *)
LEMMA StartRoots ==
  ASSUME CompileInv, RootsSafe, AddRoot
  PROVE  RootsSafe'
<1>1. /\ Idle /\ calls # <<>> /\ CTop.op = "start" /\ UNCHANGED <<input, outcome>>
  BY DEF AddRoot, Running
<1>2. CTop \in CallSet /\ CTop \in ListCall
  BY <1>1, CallsBecome, CallKinds
<1>3. PICK g : g = CTop
  OBVIOUS
<1>4. /\ g.op = "start" /\ g \in ListCall
      /\ \A i \in DOMAIN g.todo : MeetsPins(g.todo[i]) /\ ~JoinedName(g.todo[i].name)
  BY <1>1, <1>2, <1>3 DEF RootsSafe, CallsPlaced, Listed
<1>5. CASE g.todo = <<>>
  <2>1. CThen(<<>>) /\ UNCHANGED vars /\ UNCHANGED roots
    BY <1>3, <1>5 DEF AddRoot, Quiet
  <2>2. PICK l : l = [op |-> "loop"]
    OBVIOUS
  <2>3. l.op = "loop" /\ Listed(l)
    BY <2>2 DEF Listed
  <2>4. CallsPlaced' /\ ~Joining'
    BY <1>1, <2>1, <2>3, CallsMove DEF RootsSafe
  <2>5. QED
    BY <1>1, <2>1, <2>4, RootsQuiet
<1>6. CASE g.todo # <<>>
  <2>1. PICK s \in Seq(Dist) : s = g.todo /\ s # <<>>
    BY <1>4, <1>6 DEF ListCall
  <2>2. PICK d : d = Head(s)
    OBVIOUS
  <2>3. /\ CallAdd(d.name, d, None, None)
        /\ roots' = roots \cup {Target(d.name)}
        /\ CThen(<<[g EXCEPT !.todo = Tail(@)]>>)
    BY <1>3, <1>6, <2>1, <2>2 DEF AddRoot
  <2>4. /\ d = s[1] /\ 1 \in DOMAIN s /\ d \in Dist
        /\ \A i \in DOMAIN Tail(s) : i + 1 \in DOMAIN s /\ Tail(s)[i] = s[i + 1]
    BY <2>1, <2>2, HeadTailProperties, EmptySeq
  <2>5. d.name \in Key
    BY <2>4, DistAssumption DEF Container
  <2>6. PICK a : a = [g EXCEPT !.todo = Tail(@)]
    OBVIOUS
  <2>7. a.op = "start" /\ a.todo = Tail(s) /\ CThen(<<a>>)
    BY <1>4, <2>1, <2>3, <2>6 DEF ListCall
  <2>8. Listed(a)
    BY <1>4, <2>1, <2>4, <2>7 DEF Listed
  <2>9. CallsPlaced' /\ ~Joining'
    BY <1>1, <2>7, <2>8, CallsMove DEF RootsSafe
  <2>10. KeyOf(Target(d.name)) = d.name
    BY <2>5 DEF CompileInv, NamesInv, Target, KeysAgree, KeyOf
  <2>11. MeetsPins(d) /\ ~JoinedName(d.name)
    BY <1>4, <2>1, <2>4
  <2>12. \A n \in roots' : ~JoinedName(KeyOf(n))
    BY <2>3, <2>10, <2>11 DEF RootsSafe
  <2>13. PICK f : f = Add(d.name, d, None, None)
    OBVIOUS
  <2>14. f.op = "add" /\ f.dist = d /\ f.source = None /\ Call(f)
    BY <2>3, <2>13 DEF Add, CallAdd
  <2>15. Tidy(f)
    BY <2>11, <2>14 DEF Tidy
  <2>16. QED
    BY <1>1, <2>9, <2>12, <2>14, <2>15, RootsCall
<1>7. QED
  BY <1>5, <1>6

LEMMA ConstrainRoots ==
  ASSUME JoinedApart, CompileInv, RootsSafe, AddConstraints
  PROVE  RootsSafe'
<1>1. /\ Idle /\ calls # <<>> /\ CTop.op = "constrain" /\ UNCHANGED <<input, roots>>
  BY DEF AddConstraints, Running
<1>2. CTop \in CallSet /\ CTop \in ListCall
  BY <1>1, CallsBecome, CallKinds
<1>3. PICK g : g = CTop
  OBVIOUS
<1>4. /\ g.op = "constrain" /\ g \in ListCall
      /\ \A i \in DOMAIN g.todo : g.todo[i] \in JoinedFiles(input)
  BY <1>1, <1>2, <1>3 DEF RootsSafe, CallsPlaced, Listed
<1>5. Len(calls) = 1 /\ Tail(calls) = <<>>
  <2>1. Len(calls) = 1 /\ calls \in Seq(CallFrame)
    BY <1>1, CallsBelow DEF RootsSafe
  <2>2. Tail(calls) \in Seq(CallFrame) /\ Len(Tail(calls)) = 0
    BY <1>1, <2>1, HeadTailProperties
  <2>3. QED
    BY <2>1, <2>2, EmptySeq
<1>6. \A n \in roots : complete[n]
  <2>1. Joining
    BY <1>5 DEF Joining
  <2>2. QED
    BY <2>1 DEF RootsSafe, RootsDone
<1>7. \A n \in roots' : ~JoinedName(KeyOf(n))
  BY <1>1 DEF RootsSafe
<1>8. CASE g.todo = <<>>
  <2>1. CThen(<<>>) /\ UNCHANGED vars
    BY <1>3, <1>8 DEF AddConstraints, Quiet
  <2>2. calls' = <<>>
    BY <1>5, <2>1 DEF CThen
  <2>3. Len(calls') = 0
    BY <2>2
  <2>4. CallsPlaced'
    BY <2>2, <2>3 DEF CallsPlaced, LoopIsLast, CallSet, FramesOf
  <2>5. QED
    BY <1>1, <1>6, <2>1, <2>4, RootsQuiet
<1>9. CASE g.todo # <<>>
  <2>1. PICK s \in Seq(Dist) : s = g.todo /\ s # <<>>
    BY <1>4, <1>9 DEF ListCall
  <2>2. PICK d : d = Head(s)
    OBVIOUS
  <2>3. /\ CallAdd(d.name, d, None, None) /\ UNCHANGED outcome
        /\ CThen(<<[g EXCEPT !.todo = Tail(@)]>>)
    BY <1>3, <1>9, <2>1, <2>2 DEF AddConstraints
  <2>4. /\ d = s[1] /\ 1 \in DOMAIN s
        /\ \A i \in DOMAIN Tail(s) : i + 1 \in DOMAIN s /\ Tail(s)[i] = s[i + 1]
    BY <2>1, <2>2, HeadTailProperties, EmptySeq
  <2>5. d \in JoinedFiles(input)
    BY <1>4, <2>1, <2>4
  <2>6. PICK a : a = [g EXCEPT !.todo = Tail(@)]
    OBVIOUS
  <2>7. a.op = "constrain" /\ a.todo = Tail(s) /\ CThen(<<a>>)
    BY <1>4, <2>1, <2>3, <2>6 DEF ListCall
  <2>8. Listed(a)
    BY <1>4, <2>1, <2>4, <2>7 DEF Listed
  <2>9. calls' = <<a>>
    <3>1. <<a>> \in Seq({a})
      OBVIOUS
    <3>2. <<a>> \o <<>> = <<a>>
      BY <3>1, ConcatEmptySeq
    <3>3. QED
      BY <1>5, <2>7, <3>2 DEF CThen
  <2>10. Len(calls') = 1 /\ calls'[1] = a
    BY <2>9
  <2>11. LoopIsLast(calls)'
    BY <2>7, <2>10 DEF LoopIsLast
  <2>12. CallsPlaced'
    BY <1>1, <2>3, <2>7, <2>8, <2>11, CallsPlace DEF RootsSafe
  <2>13. ASSUME NEW r \in JoinedPins(input)
         PROVE  r.name # d.name
    <3>1. PICK c \in Dist : r \in Reqs(c, None)
      BY JoinedType
    <3>2. QED
      BY <2>5, <3>1, JoinedType DEF JoinedApart
  <2>14. MeetsPins(d)
    BY <2>13 DEF MeetsPins
  <2>15. PICK f : f = Add(d.name, d, None, None)
    OBVIOUS
  <2>16. /\ f.op = "add" /\ f.dist = d /\ f.key = d.name /\ f.source = None
         /\ f.reason = None /\ Call(f)
    BY <2>3, <2>15 DEF Add, CallAdd
  <2>17. Tidy(f) /\ Joins(f)
    BY <2>5, <2>14, <2>16 DEF Tidy, Joins
  <2>18. Joining' => \A n \in roots' : complete[n]
    BY <1>1, <1>6
  <2>19. QED
    BY <1>1, <1>7, <2>12, <2>16, <2>17, <2>18, RootsCall
<1>10. QED
  BY <1>8, <1>9

(* The loop ends when every root is complete; only then the files join. *)
LEMMA RoundRoots ==
  ASSUME CompileInv, RootsSafe, Round, ~Off'
  PROVE  RootsSafe'
<1>1. /\ Idle /\ calls # <<>> /\ CTop.op = "loop" /\ UNCHANGED <<input, roots>>
      /\ UNCHANGED vars
  BY DEF Round, Running, Quiet
<1>2. PICK a : a = [op |-> "round", todo |-> roots]
  OBVIOUS
<1>3. PICK b : b = CTop
  OBVIOUS
<1>4. /\ UNCHANGED outcome
      /\ \/ CThen(<<>>) /\ \A n \in roots : complete[n]
         \/ CThen(<<a, b>>)
  BY <1>2, <1>3 DEF Round, Raise, Off
<1>5. a.op = "round" /\ b.op = "loop" /\ Listed(a) /\ Listed(b)
  BY <1>1, <1>2, <1>3 DEF Listed
<1>6. PICK s \in Seq(CallFrame) : s = calls /\ LoopIsLast(s)
  BY <1>1, CallsBelow DEF RootsSafe, CallsPlaced
<1>7. PICK m \in Nat : m = Len(s) /\ m > 1
  <2>1. Len(s) \in Nat \ {0} /\ Len(s) # 1
    BY <1>1, <1>6, CallsBelow DEF RootsSafe
  <2>2. PICK m : m = Len(s)
    OBVIOUS
  <2>3. m \in Nat /\ m > 1
    BY <2>1, <2>2
  <2>4. QED
    BY <2>2, <2>3
<1>8. PICK t : t = calls'
  OBVIOUS
<1>9. CASE t = <<a, b>> \o Tail(s)
  <2>1. LoopIsLast(t) /\ Len(t) > 1
    BY <1>5, <1>6, <1>7, <1>9, LastTwo
  <2>2. Len(t) \in Nat
    BY <1>6, <1>7, <1>9, EmptySeq, Positions
  <2>3. LoopIsLast(calls)' /\ ~Joining'
    <3>1. ~(Len(t) <= 1)
      BY <2>1, <2>2
    <3>2. QED
      BY <1>8, <2>1, <3>1 DEF LoopIsLast, Joining
  <2>4. CallsPlaced'
    BY <1>1, <1>4, <1>5, <2>3, CallsPlace DEF RootsSafe
  <2>5. QED
    BY <1>1, <2>3, <2>4, RootsQuiet
<1>10. CASE t = Tail(s) /\ \A n \in roots : complete[n]
  <2>1. LoopIsLast(t)
    <3>1. CASE m > 2
      BY <1>6, <1>7, <1>10, <3>1, LastTwo
    <3>2. CASE m = 2
      <4>1. s # <<>>
        BY <1>6, <1>7, EmptySeq
      <4>2. Len(t) = 1 /\ t[1] = s[2]
        <5>1. Len(t) = Len(s) - 1 /\ \A i \in 1..Len(t) : t[i] = s[i + 1]
          BY <1>10, <4>1, Positions
        <5>2. Len(s) = 2 /\ 2 - 1 = 1 /\ 1 + 1 = 2
          BY <1>7, <3>2
        <5>3. Len(t) = 1
          BY <5>1, <5>2
        <5>4. \A i \in {1} : t[i] = s[i + 1]
          <6>1. 1..1 = {1}
            OBVIOUS
          <6>2. QED
            BY <5>1, <5>3, <6>1
        <5>5. t[1] = s[1 + 1]
          BY <5>4
        <5>6. QED
          BY <5>2, <5>3, <5>5
      <4>3. s[2].op = "constrain"
        BY <1>6, <1>7, <3>2, <4>1 DEF LoopIsLast
      <4>4. QED
        BY <4>2, <4>3 DEF LoopIsLast
    <3>3. QED
      BY <1>7, <3>1, <3>2
  <2>2. LoopIsLast(calls)'
    BY <1>8, <2>1 DEF LoopIsLast
  <2>3. CThen(<<>>) \/ CThen(<<a, b>>)
    BY <1>4
  <2>4. CallsPlaced'
    BY <1>1, <1>4, <1>5, <2>2, <2>3, CallsPlace DEF RootsSafe
  <2>5. QED
    BY <1>1, <1>10, <2>4, RootsQuiet
<1>11. QED
  <2>1. Tail(s) \in Seq(CallFrame)
    BY <1>6, <1>7, EmptySeq, HeadTailProperties
  <2>2. <<>> \o Tail(s) = Tail(s)
    BY <2>1, ConcatEmptySeq
  <2>3. QED
    BY <1>4, <1>6, <1>8, <1>9, <1>10, <2>2 DEF CThen

(* The calls between the first and the last. *)
LEMMA OtherRoots ==
  ASSUME CompileInv, RootsSafe, UNCHANGED outcome,
         \/ NoNeed \/ AlreadySolved \/ Retry \/ NextRoot
         \/ WalkBack \/ Block \/ Unblock \/ Acquire \/ EnterDeps \/ NextDep
  PROVE  /\ Idle /\ UNCHANGED <<input, roots>> /\ CallsPlaced' /\ ~Joining'
         /\ \A n \in roots' : ~JoinedName(KeyOf(n))
<1>1. PICK a, b : /\ a.op \notin {"start", "constrain"}
                  /\ b.op \notin {"start", "constrain"}
                  /\ CThen(<<>>) \/ CThen(<<a>>) \/ CThen(<<a, b>>)
  BY OtherCallsBecome
<1>2. Listed(a) /\ Listed(b)
  BY <1>1 DEF Listed
<1>3. /\ Idle /\ calls # <<>> /\ UNCHANGED <<input, roots>>
      /\ CTop.op \notin {"constrain", "loop"}
  BY DEF NoNeed, AlreadySolved, Retry, NextRoot, WalkBack, Block, Unblock, Acquire,
     EnterDeps, NextDep, Impossible, Unsolved, ToProcess, Entered, Running
<1>4. CallsPlaced' /\ ~Joining'
  BY <1>1, <1>2, <1>3, CallsMove DEF RootsSafe
<1>5. QED
  BY <1>3, <1>4 DEF RootsSafe

(* Block: nothing requires an entry, least of all a file. *)
LEMMA BlockRoots ==
  ASSUME CompileInv, RootsSafe, Block
  PROVE  RootsSafe'
<1>1. /\ Idle /\ calls # <<>> /\ CTop.op = "block" /\ UNCHANGED outcome
  BY DEF Block, Running
<1>2. PICK d : d = BadDist(KeyOf(CTop.node), CTop.version)
  OBVIOUS
<1>3. CallAdd(d.name, d, None, None)
  BY <1>2 DEF Block
<1>4. d \in Dist
  BY <1>1, <1>2, InnermostCall DEF Sound
<1>5. d.meta /\ d.version # None
  BY <1>2, NoneAssumption DEF BadDist
<1>6. d.name \in EntryKey
  BY <1>4, <1>5, MetaAssumption
<1>7. ASSUME NEW r \in JoinedPins(input)
      PROVE  r.name # d.name
  <2>1. PICK c \in Dist : r \in Reqs(c, None)
    BY JoinedType
  <2>2. QED
    BY <1>6, <2>1, EntryAssumption DEF Reqs
<1>8. MeetsPins(d)
  BY <1>7 DEF MeetsPins
<1>9. PICK f : f = Add(d.name, d, None, None)
  OBVIOUS
<1>10. f.op = "add" /\ f.dist = d /\ f.source = None /\ Call(f)
  BY <1>3, <1>9 DEF Add, CallAdd
<1>11. Tidy(f)
  BY <1>8, <1>10 DEF Tidy
<1>12. QED
  BY <1>1, <1>10, <1>11, OtherRoots, RootsCall

(* Acquire: a candidate meets the pins, and is a project. *)
LEMMA AcquireRoots ==
  ASSUME JoinedApart, PinsAgree, CompileInv, RootsSafe, Acquire
  PROVE  RootsSafe'
<1>1. /\ calls # <<>> /\ CTop \in CompileCall /\ UNCHANGED outcome
  BY CompileCallSound DEF Acquire, Unsolved
<1>2. PICK c : c = CTop
  OBVIOUS
<1>3. PICK n \in Node : n = c.node
  BY <1>1, <1>2 DEF CompileCall
<1>4. PICK k \in Key : k = KeyOf(n)
  BY NodeType
<1>5. PICK w : w = Wanted(n) /\ Pins(k) \subseteq w
  BY <1>4 DEF Wanted
<1>6. PICK v \in Fits(k, w) :
        \E d \in IF index[<<k, v>>] = None THEN Offers[<<k, v>>]
                 ELSE {index[<<k, v>>]} :
          CallAdd(k, d, c.source, Reason(n, c.source, d))
  BY <1>2, <1>3, <1>4, <1>5 DEF Acquire
<1>7. k \in Project /\ v \in Published[k]
  BY <1>6 DEF Fits
<1>8. PICK d \in Offers[<<k, v>>] : CallAdd(k, d, c.source, Reason(n, c.source, d))
  BY <1>6, <1>7 DEF CompileInv, ResolverSound, IndexSound
<1>9. d.name = k /\ d.version = v
  BY <1>7, <1>8, OffersAssumption
<1>10. MeetsPins(d)
  BY <1>5, <1>6, <1>7, <1>9, FittingMeets
<1>11. ~JoinedName(k)
  BY <1>7, JoinedType DEF JoinedApart, JoinedName
<1>12. PICK f : f = Add(k, d, c.source, Reason(n, c.source, d))
  OBVIOUS
<1>13. f.op = "add" /\ f.dist = d /\ f.key = k /\ Call(f)
  BY <1>8, <1>12 DEF Add, CallAdd
<1>14. Tidy(f)
  BY <1>10, <1>11, <1>13 DEF Tidy
<1>15. QED
  BY <1>1, <1>13, <1>14, OtherRoots, RootsCall

LEMMA ResolverRoots ==
  ASSUME JoinedApart, PinsAgree, CompileInv, RootsSafe, CompileStep
  PROVE  RootsInv'
<1>1. CASE Off'
  BY <1>1 DEF RootsInv
<1>2. CASE ~Off'
  <2>1. ~GraphFailed
    BY <1>2, FailureEnds
  <2>2. ~(TooDeep \/ CompileAssertFails \/ GiveUp \/ NoCandidate \/ RepositoryError
            \/ CircularDependency)
    BY <1>2, RaisingEnds
  <2>3. ~Unwind
    <3>1. ASSUME Unwind
          PROVE  outcome = "solved" /\ calls # <<>>
      BY <1>2, <3>1 DEF Unwind, Off
    <3>2. QED
      BY <3>1 DEF RootsSafe, CallsPlaced
  <2>4. CASE AddRoot \/ AddConstraints \/ Round
    BY <1>2, <2>4, StartRoots, ConstrainRoots, RoundRoots DEF RootsInv
  <2>5. CASE Block \/ Acquire
    BY <2>5, BlockRoots, AcquireRoots DEF RootsInv
  <2>6. CASE WalkBack \/ Unblock
    <3>1. UNCHANGED outcome
      BY <2>6 DEF WalkBack, Unblock
    <3>2. PICK n : CallRemove(n)
      BY <2>6 DEF WalkBack, Unblock
    <3>3. PICK f : f = Remove(n, FALSE)
      OBVIOUS
    <3>4. f.op = "remove" /\ Call(f)
      BY <3>2, <3>3 DEF Remove, CallRemove
    <3>5. Tidy(f)
      BY <3>4 DEF Tidy
    <3>6. RootsSafe'
      BY <2>6, <3>1, <3>4, <3>5, OtherRoots, RootsCall
    <3>7. QED
      BY <3>6 DEF RootsInv
  <2>7. CASE NoNeed \/ AlreadySolved \/ Retry \/ NextRoot \/ EnterDeps \/ NextDep
    <3>1. UNCHANGED vars /\ UNCHANGED outcome
      BY <2>7 DEF NextRoot, NoNeed, AlreadySolved, Retry, EnterDeps, NextDep, Quiet
    <3>2. RootsSafe'
      BY <2>7, <3>1, OtherRoots, RootsQuiet
    <3>3. QED
      BY <3>2 DEF RootsInv
  <2>8. QED
    BY <2>1, <2>2, <2>3, <2>4, <2>5, <2>6, <2>7 DEF CompileStep
<1>3. QED
  BY <1>1, <1>2

LEMMA RootsKeep ==
  ASSUME JoinedApart, PinsAgree, CompileInv, RootsInv, [CNext]_allVars
  PROVE  RootsInv'
<1>1. CASE Off
  BY <1>1, OffStays DEF RootsInv
<1>2. CASE ~Off
  <2>1. RootsSafe
    BY <1>2 DEF RootsInv
  <2>2. CASE GraphStep /\ UNCHANGED compileVars
    BY <2>1, <2>2, GraphRoots
  <2>3. CASE UNCHANGED allVars
    <3>1. UNCHANGED <<metadata, rdeps, complete, stack, calls, input, roots, outcome>>
      BY <2>3 DEF allVars, vars, graph, compileVars
    <3>2. CallSet' = CallSet /\ Frames' = Frames /\ Joining' = Joining
      BY <3>1 DEF CallSet, Frames, Joining
    <3>3. /\ \A k : JoinedName(k)' = JoinedName(k)
          /\ \A d : MeetsPins(d)' = MeetsPins(d)
          /\ \A f : Tidy(f)' = Tidy(f) /\ Joins(f)' = Joins(f) /\ Listed(f)' = Listed(f)
      BY <3>1, PinsRemain
    <3>4. Unasked'
      <4>1. ASSUME NEW n \in Node, NEW k, k = KeyOf(n), JoinedName(k)'
            PROVE  rdeps[n] = {}
        BY <2>1, <3>3, <4>1 DEF RootsSafe, Unasked
      <4>2. QED
        BY <3>1, <4>1 DEF Unasked
    <3>5. HeldMeets'
      <4>1. ASSUME NEW n \in Node, NEW d, d = metadata[n], d # None
            PROVE  MeetsPins(d)'
        BY <2>1, <3>3, <4>1 DEF RootsSafe, HeldMeets
      <4>2. QED
        BY <3>1, <4>1 DEF HeldMeets
    <3>6. CallsPlaced'
      <4>1. LoopIsLast(calls)' /\ (outcome = "solved" => calls = <<>>)'
        BY <2>1, <3>1 DEF RootsSafe, CallsPlaced, LoopIsLast
      <4>2. QED
        BY <2>1, <3>2, <3>3, <4>1 DEF RootsSafe, CallsPlaced
    <3>7. RootsDone'
      BY <2>1, <3>1, <3>2, <3>3 DEF RootsSafe, RootsDone
    <3>8. \A n \in roots' : ~JoinedName(KeyOf(n))'
      <4>1. ASSUME NEW n \in roots, NEW k, k = KeyOf(n)
            PROVE  ~JoinedName(k)'
        BY <2>1, <3>3, <4>1 DEF RootsSafe
      <4>2. QED
        BY <3>1, <4>1
    <3>9. \A f \in Frames' : Tidy(f)'
      BY <2>1, <3>2, <3>3 DEF RootsSafe
    <3>10. QED
      BY <3>4, <3>5, <3>6, <3>7, <3>8, <3>9 DEF RootsSafe, RootsInv
  <2>4. CASE CompileStep
    BY <2>1, <2>4, ResolverRoots
  <2>5. QED
    BY <2>2, <2>3, <2>4 DEF CNext, Done
<1>3. QED
  BY <1>1, <1>2

LEMMA RootsStart ==
  ASSUME JoinedApart, PinsAgree, CInit
  PROVE  RootsSafe
<1>1. /\ metadata = [n \in Node |-> None] /\ rdeps = [n \in Node |-> {}]
      /\ stack = <<>> /\ roots = {} /\ outcome = "running" /\ input \in Inputs
  BY DEF CInit, Init
<1>2. Len(stack) = 0
  BY <1>1
<1>3. /\ Unasked /\ HeldMeets /\ \A f \in Frames : Tidy(f)
      /\ \A n \in roots : ~JoinedName(KeyOf(n))
  BY <1>1, <1>2 DEF Unasked, HeldMeets, Frames, FramesOf
<1>4. PICK a, b, c : /\ a = [op |-> "start", todo |-> Sources]
                     /\ b = [op |-> "loop"]
                     /\ c = [op |-> "constrain", todo |-> Afterwards]
  OBVIOUS
<1>5. /\ a.op = "start" /\ b.op = "loop" /\ c.op = "constrain"
      /\ a.todo = Sources /\ c.todo = Afterwards
      /\ Len(calls) = 3 /\ calls[1] = a /\ calls[2] = b /\ calls[3] = c
  BY <1>4 DEF CInit
<1>6. 1..Len(calls) = {1, 2, 3} /\ 1..(Len(calls) - 1) = {1, 2} /\ ~Joining
  BY <1>5 DEF Joining
<1>7. CallSet = {a, b, c}
  BY <1>5, <1>6 DEF CallSet, FramesOf
<1>8. Listed(c)
  BY <1>5 DEF Listed, Afterwards, JoinedFiles
<1>9. Listed(a)
  <2>1. CASE JoinedFiles(input) = {}
    BY <1>5, <2>1 DEF Listed, MeetsPins, JoinedPins, JoinedName
  <2>2. CASE JoinedFiles(input) # {}
    <3>1. Sources = input.roots
      BY <2>2 DEF Sources, JoinedFiles
    <3>2. ASSUME NEW i \in DOMAIN input.roots
          PROVE  MeetsPins(input.roots[i]) /\ ~JoinedName(input.roots[i].name)
      <4>1. MeetsPins(input.roots[i])
        BY <1>1 DEF MeetsPins, PinsAgree
      <4>2. ~JoinedName(input.roots[i].name)
        BY <1>1 DEF JoinedName, JoinedApart
      <4>3. QED
        BY <4>1, <4>2
    <3>3. QED
      BY <1>5, <3>1, <3>2 DEF Listed
  <2>3. QED
    BY <2>1, <2>2
<1>10. Listed(b)
  BY <1>5 DEF Listed
<1>11. LoopIsLast(calls)
  BY <1>5, <1>6 DEF LoopIsLast
<1>12. CallsPlaced
  BY <1>1, <1>7, <1>8, <1>9, <1>10, <1>11 DEF CallsPlaced
<1>13. QED
  BY <1>3, <1>6, <1>12 DEF RootsSafe, RootsDone

(* The loop found every root complete, and the files that join the results *)
(* undo none of that: their pins only link them to projects that are held  *)
(* at just these versions, so no root is unsolved, and no root asks for a  *)
(* file, so none is looked at again (compile.py _add_constraints).  Where  *)
(* the pins do not agree with each other the property is false.            *)
THEOREM RootsStayComplete ==
  ASSUME JoinedApart, PinsAgree
  PROVE  CSpec => []RootsComplete
<1>1. CInit => RootsInv
  BY RootsStart DEF RootsInv
<1>2. CompileInv /\ RootsInv /\ [CNext]_allVars => RootsInv'
  BY RootsKeep
<1>3. RootsInv => RootsComplete
  <2>1. ASSUME RootsInv, Finished, outcome = "solved"
        PROVE  \A n \in roots : complete[n]
    <3>1. RootsSafe /\ calls = <<>>
      BY <2>1 DEF RootsInv, Off, Finished, Idle
    <3>2. Joining
      <4>1. Len(calls) = 0
        BY <3>1
      <4>2. QED
        BY <4>1 DEF Joining
    <3>3. QED
      BY <3>1, <3>2 DEF RootsSafe, RootsDone
  <2>2. QED
    BY <2>1 DEF RootsComplete
<1>4. QED
  BY <1>1, <1>2, <1>3, CompileInvariant, PTL DEF CSpec

=============================================================================
