---------------------------- MODULE CompileProofs ----------------------------
(***************************************************************************)
(* The resolver is a client of the graph that keeps the rules: every       *)
(* behaviour of Compile is one of DistGraph.  What holds of the graph      *)
(* whatever its client does (DistGraphProofs) then holds while             *)
(* compile_roots works on it, walkbacks nest no deeper than max_downgrade  *)
(* allows, and no do-not-use entry stays when perform_compile ends.        *)
(*                                                                         *)
(* WalkbackBounded counts the entries under way on the call stack and is   *)
(* not inductive.  Why there are never too many lies in what the other     *)
(* calls carry: counted from the bottom of the stack, the downgrade of a   *)
(* call and the entries below it add up to no more than MaxDowngrade, and  *)
(* the walkback budget of compile_roots, which alone is tested before      *)
(* another one (compile.py:176), is never larger than its downgrade.       *)
(***************************************************************************)
EXTENDS ResolverProperties, DistGraphProofs, FiniteSetTheorems

(* The frames of compile.py's calls *)
ListCall == [op : {"start", "constrain"}, todo : Seq(Dist)]
LoopCall == [op : {"loop"}]
RoundCall == [op : {"round"}, todo : SUBSET Node]
CompileCall == [op : {"compile"}, node : Node, source : Node \cup {None},
                depth : Nat, downgrade : Nat, path : SUBSET Node, budget : Nat]
BlockCall == [op : {"block"}, node : Node, version : Version,
              depth : Nat, downgrade : Nat, path : SUBSET Node, budget : Nat]
TryCall == [op : {"try"}, node : Node, depth : Nat, downgrade : Nat,
            path : SUBSET Node, budget : Nat, entry : Node]
FinallyCall == [op : {"finally"}, node : Node]
DescendCall == [op : {"descend"}, node : Node, depth : Nat, downgrade : Nat,
                path : SUBSET Node]
DepsCall == [op : {"deps"}, node : Node, depth : Nat, downgrade : Nat,
             path : SUBSET Node, todo : SUBSET Node]

CallFrame == ListCall \cup LoopCall \cup RoundCall \cup CompileCall
               \cup BlockCall \cup TryCall \cup FinallyCall \cup DescendCall
               \cup DepsCall

(* What a call relies on, b do-not-use entries being under way below it.   *)
Sound(f, b) ==
  /\ f.op \in {"start", "loop", "round", "constrain"} => b = 0
  /\ f.op \in {"compile", "descend", "deps"} => f.downgrade + b <= MaxDowngrade
  /\ f.op \in {"block", "try"} => f.downgrade + b < MaxDowngrade
  /\ f.op = "finally" => b < MaxDowngrade
  /\ f.op \in {"compile", "block", "try"} => f.budget <= f.downgrade
  /\ f.op = "block" => BadDist(KeyOf(f.node), f.version) \in Dist

(* Positions counted from the bottom stay when calls come and go on top.   *)
FromBottom(s, p) == s[Len(s) + 1 - p]
Entries(s, p) == {q \in 1..(p - 1) : FromBottom(s, q).op = "finally"}
CallsSound(s) ==
  /\ s \in Seq(CallFrame)
  /\ \A p \in 1..Len(s) : Sound(FromBottom(s, p), Cardinality(Entries(s, p)))

(* What was fetched for a published version is what the index offers. *)
IndexSound(ix) ==
  /\ DOMAIN ix = DOMAIN Offers
  /\ \A k \in Project : \A v \in Published[k] :
       ix[<<k, v>>] # None => ix[<<k, v>>] \in Offers[<<k, v>>]

ResolverSound ==
  /\ input \in Inputs /\ roots \subseteq Node /\ rounds \in Nat
  /\ outcome \in Outcomes
  /\ CallsSound(calls) /\ IndexSound(index)

(* The inductive invariant. *)
CompileInv == NamesInv /\ ResolverSound

-----------------------------------------------------------------------------
(* The call stack *)

(* A call is of the kind its op says.                                      *)
LEMMA CallKinds ==
  ASSUME NEW f \in CallFrame
  PROVE  /\ f.op \in {"start", "constrain"} => f \in ListCall
         /\ f.op = "loop" => f \in LoopCall
         /\ f.op = "round" => f \in RoundCall
         /\ f.op = "compile" => f \in CompileCall
         /\ f.op = "block" => f \in BlockCall
         /\ f.op = "try" => f \in TryCall
         /\ f.op = "finally" => f \in FinallyCall
         /\ f.op = "descend" => f \in DescendCall
         /\ f.op = "deps" => f \in DepsCall
         /\ f.op \in {"start", "constrain", "loop", "round", "compile",
                      "block", "try", "finally", "descend", "deps"}
  BY DEF CallFrame, ListCall, LoopCall, RoundCall, CompileCall, BlockCall,
         TryCall, FinallyCall, DescendCall, DepsCall

(* The entries below a position are finitely many, and one more below the  *)
(* next position if this one is an entry.                                  *)
LEMMA CountEntries ==
  ASSUME NEW s, NEW p \in Nat \ {0}
  PROVE  /\ IsFiniteSet(Entries(s, p)) /\ Cardinality(Entries(s, p)) \in Nat
         /\ Cardinality(Entries(s, p + 1)) =
              IF FromBottom(s, p).op = "finally"
              THEN Cardinality(Entries(s, p)) + 1
              ELSE Cardinality(Entries(s, p))
<1>1. IsFiniteSet(Entries(s, p)) /\ Cardinality(Entries(s, p)) \in Nat
  <2>1. IsFiniteSet(1..(p - 1))
    BY FS_Interval
  <2>2. Entries(s, p) \in SUBSET (1..(p - 1))
    BY DEF Entries
  <2>3. QED
    BY <2>1, <2>2, FS_Subset, FS_CardinalityType
<1>2. CASE FromBottom(s, p).op = "finally"
  <2>1. Entries(s, p + 1) = Entries(s, p) \cup {p} /\ p \notin Entries(s, p)
    BY <1>2 DEF Entries
  <2>2. QED
    BY <1>1, <1>2, <2>1, FS_AddElement
<1>3. CASE FromBottom(s, p).op # "finally"
  <2>1. Entries(s, p + 1) = Entries(s, p)
    BY <1>3 DEF Entries
  <2>2. QED
    BY <1>1, <1>3, <2>1
<1>4. QED
  BY <1>1, <1>2, <1>3

(* The innermost call.                                                     *)
LEMMA TopSound ==
  ASSUME NEW s, CallsSound(s), s # <<>>
  PROVE  /\ Head(s) \in CallFrame /\ Head(s) = FromBottom(s, Len(s))
         /\ Sound(Head(s), Cardinality(Entries(s, Len(s))))
         /\ Cardinality(Entries(s, Len(s))) \in Nat
         /\ Len(s) \in Nat \ {0}
<1>1. s \in Seq(CallFrame)
  BY DEF CallsSound
<1>2. Len(s) \in Nat \ {0} /\ Head(s) = s[1] /\ Head(s) \in CallFrame
  BY <1>1, EmptySeq, HeadTailProperties
<1>3. Len(s) \in 1..Len(s) /\ Head(s) = FromBottom(s, Len(s))
  BY <1>2 DEF FromBottom
<1>4. QED
  BY <1>2, <1>3, CountEntries DEF CallsSound

(* Replacing the innermost call by the calls fs leaves the others alone.   *)
Replaces(t, s, fs) ==
  /\ t \in Seq(CallFrame) /\ Len(t) = Len(fs) + Len(s) - 1
  /\ \A p \in 1..(Len(s) - 1) : FromBottom(t, p) = FromBottom(s, p)
  /\ \A p \in 1..Len(s) : Entries(t, p) = Entries(s, p)
  /\ \A i \in 1..Len(fs) : t[i] = fs[i]

LEMMA BottomStays ==
  ASSUME NEW s \in Seq(CallFrame), s # <<>>, NEW fs \in Seq(CallFrame),
         NEW t, t = fs \o Tail(s)
  PROVE  Replaces(t, s, fs)
<1>1. /\ Tail(s) \in Seq(CallFrame) /\ Len(Tail(s)) = Len(s) - 1
      /\ \A i \in 1..Len(Tail(s)) : Tail(s)[i] = s[i + 1]
      /\ Len(s) \in Nat \ {0} /\ Len(fs) \in Nat
  BY HeadTailProperties, EmptySeq
<1>2. /\ t \in Seq(CallFrame) /\ Len(t) = Len(fs) + Len(s) - 1
      /\ \A i \in 1..Len(t) : t[i] = IF i <= Len(fs) THEN fs[i]
                                     ELSE Tail(s)[i - Len(fs)]
  BY <1>1, ConcatProperties
<1>3. ASSUME NEW p \in 1..(Len(s) - 1)
      PROVE  FromBottom(t, p) = FromBottom(s, p)
  <2>1. PICK i : i = Len(t) + 1 - p
    OBVIOUS
  <2>2. PICK j : j = Len(s) - p
    OBVIOUS
  <2>3. /\ i \in 1..Len(t) /\ ~(i <= Len(fs)) /\ i - Len(fs) = j
        /\ j \in 1..Len(Tail(s)) /\ j + 1 = Len(s) + 1 - p
    BY <1>1, <1>2, <2>1, <2>2
  <2>4. t[i] = Tail(s)[j]
    BY <1>2, <2>3
  <2>5. Tail(s)[j] = s[Len(s) + 1 - p]
    BY <1>1, <2>3
  <2>6. QED
    BY <2>1, <2>4, <2>5 DEF FromBottom
<1>4. ASSUME NEW p \in 1..Len(s)
      PROVE  Entries(t, p) = Entries(s, p)
  <2>1. \A q \in 1..(p - 1) : FromBottom(t, q) = FromBottom(s, q)
    BY <1>1, <1>3
  <2>2. QED
    BY <2>1 DEF Entries
<1>5. ASSUME NEW i \in 1..Len(fs)
      PROVE  t[i] = fs[i]
  <2>1. i \in 1..Len(t)
    BY <1>1, <1>2
  <2>2. QED
    BY <1>1, <1>2, <2>1
<1>6. QED
  BY <1>2, <1>3, <1>4, <1>5 DEF Replaces

(* The innermost call returns.                                             *)
LEMMA PopSound ==
  ASSUME NEW s, CallsSound(s), s # <<>>
  PROVE  CallsSound(<<>> \o Tail(s))
<1>1. s \in Seq(CallFrame)
  BY DEF CallsSound
<1>2. PICK fs \in Seq(CallFrame) : fs = <<>>
  BY EmptySeq
<1>3. PICK t : t = fs \o Tail(s)
  OBVIOUS
<1>4. /\ t \in Seq(CallFrame) /\ Len(t) = Len(fs) + Len(s) - 1
      /\ \A p \in 1..(Len(s) - 1) : FromBottom(t, p) = FromBottom(s, p)
      /\ \A p \in 1..Len(s) : Entries(t, p) = Entries(s, p)
  BY <1>1, <1>3, BottomStays DEF Replaces
<1>5. Len(fs) = 0 /\ Len(s) \in Nat
  BY <1>1, <1>2, EmptySeq
<1>6. CallsSound(t)
  BY <1>4, <1>5 DEF CallsSound
<1>7. QED
  BY <1>2, <1>3, <1>6

(* One call takes its place.                                               *)
LEMMA OneSound ==
  ASSUME NEW s, CallsSound(s), s # <<>>, NEW a \in CallFrame,
         Sound(a, Cardinality(Entries(s, Len(s))))
  PROVE  CallsSound(<<a>> \o Tail(s))
<1>1. s \in Seq(CallFrame) /\ Len(s) \in Nat \ {0}
  BY EmptySeq DEF CallsSound
<1>2. PICK fs \in Seq(CallFrame) : fs = <<a>>
  <2>1. <<a>> \in Seq(CallFrame)
    OBVIOUS
  <2>2. QED
    BY <2>1
<1>3. PICK t : t = fs \o Tail(s)
  OBVIOUS
<1>4. /\ t \in Seq(CallFrame) /\ Len(t) = Len(fs) + Len(s) - 1
      /\ \A p \in 1..(Len(s) - 1) : FromBottom(t, p) = FromBottom(s, p)
      /\ \A p \in 1..Len(s) : Entries(t, p) = Entries(s, p)
      /\ \A i \in 1..Len(fs) : t[i] = fs[i]
  <2>1. Replaces(t, s, fs)
    BY <1>1, <1>3, BottomStays
  <2>2. QED
    BY <2>1 DEF Replaces
<1>5. Len(fs) = 1 /\ fs[1] = a
  BY <1>2
<1>6. Len(t) = Len(s) /\ FromBottom(t, Len(s)) = a
  BY <1>1, <1>4, <1>5 DEF FromBottom
<1>7. ASSUME NEW p \in 1..Len(t)
      PROVE  Sound(FromBottom(t, p), Cardinality(Entries(t, p)))
  <2>1. CASE p = Len(s)
    BY <1>4, <1>6, <2>1
  <2>2. CASE p # Len(s)
    BY <1>1, <1>4, <1>6, <2>2 DEF CallsSound
  <2>3. QED
    BY <2>1, <2>2
<1>8. QED
  BY <1>2, <1>3, <1>4, <1>7 DEF CallsSound

(* Two calls take its place, a inside b.                                   *)
LEMMA TwoSound ==
  ASSUME NEW s, CallsSound(s), s # <<>>,
         NEW a \in CallFrame, NEW b \in CallFrame,
         Sound(b, Cardinality(Entries(s, Len(s)))),
         b.op = "finally" => Sound(a, Cardinality(Entries(s, Len(s))) + 1),
         b.op # "finally" => Sound(a, Cardinality(Entries(s, Len(s))))
  PROVE  CallsSound(<<a, b>> \o Tail(s))
<1>1. s \in Seq(CallFrame) /\ Len(s) \in Nat \ {0}
  BY EmptySeq DEF CallsSound
<1>2. PICK fs \in Seq(CallFrame) : fs = <<a, b>>
  <2>1. <<a, b>> \in Seq(CallFrame)
    OBVIOUS
  <2>2. QED
    BY <2>1
<1>3. PICK t : t = fs \o Tail(s)
  OBVIOUS
<1>4. /\ t \in Seq(CallFrame) /\ Len(t) = Len(fs) + Len(s) - 1
      /\ \A p \in 1..(Len(s) - 1) : FromBottom(t, p) = FromBottom(s, p)
      /\ \A p \in 1..Len(s) : Entries(t, p) = Entries(s, p)
      /\ \A i \in 1..Len(fs) : t[i] = fs[i]
  <2>1. Replaces(t, s, fs)
    BY <1>1, <1>3, BottomStays
  <2>2. QED
    BY <2>1 DEF Replaces
<1>5. Len(fs) = 2 /\ fs[1] = a /\ fs[2] = b
  BY <1>2
<1>6. /\ Len(t) = Len(s) + 1
      /\ FromBottom(t, Len(s)) = b /\ FromBottom(t, Len(s) + 1) = a
  <2>1. Len(t) = Len(s) + 1
    BY <1>1, <1>4, <1>5
  <2>2. /\ Len(t) + 1 - Len(s) = 2 /\ Len(t) + 1 - (Len(s) + 1) = 1
        /\ 1 \in 1..Len(fs) /\ 2 \in 1..Len(fs)
    BY <1>1, <1>5, <2>1
  <2>3. t[1] = a /\ t[2] = b
    BY <1>4, <1>5, <2>2
  <2>4. QED
    BY <2>1, <2>2, <2>3 DEF FromBottom
<1>7. Cardinality(Entries(t, Len(s) + 1)) =
        IF b.op = "finally" THEN Cardinality(Entries(s, Len(s))) + 1
        ELSE Cardinality(Entries(s, Len(s)))
  <2>1. Entries(t, Len(s)) = Entries(s, Len(s))
    BY <1>1, <1>4
  <2>2. PICK p \in Nat \ {0} : p = Len(s)
    BY <1>1
  <2>3. Cardinality(Entries(t, p + 1)) =
          IF FromBottom(t, p).op = "finally"
          THEN Cardinality(Entries(t, p)) + 1
          ELSE Cardinality(Entries(t, p))
    BY CountEntries
  <2>4. QED
    BY <1>6, <2>1, <2>2, <2>3
<1>8. ASSUME NEW p \in 1..Len(t)
      PROVE  Sound(FromBottom(t, p), Cardinality(Entries(t, p)))
  <2>1. CASE p = Len(s) + 1
    BY <1>6, <1>7, <2>1
  <2>2. CASE p = Len(s)
    BY <1>1, <1>4, <1>6, <2>2
  <2>3. CASE p < Len(s)
    BY <1>1, <1>4, <2>3 DEF CallsSound
  <2>4. QED
    BY <1>1, <1>6, <2>1, <2>2, <2>3
<1>9. QED
  BY <1>2, <1>3, <1>4, <1>8 DEF CallsSound

(* The entries under way are as many as the invariant counts.              *)
LEMMA CountIsBounded ==
  ASSUME NEW s, CallsSound(s)
  PROVE  Cardinality({i \in DOMAIN s : s[i].op = "finally"}) <= MaxDowngrade
<1> DEFINE S == {i \in DOMAIN s : s[i].op = "finally"}
           T == Entries(s, Len(s) + 1)
           turn == [i \in S |-> Len(s) + 1 - i]
<1>1. s \in Seq(CallFrame) /\ Len(s) \in Nat /\ DOMAIN s = 1..Len(s)
  BY DEF CallsSound
<1>2. IsFiniteSet(T) /\ Cardinality(T) \in Nat
  BY <1>1, CountEntries
<1>3. Cardinality(T) <= MaxDowngrade
  <2>1. CASE s = <<>>
    <3>1. Len(s) = 0
      BY <2>1
    <3>2. T = {}
      BY <3>1 DEF Entries
    <3>3. QED
      BY <3>2, FS_EmptySet, LimitsAssumption
  <2>2. CASE s # <<>>
    <3>1. PICK b : b = Cardinality(Entries(s, Len(s)))
      OBVIOUS
    <3>2. /\ Head(s) \in CallFrame /\ Head(s) = FromBottom(s, Len(s))
          /\ Sound(Head(s), b) /\ b \in Nat /\ Len(s) \in Nat \ {0}
      BY <2>2, <3>1, TopSound
    <3>3. Cardinality(T) = IF Head(s).op = "finally" THEN b + 1 ELSE b
      BY <3>1, <3>2, CountEntries
    <3>4. b <= MaxDowngrade /\ (Head(s).op = "finally" => b < MaxDowngrade)
      <4>1. CASE Head(s).op \in {"start", "loop", "round", "constrain", "finally"}
        BY <3>2, <4>1, LimitsAssumption DEF Sound
      <4>2. CASE Head(s).op \in {"compile", "descend", "deps", "block", "try"}
        <5>1. Head(s).downgrade \in Nat
          BY <3>2, <4>2, CallKinds
             DEF CompileCall, DescendCall, DepsCall, BlockCall, TryCall
        <5>2. QED
          BY <3>2, <4>2, <5>1, LimitsAssumption DEF Sound
      <4>3. QED
        BY <3>2, <4>1, <4>2, CallKinds
    <3>5. QED
      BY <3>2, <3>3, <3>4, LimitsAssumption
  <2>3. QED
    BY <2>1, <2>2
<1>4. turn \in [S -> T] /\ \A i, j \in S : turn[i] = turn[j] => i = j
  <2>1. ASSUME NEW i \in S PROVE Len(s) + 1 - i \in T
    <3>1. i \in 1..Len(s) /\ s[i].op = "finally"
      BY <1>1
    <3>2. /\ Len(s) + 1 - i \in 1..(Len(s) + 1 - 1)
          /\ Len(s) + 1 - (Len(s) + 1 - i) = i
      BY <1>1, <3>1
    <3>3. QED
      BY <3>1, <3>2 DEF Entries, FromBottom
  <2>2. QED
    BY <1>1, <2>1
<1>5. IsFiniteSet(S)
  <2>1. IsFiniteSet(1..Len(s)) /\ S \in SUBSET (1..Len(s))
    BY <1>1, FS_Interval
  <2>2. QED
    BY <2>1, FS_Subset
<1>6. Cardinality(S) \in Nat /\ ~(Cardinality(T) < Cardinality(S))
  <2> HIDE DEF S, T, turn
  <2>1. QED
    BY <1>2, <1>4, <1>5, FS_PigeonHole, FS_CardinalityType
<1>7. QED
  BY <1>2, <1>3, <1>6, LimitsAssumption

-----------------------------------------------------------------------------
(* Steps of the resolver *)

EntriesBelow == Cardinality(Entries(calls, Len(calls)))

(* What a step may use of the innermost call.                              *)
LEMMA InnermostCall ==
  ASSUME CompileInv, calls # <<>>
  PROVE  /\ CTop \in CallFrame /\ Sound(CTop, EntriesBelow)
         /\ EntriesBelow \in Nat /\ CallsSound(calls) /\ IInv /\ KeysAgree
  BY TopSound DEF CompileInv, ResolverSound, NamesInv, CTop, EntriesBelow

(* A step that changes nothing but the call stack.                         *)
LEMMA OnlyCalls ==
  ASSUME CompileInv, CallsSound(calls)',
         UNCHANGED <<input, roots, rounds, index, outcome>>
  PROVE  ResolverSound'
  BY DEF CompileInv, ResolverSound, IndexSound

(* The innermost call returns, or one or two others take its place.        *)
LEMMA Returns ==
  ASSUME CompileInv, calls # <<>>, CThen(<<>>)
  PROVE  CallsSound(calls)'
<1>1. CallsSound(<<>> \o Tail(calls))
  BY PopSound DEF CompileInv, ResolverSound
<1>2. QED
  BY <1>1 DEF CThen

LEMMA RunsOne ==
  ASSUME CompileInv, calls # <<>>, NEW a \in CallFrame, CThen(<<a>>),
         Sound(a, EntriesBelow)
  PROVE  CallsSound(calls)'
<1>1. CallsSound(<<a>> \o Tail(calls))
  BY OneSound DEF CompileInv, ResolverSound, EntriesBelow
<1>2. QED
  BY <1>1 DEF CThen

LEMMA RunsTwo ==
  ASSUME CompileInv, calls # <<>>, NEW a \in CallFrame, NEW b \in CallFrame,
         CThen(<<a, b>>), Sound(b, EntriesBelow),
         b.op = "finally" => Sound(a, EntriesBelow + 1),
         b.op # "finally" => Sound(a, EntriesBelow)
  PROVE  CallsSound(calls)'
<1>1. CallsSound(<<a, b>> \o Tail(calls))
  BY TwoSound DEF CompileInv, ResolverSound, EntriesBelow
<1>2. QED
  BY <1>1 DEF CThen

(* The resolver raises an exception: the calls are unwound later.          *)
LEMMA Raises ==
  ASSUME CompileInv, NEW ex \in Outcomes, Raise(ex),
         UNCHANGED <<input, roots, rounds, index>>
  PROVE  ResolverSound'
  BY DEF CompileInv, ResolverSound, IndexSound, Raise, CallsSound

(* The objects that add_dist works on.                                     *)
LEMMA TargetType ==
  ASSUME IInv, NEW k \in Key, nodes[k] = None => born[k] < MaxObjects[k]
  PROVE  Target(k) \in Node
<1>1. CASE nodes[k] # None
  BY <1>1 DEF Target, IInv, TypeOK
<1>2. CASE nodes[k] = None
  <2>1. born[k] + 1 \in 1..MaxObjects[k]
    BY <1>2, MaxObjectsAssumption DEF IInv, TypeOK
  <2>2. QED
    BY <1>2, <2>1, NodeType DEF Target
<1>3. QED
  BY <1>1, <1>2

(* A distribution is added under its own name.                             *)
LEMMA AddsOwnName ==
  ASSUME CompileInv, NEW d \in Dist, CallAdd(d.name, d, None, None)
  PROVE  Next /\ Target(d.name) \in Node
<1>1. d.name \in Key
  BY DistAssumption DEF Container
<1>2. ClientStep
  BY <1>1 DEF ClientStep
<1>3. QED
  BY <1>1, <1>2, TargetType DEF Next, CallAdd, CompileInv, NamesInv

(* AddRoot and AddConstraints: the next input file or project.             *)
LEMMA AddRootSound ==
  ASSUME CompileInv, AddRoot
  PROVE  [Next]_vars /\ ResolverSound'
<1>1. /\ calls # <<>> /\ CTop \in CallFrame /\ CTop.op = "start"
      /\ Sound(CTop, EntriesBelow)
  BY InnermostCall DEF AddRoot, Running
<1>2. CTop \in ListCall
  BY <1>1, CallKinds
<1>3. CASE CTop.todo = <<>>
  <2>1. CThen(<<>>) /\ Quiet /\ UNCHANGED <<input, roots, rounds, index, outcome>>
    BY <1>3 DEF AddRoot
  <2>2. QED
    BY <1>1, <2>1, Returns, OnlyCalls DEF Quiet
<1>4. CASE CTop.todo # <<>>
  <2>1. Head(CTop.todo) \in Dist /\ Tail(CTop.todo) \in Seq(Dist)
    BY <1>2, <1>4, HeadTailProperties DEF ListCall
  <2>2. PICK d \in Dist : d = Head(CTop.todo)
    BY <2>1
  <2>3. /\ CallAdd(d.name, d, None, None)
        /\ roots' = roots \cup {Target(d.name)}
        /\ CThen(<<[CTop EXCEPT !.todo = Tail(@)]>>)
        /\ UNCHANGED <<input, rounds, index, outcome>>
    BY <1>4, <2>2 DEF AddRoot
  <2>4. Next /\ Target(d.name) \in Node
    BY <2>3, AddsOwnName
  <2>5. PICK a \in CallFrame : a = [CTop EXCEPT !.todo = Tail(@)] /\ a.op = "start"
    <3>1. /\ [CTop EXCEPT !.todo = Tail(@)] \in ListCall
          /\ [CTop EXCEPT !.todo = Tail(@)].op = "start"
      BY <1>1, <1>2, <2>1 DEF ListCall
    <3>2. QED
      BY <3>1 DEF CallFrame
  <2>6. Sound(a, EntriesBelow)
    BY <1>1, <2>5 DEF Sound
  <2>7. CallsSound(calls)'
    BY <1>1, <2>3, <2>5, <2>6, RunsOne
  <2>8. QED
    BY <2>3, <2>4, <2>7 DEF CompileInv, ResolverSound, IndexSound
<1>5. QED
  BY <1>3, <1>4

LEMMA AddConstraintsSound ==
  ASSUME CompileInv, AddConstraints
  PROVE  [Next]_vars /\ ResolverSound'
<1>1. /\ calls # <<>> /\ CTop \in CallFrame /\ CTop.op = "constrain"
      /\ Sound(CTop, EntriesBelow)
  BY InnermostCall DEF AddConstraints, Running
<1>2. CTop \in ListCall
  BY <1>1, CallKinds
<1>3. CASE CTop.todo = <<>>
  <2>1. /\ CThen(<<>>) /\ Quiet /\ UNCHANGED <<input, roots, rounds, index>>
        /\ outcome' = IF outcome = "running" THEN "solved" ELSE outcome
    BY <1>3 DEF AddConstraints
  <2>2. CallsSound(calls)'
    BY <1>1, <2>1, Returns
  <2>3. outcome' \in Outcomes
    BY <2>1 DEF CompileInv, ResolverSound, Outcomes
  <2>4. QED
    BY <2>1, <2>2, <2>3 DEF Quiet, CompileInv, ResolverSound, IndexSound
<1>4. CASE CTop.todo # <<>>
  <2>1. Head(CTop.todo) \in Dist /\ Tail(CTop.todo) \in Seq(Dist)
    BY <1>2, <1>4, HeadTailProperties DEF ListCall
  <2>2. PICK d \in Dist : d = Head(CTop.todo)
    BY <2>1
  <2>3. /\ CallAdd(d.name, d, None, None)
        /\ CThen(<<[CTop EXCEPT !.todo = Tail(@)]>>)
        /\ UNCHANGED <<input, roots, rounds, index, outcome>>
    BY <1>4, <2>2 DEF AddConstraints
  <2>4. Next
    BY <2>3, AddsOwnName
  <2>5. PICK a \in CallFrame : a = [CTop EXCEPT !.todo = Tail(@)] /\ a.op = "constrain"
    <3>1. /\ [CTop EXCEPT !.todo = Tail(@)] \in ListCall
          /\ [CTop EXCEPT !.todo = Tail(@)].op = "constrain"
      BY <1>1, <1>2, <2>1 DEF ListCall
    <3>2. QED
      BY <3>1 DEF CallFrame
  <2>6. Sound(a, EntriesBelow)
    BY <1>1, <2>5 DEF Sound
  <2>7. CallsSound(calls)'
    BY <1>1, <2>3, <2>5, <2>6, RunsOne
  <2>8. QED
    BY <2>3, <2>4, <2>7, OnlyCalls
<1>5. QED
  BY <1>3, <1>4

(* Round: the main loop ends, gives up or goes over the roots once more.   *)
LEMMA RoundSound ==
  ASSUME CompileInv, Round
  PROVE  [Next]_vars /\ ResolverSound'
<1>1. /\ calls # <<>> /\ CTop \in CallFrame /\ CTop.op = "loop"
      /\ Sound(CTop, EntriesBelow)
  BY InnermostCall DEF Round, Running
<1>2. [Next]_vars /\ UNCHANGED <<input, roots, index>>
  BY DEF Round, Quiet
<1>3. CASE CThen(<<>>) /\ UNCHANGED <<rounds, outcome>>
  <2>1. CallsSound(calls)'
    BY <1>1, <1>3, Returns
  <2>2. QED
    BY <1>2, <1>3, <2>1, OnlyCalls
<1>4. CASE Raise("IterationLimit") /\ UNCHANGED rounds
  <2>1. "IterationLimit" \in Outcomes
    BY DEF Outcomes
  <2>2. QED
    BY <1>2, <1>4, <2>1, Raises
<1>5. CASE /\ rounds' = rounds + 1 /\ UNCHANGED outcome
           /\ CThen(<<[op |-> "round", todo |-> roots], CTop>>)
  <2>1. PICK a \in CallFrame : a = [op |-> "round", todo |-> roots] /\ a.op = "round"
    <3>1. [op |-> "round", todo |-> roots] \in RoundCall
      BY DEF RoundCall, CompileInv, ResolverSound
    <3>2. QED
      BY <3>1 DEF CallFrame
  <2>2. Sound(a, EntriesBelow)
    BY <1>1, <2>1 DEF Sound
  <2>3. CallsSound(calls)'
    BY <1>1, <1>5, <2>1, <2>2, RunsTwo
  <2>4. rounds' \in Nat
    BY <1>5 DEF CompileInv, ResolverSound
  <2>5. QED
    BY <1>2, <1>5, <2>3, <2>4 DEF CompileInv, ResolverSound, IndexSound
<1>6. QED
  BY <1>3, <1>4, <1>5 DEF Round

(* A fresh call of compile_roots.                                          *)
LEMMA CompileRootsType ==
  ASSUME NEW n \in Node, NEW src \in Node \cup {None}, NEW depth \in Nat,
         NEW downgrade \in Nat, NEW path \in SUBSET Node, NEW budget \in Nat,
         NEW f, f = CompileRoots(n, src, depth, downgrade, path, budget)
  PROVE  /\ f \in CallFrame /\ f.op = "compile"
         /\ f.downgrade = downgrade /\ f.budget = budget
<1>1. f \in CompileCall
  BY DEF CompileRoots, CompileCall
<1>2. QED
  BY <1>1 DEF CallFrame, CompileRoots

(* NextRoot: a root starts with the whole downgrade and no entry below.    *)
LEMMA NextRootSound ==
  ASSUME CompileInv, NextRoot
  PROVE  [Next]_vars /\ ResolverSound'
<1>1. /\ calls # <<>> /\ CTop \in CallFrame /\ CTop.op = "round"
      /\ Sound(CTop, EntriesBelow) /\ EntriesBelow = 0
  <2>1. /\ calls # <<>> /\ CTop \in CallFrame /\ CTop.op = "round"
        /\ Sound(CTop, EntriesBelow)
    BY InnermostCall DEF NextRoot, Running
  <2>2. QED
    BY <2>1 DEF Sound
<1>2. CTop \in RoundCall
  BY <1>1, CallKinds
<1>3. [Next]_vars /\ UNCHANGED <<input, roots, rounds, index, outcome>>
  BY DEF NextRoot, Quiet
<1>4. CASE CThen(<<>>)
  BY <1>1, <1>3, <1>4, Returns, OnlyCalls
<1>5. ASSUME NEW n \in CTop.todo,
             \/ CThen(<<[CTop EXCEPT !.todo = @ \ {n}]>>)
             \/ CThen(<<CompileRoots(n, None, 1, MaxDowngrade, {}, MaxDowngrade),
                        [CTop EXCEPT !.todo = @ \ {n}]>>)
      PROVE  CallsSound(calls)'
  <2>1. PICK b \in CallFrame : b = [CTop EXCEPT !.todo = @ \ {n}] /\ b.op = "round"
    <3>1. /\ [CTop EXCEPT !.todo = @ \ {n}] \in RoundCall
          /\ [CTop EXCEPT !.todo = @ \ {n}].op = "round"
      BY <1>1, <1>2 DEF RoundCall
    <3>2. QED
      BY <3>1 DEF CallFrame
  <2>2. PICK a : a = CompileRoots(n, None, 1, MaxDowngrade, {}, MaxDowngrade)
    OBVIOUS
  <2>3. /\ a \in CallFrame /\ a.op = "compile"
        /\ a.downgrade = MaxDowngrade /\ a.budget = MaxDowngrade
    <3>1. n \in Node
      BY <1>2 DEF RoundCall
    <3>2. QED
      BY <2>2, <3>1, CompileRootsType, LimitsAssumption
  <2>4. Sound(a, EntriesBelow) /\ Sound(b, EntriesBelow)
    BY <1>1, <2>1, <2>3, LimitsAssumption DEF Sound
  <2>5. QED
    BY <1>1, <1>5, <2>1, <2>2, <2>3, <2>4, RunsOne, RunsTwo
<1>6. QED
  BY <1>3, <1>4, <1>5, OnlyCalls DEF NextRoot

(* GraphFailed and Unwind: an exception passes through.                    *)
LEMMA GraphFailedSound ==
  ASSUME CompileInv, GraphFailed
  PROVE  [Next]_vars /\ ResolverSound'
<1>1. error \in Outcomes
  BY DEF GraphFailed, Catch, CompileInv, NamesInv, IInv, TypeOK, Outcomes
<1>2. ResolverSound'
  BY <1>1, Raises DEF GraphFailed
<1>3. QED
  BY <1>2 DEF GraphFailed, Next, ClientStep

LEMMA UnwindSound ==
  ASSUME CompileInv, Unwind
  PROVE  [Next]_vars /\ ResolverSound'
  BY Returns, OnlyCalls DEF Unwind, Quiet

(* The steps of compile_roots that raise an exception.                     *)
LEMMA RaisingSound ==
  ASSUME CompileInv,
         \/ TooDeep \/ CompileAssertFails \/ GiveUp \/ NoCandidate
         \/ RepositoryError \/ CircularDependency
  PROVE  [Next]_vars /\ ResolverSound'
<1>1. /\ {"RecursionTooDeep", "AssertionError", "NoCandidate",
          "RepositoryError", "CircularDependency"} \subseteq Outcomes
      /\ Quiet /\ UNCHANGED <<input, roots, rounds, index>>
  BY DEF Outcomes, TooDeep, CompileAssertFails, GiveUp, NoCandidate,
         RepositoryError, CircularDependency
<1>2. PICK ex \in Outcomes : Raise(ex)
  BY <1>1 DEF TooDeep, CompileAssertFails, GiveUp, NoCandidate,
              RepositoryError, CircularDependency
<1>3. QED
  BY <1>1, <1>2, Raises DEF Quiet

(* NoNeed: nothing is left to do for the node.                             *)
LEMMA NoNeedSound ==
  ASSUME CompileInv, NoNeed
  PROVE  [Next]_vars /\ ResolverSound'
  BY Returns, OnlyCalls DEF NoNeed, Entered, Running, Quiet

(* What compile_roots may use of its call.                                 *)
LEMMA CompileCallSound ==
  ASSUME CompileInv, ToProcess
  PROVE  /\ calls # <<>> /\ CTop \in CompileCall /\ CTop.op = "compile"
         /\ CTop.downgrade + EntriesBelow <= MaxDowngrade
         /\ CTop.budget <= CTop.downgrade /\ EntriesBelow \in Nat
<1>1. /\ calls # <<>> /\ CTop \in CallFrame /\ CTop.op = "compile"
      /\ Sound(CTop, EntriesBelow) /\ EntriesBelow \in Nat
  BY InnermostCall DEF ToProcess, Entered, Running
<1>2. QED
  BY <1>1, CallKinds DEF Sound

(* AlreadySolved and Acquire: the dependencies are next.                   *)
LEMMA DescendKeeps ==
  ASSUME CompileInv, ToProcess, CThen(<<Descend(CTop)>>)
  PROVE  CallsSound(calls)'
<1>1. /\ calls # <<>> /\ CTop \in CompileCall
      /\ CTop.downgrade + EntriesBelow <= MaxDowngrade
  BY CompileCallSound
<1>2. PICK a : a = Descend(CTop)
  OBVIOUS
<1>3. /\ a \in DescendCall /\ a.op = "descend" /\ a.downgrade = CTop.downgrade
  BY <1>1, <1>2 DEF Descend, DescendCall, CompileCall
<1>4. a \in CallFrame /\ Sound(a, EntriesBelow)
  BY <1>1, <1>3 DEF CallFrame, Sound
<1>5. QED
  BY <1>1, <1>2, <1>4, RunsOne

LEMMA AlreadySolvedSound ==
  ASSUME CompileInv, AlreadySolved
  PROVE  [Next]_vars /\ ResolverSound'
  BY DescendKeeps, OnlyCalls DEF AlreadySolved, Quiet

(* The one to blame is a node that holds a distribution of its project.    *)
LEMMA BlamedHoldsOwn ==
  ASSUME CompileInv, NEW n \in Node, NEW b \in rdeps[n], IsStrictest(b, n),
         metadata[b].version # None
  PROVE  /\ b \in Node /\ metadata[b].version \in Version
         /\ BadDist(KeyOf(b), metadata[b].version) \in Dist
<1>1. b \in Node /\ metadata[b] \in Dist \cup {None}
  BY DEF CompileInv, NamesInv, IInv, TypeOK
<1>2. metadata[b] # None /\ ~metadata[b].meta /\ ~metadata[b].local
  BY DEF IsStrictest, Blamable
<1>3. metadata[b].name = KeyOf(b)
  BY <1>1, <1>2 DEF CompileInv, NamesInv, KeysAgree
<1>4. metadata[b] \in Container
  BY <1>1, <1>2, DistAssumption
<1>5. metadata[b].version \in Version
  BY <1>4 DEF Container
<1>6. QED
  BY <1>1, <1>2, <1>3, <1>5, BadDistAssumption

(* WalkBack: the budget is not used up, so one entry more is allowed.      *)
LEMMA WalkBackSound ==
  ASSUME CompileInv, WalkBack
  PROVE  [Next]_vars /\ ResolverSound'
<1>1. /\ calls # <<>> /\ CTop \in CompileCall
      /\ CTop.downgrade + EntriesBelow <= MaxDowngrade
      /\ CTop.budget <= CTop.downgrade /\ EntriesBelow \in Nat
  BY CompileCallSound DEF WalkBack, Impossible, Unsolved
<1>2. CTop.node \in Node /\ CTop.depth \in Nat /\ CTop.downgrade \in Nat
      /\ CTop.path \in SUBSET Node /\ CTop.budget \in Nat
  BY <1>1 DEF CompileCall
<1>3. PICK b \in rdeps[CTop.node] :
        /\ IsStrictest(b, CTop.node) /\ metadata[b].version # None
        /\ CallRemove(b)
        /\ CThen(<<WalkBackTo(CTop, b)>>)
  BY DEF WalkBack
<1>4. /\ b \in Node /\ metadata[b].version \in Version
      /\ BadDist(KeyOf(b), metadata[b].version) \in Dist
  BY <1>2, <1>3, BlamedHoldsOwn
<1>5. CTop.budget > 0 /\ UNCHANGED <<input, roots, rounds, index, outcome>>
  BY DEF WalkBack
<1>6. PICK a : a = WalkBackTo(CTop, b)
  OBVIOUS
<1>7. /\ a \in BlockCall /\ a.op = "block" /\ a.node = b
      /\ a.version = metadata[b].version
      /\ a.downgrade = CTop.downgrade - 1 /\ a.budget = CTop.budget - 1
  BY <1>1, <1>2, <1>4, <1>5, <1>6 DEF WalkBackTo, BlockCall
<1>8. a \in CallFrame /\ Sound(a, EntriesBelow)
  BY <1>1, <1>2, <1>4, <1>7, LimitsAssumption DEF CallFrame, Sound
<1>9. CallsSound(calls)'
  BY <1>1, <1>3, <1>6, <1>8, RunsOne
<1>10. Next
  BY <1>3, <1>4 DEF Next, ClientStep
<1>11. QED
  BY <1>5, <1>9, <1>10, OnlyCalls

(* Block: the entry is a distribution of its own name.                     *)
LEMMA BlockSound ==
  ASSUME CompileInv, Block
  PROVE  [Next]_vars /\ ResolverSound'
<1>1. /\ calls # <<>> /\ CTop \in CallFrame /\ CTop.op = "block"
      /\ Sound(CTop, EntriesBelow)
  BY InnermostCall DEF Block, Running
<1>2. CTop \in BlockCall
  BY <1>1, CallKinds
<1>3. PICK bad \in Dist : bad = BadDist(KeyOf(CTop.node), CTop.version)
  BY <1>1 DEF Sound
<1>4. /\ CallAdd(bad.name, bad, None, None)
      /\ CThen(<<[op |-> "try", node |-> CTop.node, depth |-> CTop.depth,
                  downgrade |-> CTop.downgrade, path |-> CTop.path,
                  budget |-> CTop.budget, entry |-> Target(bad.name)]>>)
      /\ UNCHANGED <<input, roots, rounds, index, outcome>>
  BY <1>3 DEF Block
<1>5. Next /\ Target(bad.name) \in Node
  BY <1>4, AddsOwnName
<1>6. PICK a : a = [op |-> "try", node |-> CTop.node, depth |-> CTop.depth,
                    downgrade |-> CTop.downgrade, path |-> CTop.path,
                    budget |-> CTop.budget, entry |-> Target(bad.name)]
  OBVIOUS
<1>7. /\ a \in TryCall /\ a.op = "try"
      /\ a.downgrade = CTop.downgrade /\ a.budget = CTop.budget
  BY <1>2, <1>5, <1>6 DEF BlockCall, TryCall
<1>8. a \in CallFrame /\ Sound(a, EntriesBelow)
  BY <1>1, <1>7 DEF CallFrame, Sound
<1>9. CallsSound(calls)'
  BY <1>1, <1>4, <1>6, <1>8, RunsOne
<1>10. QED
  BY <1>4, <1>5, <1>9, OnlyCalls

(* Retry: the entry counts from now on.                                    *)
LEMMA RetrySound ==
  ASSUME CompileInv, Retry
  PROVE  [Next]_vars /\ ResolverSound'
<1>1. /\ calls # <<>> /\ CTop \in CallFrame /\ CTop.op = "try"
      /\ Sound(CTop, EntriesBelow) /\ EntriesBelow \in Nat
  BY InnermostCall DEF Retry, Running
<1>2. CTop \in TryCall
  BY <1>1, CallKinds
<1>3. PICK a : a = CompileRoots(CTop.node, None, CTop.depth, CTop.downgrade,
                                CTop.path, CTop.budget)
  OBVIOUS
<1>4. /\ a \in CallFrame /\ a.op = "compile"
      /\ a.downgrade = CTop.downgrade /\ a.budget = CTop.budget
  <2>1. a \in CompileCall
    BY <1>2, <1>3 DEF TryCall, CompileCall, CompileRoots
  <2>2. QED
    BY <1>3, <2>1 DEF CallFrame, CompileRoots
<1>5. PICK b : b = [op |-> "finally", node |-> CTop.entry]
  OBVIOUS
<1>6. b \in CallFrame /\ b.op = "finally"
  BY <1>2, <1>5 DEF TryCall, FinallyCall, CallFrame
<1>7. CTop.downgrade \in Nat /\ CTop.budget \in Nat
  BY <1>2 DEF TryCall
<1>8. Sound(b, EntriesBelow) /\ Sound(a, EntriesBelow + 1)
  BY <1>1, <1>4, <1>6, <1>7, LimitsAssumption DEF Sound
<1>9. CThen(<<a, b>>) /\ Quiet /\ UNCHANGED <<input, roots, rounds, index, outcome>>
  BY <1>3, <1>5 DEF Retry
<1>10. CallsSound(calls)'
  BY <1>1, <1>4, <1>6, <1>8, <1>9, RunsTwo
<1>11. QED
  BY <1>9, <1>10, OnlyCalls DEF Quiet

(* Unblock: the entry is removed.                                          *)
LEMMA UnblockSound ==
  ASSUME CompileInv, Unblock
  PROVE  [Next]_vars /\ ResolverSound'
<1>1. calls # <<>> /\ CTop \in CallFrame /\ CTop.op = "finally"
  BY InnermostCall DEF Unblock, Running
<1>2. CTop.node \in Node
  BY <1>1, CallKinds DEF FinallyCall
<1>3. Next
  BY <1>2 DEF Unblock, Next, ClientStep
<1>4. QED
  BY <1>1, <1>3, Returns, OnlyCalls DEF Unblock

(* The reason that the source gives is a requirement, also with the extras *)
(* of the command line.                                                    *)
LEMMA ReasonType ==
  ASSUME CompileInv, NEW n \in Node, NEW src \in Node \cup {None},
         NEW d \in Dist
  PROVE  Reason(n, src, d) \in Req \cup {None}
<1>1. CASE src = None \/ n \notin DOMAIN deps[src]
  BY <1>1 DEF Reason
<1>2. CASE src # None /\ n \in DOMAIN deps[src]
  <2>1. deps[src][n] \in Req \cup {None}
    BY <1>2 DEF CompileInv, NamesInv, IInv, TypeOK, IsDependencies
  <2>2. input.extras \subseteq Extra
    BY InputsAssumption DEF CompileInv, ResolverSound, Input
  <2>3. CASE deps[src][n] # None /\ d.local
    <3>1. [deps[src][n] EXCEPT !.extras = @ \cup input.extras] \in Req
      BY <2>1, <2>2, <2>3 DEF Req
    <3>2. QED
      BY <1>2, <2>3, <3>1 DEF Reason
  <2>4. CASE ~(deps[src][n] # None /\ d.local)
    BY <1>2, <2>1, <2>4 DEF Reason
  <2>5. QED
    BY <2>3, <2>4
<1>3. QED
  BY <1>1, <1>2

(* Acquire: the candidate is a distribution of the project of the node.    *)
LEMMA AcquireSound ==
  ASSUME CompileInv, Acquire
  PROVE  [Next]_vars /\ ResolverSound'
<1>1. ToProcess /\ calls # <<>> /\ CTop \in CompileCall
  BY CompileCallSound DEF Acquire, Unsolved
<1>2. PICK n \in Node : n = CTop.node
  BY <1>1 DEF CompileCall
<1>3. PICK k \in Key : k = KeyOf(n)
  BY NodeType
<1>4. PICK v \in Fits(k, Wanted(n)) :
        \E d \in IF index[<<k, v>>] = None THEN Offers[<<k, v>>]
                 ELSE {index[<<k, v>>]} :
          /\ index' = [index EXCEPT ![<<k, v>>] = d]
          /\ CallAdd(k, d, CTop.source, Reason(n, CTop.source, d))
  BY <1>2, <1>3 DEF Acquire
<1>5. k \in Project /\ v \in Published[k]
  BY <1>4 DEF Fits
<1>6. PICK d \in Offers[<<k, v>>] :
        /\ index' = [index EXCEPT ![<<k, v>>] = d]
        /\ CallAdd(k, d, CTop.source, Reason(n, CTop.source, d))
  BY <1>4, <1>5 DEF CompileInv, ResolverSound, IndexSound
<1>7. d \in Dist /\ d.name = k
  BY <1>5, <1>6, OffersAssumption
<1>8. CTop.source \in Node \cup {None}
  BY <1>1 DEF CompileCall
<1>9. Reason(n, CTop.source, d) \in Req \cup {None}
  BY <1>2, <1>7, <1>8, ReasonType
<1>10. ClientStep
  BY <1>3, <1>6, <1>7, <1>8, <1>9 DEF ClientStep
<1>11. IndexSound(index')
  BY <1>5, <1>6 DEF CompileInv, ResolverSound, IndexSound
<1>12. CallsSound(calls)'
  BY <1>1, DescendKeeps DEF Acquire
<1>13. QED
  BY <1>10, <1>11, <1>12 DEF Acquire, CompileInv, ResolverSound, Next

(* EnterDeps: the loop runs over the dependencies of the node.             *)
LEMMA EnterDepsSound ==
  ASSUME CompileInv, EnterDeps
  PROVE  [Next]_vars /\ ResolverSound'
<1>1. /\ calls # <<>> /\ CTop \in CallFrame /\ CTop.op = "descend"
      /\ Sound(CTop, EntriesBelow)
  BY InnermostCall DEF EnterDeps, Running
<1>2. CTop \in DescendCall
  BY <1>1, CallKinds
<1>3. PICK a : a = [op |-> "deps", node |-> CTop.node, depth |-> CTop.depth,
                    downgrade |-> CTop.downgrade, path |-> CTop.path,
                    todo |-> DOMAIN deps[CTop.node]]
  OBVIOUS
<1>4. DOMAIN deps[CTop.node] \subseteq Node
  BY <1>2 DEF DescendCall, CompileInv, NamesInv, IInv, TypeOK, IsDependencies
<1>5. a \in DepsCall /\ a.op = "deps" /\ a.downgrade = CTop.downgrade
  BY <1>2, <1>3, <1>4 DEF DescendCall, DepsCall
<1>6. a \in CallFrame /\ Sound(a, EntriesBelow)
  BY <1>1, <1>5 DEF CallFrame, Sound
<1>7. CallsSound(calls)'
  BY <1>1, <1>3, <1>6, RunsOne DEF EnterDeps
<1>8. QED
  BY <1>7, OnlyCalls DEF EnterDeps, Quiet

(* NextDep: a descent starts with a budget of its own, but with the        *)
(* downgrade that is left.                                                 *)
LEMMA NextDepSound ==
  ASSUME CompileInv, NextDep
  PROVE  [Next]_vars /\ ResolverSound'
<1>1. /\ calls # <<>> /\ CTop \in CallFrame /\ CTop.op = "deps"
      /\ Sound(CTop, EntriesBelow)
  BY InnermostCall DEF NextDep, Running
<1>2. CTop \in DepsCall
  BY <1>1, CallKinds
<1>3. [Next]_vars /\ UNCHANGED <<input, roots, rounds, index, outcome>>
  BY DEF NextDep, Quiet
<1>4. CASE CThen(<<>>)
  BY <1>1, <1>3, <1>4, Returns, OnlyCalls
<1>5. ASSUME NEW d \in CTop.todo,
             \/ CThen(<<[CTop EXCEPT !.todo = @ \ {d}]>>)
             \/ CThen(<<CompileRoots(d, CTop.node, CTop.depth + 1, CTop.downgrade,
                                     CTop.path \cup {CTop.node}, CTop.downgrade),
                        [CTop EXCEPT !.todo = @ \ {d}]>>)
      PROVE  CallsSound(calls)'
  <2>1. PICK b : b = [CTop EXCEPT !.todo = @ \ {d}]
    OBVIOUS
  <2>2. b \in DepsCall /\ b.op = "deps" /\ b.downgrade = CTop.downgrade
    BY <1>1, <1>2, <2>1 DEF DepsCall
  <2>3. PICK a : a = CompileRoots(d, CTop.node, CTop.depth + 1, CTop.downgrade,
                                  CTop.path \cup {CTop.node}, CTop.downgrade)
    OBVIOUS
  <2>4. /\ d \in Node /\ CTop.node \in Node /\ CTop.depth + 1 \in Nat
        /\ CTop.downgrade \in Nat /\ CTop.path \cup {CTop.node} \in SUBSET Node
    BY <1>2 DEF DepsCall
  <2>5. /\ a \in CallFrame /\ a.op = "compile"
        /\ a.downgrade = CTop.downgrade /\ a.budget = CTop.downgrade
    BY <2>3, <2>4, CompileRootsType
  <2>6. b \in CallFrame /\ Sound(b, EntriesBelow) /\ Sound(a, EntriesBelow)
    BY <1>1, <2>2, <2>4, <2>5 DEF CallFrame, Sound
  <2>7. QED
    BY <1>1, <1>5, <2>1, <2>2, <2>3, <2>5, <2>6, RunsOne, RunsTwo
<1>6. QED
  BY <1>3, <1>4, <1>5, OnlyCalls DEF NextDep

-----------------------------------------------------------------------------
(* The theorems *)

(* Every step of the resolver is one its graph allows, and keeps what its  *)
(* calls rely on.                                                          *)
LEMMA ResolverStep ==
  ASSUME CompileInv, [CNext]_allVars
  PROVE  [Next]_vars /\ ResolverSound'
<1>1. CASE GraphStep /\ UNCHANGED compileVars
  <2>1. UNCHANGED <<input, roots, calls, rounds, index, outcome>>
    BY <1>1 DEF compileVars
  <2>2. QED
    BY <1>1, <2>1 DEF Next, CompileInv, ResolverSound
<1>2. CASE Done \/ UNCHANGED allVars
  <2>1. UNCHANGED <<vars, input, roots, calls, rounds, index, outcome>>
    BY <1>2 DEF Done, allVars, compileVars
  <2>2. QED
    BY <2>1 DEF CompileInv, ResolverSound
<1>3. CASE CompileStep
  BY <1>3, AddRootSound, RoundSound, NextRootSound, AddConstraintsSound,
     GraphFailedSound, UnwindSound, RaisingSound, NoNeedSound,
     AlreadySolvedSound, WalkBackSound, BlockSound, RetrySound, UnblockSound,
     AcquireSound, EnterDepsSound, NextDepSound DEF CompileStep
<1>4. QED
  BY <1>1, <1>2, <1>3 DEF CNext

LEMMA CompileKeeps ==
  ASSUME CompileInv, [CNext]_allVars
  PROVE  CompileInv'
  BY ResolverStep, NamesKeep DEF CompileInv

(* perform_compile starts on an empty graph, with nothing under way.       *)
LEMMA CompileStarts ==
  ASSUME CInit
  PROVE  CompileInv
<1>1. NamesInv
  BY NamesStart DEF CInit
<1>2. input \in Input
  BY InputsAssumption DEF CInit
<1>3. Sources \in Seq(Dist) /\ Afterwards \in Seq(Dist)
  <2>1. input.constraints \in Seq(Dist) /\ input.roots \in Seq(Dist)
    BY <1>2 DEF Input
  <2>2. input.constraints \o input.roots \in Seq(Dist) /\ <<>> \in Seq(Dist)
    BY <2>1, ConcatProperties, EmptySeq
  <2>3. QED
    BY <2>1, <2>2 DEF Sources, Afterwards
<1>4. PICK a \in CallFrame : a = [op |-> "start", todo |-> Sources]
  BY <1>3 DEF ListCall, CallFrame
<1>5. PICK b \in CallFrame : b = [op |-> "loop"]
  BY DEF LoopCall, CallFrame
<1>6. PICK c \in CallFrame : c = [op |-> "constrain", todo |-> Afterwards]
  BY <1>3 DEF ListCall, CallFrame
<1>7. CallsSound(calls)
  <2>1. calls = <<a, b, c>>
    BY <1>4, <1>5, <1>6 DEF CInit
  <2>2. /\ calls \in Seq(CallFrame) /\ Len(calls) = 3
        /\ calls[1] = a /\ calls[2] = b /\ calls[3] = c
    BY <2>1
  <2>3. \A p \in 1..3 : FromBottom(calls, p).op \in {"start", "loop", "constrain"}
    BY <1>4, <1>5, <1>6, <2>2 DEF FromBottom
  <2>4. \A p \in 1..3 : Entries(calls, p) = {}
    BY <2>3 DEF Entries
  <2>5. ASSUME NEW p \in 1..Len(calls)
        PROVE  Sound(FromBottom(calls, p), Cardinality(Entries(calls, p)))
    <3>1. Cardinality(Entries(calls, p)) = 0
      BY <2>2, <2>4, FS_EmptySet
    <3>2. QED
      BY <2>2, <2>3, <3>1 DEF Sound
  <2>6. QED
    BY <2>2, <2>5 DEF CallsSound
<1>8. IndexSound(index)
  BY OffersAssumption DEF CInit, IndexSound
<1>9. QED
  BY <1>1, <1>7, <1>8 DEF CompileInv, ResolverSound, CInit, Outcomes

LEMMA CompileInvariant == CSpec => []CompileInv
  BY CompileStarts, CompileKeeps, PTL DEF CSpec

(* The resolver implements the client that DistGraph allows: it adds       *)
(* distributions of the graph's keys under their own names, removes and    *)
(* descends into objects the graph has made, also those it still holds     *)
(* after a walkback has removed or replaced them, and catches what the     *)
(* graph raises.                                                           *)
THEOREM ResolverIsAClient == CSpec => Spec
<1>1. CInit => Init
  BY DEF CInit
<1>2. CompileInv /\ [CNext]_allVars => [Next]_vars
  BY ResolverStep
<1>3. QED
  BY <1>1, <1>2, CompileInvariant, PTL DEF CSpec, Spec

(* TypeOK and RequestersHaveEdge hold while the resolver works on the      *)
(* graph: extras and remove_dists never look up a missing edge.            *)
THEOREM ResolverTypes == CSpec => []TypeOK
  BY ResolverIsAClient, TypeCorrect, PTL

THEOREM ResolverKeepsEdges == CSpec => []RequestersHaveEdge
  BY ResolverIsAClient, RequestersKeepEdges, PTL

(* WalkbackBounded: nested walkbacks are limited by max_downgrade,         *)
(* although every descent starts with a fresh budget (compile.py:124).     *)
THEOREM WalkbacksAreBounded == CSpec => []WalkbackBounded
<1>1. CompileInv => WalkbackBounded
  BY CountIsBounded DEF CompileInv, ResolverSound, WalkbackBounded
<1>2. QED
  BY <1>1, CompileInvariant, PTL
-----------------------------------------------------------------------------
(* No do-not-use entry is left behind *)

(* A frame of the graph as far as entries go: an entry is added without a  *)
(* source or a reason, nothing requires one, no removal of another node    *)
(* reaches one, and the entry a frame works on is the registered one.      *)
EntryFrame(f) ==
  /\ f.op = "add" /\ f.key \in EntryKey => f.source = None /\ f.reason = None
  /\ f.op \in {"restore", "update", "remove", "drop"} /\ KeyOf(f.node) \in EntryKey
       => Live(f.node)
  /\ f.op \in {"remove", "drop"} /\ f.upstream => KeyOf(f.node) \notin EntryKey
  /\ f.op = "drop" => \A d \in f.todo : KeyOf(d) \notin EntryKey
  /\ f.op = "requires" =>
       \A i \in 1..Len(f.todo) : f.todo[i].name \notin EntryKey

NoEdgeToEntry == \A n \in Node : \A m \in DOMAIN deps[n] : KeyOf(m) \notin EntryKey
EntriesLive == \A n \in Node : KeyOf(n) \in EntryKey /\ metadata[n] # None => Live(n)
FramesSpare == \A i \in 1..Len(stack) : EntryFrame(stack[i])
GraphSpares == NoEdgeToEntry /\ EntriesLive /\ FramesSpare

(* An entry restricts its project when it holds its distribution or is     *)
(* about to be given one, and is not the one that is being removed.        *)
Sets(f, k) == \/ f.op = "add" /\ f.key = k
              \/ f.op = "update" /\ KeyOf(f.node) = k
Removes(f, k) == f.op \in {"remove", "drop"} /\ ~f.upstream /\ KeyOf(f.node) = k
Setting(k) == \E i \in 1..Len(stack) : Sets(stack[i], k)
Holding(k) == nodes[k] # None /\ metadata[nodes[k]] # None
Removing(k) == stack # <<>> /\ Removes(stack[Len(stack)], k)
Restricts(k) == (Holding(k) \/ Setting(k)) /\ ~Removing(k)

(* What a step of the graph does to the entries. *)
EntriesStay == \A k \in EntryKey : nodes[k] # None => nodes'[k] = nodes[k]
StepSpares ==
  /\ GraphSpares' /\ EntriesStay
  /\ error' # None \/ \A k \in EntryKey : Restricts(k)' => Restricts(k)

(* The stack u, in which the frames fs, all a or b, have taken the place   *)
(* of the innermost one of s.                                              *)
TakesPlace(u, s, fs, a, b) ==
  /\ Len(u) = Len(fs) + Len(s) - 1
  /\ \A i \in 1..Len(u) : u[i] \in {a, b} \/ \E j \in 1..Len(s) : u[i] = s[j]
  /\ \A i \in 1..Len(fs) : u[i] = fs[i]
  /\ Len(s) > 1 => Len(u) > 0 /\ u[Len(u)] = s[Len(s)]

(* The innermost frame is replaced by nothing, by one frame or by two.     *)
LEMMA StackAfter ==
  ASSUME NEW s \in Seq(Frame), s # <<>>, NEW a, NEW b, NEW t,
         t \in {Tail(s), <<a>> \o Tail(s), <<a, b>> \o Tail(s)}
  PROVE  /\ \A i \in 1..Len(t) : \/ t[i] \in {a, b}
                                 \/ \E j \in 1..Len(s) : t[i] = s[j]
         /\ Len(s) > 1 => t # <<>> /\ t[Len(t)] = s[Len(s)]
         /\ Len(s) = 1 =>
              /\ Len(Tail(s)) = 0
              /\ Len(<<a>> \o Tail(s)) = 1 /\ (<<a>> \o Tail(s))[1] = a
              /\ Len(<<a, b>> \o Tail(s)) = 2 /\ (<<a, b>> \o Tail(s))[2] = b
<1> DEFINE X == Frame \cup {a, b}
<1>1. /\ Tail(s) \in Seq(Frame) /\ Len(Tail(s)) = Len(s) - 1
      /\ \A i \in 1..Len(Tail(s)) : Tail(s)[i] = s[i + 1]
      /\ Len(s) \in Nat \ {0}
  BY HeadTailProperties, EmptySeq
<1>2. Tail(s) \in Seq(X)
  BY <1>1, SeqMonotonic
<1>3. /\ <<a>> \in Seq(X) /\ Len(<<a>>) = 1 /\ <<a>>[1] = a
      /\ <<a, b>> \in Seq(X) /\ Len(<<a, b>>) = 2
      /\ <<a, b>>[1] = a /\ <<a, b>>[2] = b
  OBVIOUS
<1>4. ASSUME NEW fs \in Seq(X), NEW u, u = fs \o Tail(s),
             \A i \in 1..Len(fs) : fs[i] \in {a, b}
      PROVE  TakesPlace(u, s, fs, a, b)
  <2>1. /\ Len(u) = Len(fs) + Len(Tail(s)) /\ Len(fs) \in Nat
        /\ \A i \in 1..(Len(fs) + Len(Tail(s))) :
             u[i] = IF i <= Len(fs) THEN fs[i] ELSE Tail(s)[i - Len(fs)]
    BY <1>2, <1>4, ConcatProperties
  <2>2. \A i \in 1..Len(u) : i > Len(fs) =>
          i - Len(fs) + 1 \in 1..Len(s) /\ u[i] = s[i - Len(fs) + 1]
    BY <1>1, <2>1
  <2>3. \A i \in 1..Len(fs) : u[i] = fs[i]
    BY <1>1, <2>1
  <2>4. ASSUME NEW i \in 1..Len(u)
        PROVE  u[i] \in {a, b} \/ \E j \in 1..Len(s) : u[i] = s[j]
    <3>1. CASE i <= Len(fs)
      BY <1>4, <2>1, <2>3, <3>1
    <3>2. CASE i > Len(fs)
      BY <2>2, <3>2
    <3>3. QED
      BY <2>1, <3>1, <3>2
  <2>5. ASSUME Len(s) > 1
        PROVE  Len(u) > 0 /\ u[Len(u)] = s[Len(s)]
    <3>1. Len(u) \in 1..Len(u) /\ Len(u) > Len(fs) /\ Len(u) - Len(fs) + 1 = Len(s)
      BY <1>1, <2>1, <2>5
    <3>2. QED
      BY <2>2, <3>1
  <2>6. QED
    BY <1>1, <2>1, <2>3, <2>4, <2>5 DEF TakesPlace
<1>5. PICK u : u = <<a>> \o Tail(s)
  OBVIOUS
<1>6. /\ Len(u) = Len(s) /\ u[1] = a
      /\ \A i \in 1..Len(u) : u[i] \in {a, b} \/ \E j \in 1..Len(s) : u[i] = s[j]
      /\ Len(s) > 1 => Len(u) > 0 /\ u[Len(u)] = s[Len(s)]
  <2>1. PICK fs \in Seq(X) : fs = <<a>> /\ Len(fs) = 1 /\ fs[1] = a
    BY <1>3
  <2>2. u = fs \o Tail(s) /\ \A i \in 1..Len(fs) : fs[i] \in {a, b}
    BY <1>5, <2>1
  <2>3. TakesPlace(u, s, fs, a, b)
    BY <1>4, <2>1, <2>2
  <2>4. QED
    BY <1>1, <2>1, <2>3 DEF TakesPlace
<1>7. PICK w : w = <<a, b>> \o Tail(s)
  OBVIOUS
<1>8. /\ Len(w) = Len(s) + 1 /\ w[2] = b
      /\ \A i \in 1..Len(w) : w[i] \in {a, b} \/ \E j \in 1..Len(s) : w[i] = s[j]
      /\ Len(s) > 1 => Len(w) > 0 /\ w[Len(w)] = s[Len(s)]
  <2>1. PICK fs \in Seq(X) : fs = <<a, b>> /\ Len(fs) = 2 /\ fs[1] = a /\ fs[2] = b
    BY <1>3
  <2>2. w = fs \o Tail(s) /\ \A i \in 1..Len(fs) : fs[i] \in {a, b}
    BY <1>7, <2>1
  <2>3. TakesPlace(w, s, fs, a, b)
    BY <1>4, <2>1, <2>2
  <2>4. 2 \in 1..Len(fs)
    BY <2>1
  <2>5. Len(w) = Len(s) + 1
    BY <1>1, <2>1, <2>3 DEF TakesPlace
  <2>6. w[2] = b
    BY <2>1, <2>3, <2>4 DEF TakesPlace
  <2>7. QED
    BY <2>3, <2>5, <2>6 DEF TakesPlace
<1>9. /\ \A i \in 1..Len(Tail(s)) : \E j \in 1..Len(s) : Tail(s)[i] = s[j]
      /\ Len(s) > 1 => Len(Tail(s)) > 0 /\ Tail(s)[Len(Tail(s))] = s[Len(s)]
  <2>1. \A i \in 1..Len(Tail(s)) : i + 1 \in 1..Len(s) /\ Tail(s)[i] = s[i + 1]
    BY <1>1
  <2>2. Len(s) > 1 => /\ Len(Tail(s)) \in 1..Len(Tail(s))
                      /\ Len(Tail(s)) + 1 = Len(s)
    BY <1>1
  <2>3. QED
    BY <1>1, <2>1, <2>2
<1>10. Len(t) > 0 => t # <<>>
  OBVIOUS
<1>11. t \in {Tail(s), u, w}
  BY <1>5, <1>7
<1>12. /\ \A i \in 1..Len(t) : \/ t[i] \in {a, b}
                               \/ \E j \in 1..Len(s) : t[i] = s[j]
       /\ Len(s) > 1 => t # <<>> /\ t[Len(t)] = s[Len(s)]
  <2>1. CASE t = Tail(s)
    BY <1>9, <1>10, <2>1
  <2>2. CASE t = u
    BY <1>6, <1>10, <2>2
  <2>3. CASE t = w
    BY <1>8, <1>10, <2>3
  <2>4. QED
    BY <1>11, <2>1, <2>2, <2>3
<1>13. Len(s) = 1 => /\ Len(Tail(s)) = 0
                     /\ Len(u) = 1 /\ u[1] = a
                     /\ Len(w) = 2 /\ w[2] = b
  BY <1>1, <1>6, <1>8
<1>14. QED
  BY <1>5, <1>7, <1>12, <1>13

(* Objects and frames of entries stay what they are while the entries of   *)
(* the collection do.                                                      *)
LEMMA FrameStays ==
  ASSUME EntriesStay, NEW f \in Frame, EntryFrame(f)
  PROVE  EntryFrame(f)'
<1>1. CASE f.op \in {"restore", "update", "remove", "drop"}
  <2>1. f.node \in Node
    BY <1>1, FrameKinds DEF RestoreFrame, UpdateFrame, RemoveFrame, DropFrame
  <2>2. KeyOf(f.node) \in EntryKey /\ Live(f.node) => Live(f.node)'
    BY <2>1, NoNodeAssumption DEF EntriesStay, Live
  <2>3. QED
    BY <1>1, <2>2 DEF EntryFrame
<1>2. CASE f.op \notin {"restore", "update", "remove", "drop"}
  BY <1>2 DEF EntryFrame
<1>3. QED
  BY <1>1, <1>2

(* The frames that have nothing to do with entries.                        *)
LEMMA OtherFrame ==
  ASSUME NEW f, f.op \in {"extras", "complete", "completes"}
  PROVE  EntryFrame(f) /\ EntryFrame(f)' /\ \A k \in EntryKey : ~Sets(f, k)
  BY DEF EntryFrame, Sets

(* A step that puts nothing or its frames a and b in the place of the      *)
(* innermost one, as far as the stack goes.                                *)
LEMMA FramesFollow ==
  ASSUME NamesInv, GraphSpares, EntriesStay, stack # <<>>, NEW a, NEW b,
         EntryFrame(a)', EntryFrame(b)',
         stack' \in {Tail(stack), <<a>> \o Tail(stack), <<a, b>> \o Tail(stack)},
         \A k \in EntryKey : Sets(a, k) \/ Sets(b, k) => Setting(k)
  PROVE  /\ FramesSpare'
         /\ \A k \in EntryKey : Setting(k)' => Setting(k)
         /\ Len(stack) > 1 => \A k \in EntryKey : Removing(k) => Removing(k)'
<1>1. stack \in Seq(Frame)
  BY DEF NamesInv, IInv, TypeOK
<1>2. /\ \A i \in 1..Len(stack') : \/ stack'[i] \in {a, b}
                                   \/ \E j \in 1..Len(stack) : stack'[i] = stack[j]
      /\ Len(stack) > 1 => stack' # <<>> /\ stack'[Len(stack')] = stack[Len(stack)]
  BY <1>1, StackAfter
<1>3. ASSUME NEW j \in 1..Len(stack), NEW f, f = stack[j]
      PROVE  EntryFrame(f)'
  <2>1. f \in Frame /\ EntryFrame(f)
    BY <1>1, <1>3, ElementOfSeq DEF GraphSpares, FramesSpare
  <2>2. QED
    BY <2>1, FrameStays
<1>4. FramesSpare'
  <2>1. ASSUME NEW i \in 1..Len(stack'), NEW f, f = stack'[i]
        PROVE  EntryFrame(f)'
    BY <1>2, <1>3, <2>1
  <2>2. QED
    BY <2>1 DEF FramesSpare
<1>5. \A k \in EntryKey : Setting(k)' => Setting(k)
  BY <1>2 DEF Setting
<1>6. QED
  BY <1>2, <1>4, <1>5 DEF Removing

(* The rest of what a step that replaces the innermost frame has to show.  *)
LEMMA ReplacingSpares ==
  ASSUME NamesInv, GraphSpares, EntriesStay, stack # <<>>, NEW a, NEW b,
         EntryFrame(a)', EntryFrame(b)',
         stack' \in {Tail(stack), <<a>> \o Tail(stack), <<a, b>> \o Tail(stack)},
         \A k \in EntryKey : Sets(a, k) \/ Sets(b, k) => Setting(k),
         NoEdgeToEntry', EntriesLive',
         \A k \in EntryKey : Holding(k)' => Holding(k) \/ Setting(k),
         \A k \in EntryKey : Removing(k) /\ Len(stack) = 1 =>
                               Removing(k)' \/ ~(Holding(k) \/ Setting(k))'
  PROVE  StepSpares
<1>1. /\ FramesSpare'
      /\ \A k \in EntryKey : Setting(k)' => Setting(k)
      /\ Len(stack) > 1 => \A k \in EntryKey : Removing(k) => Removing(k)'
  BY FramesFollow
<1>2. Len(stack) = 1 \/ Len(stack) > 1
  BY EmptySeq DEF NamesInv, IInv, TypeOK
<1>3. \A k \in EntryKey : Restricts(k)' => Restricts(k)
  BY <1>1, <1>2 DEF Restricts
<1>4. QED
  BY <1>1, <1>3 DEF StepSpares, GraphSpares

(* The innermost frame is no removal. *)
LEMMA NotRemoving ==
  ASSUME NamesInv, stack # <<>>, Top.op \notin {"remove", "drop"}
  PROVE  \A k : ~(Removing(k) /\ Len(stack) = 1)
<1>1. stack \in Seq(Frame)
  BY DEF NamesInv, IInv, TypeOK
<1>2. Top = stack[1]
  BY <1>1, HeadTailProperties DEF Top
<1>3. QED
  BY <1>2 DEF Removing, Removes

(* A step that ends in an exception.                                       *)
LEMMA FailingSpares ==
  ASSUME GraphSpares, EntriesStay, NoEdgeToEntry', EntriesLive',
         NEW ex \in {"AssertionError", "RecursionError"}, Fail(ex)
  PROVE  StepSpares
<1>1. FramesSpare' /\ error' # None
  BY NoErrorAssumption, EmptySeq DEF Fail, FramesSpare
<1>2. QED
  BY <1>1 DEF StepSpares, GraphSpares

(* A step that leaves objects, solutions and dependencies alone.           *)
LEMMA QuietSpares ==
  ASSUME GraphSpares, UNCHANGED <<nodes, metadata, deps>>
  PROVE  /\ EntriesStay /\ NoEdgeToEntry' /\ EntriesLive'
         /\ \A k \in EntryKey : Holding(k)' => Holding(k)
  BY DEF GraphSpares, EntriesStay, NoEdgeToEntry, EntriesLive, Holding, Live

(* The innermost frame is what the invariant says.                         *)
LEMMA InnermostSpares ==
  ASSUME NamesInv, GraphSpares, stack # <<>>
  PROVE  /\ Top \in Frame /\ Top = stack[1] /\ EntryFrame(Top)
         /\ \A k : Sets(Top, k) => Setting(k)
         /\ \A k : Len(stack) = 1 /\ Removing(k) => Removes(Top, k)
<1>1. stack \in Seq(Frame) /\ 1 \in 1..Len(stack) /\ Top \in Frame /\ Top = stack[1]
  <2>1. stack \in Seq(Frame)
    BY DEF NamesInv, IInv, TypeOK
  <2>2. QED
    BY <2>1, HeadTailProperties, EmptySeq DEF Top
<1>2. QED
  BY <1>1 DEF GraphSpares, FramesSpare, Setting, Removing

(* Steps of frames that neither touch objects, solutions or dependencies   *)
(* nor belong to a removal.                                                *)
LEMMA QuietStepSpares ==
  ASSUME NamesInv, GraphSpares, stack # <<>>, Top.op \notin {"remove", "drop"},
         UNCHANGED <<nodes, metadata, deps>>, NEW a, NEW b,
         EntryFrame(a)', EntryFrame(b)',
         stack' \in {Tail(stack), <<a>> \o Tail(stack), <<a, b>> \o Tail(stack)},
         \A k \in EntryKey : Sets(a, k) \/ Sets(b, k) => Setting(k)
  PROVE  StepSpares
<1>1. /\ EntriesStay /\ NoEdgeToEntry' /\ EntriesLive'
      /\ \A k \in EntryKey : Holding(k)' => Holding(k)
  BY QuietSpares
<1>2. \A k \in EntryKey : ~(Removing(k) /\ Len(stack) = 1)
  BY NotRemoving
<1>3. QED
  BY <1>1, <1>2, ReplacingSpares

LEMMA ReturningSpares ==
  ASSUME NamesInv, GraphSpares, stack # <<>>, Top.op \notin {"remove", "drop"},
         UNCHANGED <<nodes, metadata, deps>>, Return
  PROVE  StepSpares
<1>1. PICK a : a = Complete(None)
  OBVIOUS
<1>2. EntryFrame(a)' /\ \A k \in EntryKey : ~Sets(a, k)
  BY <1>1, OtherFrame DEF Complete
<1>3. QED
  BY <1>2, QuietStepSpares DEF Return

(* Register: the node of the key is registered, and an entry gets a        *)
(* distribution only from a frame that sets it.                            *)
LEMMA RegisterSpares ==
  ASSUME NamesInv, GraphSpares, stack # <<>>, Top.op = "add", Register(Top)
  PROVE  /\ Top \in AddFrame /\ EntryFrame(Top) /\ KeyOf(Target(Top.key)) = Top.key
         /\ Target(Top.key) \in Node /\ nodes'[Top.key] = Target(Top.key)
         /\ EntriesStay /\ EntriesLive'
         /\ \A k \in EntryKey : Holding(k)' => Holding(k) \/ Setting(k)
<1>1. /\ Top \in AddFrame /\ Top = stack[1] /\ 1 \in 1..Len(stack) /\ EntryFrame(Top)
      /\ \A k : Sets(Top, k) => Setting(k)
  BY InnermostSpares, FrameKinds, EmptySeq DEF NamesInv, IInv, TypeOK
<1>2. Named(Top)
  BY <1>1 DEF NamesInv, StackNamed
<1>3. PICK n : n = Target(Top.key)
  OBVIOUS
<1>4. KeyOf(n) = Top.key /\ Top.key \in Key
  BY <1>1, <1>2, <1>3, RegisterKeepsNames DEF AddFrame
<1>5. n \in Node
  BY <1>3, <1>4, TargetType DEF Register, NamesInv
<1>6. /\ nodes' = [nodes EXCEPT ![Top.key] = n]
      /\ metadata' = [metadata EXCEPT ![n] = Held(Top)]
      /\ nodes[Top.key] # None => n = nodes[Top.key]
  BY <1>3 DEF Register, Target
<1>7. nodes \in [Key -> Node \cup {None}] /\ metadata \in [Node -> Dist \cup {None}]
  BY DEF NamesInv, IInv, TypeOK
<1>8. nodes'[Top.key] = n /\ \A k : k # Top.key => nodes'[k] = nodes[k]
  BY <1>4, <1>6, <1>7
<1>9. EntriesStay
  BY <1>6, <1>8 DEF EntriesStay
<1>10. EntriesLive'
  <2>1. ASSUME NEW m \in Node, KeyOf(m) \in EntryKey, metadata'[m] # None
        PROVE  nodes'[KeyOf(m)] = m
    <3>1. CASE m = n
      BY <1>4, <1>8, <3>1
    <3>2. CASE m # n
      <4>1. metadata'[m] = metadata[m]
        BY <1>6, <1>7, <2>1, <3>2
      <4>2. nodes[KeyOf(m)] = m
        BY <2>1, <4>1 DEF GraphSpares, EntriesLive, Live
      <4>3. QED
        BY <1>9, <2>1, <4>2, NoNodeAssumption DEF EntriesStay
    <3>3. QED
      BY <3>1, <3>2
  <2>2. QED
    BY <2>1 DEF EntriesLive, Live
<1>11. ASSUME NEW k \in EntryKey, Holding(k)'
       PROVE  Holding(k) \/ Setting(k)
  <2>1. CASE k = Top.key
    BY <1>1, <2>1 DEF Sets
  <2>2. CASE k # Top.key
    <3>1. nodes'[k] = nodes[k] /\ nodes[k] # None /\ metadata'[nodes[k]] # None
      BY <1>8, <1>11, <2>2 DEF Holding
    <3>2. k \in Key /\ KeyOf(nodes[k]) = k
      BY <3>1, EntryAssumption DEF NamesInv, KeysAgree
    <3>3. metadata'[nodes[k]] = metadata[nodes[k]]
      BY <1>4, <1>6, <1>7, <2>2, <3>1, <3>2
    <3>4. QED
      BY <3>1, <3>3 DEF Holding
  <2>3. QED
    BY <2>1, <2>2
<1>12. QED
  BY <1>1, <1>3, <1>4, <1>5, <1>8, <1>9, <1>10, <1>11

LEMMA AddDistSpares ==
  ASSUME NamesInv, GraphSpares, AddDist
  PROVE  StepSpares
<1>1. stack # <<>> /\ Top.op = "add" /\ Register(Top)
  BY DEF AddDist, InCall
<1>2. /\ Top \in AddFrame /\ EntryFrame(Top) /\ KeyOf(Target(Top.key)) = Top.key
      /\ Target(Top.key) \in Node /\ nodes'[Top.key] = Target(Top.key)
      /\ EntriesStay /\ EntriesLive'
      /\ \A k \in EntryKey : Holding(k)' => Holding(k) \/ Setting(k)
  BY <1>1, RegisterSpares
<1>3. PICK n : n = Target(Top.key)
  OBVIOUS
<1>4. NoEdgeToEntry'
  <2>1. \A m \in Node : DOMAIN deps'[m] \subseteq
          DOMAIN deps[m] \cup (IF Top.source # None THEN {n} ELSE {})
    <3>1. CASE Top.source # None /\ nodes'[KeyOf(Top.source)] # None
      <4>1. deps' = [deps EXCEPT ![Top.source] = Put(@, n, Top.reason)]
        BY <1>3, <3>1 DEF AddDist, LinkSource
      <4>2. DOMAIN deps = Node
        BY DEF NamesInv, IInv, TypeOK
      <4>3. QED
        BY <3>1, <4>1, <4>2 DEF Put
    <3>2. CASE ~(Top.source # None /\ nodes'[KeyOf(Top.source)] # None)
      BY <3>2 DEF AddDist, LinkSource
    <3>3. QED
      BY <3>1, <3>2
  <2>2. Top.source # None => KeyOf(n) \notin EntryKey
    BY <1>1, <1>2, <1>3 DEF EntryFrame
  <2>3. QED
    BY <2>1, <2>2 DEF GraphSpares, NoEdgeToEntry
<1>5. \A k \in EntryKey : ~(Removing(k) /\ Len(stack) = 1)
  BY <1>1, NotRemoving
<1>6. \A k : Sets(Top, k) => Setting(k)
  BY <1>1, InnermostSpares
<1>7. CASE Conflicts(Top) /\ Then(<<Remove(n, FALSE)>>)
  <2>1. PICK a : a = Remove(n, FALSE)
    OBVIOUS
  <2>2. KeyOf(n) \notin EntryKey
    BY <1>1, <1>2, <1>3, <1>7 DEF Conflicts, EntryFrame
  <2>3. EntryFrame(a)' /\ \A k : ~Sets(a, k)
    BY <2>1, <2>2 DEF EntryFrame, Sets, Remove
  <2>4. stack' = <<a>> \o Tail(stack)
    BY <1>7, <2>1 DEF Then
  <2>5. QED
    BY <1>1, <1>2, <1>4, <1>5, <2>3, <2>4, ReplacingSpares
<1>8. CASE Then(<<[op |-> "update", node |-> n, dist |-> ToApply(Top)],
                  [op |-> "restore", node |-> n]>>)
  <2>1. PICK a : a = [op |-> "update", node |-> n, dist |-> ToApply(Top)]
    OBVIOUS
  <2>2. PICK b : b = [op |-> "restore", node |-> n]
    OBVIOUS
  <2>3. EntryFrame(a)' /\ EntryFrame(b)'
    BY <1>2, <1>3, <2>1, <2>2 DEF EntryFrame, Live
  <2>4. \A k \in EntryKey : Sets(a, k) \/ Sets(b, k) => Setting(k)
    BY <1>1, <1>2, <1>3, <1>6, <2>1, <2>2 DEF Sets
  <2>5. stack' = <<a, b>> \o Tail(stack)
    BY <1>8, <2>1, <2>2 DEF Then
  <2>6. QED
    BY <1>1, <1>2, <1>4, <1>5, <2>3, <2>4, <2>5, ReplacingSpares
<1>9. CASE Return
  <2>1. PICK a : a = Complete(None)
    OBVIOUS
  <2>2. EntryFrame(a)' /\ \A k \in EntryKey : ~Sets(a, k)
    BY <2>1, OtherFrame DEF Complete
  <2>3. QED
    BY <1>1, <1>2, <1>4, <1>5, <1>9, <2>2, ReplacingSpares DEF Return
<1>10. QED
  BY <1>3, <1>7, <1>8, <1>9 DEF AddDist

(* The frames that end in an exception. *)
LEMMA FailuresSpare ==
  ASSUME NamesInv, GraphSpares, TooManyFrames \/ AddAssertFails
  PROVE  StepSpares
<1>1. CASE TooManyFrames
  <2>1. EntriesStay /\ NoEdgeToEntry' /\ EntriesLive'
    BY <1>1, QuietSpares DEF TooManyFrames, graph
  <2>2. QED
    BY <1>1, <2>1, FailingSpares DEF TooManyFrames
<1>2. CASE AddAssertFails
  <2>1. EntriesStay /\ EntriesLive'
    BY <1>2, RegisterSpares DEF AddAssertFails, InCall
  <2>2. NoEdgeToEntry'
    BY <1>2 DEF AddAssertFails, GraphSpares, NoEdgeToEntry
  <2>3. QED
    BY <1>2, <2>1, <2>2, FailingSpares DEF AddAssertFails, AssertFails
<1>3. QED
  BY <1>1, <1>2

(* Restore: an entry is registered already. *)
LEMMA RestoreSpares ==
  ASSUME NamesInv, GraphSpares, Restore
  PROVE  StepSpares
<1>1. stack # <<>> /\ Top.op = "restore" /\ Return
  BY DEF Restore, InCall
<1>2. Top.node \in Node /\ (KeyOf(Top.node) \in EntryKey => Live(Top.node))
  BY <1>1, InnermostSpares, FrameKinds DEF EntryFrame, RestoreFrame
<1>3. \A k \in EntryKey : nodes'[k] = nodes[k]
  <2>1. nodes \in [Key -> Node \cup {None}] /\ KeyOf(Top.node) \in Key
    BY <1>2, NodeType DEF NamesInv, IInv, TypeOK
  <2>2. nodes' = [nodes EXCEPT ![KeyOf(Top.node)] =
                                 IF @ = None THEN Top.node ELSE @]
    BY DEF Restore
  <2>3. KeyOf(Top.node) \in EntryKey => nodes[KeyOf(Top.node)] # None
    BY <1>2, NoNodeAssumption DEF Live
  <2>4. QED
    BY <2>1, <2>2, <2>3
<1>4. UNCHANGED <<metadata, deps>>
  BY DEF Restore
<1>5. /\ EntriesStay /\ NoEdgeToEntry' /\ EntriesLive'
      /\ \A k \in EntryKey : Holding(k)' => Holding(k)
  BY <1>3, <1>4 DEF GraphSpares, EntriesStay, NoEdgeToEntry, EntriesLive, Live, Holding
<1>6. \A k \in EntryKey : ~(Removing(k) /\ Len(stack) = 1)
  BY <1>1, NotRemoving
<1>7. PICK a : a = Complete(None)
  OBVIOUS
<1>8. EntryFrame(a)' /\ \A k \in EntryKey : ~Sets(a, k)
  BY <1>7, OtherFrame DEF Complete
<1>9. QED
  BY <1>1, <1>5, <1>6, <1>8, ReplacingSpares DEF Return

(* UpdateDists: the frame of an entry sets it.                             *)
LEMMA UpdateDistsSpares ==
  ASSUME NamesInv, GraphSpares, UpdateDists
  PROVE  StepSpares
<1>1. stack # <<>> /\ Top.op = "update"
  BY DEF UpdateDists, InCall
<1>2. /\ Top.node \in Node /\ (KeyOf(Top.node) \in EntryKey => Live(Top.node))
      /\ Setting(KeyOf(Top.node))
  BY <1>1, InnermostSpares, FrameKinds DEF EntryFrame, UpdateFrame, Sets
<1>3. /\ metadata' = [metadata EXCEPT ![Top.node] = Top.dist]
      /\ metadata \in [Node -> Dist \cup {None}] /\ UNCHANGED <<nodes, deps>>
  BY DEF UpdateDists, NamesInv, IInv, TypeOK
<1>4. EntriesStay /\ NoEdgeToEntry' /\ EntriesLive'
  BY <1>2, <1>3 DEF GraphSpares, EntriesStay, NoEdgeToEntry, EntriesLive, Live
<1>5. ASSUME NEW k \in EntryKey, Holding(k)'
      PROVE  Holding(k) \/ Setting(k)
  <2>1. nodes[k] \in Node /\ KeyOf(nodes[k]) = k
    BY <1>3, <1>5, EntryAssumption DEF Holding, NamesInv, KeysAgree, IInv, TypeOK
  <2>2. CASE nodes[k] = Top.node
    BY <1>2, <2>1, <2>2
  <2>3. CASE nodes[k] # Top.node
    BY <1>3, <1>5, <2>1, <2>3 DEF Holding
  <2>4. QED
    BY <2>2, <2>3
<1>6. CASE AssertFails
  BY <1>4, <1>6, FailingSpares DEF AssertFails
<1>7. CASE Then(<<[op |-> "extras", node |-> Top.node, dist |-> Top.dist,
                   todo |-> Extras(Top.node) \cup {None}],
                  Complete(Top.node)>>)
  <2>1. PICK a : a = [op |-> "extras", node |-> Top.node, dist |-> Top.dist,
                      todo |-> Extras(Top.node) \cup {None}]
    OBVIOUS
  <2>2. PICK b : b = Complete(Top.node)
    OBVIOUS
  <2>3. EntryFrame(a)' /\ EntryFrame(b)'
    BY <2>1, <2>2, OtherFrame DEF Complete
  <2>4. \A k \in EntryKey : ~Sets(a, k) /\ ~Sets(b, k)
    BY <2>1, <2>2, OtherFrame DEF Complete
  <2>5. \A k \in EntryKey : ~(Removing(k) /\ Len(stack) = 1)
    BY <1>1, NotRemoving
  <2>6. stack' = <<a, b>> \o Tail(stack)
    BY <1>7, <2>1, <2>2 DEF Then
  <2>7. QED
    BY <1>1, <1>4, <1>5, <2>3, <2>4, <2>5, <2>6, ReplacingSpares
<1>8. QED
  BY <1>6, <1>7 DEF UpdateDists

(* NextExtra: what a distribution requires is no entry.                    *)
LEMMA NextExtraSpares ==
  ASSUME NamesInv, GraphSpares, NextExtra
  PROVE  StepSpares
<1>1. stack # <<>> /\ Top.op = "extras" /\ UNCHANGED <<nodes, metadata, deps>>
  BY DEF NextExtra, InCall, graph
<1>2. Top \in ExtrasFrame
  BY <1>1, InnermostSpares, FrameKinds
<1>3. PICK e \in Top.todo :
        \/ AssertFails
        \/ Then(<<[Top EXCEPT !.todo = @ \ {e}]>>)
        \/ Then(<<[op |-> "requires", node |-> Top.node,
                   todo |-> Top.dist.requires[e]],
                  [Top EXCEPT !.todo = @ \ {e}]>>)
  BY DEF NextExtra
<1>4. PICK a : a = [op |-> "requires", node |-> Top.node,
                    todo |-> Top.dist.requires[e]]
  OBVIOUS
<1>5. PICK b : b = [Top EXCEPT !.todo = @ \ {e}]
  OBVIOUS
<1>6. EntryFrame(a)' /\ \A k \in EntryKey : ~Sets(a, k)
  <2>1. e \in Extra \cup {None} /\ Top.dist \in Dist
    BY <1>2 DEF ExtrasFrame
  <2>2. Top.dist.requires[e] \in Seq(Req)
    BY <2>1, DistAssumption DEF Container
  <2>3. \A i \in 1..Len(Top.dist.requires[e]) :
          Top.dist.requires[e][i].name \notin EntryKey
    BY <2>1, <2>2, EntryAssumption
  <2>4. QED
    BY <1>4, <2>3 DEF EntryFrame, Sets
<1>7. EntryFrame(b)' /\ \A k \in EntryKey : ~Sets(b, k)
  <2>1. b.op = "extras"
    BY <1>2, <1>5 DEF ExtrasFrame
  <2>2. QED
    BY <2>1, OtherFrame
<1>8. CASE AssertFails
  BY <1>1, <1>8, QuietSpares, FailingSpares DEF AssertFails
<1>9. CASE Then(<<b>>) \/ Then(<<a, b>>)
  BY <1>1, <1>6, <1>7, <1>9, QuietStepSpares DEF Then
<1>10. QED
  BY <1>3, <1>4, <1>5, <1>8, <1>9

(* NextRequirement: what is added with a source is no entry.               *)
LEMMA NextRequirementSpares ==
  ASSUME NamesInv, GraphSpares, NextRequirement
  PROVE  StepSpares
<1>1. stack # <<>> /\ Top.op = "requires" /\ UNCHANGED <<nodes, metadata, deps>>
  BY DEF NextRequirement, InCall, graph
<1>2. Top \in RequiresFrame /\ EntryFrame(Top)
  BY <1>1, InnermostSpares, FrameKinds
<1>3. CASE Top.todo = <<>>
  BY <1>1, <1>3, ReturningSpares DEF NextRequirement
<1>4. CASE Top.todo # <<>>
  <2>1. PICK todo \in Seq(Req) : todo = Top.todo
    BY <1>2 DEF RequiresFrame
  <2>2. /\ Head(todo) = todo[1] /\ 1 \in 1..Len(todo)
        /\ Len(Tail(todo)) = Len(todo) - 1 /\ Len(todo) \in Nat
        /\ \A i \in 1..Len(Tail(todo)) : Tail(todo)[i] = todo[i + 1]
    BY <1>4, <2>1, HeadTailProperties, EmptySeq
  <2>3. \A i \in 1..Len(todo) : todo[i].name \notin EntryKey
    BY <1>1, <1>2, <2>1 DEF EntryFrame
  <2>4. PICK a : a = Add(Head(todo).name, None, Top.node, Head(todo))
    OBVIOUS
  <2>5. PICK b : b = [Top EXCEPT !.todo = Tail(@)]
    OBVIOUS
  <2>6. EntryFrame(a)' /\ \A k \in EntryKey : ~Sets(a, k)
    BY <2>2, <2>3, <2>4 DEF EntryFrame, Sets, Add
  <2>7. EntryFrame(b)' /\ \A k \in EntryKey : ~Sets(b, k)
    <3>1. b.op = "requires" /\ b.todo = Tail(todo)
      BY <1>2, <2>1, <2>5 DEF RequiresFrame
    <3>2. \A i \in 1..Len(Tail(todo)) : Tail(todo)[i].name \notin EntryKey
      BY <2>2, <2>3
    <3>3. QED
      BY <3>1, <3>2 DEF EntryFrame, Sets
  <2>8. stack' = <<a, b>> \o Tail(stack)
    BY <1>4, <2>1, <2>4, <2>5 DEF NextRequirement, Then
  <2>9. QED
    BY <1>1, <2>6, <2>7, <2>8, QuietStepSpares
<1>5. QED
  BY <1>3, <1>4

(* LastExtra and the frames of update_complete. *)
LEMMA CompletingSpares ==
  ASSUME NamesInv, GraphSpares, LastExtra \/ UpdateComplete \/ CompleteNext
  PROVE  StepSpares
<1>1. /\ stack # <<>> /\ Top.op \in {"extras", "complete", "completes"}
      /\ UNCHANGED <<nodes, metadata, deps>>
  BY DEF LastExtra, UpdateComplete, CompleteNext, InCall, graph
<1>2. CASE Return
  BY <1>1, <1>2, ReturningSpares
<1>3. CASE Then(<<[op |-> "completes", todo |-> rdeps[Top.node]]>>)
  <2>1. PICK a : a = [op |-> "completes", todo |-> rdeps[Top.node]]
    OBVIOUS
  <2>2. EntryFrame(a)' /\ \A k \in EntryKey : ~Sets(a, k)
    BY <2>1, OtherFrame
  <2>3. stack' = <<a>> \o Tail(stack)
    BY <1>3, <2>1 DEF Then
  <2>4. QED
    BY <1>1, <2>2, <2>3, QuietStepSpares
<1>4. ASSUME CompleteNext, NEW n \in Top.todo,
             Then(<<Complete(n), [Top EXCEPT !.todo = @ \ {n}]>>)
      PROVE  StepSpares
  <2>1. PICK a : a = Complete(n)
    OBVIOUS
  <2>2. PICK b : b = [Top EXCEPT !.todo = @ \ {n}]
    OBVIOUS
  <2>3. a.op = "complete" /\ b.op = "completes"
    <3>1. Top \in CompletesFrame
      BY <1>1, <1>4, InnermostSpares, FrameKinds DEF CompleteNext, InCall
    <3>2. QED
      BY <2>1, <2>2, <3>1 DEF Complete, CompletesFrame
  <2>4. /\ EntryFrame(a)' /\ \A k \in EntryKey : ~Sets(a, k)
        /\ EntryFrame(b)' /\ \A k \in EntryKey : ~Sets(b, k)
    BY <2>3, OtherFrame
  <2>5. stack' = <<a, b>> \o Tail(stack)
    BY <1>4, <2>1, <2>2 DEF Then
  <2>6. QED
    BY <1>1, <2>4, <2>5, QuietStepSpares
<1>5. QED
  BY <1>2, <1>3, <1>4 DEF LastExtra, UpdateComplete, CompleteNext

(* AlreadyRemoved: that is no entry. *)
LEMMA AlreadyRemovedSpares ==
  ASSUME NamesInv, GraphSpares, AlreadyRemoved
  PROVE  StepSpares
<1>1. /\ stack # <<>> /\ Top.op = "remove" /\ nodes[KeyOf(Top.node)] = None
      /\ Return /\ UNCHANGED <<nodes, metadata, deps>>
  BY DEF AlreadyRemoved, InCall, graph
<1>2. Top.node \in Node /\ EntryFrame(Top)
  BY <1>1, InnermostSpares, FrameKinds DEF RemoveFrame
<1>3. KeyOf(Top.node) \notin EntryKey
  BY <1>1, <1>2, NoNodeAssumption DEF EntryFrame, Live
<1>4. \A k \in EntryKey : ~(Removing(k) /\ Len(stack) = 1)
  BY <1>1, <1>3, InnermostSpares DEF Removes
<1>5. PICK a : a = Complete(None)
  OBVIOUS
<1>6. EntryFrame(a)' /\ \A k \in EntryKey : ~Sets(a, k)
  BY <1>5, OtherFrame DEF Complete
<1>7. /\ EntriesStay /\ NoEdgeToEntry' /\ EntriesLive'
      /\ \A k \in EntryKey : Holding(k)' => Holding(k)
  BY <1>1, QuietSpares
<1>8. QED
  BY <1>1, <1>4, <1>6, <1>7, ReplacingSpares DEF Return

(* The removal of an entry that no other frame waits for goes on as long   *)
(* as its frame is replaced by one of it.                                  *)
LEMMA RemovalGoesOn ==
  ASSUME NamesInv, GraphSpares, stack # <<>>, NEW a, NEW b,
         \/ stack' = <<a>> \o Tail(stack) /\ \A k : Removes(Top, k) => Removes(a, k)
         \/ stack' = <<a, b>> \o Tail(stack) /\ \A k : Removes(Top, k) => Removes(b, k)
  PROVE  \A k \in EntryKey : Removing(k) /\ Len(stack) = 1 => Removing(k)'
<1>1. stack \in Seq(Frame)
  BY DEF NamesInv, IInv, TypeOK
<1>2. \A k : Len(stack) = 1 /\ Removing(k) => Removes(Top, k)
  BY InnermostSpares
<1>3. CASE stack' = <<a>> \o Tail(stack) /\ \A k : Removes(Top, k) => Removes(a, k)
  <2>1. Len(stack) = 1 => Len(stack') = 1 /\ stack'[1] = a
    BY <1>1, <1>3, StackAfter
  <2>2. Len(stack') = 1 => stack' # <<>>
    OBVIOUS
  <2>3. QED
    BY <1>2, <1>3, <2>1, <2>2 DEF Removing
<1>4. CASE stack' = <<a, b>> \o Tail(stack) /\ \A k : Removes(Top, k) => Removes(b, k)
  <2>1. Len(stack) = 1 => Len(stack') = 2 /\ stack'[2] = b
    BY <1>1, <1>4, StackAfter
  <2>2. Len(stack') = 2 => stack' # <<>>
    OBVIOUS
  <2>3. QED
    BY <1>2, <1>4, <2>1, <2>2 DEF Removing
<1>5. QED
  BY <1>3, <1>4

(* RemoveDists: an upstream removal is not one of an entry. *)
LEMMA RemoveDistsSpares ==
  ASSUME NamesInv, GraphSpares, RemoveDists
  PROVE  StepSpares
<1>1. stack # <<>> /\ Top.op = "remove"
  BY DEF RemoveDists, InCall
<1>2. Top.node \in Node /\ Top.upstream \in BOOLEAN /\ EntryFrame(Top)
  BY <1>1, InnermostSpares, FrameKinds DEF RemoveFrame
<1>3. PICK n \in Node : n = Top.node
  BY <1>2
<1>4. /\ nodes \in [Key -> Node \cup {None}] /\ DOMAIN deps = Node /\ KeyOf(n) \in Key
  BY <1>3, NodeType DEF NamesInv, IInv, TypeOK
<1>5. \A k \in EntryKey : nodes'[k] = nodes[k]
  <2>1. CASE Top.upstream
    <3>1. nodes' = [nodes EXCEPT ![KeyOf(n)] = None]
      BY <1>3, <2>1 DEF RemoveDists
    <3>2. KeyOf(n) \notin EntryKey
      BY <1>1, <1>2, <1>3, <2>1 DEF EntryFrame
    <3>3. QED
      BY <1>4, <3>1, <3>2
  <2>2. CASE ~Top.upstream
    BY <2>2 DEF RemoveDists
  <2>3. QED
    BY <2>1, <2>2
<1>6. \A m \in Node : DOMAIN deps'[m] \subseteq DOMAIN deps[m]
  <2>1. CASE Top.upstream
    <3>1. deps' = [r \in Node |-> IF r \in rdeps[n]
                                 THEN [m \in DOMAIN deps[r] \ {n} |-> deps[r][m]]
                                 ELSE deps[r]]
      BY <1>3, <2>1 DEF RemoveDists
    <3>2. QED
      BY <3>1
  <2>2. CASE ~Top.upstream
    BY <2>2 DEF RemoveDists
  <2>3. QED
    BY <2>1, <2>2
<1>7. UNCHANGED metadata
  BY DEF RemoveDists
<1>8. /\ EntriesStay /\ NoEdgeToEntry' /\ EntriesLive'
      /\ \A k \in EntryKey : Holding(k)' => Holding(k)
  BY <1>5, <1>6, <1>7
     DEF GraphSpares, EntriesStay, NoEdgeToEntry, EntriesLive, Live, Holding
<1>9. PICK a : a = [op |-> "drop", node |-> n, todo |-> DOMAIN deps'[n],
                    upstream |-> Top.upstream]
  OBVIOUS
<1>10. stack' = <<a>> \o Tail(stack)
  BY <1>3, <1>9 DEF RemoveDists, Then
<1>11. EntryFrame(a)' /\ \A k : ~Sets(a, k) /\ (Removes(Top, k) => Removes(a, k))
  <2>1. \A d \in a.todo : KeyOf(d) \notin EntryKey
    BY <1>3, <1>6, <1>9 DEF GraphSpares, NoEdgeToEntry
  <2>2. KeyOf(n) \in EntryKey => nodes'[KeyOf(n)] = n /\ ~Top.upstream
    BY <1>1, <1>2, <1>3, <1>5 DEF EntryFrame, Live
  <2>3. QED
    BY <1>1, <1>3, <1>9, <2>1, <2>2 DEF EntryFrame, Live, Sets, Removes
<1>12. \A k \in EntryKey : Removing(k) /\ Len(stack) = 1 => Removing(k)'
  BY <1>1, <1>10, <1>11, RemovalGoesOn
<1>13. QED
  BY <1>1, <1>8, <1>10, <1>11, <1>12, ReplacingSpares

(* DropDep: a dependency is no entry. *)
LEMMA DropDepSpares ==
  ASSUME NamesInv, GraphSpares, DropDep
  PROVE  StepSpares
<1>1. stack # <<>> /\ Top.op = "drop" /\ UNCHANGED <<nodes, metadata, deps>>
  BY DEF DropDep, InCall
<1>2. Top \in DropFrame /\ EntryFrame(Top)
  BY <1>1, InnermostSpares, FrameKinds
<1>3. PICK d \in Top.todo :
        \/ Then(<<Remove(d, TRUE), [Top EXCEPT !.todo = @ \ {d}]>>)
        \/ Then(<<[Top EXCEPT !.todo = @ \ {d}]>>)
  BY DEF DropDep
<1>4. PICK a : a = Remove(d, TRUE)
  OBVIOUS
<1>5. PICK b : b = [Top EXCEPT !.todo = @ \ {d}]
  OBVIOUS
<1>6. EntryFrame(a)' /\ \A k : ~Sets(a, k)
  <2>1. KeyOf(d) \notin EntryKey
    BY <1>1, <1>2 DEF EntryFrame
  <2>2. QED
    BY <1>4, <2>1 DEF EntryFrame, Sets, Remove
<1>7. /\ b.op = "drop" /\ b.node = Top.node /\ b.upstream = Top.upstream
      /\ b.todo \subseteq Top.todo
  BY <1>1, <1>2, <1>5 DEF DropFrame
<1>8. EntryFrame(b)' /\ \A k : ~Sets(b, k) /\ (Removes(Top, k) => Removes(b, k))
  BY <1>1, <1>2, <1>7 DEF EntryFrame, Live, Sets, Removes
<1>9. stack' = <<a, b>> \o Tail(stack) \/ stack' = <<b>> \o Tail(stack)
  BY <1>3, <1>4, <1>5 DEF Then
<1>10. \A k \in EntryKey : Removing(k) /\ Len(stack) = 1 => Removing(k)'
  BY <1>1, <1>8, <1>9, RemovalGoesOn
<1>11. /\ EntriesStay /\ NoEdgeToEntry' /\ EntriesLive'
       /\ \A k \in EntryKey : Holding(k)' => Holding(k)
  BY <1>1, QuietSpares
<1>12. QED
  BY <1>1, <1>6, <1>8, <1>9, <1>10, <1>11, ReplacingSpares

(* Unsolve: the entry that was being removed has no distribution any more. *)
LEMMA UnsolveSpares ==
  ASSUME NamesInv, GraphSpares, Unsolve
  PROVE  StepSpares
<1>1. stack # <<>> /\ Top.op = "drop" /\ UNCHANGED nodes
  BY DEF Unsolve, InCall
<1>2. Top \in DropFrame /\ EntryFrame(Top) /\ Top.node \in Node
  BY <1>1, InnermostSpares, FrameKinds DEF DropFrame
<1>3. stack \in Seq(Frame) /\ metadata \in [Node -> Dist \cup {None}] /\ DOMAIN deps = Node
  BY DEF NamesInv, IInv, TypeOK
<1>4. PICK a : a = Complete(Top.node)
  OBVIOUS
<1>5. EntryFrame(a)' /\ \A k \in EntryKey : ~Sets(a, k)
  BY <1>4, OtherFrame DEF Complete
<1>6. CASE Top.upstream
  <2>1. Return /\ UNCHANGED <<nodes, metadata, deps>>
    BY <1>1, <1>6 DEF Unsolve
  <2>2. \A k \in EntryKey : ~(Removing(k) /\ Len(stack) = 1)
    BY <1>1, <1>6, InnermostSpares DEF Removes
  <2>3. /\ EntriesStay /\ NoEdgeToEntry' /\ EntriesLive'
        /\ \A k \in EntryKey : Holding(k)' => Holding(k)
    BY <2>1, QuietSpares
  <2>4. QED
    BY <1>1, <1>5, <2>1, <2>2, <2>3, ReplacingSpares DEF Return
<1>7. CASE ~Top.upstream
  <2>1. /\ deps' = [deps EXCEPT ![Top.node] = [m \in {} |-> None]]
        /\ metadata' = [metadata EXCEPT ![Top.node] = None]
        /\ stack' = <<a>> \o Tail(stack)
    BY <1>4, <1>7 DEF Unsolve, Then
  <2>2. /\ \A m \in Node : DOMAIN deps'[m] \subseteq DOMAIN deps[m]
        /\ \A m \in Node : metadata'[m] \in {metadata[m], None}
    BY <1>2, <1>3, <2>1
  <2>3. EntriesStay /\ NoEdgeToEntry' /\ EntriesLive'
    BY <1>1, <2>2 DEF GraphSpares, EntriesStay, NoEdgeToEntry, EntriesLive, Live
  <2>4. ASSUME NEW k \in EntryKey, Holding(k)'
        PROVE  Holding(k)
    <3>1. nodes[k] \in Node
      BY <1>1, <2>4, EntryAssumption DEF Holding, NamesInv, IInv, TypeOK
    <3>2. QED
      BY <1>1, <2>2, <2>4, <3>1 DEF Holding
  <2>5. ASSUME NEW k \in EntryKey, Removing(k), Len(stack) = 1
        PROVE  ~(Holding(k) \/ Setting(k))'
    <3>1. KeyOf(Top.node) = k /\ nodes[k] = Top.node
      BY <1>1, <1>2, <2>5, InnermostSpares DEF Removes, EntryFrame, Live
    <3>2. metadata'[nodes'[k]] = None
      BY <1>1, <1>2, <1>3, <2>1, <3>1
    <3>3. Len(stack') = 1 /\ stack'[1] = a
      BY <1>3, <2>1, <2>5, StackAfter
    <3>4. QED
      BY <1>5, <3>2, <3>3 DEF Holding, Setting
  <2>6. QED
    BY <1>1, <1>5, <2>1, <2>3, <2>4, <2>5, ReplacingSpares
<1>8. QED
  BY <1>2, <1>6, <1>7

(* Every step of the graph. *)
LEMMA GraphStepSpares ==
  ASSUME NamesInv, GraphSpares, GraphStep
  PROVE  StepSpares
  BY FailuresSpare, AddDistSpares, RestoreSpares, UpdateDistsSpares,
     NextExtraSpares, NextRequirementSpares, CompletingSpares,
     AlreadyRemovedSpares, RemoveDistsSpares, DropDepSpares, UnsolveSpares
  DEF GraphStep

(* The call that removes an entry in any case. *)
Guards(f, k) == \/ f.op = "try" /\ KeyOf(f.entry) = k
                \/ f.op = "finally" /\ KeyOf(f.node) = k
Guarded(k) == \E p \in 1..Len(calls) : Guards(FromBottom(calls, p), k)

(* The recursion limit or an assertion may end the call that adds or       *)
(* removes an entry. *)
Interrupted == error # None \/ outcome \in {"AssertionError", "RecursionError"}

(* add_dist has just been called for the object n. *)
Adding(n) == /\ stack # <<>> /\ Top.op = "add"
             /\ Top.key = KeyOf(n) /\ Target(Top.key) = n

(* A call of the resolver as far as entries go: inputs are none, the       *)
(* object to remove is the registered one, and no exception is raised      *)
(* between the call of add_dist and the try statement.                     *)
EntryCall(f) ==
  /\ f.op \in {"start", "constrain"} =>
       \A i \in 1..Len(f.todo) : f.todo[i].name \notin EntryKey
  /\ f.op = "finally" /\ KeyOf(f.node) \in EntryKey => Live(f.node)
  /\ f.op = "try" =>
       /\ outcome = "running"
       /\ KeyOf(f.entry) \in EntryKey => Live(f.entry) \/ Adding(f.entry)
CallsSpare ==
  /\ \A p \in 1..Len(calls) : EntryCall(FromBottom(calls, p))
  /\ \A p \in 1..(Len(calls) - 1) : FromBottom(calls, p).op # "try"

EntriesWatched == \A k \in EntryKey : Restricts(k) => Guarded(k)

(* The inductive invariant. *)
EntrySafe == GraphSpares /\ CallsSpare /\ EntriesWatched
EntryInv == Interrupted \/ EntrySafe

(* The call stack t, counted from the bottom, after the innermost call of  *)
(* s has been replaced by nothing, by a or by a inside b. *)
Follows(t, s, a, b) ==
  /\ Len(s) \in Nat \ {0} /\ Len(t) \in Nat
  /\ Len(t) >= Len(s) - 1 /\ Len(t) <= Len(s) + 1
  /\ \A p \in 1..(Len(s) - 1) : FromBottom(t, p) = FromBottom(s, p)
  /\ \A p \in 1..Len(t) : p >= Len(s) => FromBottom(t, p) \in {a, b}
  /\ t = <<a>> \o Tail(s) => Len(t) = Len(s) /\ FromBottom(t, Len(s)) = a
  /\ t = <<a, b>> \o Tail(s) => Len(t) = Len(s) + 1 /\ FromBottom(t, Len(s)) = b

LEMMA CallsAfter ==
  ASSUME NEW s \in Seq(CallFrame), s # <<>>, NEW a \in CallFrame, NEW b \in CallFrame,
         NEW t \in {<<>> \o Tail(s), <<a>> \o Tail(s), <<a, b>> \o Tail(s)}
  PROVE  Follows(t, s, a, b)
<1>1. Len(s) \in Nat \ {0}
  BY EmptySeq
<1>2. ASSUME t = <<>> \o Tail(s)
      PROVE  /\ Len(t) = Len(s) - 1
             /\ \A p \in 1..(Len(s) - 1) : FromBottom(t, p) = FromBottom(s, p)
  <2>1. PICK fs \in Seq(CallFrame) : fs = <<>> /\ Len(fs) = 0
    BY EmptySeq
  <2>2. Replaces(t, s, fs)
    BY <1>2, <2>1, BottomStays
  <2>3. QED
    BY <1>1, <2>1, <2>2 DEF Replaces
<1>3. ASSUME t = <<a>> \o Tail(s)
      PROVE  /\ Len(t) = Len(s) /\ FromBottom(t, Len(s)) = a
             /\ \A p \in 1..(Len(s) - 1) : FromBottom(t, p) = FromBottom(s, p)
  <2>1. PICK fs \in Seq(CallFrame) : fs = <<a>> /\ Len(fs) = 1 /\ fs[1] = a
    <3>1. <<a>> \in Seq(CallFrame) /\ Len(<<a>>) = 1 /\ <<a>>[1] = a
      OBVIOUS
    <3>2. QED
      BY <3>1
  <2>2. Replaces(t, s, fs)
    BY <1>3, <2>1, BottomStays
  <2>3. Len(t) = Len(s) /\ t[1] = a
    BY <1>1, <2>1, <2>2 DEF Replaces
  <2>4. QED
    BY <1>1, <2>2, <2>3 DEF Replaces, FromBottom
<1>4. ASSUME t = <<a, b>> \o Tail(s)
      PROVE  /\ Len(t) = Len(s) + 1
             /\ FromBottom(t, Len(s)) = b /\ FromBottom(t, Len(s) + 1) = a
             /\ \A p \in 1..(Len(s) - 1) : FromBottom(t, p) = FromBottom(s, p)
  <2>1. PICK fs \in Seq(CallFrame) :
          fs = <<a, b>> /\ Len(fs) = 2 /\ fs[1] = a /\ fs[2] = b
    <3>1. /\ <<a, b>> \in Seq(CallFrame) /\ Len(<<a, b>>) = 2
          /\ <<a, b>>[1] = a /\ <<a, b>>[2] = b
      OBVIOUS
    <3>2. QED
      BY <3>1
  <2>2. Replaces(t, s, fs)
    BY <1>4, <2>1, BottomStays
  <2>3. /\ Len(t) = Len(s) + 1 /\ 1 \in 1..Len(fs) /\ 2 \in 1..Len(fs)
    BY <1>1, <2>1, <2>2 DEF Replaces
  <2>4. t[1] = a /\ t[2] = b
    BY <2>1, <2>2, <2>3 DEF Replaces
  <2>5. Len(t) + 1 - Len(s) = 2 /\ Len(t) + 1 - (Len(s) + 1) = 1
    BY <1>1, <2>3
  <2>6. QED
    BY <2>2, <2>3, <2>4, <2>5 DEF Replaces, FromBottom
<1>5. PICK none : none = <<>> \o Tail(s)
  OBVIOUS
<1>6. PICK one : one = <<a>> \o Tail(s)
  OBVIOUS
<1>7. PICK two : two = <<a, b>> \o Tail(s)
  OBVIOUS
<1>8. /\ t \in {none, one, two}
      /\ t = none => /\ Len(t) = Len(s) - 1
                     /\ \A p \in 1..(Len(s) - 1) : FromBottom(t, p) = FromBottom(s, p)
      /\ t = one => /\ Len(t) = Len(s) /\ FromBottom(t, Len(s)) = a
                    /\ \A p \in 1..(Len(s) - 1) : FromBottom(t, p) = FromBottom(s, p)
      /\ t = two => /\ Len(t) = Len(s) + 1
                    /\ FromBottom(t, Len(s)) = b /\ FromBottom(t, Len(s) + 1) = a
                    /\ \A p \in 1..(Len(s) - 1) : FromBottom(t, p) = FromBottom(s, p)
  BY <1>2, <1>3, <1>4, <1>5, <1>6, <1>7
<1>9. ASSUME NEW p \in 1..Len(t), p >= Len(s)
      PROVE  FromBottom(t, p) \in {a, b}
  <2>1. CASE t = none
    BY <1>1, <1>8, <1>9, <2>1
  <2>2. CASE t = one
    <3>1. p = Len(s)
      BY <1>1, <1>8, <1>9, <2>2
    <3>2. QED
      BY <1>8, <2>2, <3>1
  <2>3. CASE t = two
    <3>1. p = Len(s) \/ p = Len(s) + 1
      BY <1>1, <1>8, <1>9, <2>3
    <3>2. QED
      BY <1>8, <2>3, <3>1
  <2>4. QED
    BY <1>8, <2>1, <2>2, <2>3
<1>10. /\ Len(t) \in Nat /\ Len(t) >= Len(s) - 1 /\ Len(t) <= Len(s) + 1
       /\ \A p \in 1..(Len(s) - 1) : FromBottom(t, p) = FromBottom(s, p)
  BY <1>1, <1>8
<1>11. QED
  BY <1>1, <1>6, <1>7, <1>8, <1>9, <1>10 DEF Follows

(* A step of the graph: the calls wait, and the entry that was to be added *)
(* is registered. *)
LEMMA AddingRegisters ==
  ASSUME CompileInv, GraphSpares, GraphStep, NEW n, Adding(n)
  PROVE  error' # None \/ Live(n)'
<1>1. stack # <<>> /\ Top.op = "add" /\ Top.key = KeyOf(n) /\ Target(Top.key) = n
  BY DEF Adding
<1>2. CASE TooManyFrames \/ AddAssertFails
  BY <1>2, NoErrorAssumption DEF TooManyFrames, AddAssertFails, AssertFails, Fail
<1>3. CASE AddDist
  BY <1>1, <1>3, RegisterSpares DEF AddDist, CompileInv, Live
<1>4. ASSUME \/ Restore \/ UpdateDists \/ NextExtra \/ LastExtra \/ NextRequirement
             \/ UpdateComplete \/ CompleteNext
             \/ AlreadyRemoved \/ RemoveDists \/ DropDep \/ Unsolve
      PROVE  FALSE
  <2>1. Top.op # "add"
    BY <1>4 DEF Restore, UpdateDists, NextExtra, LastExtra, NextRequirement,
                UpdateComplete, CompleteNext, AlreadyRemoved, RemoveDists,
                DropDep, Unsolve, InCall
  <2>2. QED
    BY <1>1, <2>1
<1>5. QED
  BY <1>2, <1>3, <1>4 DEF GraphStep

LEMMA GraphKeepsEntries ==
  ASSUME CompileInv, EntrySafe, GraphStep, UNCHANGED compileVars
  PROVE  EntryInv'
<1>1. CASE error' # None
  BY <1>1 DEF EntryInv, Interrupted
<1>2. CASE error' = None
  <2>1. GraphSpares' /\ EntriesStay /\ \A k \in EntryKey : Restricts(k)' => Restricts(k)
    BY <1>2, GraphStepSpares DEF EntrySafe, CompileInv, StepSpares
  <2>2. UNCHANGED <<calls, outcome>>
    BY DEF compileVars
  <2>3. ASSUME NEW p \in 1..Len(calls), NEW f, f = FromBottom(calls, p)
        PROVE  EntryCall(f)'
    <3>1. EntryCall(f)
      BY <2>3 DEF EntrySafe, CallsSpare
    <3>2. f \in CallFrame
      <4>1. calls \in Seq(CallFrame) /\ Len(calls) + 1 - p \in 1..Len(calls)
        BY DEF CompileInv, ResolverSound, CallsSound
      <4>2. QED
        BY <2>3, <4>1, ElementOfSeq DEF FromBottom
    <3>3. CASE f.op = "finally"
      <4>1. f.node \in Node
        BY <3>2, <3>3, CallKinds DEF FinallyCall
      <4>2. QED
        BY <2>1, <3>1, <3>3, <4>1, NoNodeAssumption DEF EntryCall, EntriesStay, Live
    <3>4. CASE f.op = "try"
      <4>1. f.entry \in Node
        BY <3>2, <3>4, CallKinds DEF TryCall
      <4>2. KeyOf(f.entry) \in EntryKey => Live(f.entry)'
        <5>1. ASSUME KeyOf(f.entry) \in EntryKey, Live(f.entry)
              PROVE  Live(f.entry)'
          BY <2>1, <4>1, <5>1, NoNodeAssumption DEF EntriesStay, Live
        <5>2. ASSUME Adding(f.entry) PROVE Live(f.entry)'
          BY <1>2, <5>2, AddingRegisters DEF EntrySafe
        <5>3. QED
          BY <3>1, <3>4, <5>1, <5>2 DEF EntryCall
      <4>3. QED
        BY <2>2, <3>1, <3>4, <4>2 DEF EntryCall
    <3>5. CASE f.op \notin {"finally", "try"}
      BY <3>1, <3>5 DEF EntryCall
    <3>6. QED
      BY <3>3, <3>4, <3>5
  <2>4. CallsSpare'
    BY <2>2, <2>3 DEF EntrySafe, CallsSpare
  <2>5. EntriesWatched'
    BY <2>1, <2>2 DEF EntrySafe, EntriesWatched, Guarded
  <2>6. QED
    BY <2>1, <2>4, <2>5 DEF EntryInv, EntrySafe
<1>3. QED
  BY <1>1, <1>2

(* A call that neither adds nor removes an entry. *)
OtherCall(f) ==
  /\ f.op \notin {"try", "finally"}
  /\ f.op \in {"start", "constrain"} =>
       \A i \in 1..Len(f.todo) : f.todo[i].name \notin EntryKey

(* What the step may use of the innermost call and those it leaves alone.  *)
LEMMA InnermostEntries ==
  ASSUME CompileInv, EntrySafe, calls # <<>>
  PROVE  /\ calls \in Seq(CallFrame) /\ Len(calls) \in Nat \ {0}
         /\ CTop \in CallFrame /\ EntryCall(CTop) /\ CTop = FromBottom(calls, Len(calls))
         /\ \A p \in 1..(Len(calls) - 1) : /\ EntryCall(FromBottom(calls, p))
                                           /\ FromBottom(calls, p).op # "try"
<1>1. /\ calls \in Seq(CallFrame) /\ Len(calls) \in Nat \ {0}
      /\ CTop \in CallFrame /\ CTop = FromBottom(calls, Len(calls))
  BY TopSound DEF CompileInv, ResolverSound, CallsSound, CTop
<1>2. Len(calls) \in 1..Len(calls) /\ \A p \in 1..(Len(calls) - 1) : p \in 1..Len(calls)
  BY <1>1
<1>3. QED
  BY <1>1, <1>2 DEF EntrySafe, CallsSpare

(* Calls that wait rely on the same entries when only the graph's stack    *)
(* and the innermost calls have changed. *)
LEMMA WaitingCall ==
  ASSUME UNCHANGED graph, NEW f, f.op # "try", EntryCall(f)
  PROVE  EntryCall(f)'
  BY DEF graph, EntryCall, Live

(* A step of another call, which may call the graph for something else.    *)
LEMMA OtherKeeps ==
  ASSUME CompileInv, EntrySafe, Idle, calls # <<>>, CTop.op \notin {"try", "finally"},
         UNCHANGED graph, NEW f, EntryFrame(f), \A k \in EntryKey : ~Sets(f, k),
         stack' \in {<<>>, <<f>>},
         NEW a \in CallFrame, NEW b \in CallFrame, OtherCall(a), OtherCall(b),
         calls' \in {calls, <<>> \o Tail(calls), <<a>> \o Tail(calls),
                     <<a, b>> \o Tail(calls)}
  PROVE  EntryInv'
<1>1. /\ calls \in Seq(CallFrame) /\ Len(calls) \in Nat \ {0}
      /\ CTop \in CallFrame /\ EntryCall(CTop) /\ CTop = FromBottom(calls, Len(calls))
      /\ \A p \in 1..(Len(calls) - 1) : /\ EntryCall(FromBottom(calls, p))
                                        /\ FromBottom(calls, p).op # "try"
  BY InnermostEntries
<1>2. /\ Len(calls') \in Nat /\ Len(calls') >= Len(calls) - 1
      /\ \A p \in 1..(Len(calls) - 1) : FromBottom(calls', p) = FromBottom(calls, p)
      /\ \A p \in 1..Len(calls') :
           p >= Len(calls) => FromBottom(calls', p) \in {a, b, CTop}
  <2>1. CASE calls' = calls
    <3>1. \A p \in 1..Len(calls) : p >= Len(calls) => p = Len(calls)
      BY <1>1
    <3>2. \A p \in 1..Len(calls) : p >= Len(calls) => FromBottom(calls, p) = CTop
      BY <1>1, <3>1
    <3>3. Len(calls') \in Nat /\ Len(calls') >= Len(calls) - 1
      BY <1>1, <2>1
    <3>4. \A p \in 1..(Len(calls) - 1) : FromBottom(calls', p) = FromBottom(calls, p)
      BY <2>1
    <3>5. \A p \in 1..Len(calls') : p >= Len(calls) => FromBottom(calls', p) = CTop
      BY <2>1, <3>2
    <3>6. QED
      BY <3>3, <3>4, <3>5
  <2>2. CASE calls' # calls
    <3>1. calls' \in {<<>> \o Tail(calls), <<a>> \o Tail(calls), <<a, b>> \o Tail(calls)}
      BY <2>2
    <3>2. /\ Len(calls') \in Nat /\ Len(calls') >= Len(calls) - 1
          /\ \A p \in 1..(Len(calls) - 1) : FromBottom(calls', p) = FromBottom(calls, p)
          /\ \A p \in 1..Len(calls') :
               p >= Len(calls) => FromBottom(calls', p) \in {a, b}
      <4>1. Follows(calls', calls, a, b)
        BY <1>1, <3>1, CallsAfter, Zenon
      <4>2. QED
        BY <4>1 DEF Follows
    <3>3. QED
      BY <3>2
  <2>3. QED
    BY <2>1, <2>2
<1>3. \A g : OtherCall(g) => EntryCall(g)'
  BY DEF OtherCall, EntryCall
<1>4. CTop.op # "try" /\ OtherCall(CTop)
  BY <1>1 DEF OtherCall, EntryCall
<1>5. ASSUME NEW p \in 1..Len(calls'), NEW g, g = FromBottom(calls', p)
      PROVE  EntryCall(g)' /\ g.op # "try"
  <2>1. CASE p >= Len(calls)
    <3>1. OtherCall(g)
      BY <1>2, <1>4, <1>5, <2>1
    <3>2. QED
      BY <1>3, <3>1 DEF OtherCall
  <2>2. CASE p < Len(calls)
    <3>1. p \in 1..(Len(calls) - 1)
      BY <1>1, <1>2, <2>2
    <3>2. EntryCall(g) /\ g.op # "try"
      BY <1>1, <1>2, <1>5, <3>1
    <3>3. QED
      BY <3>2, WaitingCall
  <2>3. QED
    BY <1>1, <1>2, <2>1, <2>2
<1>6. CallsSpare'
  <2>1. \A p \in 1..(Len(calls') - 1) : p \in 1..Len(calls')
    BY <1>2
  <2>2. QED
    BY <1>5, <2>1 DEF CallsSpare
<1>7. stack = <<>> /\ Len(<<f>>) = 1 /\ <<f>>[1] = f /\ Len(<<>>) = 0
  BY DEF Idle
<1>8. GraphSpares'
  <2>1. EntryFrame(f)'
    BY DEF graph, EntryFrame, Live
  <2>2. FramesSpare'
    BY <1>7, <2>1 DEF FramesSpare
  <2>3. NoEdgeToEntry' /\ EntriesLive'
    BY DEF graph, EntrySafe, GraphSpares, NoEdgeToEntry, EntriesLive, Live
  <2>4. QED
    BY <2>2, <2>3 DEF GraphSpares
<1>9. ASSUME NEW k \in EntryKey, Restricts(k)'
      PROVE  Guarded(k)'
  <2>1. ~Setting(k)'
    BY <1>7 DEF Setting
  <2>2. Restricts(k)
    BY <1>7, <1>9, <2>1 DEF graph, Restricts, Holding, Removing
  <2>3. PICK p \in 1..Len(calls) : Guards(FromBottom(calls, p), k)
    BY <2>2 DEF EntrySafe, EntriesWatched, Guarded
  <2>4. p # Len(calls)
    BY <1>1, <2>3 DEF Guards
  <2>5. p \in 1..(Len(calls) - 1) /\ p \in 1..Len(calls')
    BY <1>1, <1>2, <2>4
  <2>6. QED
    BY <1>2, <2>3, <2>5 DEF Guarded
<1>10. QED
  BY <1>6, <1>8, <1>9 DEF EntryInv, EntrySafe, EntriesWatched

(* Such a step that leaves the graph alone. *)
LEMMA QuietKeeps ==
  ASSUME CompileInv, EntrySafe, Idle, calls # <<>>, CTop.op \notin {"try", "finally"},
         Quiet, NEW a \in CallFrame, NEW b \in CallFrame, OtherCall(a), OtherCall(b),
         calls' \in {calls, <<>> \o Tail(calls), <<a>> \o Tail(calls),
                     <<a, b>> \o Tail(calls)}
  PROVE  EntryInv'
<1>1. PICK f : f = Complete(None)
  OBVIOUS
<1>2. EntryFrame(f) /\ \A k \in EntryKey : ~Sets(f, k)
  BY <1>1, OtherFrame DEF Complete
<1>3. UNCHANGED graph /\ stack' \in {<<>>, <<f>>}
  BY DEF Quiet, vars, Idle
<1>4. QED
  BY <1>2, <1>3, OtherKeeps

(* The innermost call is one of them. *)
LEMMA InnermostOther ==
  ASSUME CompileInv, EntrySafe, calls # <<>>, CTop.op \notin {"try", "finally"}
  PROVE  CTop \in CallFrame /\ OtherCall(CTop)
  BY InnermostEntries DEF OtherCall, EntryCall

(* The innermost call returns or has raised an exception. *)
LEMMA ReturningKeeps ==
  ASSUME CompileInv, EntrySafe, Idle, calls # <<>>, CTop.op \notin {"try", "finally"},
         Quiet, CThen(<<>>) \/ UNCHANGED calls
  PROVE  EntryInv'
<1>1. CTop \in CallFrame /\ OtherCall(CTop)
  BY InnermostOther
<1>2. calls' \in {calls, <<>> \o Tail(calls)}
  BY DEF CThen
<1>3. QED
  BY <1>1, <1>2, QuietKeeps

(* One or two calls take its place. *)
LEMMA RunningKeeps ==
  ASSUME CompileInv, EntrySafe, Idle, calls # <<>>, CTop.op \notin {"try", "finally"},
         Quiet, NEW a \in CallFrame, NEW b \in CallFrame, OtherCall(a), OtherCall(b),
         CThen(<<a>>) \/ CThen(<<a, b>>)
  PROVE  EntryInv'
<1>1. calls' \in {calls, <<>> \o Tail(calls), <<a>> \o Tail(calls),
                  <<a, b>> \o Tail(calls)}
  BY DEF CThen
<1>2. QED
  BY <1>1, QuietKeeps

LEMMA RaisingKeeps ==
  ASSUME CompileInv, EntrySafe,
         \/ TooDeep \/ CompileAssertFails \/ GiveUp \/ NoCandidate
         \/ RepositoryError \/ CircularDependency
  PROVE  EntryInv'
<1>1. /\ Idle /\ calls # <<>> /\ CTop.op \in {"compile", "deps"}
      /\ Quiet /\ UNCHANGED calls
  BY DEF TooDeep, CompileAssertFails, GiveUp, NoCandidate, RepositoryError,
         CircularDependency, Impossible, Unsolved, ToProcess, Entered, Running, Raise
<1>2. QED
  BY <1>1, ReturningKeeps

LEMMA NoNeedKeeps ==
  ASSUME CompileInv, EntrySafe, NoNeed
  PROVE  EntryInv'
<1>1. Idle /\ calls # <<>> /\ CTop.op = "compile" /\ Quiet /\ CThen(<<>>)
  BY DEF NoNeed, Entered, Running
<1>2. QED
  BY <1>1, ReturningKeeps

(* No try statement is unwound before it has been entered, and none that   *)
(* has been leaves its finally clause out. *)
LEMMA UnwindKeeps ==
  ASSUME CompileInv, EntrySafe, Unwind
  PROVE  EntryInv'
<1>1. /\ Idle /\ calls # <<>> /\ CTop.op # "finally" /\ outcome # "running"
      /\ Quiet /\ CThen(<<>>)
  BY DEF Unwind, Handles
<1>2. CTop.op # "try"
  BY <1>1, InnermostEntries DEF EntryCall
<1>3. QED
  BY <1>1, <1>2, ReturningKeeps

(* A call of compile_roots is none of an entry. *)
LEMMA OtherCallKinds ==
  ASSUME NEW f, f.op \in {"loop", "round", "compile", "block", "descend", "deps"}
  PROVE  OtherCall(f)
  BY DEF OtherCall

LEMMA RoundKeeps ==
  ASSUME CompileInv, EntrySafe, Round
  PROVE  EntryInv'
<1>1. /\ Idle /\ calls # <<>> /\ CTop.op = "loop" /\ Quiet
      /\ \/ CThen(<<>>) \/ UNCHANGED calls
         \/ CThen(<<[op |-> "round", todo |-> roots], CTop>>)
  BY DEF Round, Running, Raise
<1>2. PICK a \in CallFrame : a = [op |-> "round", todo |-> roots] /\ a.op = "round"
  <2>1. [op |-> "round", todo |-> roots] \in RoundCall
    BY DEF RoundCall, CompileInv, ResolverSound
  <2>2. QED
    BY <2>1 DEF CallFrame
<1>3. OtherCall(a) /\ CTop \in CallFrame /\ OtherCall(CTop)
  BY <1>1, <1>2, OtherCallKinds, InnermostOther
<1>4. CASE CThen(<<>>) \/ UNCHANGED calls
  BY <1>1, <1>4, ReturningKeeps
<1>5. CASE CThen(<<a, CTop>>)
  BY <1>1, <1>2, <1>3, <1>5, RunningKeeps
<1>6. QED
  BY <1>1, <1>2, <1>4, <1>5

LEMMA NextRootKeeps ==
  ASSUME CompileInv, EntrySafe, NextRoot
  PROVE  EntryInv'
<1>1. Idle /\ calls # <<>> /\ CTop.op = "round" /\ Quiet
  BY DEF NextRoot, Running
<1>2. CTop \in RoundCall
  BY <1>1, InnermostEntries, CallKinds
<1>3. CASE CThen(<<>>)
  BY <1>1, <1>3, ReturningKeeps
<1>4. ASSUME NEW n \in CTop.todo,
             \/ CThen(<<[CTop EXCEPT !.todo = @ \ {n}]>>)
             \/ CThen(<<CompileRoots(n, None, 1, MaxDowngrade, {}, MaxDowngrade),
                        [CTop EXCEPT !.todo = @ \ {n}]>>)
      PROVE  EntryInv'
  <2>1. PICK b \in CallFrame : b = [CTop EXCEPT !.todo = @ \ {n}] /\ b.op = "round"
    <3>1. /\ [CTop EXCEPT !.todo = @ \ {n}] \in RoundCall
          /\ [CTop EXCEPT !.todo = @ \ {n}].op = "round"
      BY <1>1, <1>2 DEF RoundCall
    <3>2. QED
      BY <3>1 DEF CallFrame
  <2>2. PICK a : a = CompileRoots(n, None, 1, MaxDowngrade, {}, MaxDowngrade)
    OBVIOUS
  <2>3. a \in CallFrame /\ a.op = "compile"
    <3>1. n \in Node
      BY <1>2 DEF RoundCall
    <3>2. QED
      BY <2>2, <3>1, CompileRootsType, LimitsAssumption
  <2>4. OtherCall(a) /\ OtherCall(b)
    BY <2>1, <2>3 DEF OtherCall
  <2>5. CASE CThen(<<b>>)
    BY <1>1, <2>1, <2>4, <2>5, RunningKeeps
  <2>6. CASE CThen(<<a, b>>)
    BY <1>1, <2>1, <2>3, <2>4, <2>6, RunningKeeps
  <2>7. QED
    BY <1>4, <2>1, <2>2, <2>5, <2>6
<1>5. QED
  BY <1>3, <1>4 DEF NextRoot

LEMMA EnterDepsKeeps ==
  ASSUME CompileInv, EntrySafe, EnterDeps
  PROVE  EntryInv'
<1>1. Idle /\ calls # <<>> /\ CTop.op = "descend" /\ Quiet
  BY DEF EnterDeps, Running
<1>2. CTop \in DescendCall
  BY <1>1, InnermostEntries, CallKinds
<1>3. PICK a : a = [op |-> "deps", node |-> CTop.node, depth |-> CTop.depth,
                    downgrade |-> CTop.downgrade, path |-> CTop.path,
                    todo |-> DOMAIN deps[CTop.node]]
  OBVIOUS
<1>4. DOMAIN deps[CTop.node] \subseteq Node
  BY <1>2 DEF DescendCall, CompileInv, NamesInv, IInv, TypeOK, IsDependencies
<1>5. a \in DepsCall /\ a.op = "deps"
  BY <1>2, <1>3, <1>4 DEF DescendCall, DepsCall
<1>6. a \in CallFrame /\ OtherCall(a) /\ CThen(<<a>>)
  BY <1>3, <1>5, OtherCallKinds DEF CallFrame, EnterDeps
<1>7. QED
  BY <1>1, <1>6, RunningKeeps

LEMMA NextDepKeeps ==
  ASSUME CompileInv, EntrySafe, NextDep
  PROVE  EntryInv'
<1>1. Idle /\ calls # <<>> /\ CTop.op = "deps" /\ Quiet
  BY DEF NextDep, Running
<1>2. CTop \in DepsCall
  BY <1>1, InnermostEntries, CallKinds
<1>3. CASE CThen(<<>>)
  BY <1>1, <1>3, ReturningKeeps
<1>4. ASSUME NEW d \in CTop.todo,
             \/ CThen(<<[CTop EXCEPT !.todo = @ \ {d}]>>)
             \/ CThen(<<CompileRoots(d, CTop.node, CTop.depth + 1, CTop.downgrade,
                                     CTop.path \cup {CTop.node}, CTop.downgrade),
                        [CTop EXCEPT !.todo = @ \ {d}]>>)
      PROVE  EntryInv'
  <2>1. PICK b : b = [CTop EXCEPT !.todo = @ \ {d}]
    OBVIOUS
  <2>2. b \in DepsCall /\ b.op = "deps"
    BY <1>1, <1>2, <2>1 DEF DepsCall
  <2>3. PICK a : a = CompileRoots(d, CTop.node, CTop.depth + 1, CTop.downgrade,
                                  CTop.path \cup {CTop.node}, CTop.downgrade)
    OBVIOUS
  <2>4. /\ d \in Node /\ CTop.node \in Node /\ CTop.depth + 1 \in Nat
        /\ CTop.downgrade \in Nat /\ CTop.path \cup {CTop.node} \in SUBSET Node
    BY <1>2 DEF DepsCall
  <2>5. a \in CallFrame /\ a.op = "compile"
    BY <2>3, <2>4, CompileRootsType
  <2>6. b \in CallFrame /\ OtherCall(a) /\ OtherCall(b)
    BY <2>2, <2>5, OtherCallKinds DEF CallFrame
  <2>7. CASE CThen(<<b>>)
    BY <1>1, <2>6, <2>7, RunningKeeps
  <2>8. CASE CThen(<<a, b>>)
    BY <1>1, <2>5, <2>6, <2>8, RunningKeeps
  <2>9. QED
    BY <1>4, <2>1, <2>3, <2>7, <2>8
<1>5. QED
  BY <1>3, <1>4 DEF NextDep

(* The call of a compile_roots that goes on to the dependencies. *)
LEMMA DescendOther ==
  ASSUME CompileInv, ToProcess
  PROVE  /\ Idle /\ calls # <<>> /\ CTop.op = "compile"
         /\ Descend(CTop) \in CallFrame /\ OtherCall(Descend(CTop))
<1>1. calls # <<>> /\ CTop \in CompileCall /\ CTop.op = "compile" /\ Idle
  BY CompileCallSound DEF ToProcess, Entered, Running
<1>2. PICK a : a = Descend(CTop)
  OBVIOUS
<1>3. a \in DescendCall /\ a.op = "descend"
  BY <1>1, <1>2 DEF Descend, DescendCall, CompileCall
<1>4. a \in CallFrame /\ OtherCall(a)
  BY <1>3, OtherCallKinds DEF CallFrame
<1>5. QED
  BY <1>1, <1>2, <1>4

LEMMA AlreadySolvedKeeps ==
  ASSUME CompileInv, EntrySafe, AlreadySolved
  PROVE  EntryInv'
<1>1. ToProcess /\ CThen(<<Descend(CTop)>>) /\ Quiet
  BY DEF AlreadySolved
<1>2. PICK a \in CallFrame : a = Descend(CTop) /\ OtherCall(a)
  BY <1>1, DescendOther
<1>3. Idle /\ calls # <<>> /\ CTop.op = "compile"
  BY <1>1, DescendOther
<1>4. QED
  BY <1>1, <1>2, <1>3, RunningKeeps

(* AddRoot and AddConstraints: no input has the name of an entry. *)
LEMMA InputKeeps ==
  ASSUME CompileInv, EntrySafe, Idle, calls # <<>>,
         CTop.op \in {"start", "constrain"}, CTop.todo # <<>>,
         NEW d, d = Head(CTop.todo), CallAdd(d.name, d, None, None),
         CThen(<<[CTop EXCEPT !.todo = Tail(@)]>>)
  PROVE  EntryInv'
<1>1. CTop \in ListCall
  BY InnermostEntries, CallKinds
<1>2. /\ CTop.todo \in Seq(Dist) /\ Tail(CTop.todo) \in Seq(Dist)
      /\ d = CTop.todo[1] /\ Len(CTop.todo) \in Nat \ {0}
      /\ Len(Tail(CTop.todo)) = Len(CTop.todo) - 1
      /\ \A i \in 1..Len(Tail(CTop.todo)) : Tail(CTop.todo)[i] = CTop.todo[i + 1]
  <2>1. PICK s \in Seq(Dist) : s = CTop.todo
    BY <1>1 DEF ListCall
  <2>2. s # <<>> /\ d = Head(s)
    BY <2>1
  <2>3. /\ Tail(s) \in Seq(Dist) /\ d = s[1] /\ Len(s) \in Nat \ {0}
        /\ Len(Tail(s)) = Len(s) - 1
        /\ \A i \in 1..Len(Tail(s)) : Tail(s)[i] = s[i + 1]
    BY <2>1, <2>2, HeadTailProperties, EmptySeq
  <2>4. QED
    BY <2>1, <2>3
<1>3. \A i \in 1..Len(CTop.todo) : CTop.todo[i].name \notin EntryKey
  BY InnermostEntries DEF EntryCall
<1>4. PICK a : a = [CTop EXCEPT !.todo = Tail(@)]
  OBVIOUS
<1>5. /\ a \in ListCall /\ a.op \in {"start", "constrain"}
      /\ a.todo = Tail(CTop.todo)
  BY <1>1, <1>2, <1>4 DEF ListCall
<1>6. a \in CallFrame /\ OtherCall(a)
  <2>1. \A i \in 1..Len(Tail(CTop.todo)) : i + 1 \in 1..Len(CTop.todo)
    BY <1>2
  <2>2. \A i \in 1..Len(a.todo) : a.todo[i].name \notin EntryKey
    BY <1>2, <1>3, <1>5, <2>1
  <2>3. QED
    BY <1>5, <2>2 DEF CallFrame, OtherCall
<1>7. PICK f : f = Add(d.name, d, None, None)
  OBVIOUS
<1>8. d.name \notin EntryKey
  <2>1. 1 \in 1..Len(CTop.todo)
    BY <1>2
  <2>2. QED
    BY <1>2, <1>3, <2>1
<1>9. EntryFrame(f) /\ \A k \in EntryKey : ~Sets(f, k)
  BY <1>7, <1>8 DEF Add, EntryFrame, Sets
<1>10. /\ UNCHANGED graph /\ stack' \in {<<>>, <<f>>}
       /\ calls' \in {calls, <<>> \o Tail(calls), <<a>> \o Tail(calls),
                      <<a, a>> \o Tail(calls)}
  BY <1>4, <1>7 DEF CallAdd, Call, CThen
<1>11. QED
  BY <1>6, <1>9, <1>10, OtherKeeps

LEMMA AddRootKeeps ==
  ASSUME CompileInv, EntrySafe, AddRoot
  PROVE  EntryInv'
<1>1. Idle /\ calls # <<>> /\ CTop.op = "start"
  BY DEF AddRoot, Running
<1>2. CASE CTop.todo = <<>>
  BY <1>1, <1>2, ReturningKeeps DEF AddRoot
<1>3. CASE CTop.todo # <<>>
  <2>1. PICK d : d = Head(CTop.todo)
    OBVIOUS
  <2>2. CallAdd(d.name, d, None, None) /\ CThen(<<[CTop EXCEPT !.todo = Tail(@)]>>)
    BY <1>3, <2>1 DEF AddRoot
  <2>3. QED
    BY <1>1, <1>3, <2>1, <2>2, InputKeeps
<1>4. QED
  BY <1>2, <1>3

LEMMA AddConstraintsKeeps ==
  ASSUME CompileInv, EntrySafe, AddConstraints
  PROVE  EntryInv'
<1>1. Idle /\ calls # <<>> /\ CTop.op = "constrain"
  BY DEF AddConstraints, Running
<1>2. CASE CTop.todo = <<>>
  BY <1>1, <1>2, ReturningKeeps DEF AddConstraints
<1>3. CASE CTop.todo # <<>>
  <2>1. PICK d : d = Head(CTop.todo)
    OBVIOUS
  <2>2. CallAdd(d.name, d, None, None) /\ CThen(<<[CTop EXCEPT !.todo = Tail(@)]>>)
    BY <1>3, <2>1 DEF AddConstraints
  <2>3. QED
    BY <1>1, <1>3, <2>1, <2>2, InputKeeps
<1>4. QED
  BY <1>2, <1>3

(* WalkBack: the node that is unsolved holds a distribution, so it would   *)
(* be the registered one if it were an entry. *)
LEMMA WalkBackKeeps ==
  ASSUME CompileInv, EntrySafe, WalkBack
  PROVE  EntryInv'
<1>1. /\ calls # <<>> /\ CTop \in CompileCall /\ CTop.op = "compile" /\ Idle
      /\ CTop.budget > 0
  BY CompileCallSound DEF WalkBack, Impossible, Unsolved, ToProcess, Entered, Running
<1>2. /\ CTop.node \in Node /\ CTop.depth \in Nat /\ CTop.downgrade \in Nat
      /\ CTop.path \in SUBSET Node /\ CTop.budget \in Nat
  BY <1>1 DEF CompileCall
<1>3. PICK b \in rdeps[CTop.node] :
        /\ IsStrictest(b, CTop.node) /\ metadata[b].version # None
        /\ CallRemove(b)
        /\ CThen(<<WalkBackTo(CTop, b)>>)
  BY DEF WalkBack
<1>4. b \in Node /\ metadata[b].version \in Version /\ metadata[b] # None
  BY <1>2, <1>3, BlamedHoldsOwn DEF IsStrictest, Blamable
<1>5. PICK a : a = WalkBackTo(CTop, b)
  OBVIOUS
<1>6. CTop.downgrade - 1 \in Nat /\ CTop.budget - 1 \in Nat
  <2>1. CTop.budget <= CTop.downgrade
    BY CompileCallSound DEF WalkBack, Impossible, Unsolved
  <2>2. QED
    BY <1>1, <1>2, <2>1
<1>7. a \in BlockCall /\ a.op = "block"
  BY <1>2, <1>4, <1>5, <1>6 DEF WalkBackTo, BlockCall
<1>8. a \in CallFrame /\ OtherCall(a)
  BY <1>7, OtherCallKinds DEF CallFrame
<1>9. PICK f : f = Remove(b, FALSE)
  OBVIOUS
<1>10. KeyOf(b) \in EntryKey => Live(b)
  BY <1>4 DEF EntrySafe, GraphSpares, EntriesLive
<1>11. EntryFrame(f) /\ \A k \in EntryKey : ~Sets(f, k)
  BY <1>9, <1>10 DEF Remove, EntryFrame, Sets
<1>12. /\ UNCHANGED graph /\ stack' \in {<<>>, <<f>>}
       /\ calls' \in {calls, <<>> \o Tail(calls), <<a>> \o Tail(calls),
                      <<a, a>> \o Tail(calls)}
  BY <1>3, <1>5, <1>9 DEF CallRemove, Call, CThen
<1>13. QED
  BY <1>1, <1>8, <1>11, <1>12, OtherKeeps

(* Acquire: a candidate is one of a project. *)
LEMMA AcquireKeeps ==
  ASSUME CompileInv, EntrySafe, Acquire
  PROVE  EntryInv'
<1>1. ToProcess /\ Idle /\ calls # <<>> /\ CTop.op = "compile"
  BY DescendOther DEF Acquire, Unsolved
<1>2. PICK a \in CallFrame : a = Descend(CTop) /\ OtherCall(a)
  BY <1>1, DescendOther
<1>3. PICK k : k = KeyOf(CTop.node)
  OBVIOUS
<1>4. PICK v \in Fits(k, Wanted(CTop.node)) :
        \E d, why : CallAdd(k, d, CTop.source, why)
  BY <1>3 DEF Acquire
<1>5. k \notin EntryKey
  BY <1>4, EntryAssumption DEF Fits
<1>6. PICK d, why, f : CallAdd(k, d, CTop.source, why) /\ f = Add(k, d, CTop.source, why)
  BY <1>4
<1>7. EntryFrame(f) /\ \A e \in EntryKey : ~Sets(f, e)
  BY <1>5, <1>6 DEF Add, EntryFrame, Sets
<1>8. CThen(<<a>>)
  BY <1>2 DEF Acquire
<1>9. /\ UNCHANGED graph /\ stack' \in {<<>>, <<f>>}
      /\ calls' \in {calls, <<>> \o Tail(calls), <<a>> \o Tail(calls),
                     <<a, a>> \o Tail(calls)}
  BY <1>6, <1>8 DEF CallAdd, Call, CThen
<1>10. QED
  BY <1>1, <1>2, <1>7, <1>9, OtherKeeps

(* A call of the graph for the frame f. *)
LEMMA CallingSpares ==
  ASSUME EntrySafe, Idle, UNCHANGED graph, NEW f, EntryFrame(f),
         stack' \in {<<>>, <<f>>}
  PROVE  /\ GraphSpares'
         /\ \A k \in EntryKey : Restricts(k)' => Sets(f, k) \/ Restricts(k)
         /\ \A k : stack' # <<>> /\ Removes(f, k) => Removing(k)'
<1>1. stack = <<>> /\ Len(<<f>>) = 1 /\ <<f>>[1] = f /\ Len(<<>>) = 0
  BY DEF Idle
<1>2. EntryFrame(f)'
  BY DEF graph, EntryFrame, Live
<1>3. FramesSpare'
  BY <1>1, <1>2 DEF FramesSpare
<1>4. NoEdgeToEntry' /\ EntriesLive'
  BY DEF graph, EntrySafe, GraphSpares, NoEdgeToEntry, EntriesLive, Live
<1>5. ASSUME NEW k \in EntryKey, Restricts(k)', ~Sets(f, k)
      PROVE  Restricts(k)
  <2>1. ~Setting(k)'
    BY <1>1, <1>5 DEF Setting
  <2>2. QED
    BY <1>1, <1>5, <2>1 DEF graph, Restricts, Holding, Removing
<1>6. \A k : stack' # <<>> /\ Removes(f, k) => Removing(k)'
  BY <1>1 DEF Removing
<1>7. QED
  BY <1>3, <1>4, <1>5, <1>6 DEF GraphSpares

(* The calls that wait go on waiting. *)
LEMMA WaitingCalls ==
  ASSUME CompileInv, EntrySafe, calls # <<>>, UNCHANGED graph,
         NEW a \in CallFrame, NEW b \in CallFrame, Follows(calls', calls, a, b)
  PROVE  /\ \A p \in 1..(Len(calls) - 1) : \A g :
              g = FromBottom(calls', p) => EntryCall(g)' /\ g.op # "try"
         /\ \A p \in 1..(Len(calls) - 1), k \in EntryKey :
              Guards(FromBottom(calls, p), k) => Guarded(k)'
<1>1. /\ \A p \in 1..(Len(calls) - 1) : FromBottom(calls', p) = FromBottom(calls, p)
      /\ Len(calls') \in Nat /\ Len(calls) \in Nat /\ Len(calls') >= Len(calls) - 1
  BY DEF Follows
<1>2. ASSUME NEW p \in 1..(Len(calls) - 1), NEW g, g = FromBottom(calls', p)
      PROVE  EntryCall(g)' /\ g.op # "try"
  <2>1. EntryCall(g) /\ g.op # "try"
    BY <1>1, <1>2, InnermostEntries
  <2>2. QED
    BY <2>1, WaitingCall
<1>3. ASSUME NEW p \in 1..(Len(calls) - 1), NEW k \in EntryKey,
             Guards(FromBottom(calls, p), k)
      PROVE  Guarded(k)'
  <2>1. p \in 1..Len(calls') /\ FromBottom(calls', p) = FromBottom(calls, p)
    BY <1>1
  <2>2. QED
    BY <1>3, <2>1 DEF Guarded
<1>4. QED
  BY <1>2, <1>3

(* An entry that restricts is watched by the innermost call or by one that *)
(* waits. *)
LEMMA WatchedBy ==
  ASSUME CompileInv, EntrySafe, calls # <<>>, NEW k \in EntryKey, Restricts(k)
  PROVE  \/ Guards(CTop, k)
         \/ \E p \in 1..(Len(calls) - 1) : Guards(FromBottom(calls, p), k)
<1>1. PICK p \in 1..Len(calls) : Guards(FromBottom(calls, p), k)
  BY DEF EntrySafe, EntriesWatched, Guarded
<1>2. CTop = FromBottom(calls, Len(calls)) /\ Len(calls) \in Nat
  BY InnermostEntries
<1>3. CASE p = Len(calls)
  BY <1>1, <1>2, <1>3
<1>4. CASE p # Len(calls)
  <2>1. p \in 1..(Len(calls) - 1)
    BY <1>2, <1>4
  <2>2. QED
    BY <1>1, <2>1
<1>5. QED
  BY <1>3, <1>4

(* Block: the try statement that is entered next watches the entry while   *)
(* add_dist adds it. *)
LEMMA BlockKeeps ==
  ASSUME CompileInv, EntrySafe, Block
  PROVE  EntryInv'
<1>1. /\ Idle /\ calls # <<>> /\ CTop \in CallFrame /\ CTop.op = "block"
      /\ outcome = "running" /\ Sound(CTop, EntriesBelow)
  BY InnermostCall DEF Block, Running, Handles
<1>2. CTop \in BlockCall
  BY <1>1, CallKinds
<1>3. PICK bad \in Dist : bad = BadDist(KeyOf(CTop.node), CTop.version)
  BY <1>1 DEF Sound
<1>4. PICK n : n = Target(bad.name)
  OBVIOUS
<1>5. PICK a : a = [op |-> "try", node |-> CTop.node, depth |-> CTop.depth,
                    downgrade |-> CTop.downgrade, path |-> CTop.path,
                    budget |-> CTop.budget, entry |-> n]
  OBVIOUS
<1>6. CallAdd(bad.name, bad, None, None) /\ CThen(<<a>>) /\ UNCHANGED outcome
  BY <1>3, <1>4, <1>5 DEF Block
<1>7. n \in Node
  BY <1>4, <1>6, AddsOwnName
<1>8. KeyOf(n) = bad.name
  <2>1. bad.name \in Key
    BY DistAssumption DEF Container
  <2>2. CASE nodes[bad.name] = None
    BY <1>4, <2>2 DEF Target, KeyOf
  <2>3. CASE nodes[bad.name] # None
    BY <1>4, <2>1, <2>3 DEF Target, CompileInv, NamesInv, KeysAgree
  <2>4. QED
    BY <2>2, <2>3
<1>9. a \in TryCall /\ a.op = "try" /\ a.entry = n
  BY <1>2, <1>5, <1>7 DEF BlockCall, TryCall
<1>10. a \in CallFrame
  BY <1>9 DEF CallFrame
<1>11. PICK f : f = Add(bad.name, bad, None, None)
  OBVIOUS
<1>12. /\ f.op = "add" /\ f.key = bad.name /\ f.source = None /\ f.reason = None
       /\ \A k : Sets(f, k) => k = bad.name
  BY <1>11 DEF Add, Sets
<1>13. /\ UNCHANGED graph /\ stack' = <<f>>
  BY <1>6, <1>11 DEF CallAdd, Call
<1>14. EntryFrame(f)
  BY <1>12 DEF EntryFrame
<1>15. /\ GraphSpares'
       /\ \A k \in EntryKey : Restricts(k)' => Sets(f, k) \/ Restricts(k)
  BY <1>1, <1>13, <1>14, CallingSpares
<1>16. /\ Follows(calls', calls, a, a)
       /\ Len(calls') = Len(calls) /\ FromBottom(calls', Len(calls)) = a
       /\ Len(calls) \in Nat \ {0}
  <2>1. /\ calls \in Seq(CallFrame) /\ calls' = <<a>> \o Tail(calls)
        /\ calls' \in {<<>> \o Tail(calls), <<a>> \o Tail(calls), <<a, a>> \o Tail(calls)}
    BY <1>1, <1>6, InnermostEntries DEF CThen
  <2>2. Follows(calls', calls, a, a)
    BY <1>1, <1>10, <2>1, CallsAfter, Zenon
  <2>3. QED
    BY <2>1, <2>2 DEF Follows
<1>17. Adding(n)'
  <2>1. Top' = f /\ stack' # <<>>
    BY <1>13 DEF Top
  <2>2. Target(bad.name)' = n
    BY <1>4, <1>13 DEF Target, graph
  <2>3. QED
    BY <1>8, <1>12, <2>1, <2>2 DEF Adding
<1>18. EntryCall(a)'
  BY <1>1, <1>6, <1>9, <1>17 DEF EntryCall
<1>19. CallsSpare'
  <2>1. ASSUME NEW p \in 1..Len(calls'), NEW g, g = FromBottom(calls', p)
        PROVE  EntryCall(g)' /\ (p < Len(calls') => g.op # "try")
    <3>1. CASE p = Len(calls)
      BY <1>16, <1>18, <2>1, <3>1
    <3>2. CASE p # Len(calls)
      <4>1. p \in 1..(Len(calls) - 1)
        BY <1>16, <3>2
      <4>2. QED
        BY <1>1, <1>10, <1>13, <1>16, <2>1, <4>1, WaitingCalls
    <3>3. QED
      BY <3>1, <3>2
  <2>2. \A p \in 1..(Len(calls') - 1) : p \in 1..Len(calls') /\ p < Len(calls')
    BY <1>16
  <2>3. QED
    BY <2>1, <2>2 DEF CallsSpare
<1>20. ASSUME NEW k \in EntryKey, Restricts(k)'
       PROVE  Guarded(k)'
  <2>1. CASE k = bad.name
    <3>1. Guards(a, k) /\ Len(calls) \in 1..Len(calls')
      BY <1>8, <1>9, <1>16, <2>1 DEF Guards
    <3>2. QED
      BY <1>16, <3>1 DEF Guarded
  <2>2. CASE k # bad.name
    <3>1. Restricts(k)
      BY <1>12, <1>15, <1>20, <2>2
    <3>2. ~Guards(CTop, k)
      BY <1>1 DEF Guards
    <3>3. PICK p \in 1..(Len(calls) - 1) : Guards(FromBottom(calls, p), k)
      BY <1>1, <3>1, <3>2, WatchedBy
    <3>4. QED
      BY <1>1, <1>10, <1>13, <1>16, <3>3, WaitingCalls
  <2>3. QED
    BY <2>1, <2>2
<1>21. QED
  BY <1>15, <1>19, <1>20 DEF EntryInv, EntrySafe, EntriesWatched

(* Retry: from the try statement the entry goes to its finally clause.     *)
LEMMA RetryKeeps ==
  ASSUME CompileInv, EntrySafe, Retry
  PROVE  EntryInv'
<1>1. /\ Idle /\ calls # <<>> /\ CTop \in CallFrame /\ CTop.op = "try" /\ Quiet
  BY InnermostCall DEF Retry, Running
<1>2. CTop \in TryCall
  BY <1>1, CallKinds
<1>3. PICK a : a = CompileRoots(CTop.node, None, CTop.depth, CTop.downgrade,
                                CTop.path, CTop.budget)
  OBVIOUS
<1>4. a \in CallFrame /\ a.op = "compile"
  <2>1. a \in CompileCall
    BY <1>2, <1>3 DEF TryCall, CompileCall, CompileRoots
  <2>2. QED
    BY <1>3, <2>1 DEF CallFrame, CompileRoots
<1>5. PICK b : b = [op |-> "finally", node |-> CTop.entry]
  OBVIOUS
<1>6. b \in CallFrame /\ b.op = "finally" /\ b.node = CTop.entry
  BY <1>2, <1>5 DEF TryCall, FinallyCall, CallFrame
<1>7. PICK f : f = Complete(None)
  OBVIOUS
<1>8. UNCHANGED graph /\ stack' = <<>>
  BY <1>1 DEF Quiet, vars, Idle
<1>9. /\ GraphSpares'
      /\ \A k \in EntryKey : Restricts(k)' => Restricts(k)
  <2>1. EntryFrame(f) /\ \A k \in EntryKey : ~Sets(f, k)
    BY <1>7, OtherFrame DEF Complete
  <2>2. QED
    BY <1>1, <1>8, <2>1, CallingSpares
<1>10. /\ Follows(calls', calls, a, b)
       /\ Len(calls') = Len(calls) + 1 /\ FromBottom(calls', Len(calls)) = b
       /\ Len(calls) \in Nat \ {0}
       /\ \A p \in 1..Len(calls') : p >= Len(calls) => FromBottom(calls', p) \in {a, b}
  <2>1. /\ calls \in Seq(CallFrame) /\ calls' = <<a, b>> \o Tail(calls)
        /\ calls' \in {<<>> \o Tail(calls), <<a>> \o Tail(calls), <<a, b>> \o Tail(calls)}
    BY <1>1, <1>3, <1>5, InnermostEntries DEF CThen, Retry
  <2>2. Follows(calls', calls, a, b)
    BY <1>1, <1>4, <1>6, <2>1, CallsAfter, Zenon
  <2>3. QED
    BY <2>1, <2>2 DEF Follows
<1>11. EntryCall(a)' /\ EntryCall(b)'
  <2>1. KeyOf(CTop.entry) \in EntryKey => Live(CTop.entry)
    BY <1>1, InnermostEntries DEF EntryCall, Adding, Idle
  <2>2. KeyOf(b.node) \in EntryKey => Live(b.node)'
    BY <1>6, <1>8, <2>1 DEF Live, graph
  <2>3. QED
    BY <1>4, <1>6, <2>2 DEF EntryCall
<1>12. CallsSpare'
  <2>1. ASSUME NEW p \in 1..Len(calls'), NEW g, g = FromBottom(calls', p)
        PROVE  EntryCall(g)' /\ g.op # "try"
    <3>1. CASE p >= Len(calls)
      <4>1. g = a \/ g = b
        BY <1>10, <2>1, <3>1
      <4>2. QED
        BY <1>4, <1>6, <1>11, <4>1
    <3>2. CASE p < Len(calls)
      <4>1. p \in 1..(Len(calls) - 1)
        BY <1>10, <3>2
      <4>2. QED
        BY <1>1, <1>4, <1>6, <1>8, <1>10, <2>1, <4>1, WaitingCalls
    <3>3. QED
      BY <1>10, <3>1, <3>2
  <2>2. \A p \in 1..(Len(calls') - 1) : p \in 1..Len(calls')
    BY <1>10
  <2>3. QED
    BY <2>1, <2>2 DEF CallsSpare
<1>13. ASSUME NEW k \in EntryKey, Restricts(k)'
       PROVE  Guarded(k)'
  <2>1. Restricts(k)
    BY <1>9, <1>13
  <2>2. CASE Guards(CTop, k)
    <3>1. Guards(b, k) /\ Len(calls) \in 1..Len(calls')
      BY <1>1, <1>6, <1>10, <2>2 DEF Guards
    <3>2. QED
      BY <1>10, <3>1 DEF Guarded
  <2>3. ASSUME NEW p \in 1..(Len(calls) - 1), Guards(FromBottom(calls, p), k)
        PROVE  Guarded(k)'
    BY <1>1, <1>4, <1>6, <1>8, <1>10, <2>3, WaitingCalls
  <2>4. QED
    BY <1>1, <2>1, <2>2, <2>3, WatchedBy
<1>14. QED
  BY <1>9, <1>12, <1>13 DEF EntryInv, EntrySafe, EntriesWatched

(* Unblock: remove_dists takes over what the finally clause watched. *)
LEMMA UnblockKeeps ==
  ASSUME CompileInv, EntrySafe, Unblock
  PROVE  EntryInv'
<1>1. /\ Idle /\ calls # <<>> /\ CTop \in CallFrame /\ CTop.op = "finally"
      /\ EntryCall(CTop)
  BY InnermostEntries DEF Unblock, Running
<1>2. PICK n : n = CTop.node
  OBVIOUS
<1>3. PICK f : f = Remove(n, FALSE)
  OBVIOUS
<1>4. UNCHANGED graph /\ stack' = <<f>>
  BY <1>2, <1>3 DEF Unblock, CallRemove, Call
<1>5. EntryFrame(f) /\ \A k : ~Sets(f, k) /\ (KeyOf(n) = k => Removes(f, k))
  BY <1>1, <1>2, <1>3 DEF Remove, EntryFrame, Sets, Removes, EntryCall
<1>6. /\ GraphSpares'
      /\ \A k \in EntryKey : Restricts(k)' => Restricts(k)
      /\ \A k : Removes(f, k) => Removing(k)'
  <2>1. stack' # <<>>
    BY <1>4
  <2>2. QED
    BY <1>1, <1>4, <1>5, <2>1, CallingSpares
<1>7. /\ Follows(calls', calls, CTop, CTop) /\ Len(calls) \in Nat \ {0}
      /\ Len(calls') \in Nat
  <2>1. /\ calls \in Seq(CallFrame)
        /\ calls' \in {<<>> \o Tail(calls), <<CTop>> \o Tail(calls),
                       <<CTop, CTop>> \o Tail(calls)}
    BY <1>1, InnermostEntries DEF CThen, Unblock
  <2>2. Follows(calls', calls, CTop, CTop)
    BY <1>1, <2>1, CallsAfter, Zenon
  <2>3. QED
    BY <2>2 DEF Follows
<1>8. Len(calls') = Len(calls) - 1
  <2>1. /\ calls \in Seq(CallFrame) /\ calls' = <<>> \o Tail(calls)
    BY <1>1, InnermostEntries DEF CThen, Unblock
  <2>2. PICK fs \in Seq(CallFrame) : fs = <<>> /\ Len(fs) = 0
    BY EmptySeq
  <2>3. Replaces(calls', calls, fs)
    BY <1>1, <2>1, <2>2, BottomStays
  <2>4. QED
    BY <1>7, <2>2, <2>3 DEF Replaces
<1>9. CallsSpare'
  <2>1. ASSUME NEW p \in 1..Len(calls'), NEW g, g = FromBottom(calls', p)
        PROVE  EntryCall(g)' /\ g.op # "try"
    <3>1. p \in 1..(Len(calls) - 1)
      BY <1>8
    <3>2. QED
      BY <1>1, <1>4, <1>7, <2>1, <3>1, WaitingCalls
  <2>2. \A p \in 1..(Len(calls') - 1) : p \in 1..Len(calls')
    BY <1>7
  <2>3. QED
    BY <2>1, <2>2 DEF CallsSpare
<1>10. ASSUME NEW k \in EntryKey, Restricts(k)'
       PROVE  Guarded(k)'
  <2>1. Restricts(k) /\ k # KeyOf(n)
    BY <1>5, <1>6, <1>10 DEF Restricts
  <2>2. ~Guards(CTop, k)
    BY <1>1, <1>2, <2>1 DEF Guards
  <2>3. PICK p \in 1..(Len(calls) - 1) : Guards(FromBottom(calls, p), k)
    BY <1>1, <2>1, <2>2, WatchedBy
  <2>4. QED
    BY <1>1, <1>4, <1>7, <2>3, WaitingCalls
<1>11. QED
  BY <1>6, <1>9, <1>10 DEF EntryInv, EntrySafe, EntriesWatched

(* The exceptions that may interrupt a finally clause are never caught.    *)
LEMMA InterruptedStays ==
  ASSUME CompileInv, Interrupted, [CNext]_allVars
  PROVE  Interrupted'
<1>1. error # None => error \in {"AssertionError", "RecursionError"}
  BY DEF CompileInv, NamesInv, IInv, TypeOK
<1>2. CASE GraphStep /\ UNCHANGED compileVars
  <2>1. error' = error \/ error' \in {"AssertionError", "RecursionError"}
    BY <1>2 DEF GraphStep, TooManyFrames, AddAssertFails, AssertFails, Fail, AddDist,
                Restore, UpdateDists, NextExtra, LastExtra, NextRequirement,
                UpdateComplete, CompleteNext, AlreadyRemoved, RemoveDists,
                DropDep, Unsolve
  <2>2. UNCHANGED outcome
    BY <1>2 DEF compileVars
  <2>3. QED
    BY <2>1, <2>2, NoErrorAssumption DEF Interrupted
<1>3. CASE GraphFailed
  BY <1>1, <1>3 DEF GraphFailed, Catch, Raise, Interrupted
<1>4. CASE Unwind \/ Unblock
  BY <1>4 DEF Unwind, Unblock, Running, Idle, Interrupted
<1>5. ASSUME NEW op, Running(op), op # "finally"
      PROVE  FALSE
  BY <1>5 DEF Running, Idle, Handles, Interrupted
<1>6. CASE AddRoot \/ Round \/ NextRoot \/ AddConstraints
  BY <1>5, <1>6 DEF AddRoot, Round, NextRoot, AddConstraints
<1>7. CASE TooDeep \/ NoNeed \/ AlreadySolved \/ CompileAssertFails
           \/ GiveUp \/ WalkBack \/ NoCandidate \/ RepositoryError \/ Acquire
  BY <1>5, <1>7 DEF TooDeep, NoNeed, AlreadySolved, CompileAssertFails, GiveUp,
     WalkBack, NoCandidate, RepositoryError, Acquire, Impossible, Unsolved,
     ToProcess, Entered
<1>8. CASE Block \/ Retry \/ EnterDeps \/ NextDep \/ CircularDependency
  BY <1>5, <1>8 DEF Block, Retry, EnterDeps, NextDep, CircularDependency
<1>9. CASE Done \/ UNCHANGED allVars
  BY <1>9 DEF Done, allVars, vars, compileVars, Interrupted
<1>10. QED
  BY <1>2, <1>3, <1>4, <1>6, <1>7, <1>8, <1>9 DEF CNext, CompileStep

LEMMA EntriesKeep ==
  ASSUME CompileInv, EntryInv, [CNext]_allVars
  PROVE  EntryInv'
<1>1. CASE Interrupted
  BY <1>1, InterruptedStays DEF EntryInv
<1>2. CASE EntrySafe
  <2>1. CASE GraphStep /\ UNCHANGED compileVars
    BY <1>2, <2>1, GraphKeepsEntries
  <2>2. CASE GraphFailed
    BY <2>2 DEF GraphFailed, Catch, Raise, EntryInv, Interrupted, CompileInv,
                NamesInv, IInv, TypeOK
  <2>3. CASE Done \/ UNCHANGED allVars
    <3>1. UNCHANGED <<graph, stack, error, calls, outcome>>
      BY <2>3 DEF Done, allVars, vars, compileVars
    <3>2. UNCHANGED <<nodes, born, metadata, deps>>
      BY <3>1 DEF graph
    <3>3. GraphSpares'
      BY <1>2, <3>1, <3>2 DEF EntrySafe, GraphSpares, NoEdgeToEntry, EntriesLive,
                              FramesSpare, EntryFrame, Live
    <3>4. CallsSpare'
      BY <1>2, <3>1, <3>2 DEF EntrySafe, CallsSpare, EntryCall, Live, Adding, Top,
                              Target
    <3>5. EntriesWatched'
      BY <1>2, <3>1, <3>2 DEF EntrySafe, EntriesWatched, Restricts, Holding,
                              Setting, Removing, Guarded
    <3>6. QED
      BY <3>3, <3>4, <3>5 DEF EntryInv, EntrySafe
  <2>4. CASE CompileStep
    BY <1>2, <2>2, <2>4, AddRootKeeps, RoundKeeps, NextRootKeeps, AddConstraintsKeeps,
       UnwindKeeps, RaisingKeeps, NoNeedKeeps, AlreadySolvedKeeps, WalkBackKeeps,
       BlockKeeps, RetryKeeps, UnblockKeeps, AcquireKeeps, EnterDepsKeeps,
       NextDepKeeps DEF CompileStep
  <2>5. QED
    BY <2>1, <2>3, <2>4 DEF CNext
<1>3. QED
  BY <1>1, <1>2 DEF EntryInv

(* perform_compile starts with no entry and with inputs that are none. *)
LEMMA EntriesStart ==
  ASSUME CInit
  PROVE  EntrySafe
<1>1. /\ nodes = [k \in Key |-> None] /\ metadata = [n \in Node |-> None]
      /\ deps = [n \in Node |-> [m \in {} |-> None]] /\ stack = <<>>
  BY DEF CInit, Init
<1>2. GraphSpares
  <2>1. Len(stack) = 0
    BY <1>1
  <2>2. QED
    BY <1>1, <2>1 DEF GraphSpares, NoEdgeToEntry, EntriesLive, FramesSpare
<1>3. input \in Inputs /\ input.constraints \in Seq(Dist) /\ input.roots \in Seq(Dist)
  BY InputsAssumption DEF CInit, Input
<1>4. /\ \A i \in 1..Len(Sources) : Sources[i].name \notin EntryKey
      /\ \A i \in 1..Len(Afterwards) : Afterwards[i].name \notin EntryKey
  <2>1. PICK cs \in Seq(Dist), rs \in Seq(Dist) :
          cs = input.constraints /\ rs = input.roots
    BY <1>3
  <2>2. /\ \A i \in 1..Len(cs) : cs[i].name \notin EntryKey
        /\ \A i \in 1..Len(rs) : rs[i].name \notin EntryKey
    <3>1. DOMAIN cs = 1..Len(cs) /\ DOMAIN rs = 1..Len(rs)
      BY <2>1
    <3>2. /\ \A i \in DOMAIN input.roots : input.roots[i].name \notin EntryKey
          /\ \A i \in DOMAIN input.constraints :
               input.constraints[i].name \notin EntryKey
      BY <1>3, EntryAssumption
    <3>3. /\ \A i \in DOMAIN rs : rs[i].name \notin EntryKey
          /\ \A i \in DOMAIN cs : cs[i].name \notin EntryKey
      BY <2>1, <3>2, Zenon
    <3>4. QED
      BY <3>1, <3>3
  <2>3. PICK both : both = cs \o rs
    OBVIOUS
  <2>4. /\ Len(both) = Len(cs) + Len(rs) /\ Len(cs) \in Nat /\ Len(rs) \in Nat
        /\ \A i \in 1..(Len(cs) + Len(rs)) :
             both[i] = IF i <= Len(cs) THEN cs[i] ELSE rs[i - Len(cs)]
    <3>1. cs \in Seq(Dist) /\ rs \in Seq(Dist)
      BY <2>1
    <3>2. QED
      BY <2>3, <3>1, ConcatProperties
  <2>5. ASSUME NEW i \in 1..Len(both)
        PROVE  both[i].name \notin EntryKey
    <3>1. CASE i <= Len(cs)
      BY <2>2, <2>4, <3>1
    <3>2. CASE i > Len(cs)
      <4>1. i - Len(cs) \in 1..Len(rs) /\ both[i] = rs[i - Len(cs)]
        BY <2>4, <3>2
      <4>2. QED
        BY <2>2, <4>1
    <3>3. QED
      BY <2>4, <3>1, <3>2
  <2>6. Sources \in {rs, both} /\ Afterwards \in {cs, <<>>} /\ Len(<<>>) = 0
    BY <2>1, <2>3 DEF Sources, Afterwards
  <2>7. QED
    BY <2>2, <2>5, <2>6
<1>5. CallsSpare
  <2>1. PICK a, b, c : /\ a = [op |-> "start", todo |-> Sources]
                       /\ b = [op |-> "loop"]
                       /\ c = [op |-> "constrain", todo |-> Afterwards]
    OBVIOUS
  <2>2. EntryCall(a) /\ EntryCall(b) /\ EntryCall(c)
    BY <1>4, <2>1 DEF EntryCall
  <2>3. Len(calls) = 3 /\ calls[1] = a /\ calls[2] = b /\ calls[3] = c
    BY <2>1 DEF CInit
  <2>4. \A p \in 1..3 : FromBottom(calls, p) \in {a, b, c}
    BY <2>3 DEF FromBottom
  <2>5. a.op # "try" /\ b.op # "try" /\ c.op # "try"
    BY <2>1
  <2>6. QED
    BY <2>2, <2>3, <2>4, <2>5 DEF CallsSpare
<1>6. EntriesWatched
  <2>1. ASSUME NEW k \in EntryKey
        PROVE  ~Restricts(k)
    <3>1. nodes[k] = None /\ Len(stack) = 0
      BY <1>1, EntryAssumption
    <3>2. QED
      BY <3>1 DEF Restricts, Holding, Setting
  <2>2. QED
    BY <2>1 DEF EntriesWatched
<1>7. QED
  BY <1>2, <1>5, <1>6 DEF EntrySafe

LEMMA EntriesInvariant == CSpec => []EntryInv
<1>1. CInit => EntryInv
  BY EntriesStart DEF EntryInv
<1>2. CompileInv /\ EntryInv /\ [CNext]_allVars => EntryInv'
  BY EntriesKeep
<1>3. QED
  BY <1>1, <1>2, CompileInvariant, PTL DEF CSpec

(* Whichever way perform_compile ends, with a solution, without a          *)
(* candidate or with another of its exceptions, every do-not-use entry is  *)
(* removed again (compile.py:239).  Only an assertion or the recursion     *)
(* limit may end the call that adds or removes an entry itself.            *)
THEOREM EntriesAreRemoved ==
  CSpec => [](outcome \notin {"AssertionError", "RecursionError"} => NoBlockLeft)
<1>1. ASSUME EntryInv, outcome \notin {"AssertionError", "RecursionError"}, Finished,
             NEW pv \in DOMAIN DoNotUse, nodes[DoNotUse[pv]] # None
      PROVE  metadata[nodes[DoNotUse[pv]]] = None
  <2>1. EntrySafe /\ stack = <<>> /\ calls = <<>>
    BY <1>1 DEF EntryInv, Interrupted, Finished, Idle
  <2>2. PICK k \in EntryKey : k = DoNotUse[pv]
    BY DEF EntryKey
  <2>3. ~Guarded(k)
    <3>1. Len(calls) = 0
      BY <2>1
    <3>2. QED
      BY <3>1 DEF Guarded
  <2>4. ~Holding(k)
    BY <2>1, <2>3 DEF EntrySafe, EntriesWatched, Restricts, Removing
  <2>5. QED
    BY <1>1, <2>2, <2>4 DEF Holding
<1>2. EntryInv => (outcome \notin {"AssertionError", "RecursionError"} => NoBlockLeft)
  BY <1>1 DEF NoBlockLeft
<1>3. QED
  BY <1>2, EntriesInvariant, PTL
=============================================================================
