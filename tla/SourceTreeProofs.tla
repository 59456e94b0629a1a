-------------------------- MODULE SourceTreeProofs --------------------------
(***************************************************************************)
(* Theorems about SourceTree for any tree, whatever lies in it, and any    *)
(* number of threads.                                                      *)
(*                                                                         *)
(* The invariant has four parts: that of the metadata calls (CallsSafe),   *)
(* who works in which phase (PhaseSafe), that with one thread nobody       *)
(* patches behind its back (OneSafe), and what the walk has come across:   *)
(* every project that is not left out was seen or lies below a directory   *)
(* that is still to be visited (WalkSafe).                                 *)
(***************************************************************************)
EXTENDS SourceTree, MetadataProofs

WalkType ==
  /\ parallelism \in {1, 2}
  /\ phase \in {"walk", "map", "later", "done", "raised"}
  /\ frontier \subseteq Source /\ sources \subseteq Source /\ later \subseteq Source
  /\ fate \in [Source -> {"unseen", "candidate", "no candidate"}]
  /\ working \in [Thread -> BOOLEAN]

PhaseSafe ==
  /\ \A t \in Thread : working[t] => subject[t] \in Source
  /\ IF phase = "walk" THEN \A t \in Thread : ~working[t] ELSE frontier = {}
  /\ phase \in {"later", "done"} => later = {} /\ \A t \in Thread \ {Main} : ~working[t]
  /\ phase = "done" => sources = {} /\ ~working[Main]

OneSafe == parallelism = 1 => /\ AloneSafe(Main)
                              /\ \A t \in Thread \ {Main} : at[t] = "idle"

(* What the walk has come across, whatever became of it since. *)
Seen == {d \in Source : \/ fate[d] # "unseen" \/ d \in sources \/ d \in later
                        \/ \E t \in Thread : working[t] /\ subject[t] = d}
Kept(d, first) == \A a \in PathTo[d] : ~LeftOut(a, first)
Entered(d, first) ==
  /\ \A a \in PathTo[d] \ {d} : ~LeftOut(a, first)
  /\ d \notin first /\ d # Root
  /\ ~(Named[d] = "tests" /\ IsProject(Parent[d]))
Covers(first) ==
  /\ \A d \in Seen : IsProject(d) /\ Kept(d, first)
  /\ \A d \in frontier : Entered(d, first)
  /\ \A d \in Source : IsProject(d) /\ Kept(d, first) =>
       d \in Seen \/ PathTo[d] \cap frontier # {}
(* Nothing but the root waits, or the root was visited. *)
WalkSafe ==
  phase # "raised" =>
    \/ frontier = {Root} /\ Seen = {}
    \/ Root \notin frontier /\ \E first \in Unwalked(Root) : Covers(first)

TreeInv == CallsSafe /\ WalkType /\ PhaseSafe /\ OneSafe /\ WalkSafe

-----------------------------------------------------------------------------
(* Paths in a tree *)

LEMMA PathUp ==
  ASSUME NEW d \in Source
  PROVE  /\ PathTo[d] \subseteq Source /\ d \in PathTo[d]
         /\ Upward(PathTo[d]) /\ Root \in PathTo[d]
<1>1. PathTo[d] \subseteq Source /\ d \in PathTo[d]
  BY DEF PathTo
<1>2. Upward(PathTo[d])
  <2> SUFFICES ASSUME NEW a \in PathTo[d] \ {Root},
                      NEW dirs \in SUBSET Source, d \in dirs, Upward(dirs)
               PROVE  Parent[a] \in dirs /\ Parent[a] \in Source
    BY TreeAssumption, <1>1 DEF Upward, PathTo
  <2>1. a \in dirs
    BY DEF PathTo
  <2> QED
    BY <1>1, <2>1, TreeAssumption DEF Upward
<1> QED
  BY <1>1, <1>2, TreeAssumption

LEMMA PathLeast ==
  ASSUME NEW d \in Source, NEW dirs \in SUBSET Source, d \in dirs, Upward(dirs)
  PROVE  PathTo[d] \subseteq dirs
BY DEF PathTo

LEMMA PathOfRoot == PathTo[Root] = {Root}
<1>1. Upward({Root}) /\ Root \in Source
  BY TreeAssumption DEF Upward
<1> QED
  BY <1>1, PathUp, PathLeast

LEMMA PathOfChild ==
  ASSUME NEW d \in Source, NEW c \in Children(d) PROVE PathTo[c] \subseteq {c} \cup PathTo[d]
<1>1. c \in Source /\ Parent[c] = d
  BY DEF Children
<1>2. Upward({c} \cup PathTo[d])
  BY <1>1, PathUp DEF Upward
<1>3. {c} \cup PathTo[d] \in SUBSET Source
  BY <1>1, PathUp
<1> QED
  BY <1>1, <1>2, <1>3, PathLeast

(* Whoever lies below a directory lies below one of its children. *)
LEMMA PathThrough ==
  ASSUME NEW d \in Source, NEW x \in PathTo[d], x # d
  PROVE  \E c \in Children(x) : c \in PathTo[d]
<1> SUFFICES ASSUME \A c \in Children(x) : c \notin PathTo[d] PROVE FALSE
  OBVIOUS
<1> DEFINE rest == PathTo[d] \ {x}
<1>1. PathTo[d] \subseteq Source /\ d \in PathTo[d] /\ Upward(PathTo[d])
  BY PathUp
<1>2. ASSUME NEW a \in rest \ {Root} PROVE Parent[a] \in rest
  <2>1. Parent[a] \in PathTo[d]
    BY <1>1, <1>2 DEF Upward
  <2>2. Parent[a] # x
    BY <1>1, <1>2 DEF Children
  <2> QED
    BY <2>1, <2>2
<1>3. Upward(rest)
  BY <1>2 DEF Upward
<1>4. d \in rest /\ rest \in SUBSET Source
  BY <1>1
<1> HIDE DEF rest
<1>5. PathTo[d] \subseteq rest
  BY <1>3, <1>4, PathLeast
<1> QED
  BY <1>5 DEF rest

-----------------------------------------------------------------------------
(* What the finder does outside of extract_metadata *)

LEMMA QuietCalls ==
  ASSUME CallsSafe, UNCHANGED metadataVars
  PROVE  /\ CallsSafe' /\ at' = at /\ subject' = subject /\ answer' = answer
         /\ \A t \in Thread : AloneSafe(t) => AloneSafe(t)'
<1>1. UNCHANGED <<proc, files, failed, stepVars, patchVars, dirVars, temps>>
  BY DEF metadataVars
<1>2. TypeMetadata' /\ ProcSafe'
  BY <1>1 DEF CallsSafe, ProcSafe, TypeMetadata, stepVars, patchVars, dirVars
<1>3. \A t \in Thread : PlaceSafe(t)' /\ TokensSafe(t)'
  BY <1>1 DEF CallsSafe, PlaceSafe, TokensSafe, Patches, Format, Setup, IsArchive, HasSetup,
              Identified, Versioned, stepVars, patchVars
<1>4. \A t \in Thread : AloneSafe(t) => AloneSafe(t)'
  BY <1>1 DEF AloneSafe, Patches, stepVars, patchVars, dirVars
<1> QED
  BY <1>1, <1>2, <1>3, <1>4 DEF CallsSafe, stepVars

(* What was seen stays so while the walk rests. *)
LEMMA SeenWalkSafe ==
  ASSUME WalkSafe, frontier' = frontier, phase' # "raised" => phase # "raised" /\ Seen' = Seen
  PROVE  WalkSafe'
BY DEF WalkSafe, Covers

-----------------------------------------------------------------------------
(* The walk *)

(* A visit to a directory below the root *)
LEMMA VisitBelow ==
  ASSUME WalkType, NEW first \in Unwalked(Root), Covers(first),
         NEW x \in frontier, Visit(x), Root \notin frontier
  PROVE  Covers(first)' /\ Root \notin frontier'
<1> USE DEF Covers
<1>0. x \in Source /\ x # Root /\ Entered(x, first)
  BY DEF WalkType, Entered
<1>1. UNCHANGED <<later, fate, working, subject>>
  BY DEF Visit, metadataUnchanged, metadataVars, stepVars
<1>2. CASE Pruned(x)
  <2>1. frontier' = frontier \ {x} /\ Seen' = Seen
    BY <1>1, <1>2 DEF Visit, Seen
  <2>2. LeftOut(x, first)
    BY <1>0, <1>2 DEF Pruned, IsExcluded, MarkerDirs, LeftOut
  <2>3. \A d \in Source : Kept(d, first) => x \notin PathTo[d]
    BY <2>2 DEF Kept
  <2> QED
    BY <2>1, <2>3
<1>3. CASE ~Pruned(x)
  <2>1. ~IsExcluded(x) /\ MarkerDirs(x) = {} /\ x \notin Marked
    BY <1>0, <1>3 DEF Pruned
  <2>2. Unwalked(x) = {{}}
    BY <2>1 DEF Unwalked
  <2>3. /\ frontier' = (frontier \ {x}) \cup (Children(x) \ Tests(x))
        /\ sources' = sources \cup {s \in {x} : IsProject(s)}
    BY <1>3, <2>2 DEF Visit
  <2>4. Seen' = Seen \cup {s \in {x} : IsProject(s)}
    BY <1>0, <1>1, <2>3 DEF Seen
  <2>5. Kept(x, first)
    <3>1. ~LeftOut(x, first)
      BY <1>0, <2>1 DEF LeftOut, Entered, IsExcluded, MarkerDirs
    <3> QED
      BY <1>0, <3>1 DEF Kept, Entered
  <2>6. ASSUME NEW c \in Children(x) \ Tests(x) PROVE Entered(c, first)
    <3>1. c \in Source \ {Root} /\ Parent[c] = x
      BY <2>6 DEF Children
    <3>2. \A a \in PathTo[c] \ {c} : ~LeftOut(a, first)
      BY <1>0, <2>5, <2>6, PathOfChild DEF Kept
    <3>3. c \notin first
      BY <1>0, <3>1 DEF Unwalked, MarkerDirs, Children
    <3>4. ~(Named[c] = "tests" /\ IsProject(Parent[c]))
      BY <2>6, <3>1 DEF Tests
    <3> QED
      BY <3>1, <3>2, <3>3, <3>4 DEF Entered
  <2>7. ASSUME NEW d \in Source, IsProject(d), Kept(d, first)
        PROVE  d \in Seen' \/ PathTo[d] \cap frontier' # {}
    <3>1. CASE x \in PathTo[d] /\ x # d
      <4>1. PICK c \in Children(x) : c \in PathTo[d]
        BY <3>1, PathThrough
      <4>2. c \in Source \ {Root} /\ Parent[c] = x /\ ~LeftOut(c, first)
        BY <2>7, <4>1 DEF Kept, Children
      <4>3. c \notin Tests(x)
        BY <4>1, <4>2 DEF LeftOut, Tests
      <4> QED
        BY <2>3, <4>1, <4>3
    <3>2. CASE x = d
      BY <2>4, <2>7, <3>2
    <3>3. CASE x \notin PathTo[d]
      BY <2>3, <2>4, <2>7, <3>3
    <3> QED
      BY <3>1, <3>2, <3>3
  <2>8. Root \notin frontier'
    BY <2>3 DEF Children
  <2> QED
    BY <2>3, <2>4, <2>5, <2>6, <2>7, <2>8
<1> QED
  BY <1>2, <1>3

(* The root is never left out; what it leaves out is decided now. *)
LEMMA VisitRoot ==
  ASSUME WalkType, frontier = {Root}, Seen = {}, Visit(Root)
  PROVE  Root \notin frontier' /\ \E first \in Unwalked(Root) : Covers(first)'
<1>1. PICK first \in Unwalked(Root) :
        /\ frontier' = (frontier \ {Root}) \cup (Children(Root) \ (first \cup Tests(Root)))
        /\ sources' = sources \cup {s \in {Root} : IsProject(s)}
  BY DEF Visit, Pruned
<1>2. UNCHANGED <<later, fate, working, subject>>
  BY DEF Visit, metadataUnchanged, metadataVars, stepVars
<1>3. /\ frontier' = Children(Root) \ (first \cup Tests(Root))
      /\ Seen' = {s \in {Root} : IsProject(s)} /\ Root \in Source
  BY <1>1, <1>2, TreeAssumption DEF Seen
<1>4. Kept(Root, first)
  BY PathOfRoot DEF Kept, LeftOut
<1>5. ASSUME NEW c \in frontier' PROVE Entered(c, first)
  <2>1. c \in Source \ {Root} /\ Parent[c] = Root /\ c \notin first
    BY <1>3, <1>5 DEF Children
  <2>2. PathTo[c] \subseteq {c, Root}
    BY <1>3, <1>5, PathOfChild, PathOfRoot
  <2>3. ~(Named[c] = "tests" /\ IsProject(Parent[c]))
    BY <1>3, <1>5, <2>1 DEF Tests
  <2> QED
    BY <2>1, <2>2, <2>3 DEF Entered, LeftOut
<1>6. ASSUME NEW d \in Source, IsProject(d), Kept(d, first)
      PROVE  d \in Seen' \/ PathTo[d] \cap frontier' # {}
  <2>1. CASE d = Root
    BY <1>3, <1>6, <2>1
  <2>2. CASE d # Root
    <3>1. PICK c \in Children(Root) : c \in PathTo[d]
      BY <2>2, PathUp, PathThrough
    <3>2. c \in Source \ {Root} /\ Parent[c] = Root /\ ~LeftOut(c, first)
      BY <1>6, <3>1 DEF Kept, Children
    <3>3. c \notin first \cup Tests(Root)
      BY <3>2 DEF LeftOut, Tests
    <3> QED
      BY <1>3, <3>1, <3>3
  <2> QED
    BY <2>1, <2>2
<1>7. Covers(first)'
  BY <1>3, <1>4, <1>5, <1>6 DEF Covers
<1>8. Root \notin frontier'
  BY <1>3 DEF Children
<1> QED
  BY <1>7, <1>8

LEMMA VisitInv ==
  ASSUME TreeInv, NEW x \in Source, Visit(x) PROVE TreeInv'
<1> USE DEF TreeInv
<1>1. /\ UNCHANGED <<metadataVars, parallelism, phase, later, fate, working>>
      /\ x \in frontier /\ phase = "walk"
  BY DEF Visit, metadataUnchanged
<1>2. CallsSafe' /\ OneSafe'
  BY <1>1, QuietCalls, TreeAssumption DEF OneSafe
<1>3. WalkType'
  <2>1. Children(x) \subseteq Source
    BY DEF Children
  <2> QED
    BY <1>1, <2>1 DEF Visit, WalkType
<1>4. PhaseSafe'
  BY <1>1 DEF PhaseSafe, metadataVars, stepVars
<1>5. WalkSafe'
  <2>1. CASE frontier = {Root} /\ Seen = {}
    BY <1>1, <2>1, VisitRoot DEF WalkSafe
  <2>2. CASE Root \notin frontier
    <3>1. PICK first \in Unwalked(Root) : Covers(first)
      BY <1>1, <2>2 DEF WalkSafe
    <3> QED
      BY <1>1, <2>2, <3>1, VisitBelow DEF WalkSafe
  <2> QED
    BY <1>1, <2>1, <2>2 DEF WalkSafe
<1> QED
  BY <1>2, <1>3, <1>4, <1>5

-----------------------------------------------------------------------------
(* The sources *)

LEMMA InitInv == Init => TreeInv
<1> SUFFICES ASSUME Init PROVE TreeInv
  OBVIOUS
<1>1. CallsSafe
  BY InitCallsSafe DEF Init, Contents
<1>2. WalkType /\ PhaseSafe
  BY TreeAssumption DEF Init, WalkType, PhaseSafe
<1>3. OneSafe
  BY TreeAssumption DEF Init, InitMetadata, OneSafe, AloneSafe, Patches
<1>4. WalkSafe
  BY DEF Init, WalkSafe, Seen
<1> QED
  BY <1>1, <1>2, <1>3, <1>4 DEF TreeInv

(* Steps between the phases, and a source that is put off *)
LEMMA PhaseInv ==
  ASSUME TreeInv, Walked \/ Mapped \/ Finished \/ \E t \in Thread, d \in Source : Defer(t, d)
  PROVE  TreeInv'
<1> USE DEF TreeInv
<1>1. UNCHANGED <<metadataVars, parallelism, frontier, fate, working>>
  BY DEF Walked, Mapped, Finished, Defer, metadataUnchanged
<1>2. CallsSafe' /\ OneSafe' /\ subject' = subject
  BY <1>1, QuietCalls, TreeAssumption DEF OneSafe
<1>3. WalkType'
  BY <1>1 DEF Walked, Mapped, Finished, Defer, Waits, WalkType
<1>4. PhaseSafe'
  BY <1>1, <1>2, TreeAssumption DEF Walked, Mapped, Finished, Defer, Mapping, PhaseSafe
<1>5. Seen' = Seen
  BY <1>1, <1>2 DEF Walked, Mapped, Finished, Defer, Waits, Seen, PhaseSafe
<1>6. phase' # "raised" => phase # "raised"
  BY DEF Walked, Mapped, Finished, Defer
<1> QED
  BY <1>1, <1>2, <1>3, <1>4, <1>5, <1>6, SeenWalkSafe

LEMMA ProcessInv ==
  ASSUME TreeInv, NEW t \in Thread, NEW d \in Source, Process(t, d) PROVE TreeInv'
<1> USE DEF TreeInv
<1>1. /\ UNCHANGED <<parallelism, phase, frontier, later, fate>>
      /\ sources' = sources \ {d} /\ d \in sources /\ Extract(t, d)
      /\ working' = [working EXCEPT ![t] = TRUE] /\ ~working[t] /\ at[t] = "idle"
      /\ phase \in {"map", "raised", "later"} /\ t \in Workers
  BY DEF Process, Mapping, Extract
<1>2. CallsSafe'
  BY <1>1, ExtractCallsSafe
<1>3. /\ subject'[t] = d /\ Own(t)
      /\ at'[t] \in {"idle", "wheel", "project", "source"}
  BY <1>1, ExtractStarts, TypeFrames DEF CallsSafe
<1>4. /\ working' \in [Thread -> BOOLEAN] /\ working'[t]
      /\ \A u \in Thread \ {t} : working'[u] = working[u] /\ subject'[u] = subject[u]
  BY <1>1, <1>3 DEF WalkType, Own
<1>5. WalkType'
  BY <1>1, <1>4 DEF WalkType
<1>6. PhaseSafe'
  BY <1>1, <1>3, <1>4 DEF PhaseSafe, Workers
<1>7. OneSafe'
  <2> SUFFICES ASSUME parallelism = 1 PROVE OneSafe'
    BY <1>1 DEF OneSafe
  <2>1. t = Main /\ AloneSafe(Main)
    BY <1>1 DEF Workers, OneSafe
  <2>2. UNCHANGED <<patchVars, dirVars>>
    BY <1>1 DEF Extract
  <2>3. AloneSafe(Main)'
    BY <1>1, <1>3, <2>1, <2>2 DEF AloneSafe, Patches, patchVars, dirVars
  <2> QED
    BY <1>3, <2>1, <2>3 DEF OneSafe, Own
<1>8. Seen' = Seen
  BY <1>1, <1>3, <1>4 DEF Seen
<1> QED
  BY <1>1, <1>2, <1>5, <1>6, <1>7, <1>8, SeenWalkSafe

LEMMA CollectInv ==
  ASSUME TreeInv, NEW t \in Thread, Collect(t) PROVE TreeInv'
<1> USE DEF TreeInv
<1>1. /\ working[t] /\ at[t] = "idle" /\ Taken(t)
      /\ working' = [working EXCEPT ![t] = FALSE]
      /\ phase' = IF answer[t] = "exception" THEN "raised" ELSE phase
      /\ sources' = IF answer[t] = "exception" /\ t = Main THEN {} ELSE sources
      /\ UNCHANGED <<proc, files, failed, patchVars, dirVars, temps>>
      /\ UNCHANGED <<parallelism, frontier, later>>
  BY DEF Collect
<1>2. PICK f \in {"candidate", "no candidate"} : fate' = [fate EXCEPT ![subject[t]] = f]
  BY DEF Collect
<1>3. subject[t] \in Source
  BY <1>1 DEF PhaseSafe
<1>4. /\ StepType' /\ Own(t) /\ at' = at
      /\ answer'[t] = "none" /\ subject'[t] = Nothing
  BY <1>1, TypeFrames DEF CallsSafe, StepType, Taken, Own, Answers
<1>5. CallsSafe'
  <2>1. TypeMetadata' /\ ProcSafe'
    BY <1>1, <1>4 DEF CallsSafe, ProcSafe, TypeMetadata, StepType, patchVars, dirVars
  <2>2. PlaceSafe(t)' /\ TokensSafe(t)'
    BY <1>1, <1>4 DEF PlaceSafe, TokensSafe, Patches, ProjectPlaces, Built
  <2> QED
    BY <1>1, <1>4, <2>1, <2>2, OthersKept DEF CallsSafe, patchVars
<1>6. /\ working' \in [Thread -> BOOLEAN] /\ ~working'[t]
      /\ \A u \in Thread \ {t} : working'[u] = working[u] /\ subject'[u] = subject[u]
  BY <1>1, <1>4 DEF WalkType, Own
<1>7. /\ fate' \in [Source -> {"unseen", "candidate", "no candidate"}]
      /\ \A d \in Source : fate'[d] # "unseen" <=> fate[d] # "unseen" \/ d = subject[t]
  BY <1>2, <1>3 DEF WalkType
<1>8. WalkType'
  BY <1>1, <1>6, <1>7 DEF WalkType
<1>9. PhaseSafe'
  BY <1>1, <1>6 DEF PhaseSafe, WalkType
<1>10. OneSafe'
  BY <1>1, <1>4 DEF OneSafe, AloneSafe, Patches, patchVars, dirVars
<1>11. ASSUME phase' # "raised" PROVE phase # "raised" /\ Seen' = Seen
  <2>1. phase # "raised" /\ sources' = sources /\ later' = later
    BY <1>1, <1>11
  <2>2. ASSUME NEW d \in Source
        PROVE  (\E u \in Thread : working[u] /\ subject[u] = d)
                 <=> d = subject[t] \/ \E u \in Thread : working'[u] /\ subject'[u] = d
    BY <1>1, <1>6
  <2> QED
    BY <1>7, <2>1, <2>2 DEF Seen
<1> QED
  BY <1>1, <1>5, <1>8, <1>9, <1>10, <1>11, SeenWalkSafe

LEMMA StepNotIdle ==
  ASSUME NEW t \in Thread, MetadataStep(t) PROVE at[t] # "idle"
BY DEF MetadataStep, ReadWheel, ReadProject, EnterProject, LeaveProject, BackendWheel,
       OpenSource, FindSetup, RunScript, LeaveSetup, RemovalRaises, BuildEggInfo, EggInfoBuilt, BuildWheel,
       WheelBuilt, Finish

LEMMA ExtractingInv ==
  ASSUME TreeInv, Extracting PROVE TreeInv'
<1> USE DEF TreeInv
<1>1. PICK t \in Thread : ExtractStep(t)
  BY DEF Extracting
<1>2. UNCHANGED <<parallelism, phase, frontier, sources, later, fate, working>>
  BY DEF Extracting, findVars
<1>3. StepType /\ TypeMetadata /\ \A u \in Thread : PlaceSafe(u)
  BY TypeFrames DEF CallsSafe
<1>4. CallsSafe'
  BY <1>1, StepCallsSafe, SubprocessCallsSafe DEF ExtractStep
<1>5. subject' = subject
  BY <1>1, <1>3, StepOwn DEF ExtractStep, SubprocessRuns, stepVars
<1>6. OneSafe'
  <2> SUFFICES ASSUME parallelism = 1 PROVE OneSafe'
    BY <1>2 DEF OneSafe
  <2>1. AloneSafe(Main) /\ \A u \in Thread \ {Main} : at[u] = "idle"
    BY DEF OneSafe
  <2>2. CASE MetadataStep(t)
    <3>1. t = Main
      BY <2>1, <2>2, StepNotIdle
    <3>2. AloneSafe(Main)' /\ Own(Main)
      BY <1>3, <2>1, <2>2, <3>1, StepAloneSafe, StepOwn
    <3> QED
      BY <2>1, <3>2 DEF OneSafe, Own
  <2>3. CASE SubprocessRuns(t)
    BY <2>1, <2>3 DEF SubprocessRuns, OneSafe, AloneSafe, Patches, stepVars, patchVars, dirVars
  <2> QED
    BY <1>1, <2>2, <2>3 DEF ExtractStep
<1>7. WalkType' /\ PhaseSafe'
  BY <1>2, <1>5 DEF WalkType, PhaseSafe
<1>8. Seen' = Seen
  BY <1>2, <1>5 DEF Seen
<1> QED
  BY <1>2, <1>4, <1>6, <1>7, <1>8, SeenWalkSafe

LEMMA StutterInv ==
  ASSUME TreeInv, UNCHANGED vars PROVE TreeInv'
<1> USE DEF TreeInv
<1>1. /\ UNCHANGED metadataVars
      /\ UNCHANGED <<parallelism, phase, frontier, sources, later, fate, working>>
  BY DEF vars, findVars
<1>2. CallsSafe' /\ OneSafe' /\ subject' = subject
  BY <1>1, QuietCalls, TreeAssumption DEF OneSafe
<1>3. WalkType' /\ PhaseSafe' /\ Seen' = Seen
  BY <1>1, <1>2 DEF WalkType, PhaseSafe, Seen
<1> QED
  BY <1>1, <1>2, <1>3, SeenWalkSafe

LEMMA NextInv == TreeInv /\ [Next]_vars => TreeInv'
<1> SUFFICES ASSUME TreeInv, [Next]_vars PROVE TreeInv'
  OBVIOUS
<1> QED
  BY VisitInv, PhaseInv, ProcessInv, CollectInv, ExtractingInv, StutterInv
     DEF Next, FinderStep

LEMMA TreeInvariant == Spec => []TreeInv
BY InitInv, NextInv, PTL DEF Spec

-----------------------------------------------------------------------------
(* What it says *)

(* Every variable of the finder and of the calls it makes keeps its type,  *)
(* however many threads undo each other's patches. *)
THEOREM TreeTypes == Spec => []TypeOK
<1>1. TreeInv => TypeOK
  BY DEF TreeInv, CallsSafe, WalkType, TypeOK
<1> QED
  BY <1>1, TreeInvariant, PTL

(* For every tree: when the constructor of SourceRepository returns, the   *)
(* projects it has looked at are exactly those outside of the directories  *)
(* that are left out. *)
THEOREM EveryProjectIsFound == Spec => []FindsEveryProject
<1>1. TreeInv => FindsEveryProject
  <2> SUFFICES ASSUME TreeInv, phase = "done"
               PROVE  \E first \in Unwalked(Root) :
                        {d \in Source : fate[d] # "unseen"}
                          = {d \in Source : IsProject(d) /\ Kept(d, first)}
    BY DEF FindsEveryProject, Kept
  <2>1. frontier = {} /\ sources = {} /\ later = {} /\ \A t \in Thread : ~working[t]
    BY DEF TreeInv, PhaseSafe
  <2>2. Seen = {d \in Source : fate[d] # "unseen"}
    BY <2>1 DEF Seen
  <2>3. PICK first \in Unwalked(Root) : Covers(first)
    BY <2>1 DEF TreeInv, WalkSafe
  <2> QED
    BY <2>1, <2>2, <2>3 DEF Covers
<1> QED
  BY <1>1, TreeInvariant, PTL

(* With one thread the interpreter is as it was whenever no setup file     *)
(* runs, whatever the scripts and backends of the tree do. *)
THEOREM OneThreadIsClean == Spec => []OneThreadUndoesPatches
<1>1. TreeInv => OneThreadUndoesPatches
  <2> SUFFICES ASSUME TreeInv, parallelism = 1,
                      \A t \in Thread :
                        at[t] \notin {"search", "script", "parsed", "prepared"}
               PROVE  /\ \A f \in Patched : installed[f] = Original
                      /\ workdir = Home /\ lock = NoThread
    BY DEF OneThreadUndoesPatches, PatchesUndone
  <2> QED
    BY TreeAssumption DEF TreeInv, OneSafe, AloneSafe, Patches
<1> QED
  BY <1>1, TreeInvariant, PTL

(* Also where threads share the process, the metadata of an archive is     *)
(* that of its file name, and what is reported of a build is complete.     *)
THEOREM ThreadsKeepIdentity == Spec => [](SdistIdentity /\ OutputComplete)
<1>1. TreeInv => SdistIdentity /\ OutputComplete
  BY CallsSafeProperties DEF TreeInv
<1> QED
  BY <1>1, TreeInvariant, PTL
=============================================================================
