--------------------------- MODULE MetadataProofs ---------------------------
(***************************************************************************)
(* What a call of _run_with_output and a call of extract_metadata keep,    *)
(* for any threads, chunks of output, sources and results.  IndexClient    *)
(* and SourceTree start such calls; their proofs cite the lemmas of this   *)
(* module.                                                                 *)
(*                                                                         *)
(* A subprocess is answered for after the join of its shoveler, and a      *)
(* shoveler ends only when nobody holds the write end of the pipe.  That   *)
(* is for good: who held it could only have handed it on while it ran.     *)
(*                                                                         *)
(* A thread's invariant speaks of its own variables only, so a step of     *)
(* another thread keeps it (OthersKept), and a step of its own needs no    *)
(* more than the invariant of that thread.                                 *)
(***************************************************************************)
EXTENDS SourceMetadata, TLAPS

-----------------------------------------------------------------------------
(* Subprocesses *)

PipeClosed(p) == ~HoldsPipe(p) /\ p.read = p.written
CallSafe(p) == /\ p \in Calls
               /\ p.call \in {"output", "error"} => p.shoveler = "ended"
               /\ p.shoveler = "ended" => PipeClosed(p)

(* The inductive invariant. *)
ProcSafe == /\ DOMAIN proc = Thread /\ proc = [t \in Thread |-> proc[t]]
            /\ \A t \in Thread : CallSafe(proc[t])

-----------------------------------------------------------------------------
LEMMA NoCallSafe == CallSafe(NoCall)
BY SubprocessAssumption DEF NoCall, CallSafe, Calls, PipeClosed

LEMMA ProcTyped == ProcSafe => proc \in [Thread -> Calls]
BY DEF ProcSafe, CallSafe

LEMMA InitProcSafe == InitSubprocess => ProcSafe
BY NoCallSafe DEF InitSubprocess, ProcSafe

(* One thread's call is replaced by a safe one.                            *)
LEMMA ReplaceCall ==
  ASSUME ProcSafe, NEW t \in Thread, NEW p, CallSafe(p),
         proc' = [proc EXCEPT ![t] = p]
  PROVE  ProcSafe'
BY DEF ProcSafe

LEMMA StartedSafe ==
  ASSUME NEW p \in Calls, NEW left \in SUBSET Orphans
  PROVE  CallSafe([p EXCEPT !.call = "polling", !.child = "running",
                            !.orphans = left, !.shoveler = "reading"])
BY DEF CallSafe, Calls

LEMMA PopenSafe ==
  ASSUME ProcSafe, NEW t \in Thread, Popen(t)
  PROVE  ProcSafe'
<1> DEFINE left == proc[t].orphans \ {"pipe"}
<1>1. NoCall \in Calls
  BY NoCallSafe DEF CallSafe
<1>2. left \in SUBSET Orphans
  BY DEF ProcSafe, CallSafe, Calls
<1>3. CallSafe([NoCall EXCEPT !.call = "polling", !.child = "running",
                              !.orphans = left, !.shoveler = "reading"])
  BY <1>1, <1>2, StartedSafe
<1> QED
  BY <1>3, ReplaceCall DEF Popen

LEMMA CollectedSafe ==
  ASSUME ProcSafe, NEW t \in Thread, Collected(t)
  PROVE  ProcSafe'
BY NoCallSafe, ReplaceCall DEF Collected

LEMMA StepSafe ==
  ASSUME ProcSafe, NEW t \in Thread, SubprocessStep(t)
  PROVE  ProcSafe'
<1> DEFINE p == proc[t]
<1>0. CallSafe(p) /\ p \in Calls
  BY DEF ProcSafe, CallSafe
<1>1. CASE Writes(t)
  <2>1. CallSafe([p EXCEPT !.written = @ + 1])
    BY <1>0, <1>1, SubprocessAssumption DEF Writes, CallSafe, PipeClosed, Calls, HoldsPipe
  <2> QED
    BY <1>1, <2>1, ReplaceCall DEF Writes, ProcSafe
<1>2. CASE Exits(t)
  <2>1. PICK end \in {"ok", "failed"}, left \in SUBSET Orphans :
          proc' = [proc EXCEPT ![t].child = end, ![t].orphans = @ \cup left]
    BY <1>2 DEF Exits
  <2>2. CallSafe([p EXCEPT !.child = end, !.orphans = @ \cup left])
    BY <1>0, <1>2, SubprocessAssumption DEF Exits, CallSafe, PipeClosed, Calls, HoldsPipe
  <2>3. proc' = [proc EXCEPT ![t] = [p EXCEPT !.child = end, !.orphans = @ \cup left]]
    BY <2>1 DEF ProcSafe
  <2> QED
    BY <2>2, <2>3, ReplaceCall
<1>3. CASE \E o \in Orphans : OrphanEnds(t, o)
  <2>1. PICK o \in Orphans : OrphanEnds(t, o)
    BY <1>3
  <2>2. CallSafe([p EXCEPT !.orphans = @ \ {o}])
    BY <1>0 DEF CallSafe, PipeClosed, Calls, HoldsPipe
  <2> QED
    BY <2>1, <2>2, ReplaceCall DEF OrphanEnds
<1>4. CASE TimePasses(t)
  <2>1. CallSafe([p EXCEPT !.late = TRUE])
    BY <1>0, <1>4 DEF TimePasses, CallSafe, PipeClosed, Calls, HoldsPipe
  <2> QED
    BY <1>4, <2>1, ReplaceCall DEF TimePasses
<1>5. CASE Shovel(t)
  <2>1. CallSafe([p EXCEPT !.read = @ + 1])
    BY <1>0, <1>5, SubprocessAssumption DEF Shovel, CallSafe, PipeClosed, Calls, HoldsPipe
  <2> QED
    BY <1>5, <2>1, ReplaceCall DEF Shovel
<1>6. CASE ShovelEnds(t)
  <2>1. CallSafe([p EXCEPT !.shoveler = "ended"])
    BY <1>0, <1>6 DEF ShovelEnds, CallSafe, PipeClosed, Calls, HoldsPipe
  <2> QED
    BY <1>6, <2>1, ReplaceCall DEF ShovelEnds
<1>7. CASE PollEnds(t)
  <2>1. CASE proc' = [proc EXCEPT ![t].call = "joining"]
    <3>1. CallSafe([p EXCEPT !.call = "joining"])
      BY <1>0 DEF CallSafe, PipeClosed, Calls, HoldsPipe
    <3> QED
      BY <2>1, <3>1, ReplaceCall
  <2>2. CASE /\ p.child = "running"
             /\ \E left \in SUBSET Orphans :
                  proc' = [proc EXCEPT ![t].call = "joining", ![t].child = "killed",
                                       ![t].orphans = @ \cup left]
    <3>1. PICK left \in SUBSET Orphans :
            proc' = [proc EXCEPT ![t].call = "joining", ![t].child = "killed",
                                 ![t].orphans = @ \cup left]
      BY <2>2
    <3> DEFINE q == [p EXCEPT !.call = "joining", !.child = "killed",
                            !.orphans = @ \cup left]
    <3>2. CallSafe(q)
      BY <1>0, <2>2, SubprocessAssumption DEF CallSafe, PipeClosed, Calls, HoldsPipe
    <3>3. proc' = [proc EXCEPT ![t] = q]
      BY <3>1 DEF ProcSafe
    <3> QED
      BY <3>2, <3>3, ReplaceCall
  <2> QED
    BY <1>7, <2>1, <2>2 DEF PollEnds
<1>8. CASE Joined(t)
  <2> DEFINE q == [p EXCEPT !.call = IF p.child = "ok" THEN "output" ELSE "error"]
  <2>1. CallSafe(q)
    BY <1>0, <1>8 DEF Joined, MayJoin, CallSafe, PipeClosed, Calls, HoldsPipe
  <2>2. proc' = [proc EXCEPT ![t] = q]
    BY <1>8 DEF Joined
  <2> QED
    BY <2>1, <2>2, ReplaceCall
<1> QED
  BY <1>1, <1>2, <1>3, <1>4, <1>5, <1>6, <1>7, <1>8
     DEF SubprocessStep, Environment, Shoveler, Caller

LEMMA ProcSafeOutput == ProcSafe => OutputComplete
BY DEF ProcSafe, CallSafe, PipeClosed, OutputComplete, Answered

(* However many subprocesses run at once, whatever they write, however     *)
(* they end and whenever they are killed, a call of _run_with_output       *)
(* answers when its subprocess has ended, with all that was written to the *)
(* pipe by it and by the children that inherited the pipe.  (Children with *)
(* an output of their own may still run: nothing is proved of them.)       *)
THEOREM OutputIsComplete == SubprocessSpec => []OutputComplete
<1>1. InitSubprocess => ProcSafe
  BY InitProcSafe
<1>2. ProcSafe /\ [SubprocessNext]_proc => ProcSafe'
  <2> SUFFICES ASSUME ProcSafe, [SubprocessNext]_proc PROVE ProcSafe'
    OBVIOUS
  <2>1. CASE UNCHANGED proc
    BY <2>1 DEF ProcSafe
  <2>2. CASE SubprocessNext
    BY <2>2, PopenSafe, StepSafe DEF SubprocessNext
  <2> QED
    BY <2>1, <2>2
<1> QED
  BY <1>1, <1>2, ProcSafeOutput, PTL DEF SubprocessSpec

-----------------------------------------------------------------------------
(* Calls of extract_metadata *)

ProjectPlaces == {"project", "prepare", "prepared", "backend wheel"}
Built == {"script", "parsed", "egg_info", "egg_info runs", "wheel runs", "finish"}

Identified(t) ==
  /\ IsArchive(t) => metadata[t].name = "its own"
  /\ IsArchive(t) /\ Versioned(t) => metadata[t].version = "its own"
  /\ Format(t) \in {"sdist", "directory"} => /\ metadata[t].name # "none"
                                            /\ metadata[t].version # "none"
                                            /\ Setup(t) # "none"

(* Where a thread is says what it was asked for. *)
PlaceSafe(t) ==
  /\ at[t] # "idle" => answer[t] = "none"
  /\ at[t] # "idle" \/ answer[t] # "none" => subject[t] \in Source
  /\ at[t] = "wheel" => Format(t) = "wheel"
  /\ at[t] \in ProjectPlaces => Format(t) = "project"
  /\ at[t] \in Built => HasSetup(t)
  /\ at[t] = "finish" => metadata[t] \in Metadata
  /\ answer[t] = "metadata" => Identified(t)

(* An archive that was opened is whole, and so is what metadata came from. *)
WholeSafe(t) ==
  /\ at[t] \in Built \cup {"search"} => (IsArchive(t) => Content(t) = "whole")
  /\ answer[t] = "metadata" => (Format(t) \in {"wheel", "sdist"} => Content(t) = "whole")

(* A temporary directory belongs to a place. *)
TempSafe(t) ==
  /\ <<t, "dest">> \in temps => at[t] \in {"prepare", "prepared"}
  /\ <<t, "wheel">> \in temps => \/ at[t] = "wheel runs"
                                 \/ at[t] = "idle" /\ answer[t] = "exception"
  /\ <<t, "egg_info">> \in temps =>
       \/ at[t] \in {"egg_info runs", "wheel runs"}
       \/ at[t] = "finish" /\ metadata[t].name = "its own"
       \/ at[t] = "idle" /\ answer[t] \in {"metadata", "exception"}

(* What a thread has patched, and what it left behind, when no other does. *)
Patches(t) == CASE at[t] = "search" -> Directory
                [] at[t] = "script" -> Directory \cup Script
                [] at[t] = "parsed" -> Directory
                [] at[t] = "prepared" -> Quiet
                [] OTHER -> {}
(* A token that is used up is not restored again. *)
TokensSafe(t) == \A f \in Patches(t) : saved[t][f] \in Thread \cup {Original}
AloneSafe(t) ==
  /\ \A f \in Patched : installed[f] = IF f \in Patches(t) THEN t ELSE Original
  /\ \A f \in Patches(t) : saved[t][f] = Original
  /\ IF at[t] = "prepared" THEN lock = t /\ oldcwd = Home
                           ELSE lock = NoThread /\ workdir = Home

-----------------------------------------------------------------------------
(* How a thread goes on *)

StepType == /\ at \in [Thread -> Locations]
            /\ subject \in [Thread -> Source \cup {Nothing}]
            /\ answer \in [Thread -> Answers]
            /\ metadata \in [Thread -> Metadata \cup {NoResult}]
(* A step of t is nothing to the other threads. *)
Own(t) == \A u \in Thread \ {t} :
            /\ at'[u] = at[u] /\ answer'[u] = answer[u]
            /\ metadata'[u] = metadata[u] /\ subject'[u] = subject[u]
Now(t, place, ans, m) == /\ StepType' /\ Own(t) /\ subject' = subject
                         /\ at'[t] = place /\ answer'[t] = ans /\ metadata'[t] = m

LEMMA ContinuesNow ==
  ASSUME StepType, NEW t \in Thread, NEW place \in Locations, Continues(t, place)
  PROVE  Now(t, place, answer[t], metadata[t])
BY DEF StepType, Own, Now, Continues, Goto

LEMMA GivesUpNow ==
  ASSUME StepType, NEW t \in Thread, NEW ans \in Answers, GivesUpWith(t, ans)
  PROVE  Now(t, "idle", ans, metadata[t])
BY DEF StepType, Own, Now, GivesUpWith, Goto, Locations

LEMMA FindsNow ==
  ASSUME StepType, NEW t \in Thread, NEW m \in Metadata, Finds(t, m)
  PROVE  Now(t, "idle", "metadata", m)
BY DEF StepType, Own, Now, Finds, Goto, Locations, Answers

LEMMA ProvidesNow ==
  ASSUME StepType, NEW t \in Thread, NEW m \in Metadata,
         NEW place \in {"parsed", "finish"}, Provides(t, m, place)
  PROVE  Now(t, place, answer[t], m)
BY DEF StepType, Own, Now, Provides, Goto, Locations

LEMMA ExtractStarts ==
  ASSUME StepType, NEW t \in Thread, NEW f \in Source, Extract(t, f)
  PROVE  /\ StepType' /\ Own(t) /\ subject'[t] = f /\ metadata'[t] = NoResult
         /\ at'[t] \in {"idle", "wheel", "project", "source"}
         /\ at'[t] = "idle" => answer'[t] = "MetadataError"
         /\ at'[t] # "idle" => answer'[t] = "none"
         /\ at'[t] = "wheel" => Shape[f].format = "wheel"
         /\ at'[t] = "project" => Shape[f].format = "project"
BY DEF StepType, Own, Extract, Goto, Locations, Answers

-----------------------------------------------------------------------------
(* Where a thread goes fits what it was asked for. *)

LEMMA ContinuesSafe ==
  ASSUME StepType, NEW t \in Thread, PlaceSafe(t), at[t] # "idle",
         NEW place \in Locations \ {"idle", "wheel"}, Continues(t, place),
         place \in ProjectPlaces => Format(t) = "project",
         place \in Built => HasSetup(t),
         place = "finish" => metadata[t] # NoResult
  PROVE  PlaceSafe(t)'
<1>1. Now(t, place, answer[t], metadata[t])
  BY ContinuesNow
<1>2. place = "finish" => metadata[t] \in Metadata
  BY DEF StepType
<1> QED
  BY <1>1, <1>2 DEF Now, PlaceSafe, Format, Setup, HasSetup

LEMMA GivesUpSafe ==
  ASSUME StepType, NEW t \in Thread, PlaceSafe(t), at[t] # "idle",
         NEW ans \in {"MetadataError", "exception"}, GivesUpWith(t, ans)
  PROVE  PlaceSafe(t)'
<1>1. Now(t, "idle", ans, metadata[t])
  BY GivesUpNow DEF Answers
<1> QED
  BY <1>1 DEF Now, PlaceSafe, ProjectPlaces, Built

LEMMA FindsSafe ==
  ASSUME StepType, NEW t \in Thread, PlaceSafe(t), at[t] # "idle",
         NEW m \in Metadata, Finds(t, m),
         IsArchive(t) => m.name = "its own",
         IsArchive(t) /\ Versioned(t) => m.version = "its own",
         Format(t) \in {"sdist", "directory"} =>
           m.name # "none" /\ m.version # "none" /\ Setup(t) # "none"
  PROVE  PlaceSafe(t)'
<1>1. Now(t, "idle", "metadata", m)
  BY FindsNow
<1> QED
  BY <1>1 DEF Now, PlaceSafe, Identified, IsArchive, Versioned, Format, Setup, ProjectPlaces, Built

LEMMA ProvidesSafe ==
  ASSUME StepType, NEW t \in Thread, PlaceSafe(t), at[t] # "idle",
         NEW m \in Metadata, NEW place \in {"parsed", "finish"}, Provides(t, m, place),
         HasSetup(t)
  PROVE  PlaceSafe(t)'
<1>1. Now(t, place, answer[t], m)
  BY ProvidesNow
<1> QED
  BY <1>1 DEF Now, PlaceSafe, Format, Setup, HasSetup, ProjectPlaces

LEMMA PlausibleMetadata == PlausibleResults \subseteq Metadata
BY ProvidedAssumption DEF PlausibleResults

LEMMA RefusesGivesUp ==
  ASSUME NEW t \in Thread, Refuses(t) PROVE GivesUpWith(t, "MetadataError")
BY DEF Refuses

(* Every step of a thread inside extract_metadata, of any number of        *)
(* threads, leaves the others where they are and itself where it fits. *)
LEMMA StepSafePlace ==
  ASSUME StepType, NEW t \in Thread, PlaceSafe(t), MetadataStep(t)
  PROVE  PlaceSafe(t)'
<1> USE ContinuesSafe, GivesUpSafe, FindsSafe, ProvidesSafe, PlausibleMetadata, RefusesGivesUp
<1>1. CASE ReadWheel(t)
  BY <1>1 DEF ReadWheel, Locations, ProjectPlaces, Built, PlaceSafe, IsArchive
<1>2. CASE ReadProject(t)
  BY <1>2 DEF ReadProject, Locations, ProjectPlaces, Built, PlaceSafe, IsArchive
<1>3. CASE EnterProject(t)
  BY <1>3 DEF EnterProject, Locations, ProjectPlaces, Built, PlaceSafe
<1>4. CASE LeaveProject(t)
  BY <1>4 DEF LeaveProject, Locations, ProjectPlaces, Built, PlaceSafe, IsArchive
<1>5. CASE BackendWheel(t)
  BY <1>5, ProvidedAssumption
     DEF BackendWheel, Locations, ProjectPlaces, Built, PlaceSafe, IsArchive
<1>6. CASE OpenSource(t)
  BY <1>6 DEF OpenSource, CannotOpen, Locations, ProjectPlaces, Built
<1>7. CASE FindSetup(t)
  BY <1>7 DEF FindSetup, Locations, ProjectPlaces, Built
<1>8. CASE RunScript(t)
  BY <1>8, ProvidedAssumption DEF RunScript, Locations, ProjectPlaces, Built, PlaceSafe
<1>9. CASE BuildEggInfo(t)
  BY <1>9 DEF BuildEggInfo, Locations, ProjectPlaces, Built, PlaceSafe
<1>10. CASE EggInfoBuilt(t)
  BY <1>10, ProvidedAssumption DEF EggInfoBuilt, Built, PlaceSafe
<1>11. CASE BuildWheel(t)
  BY <1>11 DEF BuildWheel, Locations, ProjectPlaces, Built, PlaceSafe
<1>12. CASE WheelBuilt(t)
  BY <1>12 DEF WheelBuilt, Built, PlaceSafe
<1>13. CASE Finish(t)
  <2> DEFINE m == metadata[t]
             c == [name |-> CorrectName(t, m), version |-> CorrectVersion(t, m)]
  <2>1. m \in Metadata /\ HasSetup(t) /\ at[t] # "idle"
    BY <1>13 DEF Finish, PlaceSafe, Built
  <2>2. CASE Refuses(t)
    BY <2>1, <2>2
  <2>3. CASE Finds(t, c)
    <3>1. c \in Metadata /\ c.name # "none" /\ c.version # "none"
      BY <2>1 DEF Metadata, CorrectName, CorrectVersion
    <3>2. /\ IsArchive(t) => c.name = "its own"
          /\ Versioned(t) => c.version = "its own"
      BY DEF CorrectName, CorrectVersion
    <3> HIDE DEF c
    <3> QED
      BY <2>1, <2>3, <3>1, <3>2 DEF HasSetup
  <2> QED
    BY <1>13, <2>2, <2>3 DEF Finish
<1>14. CASE LeaveSetup(t)
  BY <1>14 DEF LeaveSetup, Locations, ProjectPlaces, Built, PlaceSafe
<1>15. CASE RemovalRaises(t)
  BY <1>15 DEF RemovalRaises, PlaceSafe
<1> QED
  BY <1>1, <1>2, <1>3, <1>4, <1>5, <1>6, <1>7, <1>8, <1>9, <1>10, <1>11, <1>12, <1>13,
     <1>14, <1>15
     DEF MetadataStep

(* The same steps, as they look from outside: *)
LEMMA StepOwn ==
  ASSUME StepType, NEW t \in Thread, PlaceSafe(t), MetadataStep(t)
  PROVE  StepType' /\ Own(t) /\ subject' = subject
<1> USE ContinuesNow, GivesUpNow, FindsNow, ProvidesNow, PlausibleMetadata, RefusesGivesUp
        DEF Now, Locations, Answers
<1>1. CASE ReadWheel(t)
  BY <1>1 DEF ReadWheel
<1>2. CASE ReadProject(t)
  BY <1>2 DEF ReadProject
<1>3. CASE EnterProject(t)
  BY <1>3 DEF EnterProject
<1>4. CASE LeaveProject(t)
  BY <1>4 DEF LeaveProject
<1>5. CASE BackendWheel(t)
  BY <1>5, ProvidedAssumption DEF BackendWheel
<1>6. CASE OpenSource(t)
  BY <1>6 DEF OpenSource, CannotOpen
<1>7. CASE FindSetup(t)
  BY <1>7 DEF FindSetup
<1>8. CASE RunScript(t)
  BY <1>8, ProvidedAssumption DEF RunScript
<1>9. CASE BuildEggInfo(t)
  BY <1>9 DEF BuildEggInfo
<1>10. CASE EggInfoBuilt(t)
  BY <1>10, ProvidedAssumption DEF EggInfoBuilt
<1>11. CASE BuildWheel(t)
  BY <1>11 DEF BuildWheel
<1>12. CASE WheelBuilt(t)
  BY <1>12 DEF WheelBuilt
<1>13. CASE Finish(t)
  <2> DEFINE m == metadata[t]
             c == [name |-> CorrectName(t, m), version |-> CorrectVersion(t, m)]
  <2>1. c \in Metadata
    BY <1>13 DEF Finish, PlaceSafe, Metadata, CorrectName, CorrectVersion
  <2> HIDE DEF c
  <2>2. Refuses(t) \/ Finds(t, c)
    BY <1>13 DEF Finish, c
  <2> QED
    BY <2>1, <2>2
<1>14. CASE LeaveSetup(t)
  BY <1>14 DEF LeaveSetup
<1>15. CASE RemovalRaises(t)
  BY <1>15 DEF RemovalRaises
<1> QED
  BY <1>1, <1>2, <1>3, <1>4, <1>5, <1>6, <1>7, <1>8, <1>9, <1>10, <1>11, <1>12, <1>13,
     <1>14, <1>15
     DEF MetadataStep

-----------------------------------------------------------------------------
(* Types *)

LEMMA InstallsTyped ==
  ASSUME TypeMetadata, NEW t \in Thread, NEW fs, Installs(t, fs)
  PROVE  /\ installed' \in [Patched -> Thread \cup {Original}]
         /\ saved' \in [Thread -> [Patched -> Thread \cup {Original, Nothing}]]
BY DEF Installs, TypeMetadata

LEMMA TypeFrames == TypeMetadata => StepType
BY DEF TypeMetadata, StepType

LEMMA StepKeepsFiles ==
  ASSUME NEW t \in Thread, MetadataStep(t) PROVE files' = files
BY DEF MetadataStep, ReadWheel, ReadProject, EnterProject, LeaveProject, BackendWheel,
       OpenSource, FindSetup, RunScript, LeaveSetup, BuildEggInfo, EggInfoBuilt, BuildWheel,
       WheelBuilt, RemovalRaises, Finish

LEMMA StepKeepsTemps ==
  ASSUME NEW t \in Thread, MetadataStep(t)
  PROVE  \/ UNCHANGED temps
         \/ \E kind \in {"dest", "egg_info", "wheel"} : MakesTemp(t, kind)
         \/ \E kinds : RemovesTemps(t, kinds)
BY DEF MetadataStep, ReadWheel, ReadProject, EnterProject, LeaveProject, BackendWheel,
       OpenSource, FindSetup, RunScript, LeaveSetup, BuildEggInfo, EggInfoBuilt, BuildWheel,
       WheelBuilt, RemovalRaises, Finish, RemovesBoth

(* FAILED_BUILDS only takes what this thread was asked for, and only when  *)
(* it was opened. *)
LEMMA StepCondemns ==
  ASSUME NEW t \in Thread, MetadataStep(t)
  PROVE  \/ UNCHANGED failed
         \/ failed' = failed \cup {subject[t]} /\ at[t] \in Built \cup {"search"}
BY DEF MetadataStep, ReadWheel, ReadProject, EnterProject, LeaveProject, BackendWheel,
       OpenSource, CannotOpen, FindSetup, RunScript, LeaveSetup, BuildEggInfo, EggInfoBuilt, BuildWheel,
       WheelBuilt, RemovalRaises, Finish, Refuses, Built

LEMMA StepDirs ==
  ASSUME TypeMetadata, NEW t \in Thread, PlaceSafe(t), MetadataStep(t)
  PROVE  {workdir, oldcwd}' \subseteq Source \cup {Home} /\ lock' \in Thread \cup {NoThread}
BY DEF TypeMetadata, MetadataStep, ReadWheel, ReadProject, EnterProject, LeaveProject,
       BackendWheel, OpenSource, FindSetup, RunScript, LeaveSetup, BuildEggInfo, EggInfoBuilt, BuildWheel,
       WheelBuilt, RemovalRaises, Finish, dirVars, ReleasesLock, PlaceSafe

LEMMA RestoresTyped ==
  ASSUME TypeMetadata, NEW t \in Thread, NEW fs,
         \A f \in fs : saved[t][f] \in Thread \cup {Original}, Restores(t, fs)
  PROVE  /\ installed' \in [Patched -> Thread \cup {Original}]
         /\ saved' \in [Thread -> [Patched -> Thread \cup {Original, Nothing}]]
BY DEF Restores, TypeMetadata

(* Where a step that patches nothing leads to, nothing is patched. *)
LEMMA StepPatches ==
  ASSUME StepType, NEW t \in Thread, PlaceSafe(t), MetadataStep(t)
  PROVE  \/ UNCHANGED <<patchVars, dirVars>> /\ Patches(t) = {} /\ Patches(t)' = {}
         \/ /\ at[t] = "prepare" /\ at'[t] = "prepared" /\ Installs(t, Quiet)
            /\ lock = NoThread /\ lock' = t /\ oldcwd' = workdir /\ workdir' = subject[t]
         \/ /\ at[t] = "prepared" /\ Patches(t)' = {} /\ Restores(t, Quiet)
            /\ lock' = NoThread
            /\ SeesOwn(t, "os.chdir") => workdir' = oldcwd
         \/ /\ at[t] = "source" /\ at'[t] = "search" /\ Installs(t, Directory)
            /\ UNCHANGED dirVars
         \/ /\ at[t] = "search" /\ at'[t] = "script" /\ Installs(t, Script)
            /\ UNCHANGED dirVars
         \/ /\ at[t] = "search" /\ Patches(t)' = {} /\ Restores(t, Directory)
            /\ UNCHANGED dirVars
         \/ /\ at[t] = "script" /\ at'[t] = "parsed" /\ Restores(t, Script)
            /\ UNCHANGED dirVars
         \/ /\ at[t] = "parsed" /\ Patches(t)' = {} /\ Restores(t, Directory)
            /\ UNCHANGED dirVars
<1> USE ContinuesNow, GivesUpNow, FindsNow, ProvidesNow, PlausibleMetadata, RefusesGivesUp
        DEF Now, Locations, Answers, Patches
<1>1. CASE ReadWheel(t)
  BY <1>1 DEF ReadWheel
<1>2. CASE ReadProject(t)
  BY <1>2 DEF ReadProject
<1>3. CASE EnterProject(t)
  BY <1>3 DEF EnterProject
<1>4. CASE LeaveProject(t)
  BY <1>4 DEF LeaveProject, ReleasesLock
<1>5. CASE BackendWheel(t)
  BY <1>5, ProvidedAssumption DEF BackendWheel
<1>6. CASE OpenSource(t)
  BY <1>6 DEF OpenSource, CannotOpen
<1>7. CASE FindSetup(t)
  BY <1>7 DEF FindSetup, LeavesDirectory
<1>8. CASE RunScript(t)
  BY <1>8, ProvidedAssumption DEF RunScript
<1>9. CASE BuildEggInfo(t)
  BY <1>9 DEF BuildEggInfo
<1>10. CASE EggInfoBuilt(t)
  BY <1>10, ProvidedAssumption DEF EggInfoBuilt
<1>11. CASE BuildWheel(t)
  BY <1>11 DEF BuildWheel
<1>12. CASE WheelBuilt(t)
  BY <1>12 DEF WheelBuilt
<1>13. CASE Finish(t)
  <2> DEFINE m == metadata[t]
             c == [name |-> CorrectName(t, m), version |-> CorrectVersion(t, m)]
  <2>1. c \in Metadata
    BY <1>13 DEF Finish, PlaceSafe, Metadata, CorrectName, CorrectVersion
  <2> HIDE DEF c
  <2>2. Refuses(t) \/ Finds(t, c)
    BY <1>13 DEF Finish, c
  <2> QED
    BY <1>13, <2>1, <2>2 DEF Finish
<1>14. CASE LeaveSetup(t)
  BY <1>14 DEF LeaveSetup, LeavesDirectory
<1>15. CASE RemovalRaises(t)
  BY <1>15 DEF RemovalRaises
<1> QED
  BY <1>1, <1>2, <1>3, <1>4, <1>5, <1>6, <1>7, <1>8, <1>9, <1>10, <1>11, <1>12, <1>13,
     <1>14, <1>15
     DEF MetadataStep

LEMMA StepTokens ==
  ASSUME TypeMetadata, NEW t \in Thread, PlaceSafe(t), TokensSafe(t), MetadataStep(t)
  PROVE  /\ installed' \in [Patched -> Thread \cup {Original}]
         /\ saved' \in [Thread -> [Patched -> Thread \cup {Original, Nothing}]]
         /\ \A u \in Thread \ {t} : saved'[u] = saved[u]
         /\ TokensSafe(t)'
<1> USE InstallsTyped, RestoresTyped DEF Directory, Script, Quiet, Patched
<1>1. CASE UNCHANGED patchVars /\ Patches(t)' = {}
  BY <1>1 DEF patchVars, TypeMetadata, TokensSafe
<1>2. CASE \E fs : /\ Installs(t, fs) /\ Patches(t)' \subseteq fs \cup Patches(t)
  <2>1. PICK fs : Installs(t, fs) /\ Patches(t)' \subseteq fs \cup Patches(t)
    BY <1>2
  <2>2. \A f \in Patched : saved'[t][f] = IF f \in fs THEN installed[f] ELSE saved[t][f]
    BY <2>1 DEF Installs, TypeMetadata
  <2>3. \A u \in Thread \ {t} : saved'[u] = saved[u]
    BY <2>1 DEF Installs, TypeMetadata
  <2>4. Patches(t)' \subseteq Patched
    BY DEF Patches
  <2> QED
    BY <2>1, <2>2, <2>3, <2>4, InstallsTyped DEF TokensSafe, TypeMetadata
<1>3. CASE \E fs \in SUBSET Patches(t) : Restores(t, fs) /\ Patches(t)' = Patches(t) \ fs
  <2>1. PICK fs \in SUBSET Patches(t) : Restores(t, fs) /\ Patches(t)' = Patches(t) \ fs
    BY <1>3
  <2>2. \A f \in Patches(t) : saved[t][f] \in Thread \cup {Original}
    BY DEF TokensSafe
  <2>3. \A u \in Thread \ {t} : saved'[u] = saved[u]
    BY <2>1 DEF Restores, TypeMetadata
  <2>4. \A f \in Patched \ fs : saved'[t][f] = saved[t][f]
    BY <2>1 DEF Restores, TypeMetadata
  <2>5. Patches(t) \subseteq Patched
    BY DEF Patches
  <2> QED
    BY <2>1, <2>2, <2>3, <2>4, <2>5, RestoresTyped DEF TokensSafe
<1>4. at[t] = "prepared" => Patches(t) = Quiet
  BY DEF Patches
<1>5. at[t] = "search" => Patches(t) = Directory
  BY DEF Patches
<1>6. /\ at[t] = "script" => Patches(t) = Directory \cup Script
      /\ at[t] = "parsed" => Patches(t) = Directory
  BY DEF Patches
<1>7. /\ at'[t] = "prepared" => Patches(t)' = Quiet
      /\ at'[t] = "search" => Patches(t)' = Directory
      /\ at'[t] = "script" => Patches(t)' = Directory \cup Script
      /\ at'[t] = "parsed" => Patches(t)' = Directory
  BY DEF Patches
<1>a. Directory = (Directory \cup Script) \ Script
  OBVIOUS
<1> HIDE DEF Directory, Script, Quiet, Patched
<1>8. CASE at[t] = "prepare" /\ at'[t] = "prepared" /\ Installs(t, Quiet)
  BY <1>2, <1>7, <1>8
<1>9. CASE at[t] = "source" /\ at'[t] = "search" /\ Installs(t, Directory)
  BY <1>2, <1>7, <1>9
<1>10. CASE at[t] = "search" /\ at'[t] = "script" /\ Installs(t, Script)
  BY <1>2, <1>5, <1>7, <1>10
<1>11. CASE at[t] = "script" /\ at'[t] = "parsed" /\ Restores(t, Script)
  BY <1>3, <1>6, <1>7, <1>11, <1>a
<1>12. CASE Restores(t, Patches(t)) /\ Patches(t)' = {}
  BY <1>3, <1>12
<1> QED
  BY <1>1, <1>4, <1>5, <1>6, <1>8, <1>9, <1>10, <1>11, <1>12, StepPatches, TypeFrames

-----------------------------------------------------------------------------
(* The invariant of all calls *)

CallsSafe == /\ TypeMetadata /\ ProcSafe
             /\ \A t \in Thread : PlaceSafe(t) /\ TokensSafe(t)

LEMMA InitCallsSafe ==
  InitMetadata /\ files \in [Source -> Contents] => CallsSafe
<1> SUFFICES ASSUME InitMetadata, files \in [Source -> Contents] PROVE CallsSafe
  OBVIOUS
<1>1. ProcSafe /\ proc \in [Thread -> Calls]
  BY InitProcSafe, ProcTyped DEF InitMetadata
<1>2. TypeMetadata
  BY <1>1 DEF InitMetadata, TypeMetadata, Locations, Answers
<1>3. \A t \in Thread : PlaceSafe(t) /\ TokensSafe(t)
  BY DEF InitMetadata, PlaceSafe, TokensSafe, Patches, ProjectPlaces, Built
<1> QED
  BY <1>1, <1>2, <1>3 DEF CallsSafe

LEMMA StepProc ==
  ASSUME ProcSafe, NEW t \in Thread, MetadataStep(t) PROVE ProcSafe'
<1>1. UNCHANGED proc \/ Popen(t) \/ Collected(t)
  BY DEF MetadataStep, ReadWheel, ReadProject, EnterProject, LeaveProject, BackendWheel,
         OpenSource, FindSetup, RunScript, LeaveSetup, BuildEggInfo, EggInfoBuilt, BuildWheel,
         WheelBuilt, RemovalRaises, Finish
<1>2. CASE UNCHANGED proc
  BY <1>2 DEF ProcSafe
<1> QED
  BY <1>1, <1>2, PopenSafe, CollectedSafe

(* An invariant of a thread is no concern of a step of another one. *)
LEMMA OthersKept ==
  ASSUME NEW t \in Thread, Own(t), NEW u \in Thread \ {t}
  PROVE  /\ PlaceSafe(u) => PlaceSafe(u)'
         /\ saved'[u] = saved[u] /\ TokensSafe(u) => TokensSafe(u)'
BY DEF Own, PlaceSafe, TokensSafe, Patches, Format, Setup, IsArchive, Versioned, HasSetup, Identified

LEMMA StepCallsSafe ==
  ASSUME CallsSafe, NEW t \in Thread, MetadataStep(t) PROVE CallsSafe'
<1> USE DEF CallsSafe
<1>1. ProcSafe' /\ proc' \in [Thread -> Calls]
  <2>1. ProcSafe'
    BY StepProc
  <2>2. ProcSafe' => proc' \in [Thread -> Calls]
    BY DEF ProcSafe, CallSafe
  <2> QED
    BY <2>1, <2>2
<1>2. StepType /\ StepType' /\ Own(t) /\ subject' = subject
  BY StepOwn, TypeFrames
<1>3. PlaceSafe(t)'
  BY <1>2, StepSafePlace
<1>4. /\ installed' \in [Patched -> Thread \cup {Original}]
      /\ saved' \in [Thread -> [Patched -> Thread \cup {Original, Nothing}]]
      /\ \A u \in Thread \ {t} : saved'[u] = saved[u]
      /\ TokensSafe(t)'
  BY StepTokens
<1>5. TypeMetadata'
  <2>1. files' = files
    BY StepKeepsFiles
  <2>2. {workdir, oldcwd}' \subseteq Source \cup {Home} /\ lock' \in Thread \cup {NoThread}
    BY StepDirs
  <2>3. failed' \subseteq Source
    BY StepCondemns DEF TypeMetadata, PlaceSafe, Built
  <2>4. temps' \subseteq Thread \X {"dest", "egg_info", "wheel"}
    BY StepKeepsTemps DEF TypeMetadata, MakesTemp, RemovesTemps
  <2> QED
    BY <1>1, <1>2, <1>4, <2>1, <2>2, <2>3, <2>4 DEF TypeMetadata, StepType
<1>6. \A u \in Thread : PlaceSafe(u)' /\ TokensSafe(u)'
  BY <1>2, <1>3, <1>4, OthersKept
<1> QED
  BY <1>1, <1>5, <1>6

LEMMA SubprocessCallsSafe ==
  ASSUME CallsSafe, NEW t \in Thread, SubprocessRuns(t) PROVE CallsSafe'
<1>1. ProcSafe'
  BY StepSafe DEF CallsSafe, SubprocessRuns
<1>2. proc' \in [Thread -> Calls]
  BY <1>1 DEF ProcSafe, CallSafe
<1>3. UNCHANGED <<files, failed, stepVars, patchVars, dirVars, temps>>
  BY DEF SubprocessRuns
<1>4. TypeMetadata'
  BY <1>2, <1>3 DEF CallsSafe, TypeMetadata, stepVars, patchVars, dirVars
<1>5. \A u \in Thread : PlaceSafe(u)' /\ TokensSafe(u)'
  BY <1>3 DEF CallsSafe, PlaceSafe, TokensSafe, Patches, Format, Setup, IsArchive, HasSetup,
              Identified, Versioned, stepVars, patchVars
<1> QED
  BY <1>1, <1>4, <1>5 DEF CallsSafe

LEMMA ExtractCallsSafe ==
  ASSUME CallsSafe, NEW t \in Thread, NEW f \in Source, Extract(t, f) PROVE CallsSafe'
<1> USE DEF CallsSafe
<1>1. /\ StepType' /\ Own(t) /\ subject'[t] = f /\ metadata'[t] = NoResult
      /\ at'[t] \in {"idle", "wheel", "project", "source"}
      /\ at'[t] = "idle" => answer'[t] = "MetadataError"
      /\ at'[t] # "idle" => answer'[t] = "none"
      /\ at'[t] = "wheel" => Shape[f].format = "wheel"
      /\ at'[t] = "project" => Shape[f].format = "project"
  BY ExtractStarts, TypeFrames
<1>2. UNCHANGED <<proc, files, failed, patchVars, dirVars>> /\ RemovesTemps(t, {"egg_info", "wheel"})
  BY DEF Extract
<1>3. ProcSafe' /\ TypeMetadata'
  BY <1>1, <1>2 DEF ProcSafe, TypeMetadata, StepType, RemovesTemps, patchVars, dirVars
<1>4. PlaceSafe(t)' /\ TokensSafe(t)'
  BY <1>1 DEF PlaceSafe, TokensSafe, Patches, Format, ProjectPlaces, Built
<1> QED
  BY <1>1, <1>2, <1>3, <1>4, OthersKept DEF patchVars

LEMMA CallsSafeProperties == CallsSafe => TypeMetadata /\ OutputComplete /\ SdistIdentity
<1> SUFFICES ASSUME CallsSafe PROVE OutputComplete /\ SdistIdentity
  BY DEF CallsSafe
<1>1. OutputComplete
  BY ProcSafeOutput DEF CallsSafe
<1>2. SdistIdentity
  BY DEF CallsSafe, PlaceSafe, Identified, SdistIdentity
<1> QED
  BY <1>1, <1>2

-----------------------------------------------------------------------------
(* Whole files *)

LEMMA StepOpens ==
  ASSUME StepType, NEW t \in Thread, PlaceSafe(t), MetadataStep(t)
  PROVE  /\ at'[t] \in Built \cup {"search"} =>
              \/ at[t] \in Built \cup {"search"}
              \/ IsArchive(t) => Content(t) = "whole"
         /\ answer'[t] = "metadata" =>
              \/ at[t] \in ProjectPlaces \cup {"finish"}
              \/ at[t] = "wheel" /\ Content(t) = "whole"
<1> USE ContinuesNow, GivesUpNow, FindsNow, ProvidesNow, PlausibleMetadata, RefusesGivesUp
        DEF Now, Locations, Answers, Built, ProjectPlaces, PlaceSafe
<1>1. CASE ReadWheel(t)
  BY <1>1 DEF ReadWheel, IsZip
<1>2. CASE ReadProject(t)
  BY <1>2 DEF ReadProject
<1>3. CASE EnterProject(t)
  BY <1>3 DEF EnterProject
<1>4. CASE LeaveProject(t)
  BY <1>4 DEF LeaveProject
<1>5. CASE BackendWheel(t)
  BY <1>5, ProvidedAssumption DEF BackendWheel
<1>6. CASE OpenSource(t)
  BY <1>6 DEF OpenSource, CannotOpen
<1>7. CASE FindSetup(t)
  BY <1>7 DEF FindSetup
<1>8. CASE RunScript(t)
  BY <1>8, ProvidedAssumption DEF RunScript
<1>9. CASE BuildEggInfo(t)
  BY <1>9 DEF BuildEggInfo
<1>10. CASE EggInfoBuilt(t)
  BY <1>10, ProvidedAssumption DEF EggInfoBuilt
<1>11. CASE BuildWheel(t)
  BY <1>11 DEF BuildWheel
<1>12. CASE WheelBuilt(t)
  BY <1>12 DEF WheelBuilt
<1>13. CASE Finish(t)
  <2> DEFINE m == metadata[t]
             c == [name |-> CorrectName(t, m), version |-> CorrectVersion(t, m)]
  <2>1. c \in Metadata
    BY <1>13 DEF Finish, PlaceSafe, Metadata, CorrectName, CorrectVersion
  <2> HIDE DEF c
  <2>2. Refuses(t) \/ Finds(t, c)
    BY <1>13 DEF Finish, c
  <2> QED
    BY <1>13, <2>1, <2>2 DEF Finish
<1>14. CASE LeaveSetup(t)
  BY <1>14 DEF LeaveSetup
<1>15. CASE RemovalRaises(t)
  BY <1>15 DEF RemovalRaises
<1> QED
  BY <1>1, <1>2, <1>3, <1>4, <1>5, <1>6, <1>7, <1>8, <1>9, <1>10, <1>11, <1>12, <1>13,
     <1>14, <1>15
     DEF MetadataStep

LEMMA StepWholeSafe ==
  ASSUME StepType, NEW t \in Thread, PlaceSafe(t), WholeSafe(t), MetadataStep(t)
  PROVE  WholeSafe(t)'
<1>1. files' = files /\ subject' = subject
  BY StepKeepsFiles, StepOwn
<1>2. at[t] = "finish" => Format(t) # "wheel"
  BY DEF PlaceSafe, Built, HasSetup
<1>3. at[t] \in ProjectPlaces => Format(t) = "project"
  BY DEF PlaceSafe
<1>4. Content(t)' = Content(t) /\ Format(t)' = Format(t) /\ (IsArchive(t)' <=> IsArchive(t))
  BY <1>1 DEF Content, Format, IsArchive
<1> QED
  BY <1>2, <1>3, <1>4, StepOpens DEF WholeSafe, IsArchive, Built

-----------------------------------------------------------------------------
(* Temporary directories *)

LEMMA TempsMade ==
  ASSUME NEW t \in Thread, NEW k, MakesTemp(t, k)
  PROVE  /\ <<t, "dest">> \in temps' <=> <<t, "dest">> \in temps \/ k = "dest"
         /\ <<t, "wheel">> \in temps' <=> <<t, "wheel">> \in temps \/ k = "wheel"
         /\ <<t, "egg_info">> \in temps' <=> <<t, "egg_info">> \in temps \/ k = "egg_info"
BY DEF MakesTemp

LEMMA TempsRemain ==
  ASSUME NEW t \in Thread, NEW ks, RemovesTemps(t, ks)
  PROVE  /\ <<t, "dest">> \in temps' <=> <<t, "dest">> \in temps /\ "dest" \notin ks
         /\ <<t, "wheel">> \in temps' <=> <<t, "wheel">> \in temps /\ "wheel" \notin ks
         /\ <<t, "egg_info">> \in temps' <=> <<t, "egg_info">> \in temps /\ "egg_info" \notin ks
BY DEF RemovesTemps

LEMMA StepTempSafe ==
  ASSUME StepType, NEW t \in Thread, PlaceSafe(t), TempSafe(t), MetadataStep(t)
  PROVE  TempSafe(t)'
<1> USE ContinuesNow, GivesUpNow, FindsNow, ProvidesNow, PlausibleMetadata, RefusesGivesUp,
        TempsMade, TempsRemain
        DEF Now, Locations, Answers, TempSafe
<1>1. CASE ReadWheel(t)
  BY <1>1 DEF ReadWheel
<1>2. CASE ReadProject(t)
  BY <1>2 DEF ReadProject
<1>3. CASE EnterProject(t)
  BY <1>3 DEF EnterProject
<1>4. CASE LeaveProject(t)
  BY <1>4 DEF LeaveProject
<1>5. CASE BackendWheel(t)
  BY <1>5, ProvidedAssumption DEF BackendWheel
<1>6. CASE OpenSource(t)
  BY <1>6 DEF OpenSource, CannotOpen
<1>7. CASE FindSetup(t)
  BY <1>7 DEF FindSetup
<1>8. CASE RunScript(t)
  BY <1>8, ProvidedAssumption DEF RunScript
<1>9. CASE BuildEggInfo(t)
  BY <1>9 DEF BuildEggInfo
<1>10. CASE EggInfoBuilt(t)
  BY <1>10, ProvidedAssumption DEF EggInfoBuilt
<1>11. CASE BuildWheel(t)
  BY <1>11 DEF BuildWheel
<1>12. CASE WheelBuilt(t)
  <2>1. RemovesTemps(t, {"egg_info", "wheel"}) /\ at[t] = "wheel runs"
    BY <1>12 DEF WheelBuilt, RemovesBoth
  <2>2. /\ <<t, "dest">> \notin temps' /\ <<t, "wheel">> \notin temps'
        /\ <<t, "egg_info">> \notin temps'
    BY <2>1
  <2> QED
    BY <2>2
<1>13. CASE Finish(t)
  <2> DEFINE m == metadata[t]
             c == [name |-> CorrectName(t, m), version |-> CorrectVersion(t, m)]
  <2>1. c \in Metadata
    BY <1>13 DEF Finish, PlaceSafe, Metadata, CorrectName, CorrectVersion
  <2> HIDE DEF c
  <2>2. UNCHANGED temps /\ ((Refuses(t) /\ m.name = "none") \/ Finds(t, c))
    BY <1>13 DEF Finish, c
  <2> QED
    BY <1>13, <2>1, <2>2 DEF Finish
<1>14. CASE LeaveSetup(t)
  BY <1>14 DEF LeaveSetup
<1>15. CASE RemovalRaises(t)
  <2>1. PICK kept : RemovesTemps(t, {"egg_info", "wheel"} \ kept)
    BY <1>15 DEF RemovalRaises
  <2>2. <<t, "dest">> \notin temps /\ Now(t, "idle", "exception", metadata[t])
    BY <1>15 DEF RemovalRaises
  <2> QED
    BY <2>1, <2>2
<1> QED
  BY <1>1, <1>2, <1>3, <1>4, <1>5, <1>6, <1>7, <1>8, <1>9, <1>10, <1>11, <1>12, <1>13,
     <1>14, <1>15
     DEF MetadataStep

LEMMA ExtractTempSafe ==
  ASSUME StepType, NEW t \in Thread, TempSafe(t), NEW f \in Source, Extract(t, f)
  PROVE  TempSafe(t)'
BY TempsRemain DEF Extract, TempSafe

-----------------------------------------------------------------------------
(* One thread alone *)

LEMMA ReadsOwn ==
  ASSUME NEW t \in Thread, AloneSafe(t) PROVE \A f \in Patched : SeesOwn(t, f)
BY DEF AloneSafe, SeesOwn

LEMMA StepAloneSafe ==
  ASSUME TypeMetadata, NEW t \in Thread, PlaceSafe(t), AloneSafe(t), MetadataStep(t)
  PROVE  AloneSafe(t)'
<1> USE DEF Directory, Script, Quiet, Patched
<1>a. StepType /\ \A f \in Patched : SeesOwn(t, f)
  BY TypeFrames, ReadsOwn
<1>1. CASE UNCHANGED <<patchVars, dirVars>> /\ Patches(t) = {} /\ Patches(t)' = {}
  BY <1>1 DEF AloneSafe, patchVars, dirVars, Patches
<1>2. CASE /\ at[t] = "prepare" /\ at'[t] = "prepared" /\ Installs(t, Quiet)
           /\ lock = NoThread /\ lock' = t /\ oldcwd' = workdir /\ workdir' = subject[t]
  BY <1>2 DEF AloneSafe, Patches, Installs, TypeMetadata
<1>3. CASE /\ at[t] = "prepared" /\ Patches(t)' = {} /\ Restores(t, Quiet)
           /\ lock' = NoThread /\ (SeesOwn(t, "os.chdir") => workdir' = oldcwd)
  BY <1>a, <1>3 DEF AloneSafe, Patches, Restores, TypeMetadata
<1>4. CASE at[t] = "source" /\ at'[t] = "search" /\ Installs(t, Directory) /\ UNCHANGED dirVars
  BY <1>4 DEF AloneSafe, Patches, Installs, TypeMetadata, dirVars
<1>5. CASE at[t] = "search" /\ at'[t] = "script" /\ Installs(t, Script) /\ UNCHANGED dirVars
  BY <1>5 DEF AloneSafe, Patches, Installs, TypeMetadata, dirVars
<1>6. CASE /\ at[t] = "search" /\ Patches(t)' = {} /\ Restores(t, Directory)
           /\ UNCHANGED dirVars
  BY <1>6 DEF AloneSafe, Patches, Restores, TypeMetadata, dirVars
<1>7. CASE /\ at[t] = "script" /\ at'[t] = "parsed" /\ Restores(t, Script)
           /\ UNCHANGED dirVars
  BY <1>7 DEF AloneSafe, Patches, Restores, TypeMetadata, dirVars
<1>8. CASE /\ at[t] = "parsed" /\ Patches(t)' = {} /\ Restores(t, Directory)
           /\ UNCHANGED dirVars
  BY <1>8 DEF AloneSafe, Patches, Restores, TypeMetadata, dirVars
<1> QED
  BY <1>a, <1>1, <1>2, <1>3, <1>4, <1>5, <1>6, <1>7, <1>8, StepPatches
=============================================================================
