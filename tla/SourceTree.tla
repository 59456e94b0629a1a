----------------------------- MODULE SourceTree -----------------------------
(***************************************************************************)
(* SourceRepository of repos/source.py: the directories of a source tree   *)
(* are walked for projects, and the metadata of each is extracted          *)
(* (SourceMetadata), by a pool of threads where a caller asks for one.     *)
(* Directories with a setup.py wait until the pool is done.                *)
(***************************************************************************)
EXTENDS SourceMetadata

CONSTANTS
  Main,            \* the thread of the program
  Root,            \* path
  Parent,          \* directory -> the directory it is in
  Named,           \* directory -> what its name says
  Marked,          \* directories with a file that is a marker
  Excluding        \* <<excluded path, directory>>: one begins like the other

(* The directories of a set lie in directories of the set. *)
Upward(dirs) == \A d \in dirs \ {Root} : Parent[d] \in dirs
(* Every directory lies below Root: whoever goes up comes to it. *)
ASSUME TreeAssumption ==
  /\ Main \in Thread /\ Root \in Source
  /\ Parent \in [Source \ {Root} -> Source]
  /\ \A dirs \in SUBSET Source : dirs # {} /\ Upward(dirs) => Root \in dirs
  /\ Named \in [Source -> {"plain", "special", "bazel-", "tests", "marker"}]
  /\ Marked \subseteq Source

VARIABLES
  parallelism,  \* 1, or more
  phase,        \* of _find_all_distributions
  frontier,     \* directories os.walk has yet to visit
  sources,      \* source_dirs nobody has taken yet
  later,        \* _find_later
  fate,         \* directory -> what became of it
  working       \* thread -> whether it is in _extract_metadata

findVars == <<parallelism, phase, frontier, sources, later, fate, working>>
vars == <<metadataVars, findVars>>
metadataUnchanged == UNCHANGED metadataVars

Children(d) == {c \in Source \ {Root} : Parent[c] = d}
IsProject(d) == Shape[d].format = "project" \/ Shape[d].setup # "none"

Init ==
  /\ InitMetadata
  /\ files = [d \in Source |-> "whole"]
  /\ parallelism \in {1, 2}
  /\ phase = "walk" /\ frontier = {Root}
  /\ sources = {} /\ later = {}
  /\ fate = [d \in Source |-> "unseen"]
  /\ working = [t \in Thread |-> FALSE]

-----------------------------------------------------------------------------
(* _find_all_source_dirs *)

(* SPECIAL_DIRS, bazel- and the excluded paths.  An excluded path is       *)
(* compared letter by letter: it also excludes its neighbours whose names  *)
(* go on where it ends. *)
IsExcluded(d) == Named[d] \in {"special", "bazel-"} \/ \E e \in Excluding : e[2] = d
MarkerDirs(d) == {c \in Children(d) : Named[c] = "marker"}

(* dirs[:] = [] *)
Pruned(d) == /\ IsExcluded(d) \/ MarkerDirs(d) # {} \/ d \in Marked
             /\ d # Root
(* The first marker directory is not walked; neither are the tests of a    *)
(* project. *)
Unwalked(d) ==
  IF MarkerDirs(d) # {} /\ ~IsExcluded(d) THEN {{m} : m \in MarkerDirs(d)} ELSE {{}}
Tests(d) == {c \in Children(d) : IsProject(d) /\ Named[c] = "tests"}

Visit(d) ==
  /\ phase = "walk" /\ d \in frontier
  /\ IF Pruned(d)
       THEN frontier' = frontier \ {d} /\ UNCHANGED sources
       ELSE /\ \E removed \in Unwalked(d) :
                 frontier' = (frontier \ {d}) \cup (Children(d) \ (removed \cup Tests(d)))
            /\ sources' = sources \cup {s \in {d} : IsProject(s)}
  /\ metadataUnchanged
  /\ UNCHANGED <<parallelism, phase, later, fate, working>>

Walked ==
  /\ phase = "walk" /\ frontier = {}
  /\ phase' = "map"
  /\ metadataUnchanged
  /\ UNCHANGED <<parallelism, frontier, sources, later, fate, working>>

-----------------------------------------------------------------------------
(* _extract_metadata, mapped over source_dirs.  A pool works through all   *)
(* of them even when the main thread has left with an exception. *)

Mapping == phase \in {"map", "raised"}
Workers == IF phase = "later" \/ parallelism = 1 THEN {Main} ELSE Thread \ {Main}

(* Mutant: the pool leaves it to nobody. *)
WaitsNowhere(d) == later
Waits(d) == later \cup {d}

(* os.path.exists: a thread that runs a setup.py has put its own in place, *)
(* which finds no setup.py elsewhere. *)
IsForLater(t, d) ==
  Mapping /\ Shape[d].setup = "py" /\ SeesOwn(t, "os.path.exists")

Defer(t, d) ==
  /\ Mapping /\ t \in Workers /\ ~working[t]
  /\ d \in sources /\ IsForLater(t, d)
  /\ sources' = sources \ {d}
  /\ later' = Waits(d)
  /\ metadataUnchanged
  /\ UNCHANGED <<parallelism, phase, frontier, fate, working>>

Process(t, d) ==
  /\ (Mapping \/ phase = "later") /\ t \in Workers /\ ~working[t]
  /\ d \in sources /\ ~IsForLater(t, d)
  /\ sources' = sources \ {d}
  /\ Extract(t, d)
  /\ working' = [working EXCEPT ![t] = TRUE]
  /\ UNCHANGED <<parallelism, phase, frontier, later, fate>>

(* A result is added, a MetadataError is logged; any other exception ends  *)
(* the constructor, and without a pool nobody takes the remaining sources. *)
Collect(t) ==
  /\ working[t] /\ at[t] = "idle"
  /\ working' = [working EXCEPT ![t] = FALSE]
  /\ fate' = [fate EXCEPT ![subject[t]] =
                IF answer[t] = "metadata" THEN "candidate" ELSE "no candidate"]
  /\ phase' = IF answer[t] = "exception" THEN "raised" ELSE phase
  /\ sources' = IF answer[t] = "exception" /\ t = Main THEN {} ELSE sources
  /\ Taken(t)
  /\ UNCHANGED <<proc, files, failed, patchVars, dirVars, temps>>
  /\ UNCHANGED <<parallelism, frontier, later>>

(* Sources that wait are processed by the main thread, one after another. *)
Mapped ==
  /\ phase = "map" /\ sources = {} /\ \A t \in Thread : ~working[t]
  /\ phase' = "later" /\ sources' = later /\ later' = {}
  /\ metadataUnchanged
  /\ UNCHANGED <<parallelism, frontier, fate, working>>
Finished ==
  /\ phase = "later" /\ sources = {} /\ ~working[Main]
  /\ phase' = "done"
  /\ metadataUnchanged
  /\ UNCHANGED <<parallelism, frontier, sources, later, fate, working>>

Extracting == /\ \E t \in Thread : ExtractStep(t)
              /\ UNCHANGED findVars

FinderStep == \/ \E d \in Source : Visit(d) \/ \E t \in Thread : Defer(t, d) \/ Process(t, d)
              \/ Walked \/ Mapped \/ Finished
              \/ \E t \in Thread : Collect(t)
Next == FinderStep \/ Extracting

Spec == Init /\ [][Next]_vars
(* Threads run on; scripts, backends and builds end (SourceMetadata).      *)
FairSpec == Spec /\ WF_vars(FinderStep) /\ MetadataFairness /\ OrphansEnd

-----------------------------------------------------------------------------
TypeOK ==
  /\ TypeMetadata
  /\ parallelism \in {1, 2}
  /\ phase \in {"walk", "map", "later", "done", "raised"}
  /\ {frontier, sources, later} \subseteq SUBSET Source
  /\ fate \in [Source -> {"unseen", "candidate", "no candidate"}]
  /\ working \in [Thread -> BOOLEAN]

(* When the constructor returns, every project of the tree has been looked *)
(* at, whichever thread came across it and however it was deferred, and no *)
(* directory below one that is left out has been.  Marker directories      *)
(* leave out the directory they are in; of those in Root, which is never   *)
(* left out, only the first is left out itself.                            *)
PathTo == [d \in Source |-> {a \in Source :
             \A dirs \in SUBSET Source : d \in dirs /\ Upward(dirs) => a \in dirs}]
LeftOut(d, first) ==
  /\ d # Root
  /\ \/ Named[d] \in {"special", "bazel-"} \/ d \in Marked
     \/ \E e \in Excluding : e[2] = d
     \/ \E c \in Children(d) : Named[c] = "marker"
     \/ d \in first
     \/ Named[d] = "tests" /\ IsProject(Parent[d])
FindsEveryProject ==
  phase = "done" =>
    \E first \in Unwalked(Root) :
      {d \in Source : fate[d] # "unseen"}
        = {d \in Source : IsProject(d) /\ \A a \in PathTo[d] : ~LeftOut(a, first)}

(* With one thread, whatever the setup files do, the interpreter is as it  *)
(* was between two sources and after the last.  (With more it is not: see  *)
(* README.) *)
OneThreadUndoesPatches == parallelism = 1 => PatchesUndone

(* The constructor comes to an end, with the threads of a pool waiting for *)
(* each other's LOCK or not. *)
DiscoveryEnds == <>(phase \in {"done", "raised"})
=============================================================================
