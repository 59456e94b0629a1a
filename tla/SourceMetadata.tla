--------------------------- MODULE SourceMetadata ---------------------------
(***************************************************************************)
(* extract_metadata of metadata/metadata.py and what it calls: how the     *)
(* metadata of a wheel, a source archive or a source directory is found.   *)
(* Several threads may ask at once.  What they share is the process: the   *)
(* functions of os, builtins, sys ... that are replaced while a setup.py   *)
(* runs (metadata/patch.py), the working directory, FAILED_BUILDS, and the *)
(* file system.                                                            *)
(***************************************************************************)
EXTENDS Subprocess, FiniteSets

CONSTANTS
  Source,   \* paths of archives and directories
  Shape,    \* what was published as, or lies at, each of them
  Provided  \* what scripts, backends and builds may provide

(* format is chosen by the extension and by pyproject.toml; setup is the   *)
(* file find_in_archive comes to first; versioned says whether the name of *)
(* the file gives a version.                                               *)
Formats == {"wheel", "sdist", "egg", "directory", "project"}
ASSUME ShapeAssumption ==
  Shape \in [Source -> [format : Formats, setup : {"py", "cfg", "none"},
                        versioned : BOOLEAN]]

VARIABLES
  files,      \* what is at each path
  failed,     \* FAILED_BUILDS
  at,         \* thread -> where it is in extract_metadata
  subject,    \* thread -> the path it was asked for
  answer,     \* thread -> what extract_metadata came back with
  metadata,   \* thread -> results, the metadata found so far
  installed,  \* patched function -> whose it is
  saved,      \* thread -> old members of its patch tokens
  workdir,    \* the directory the process is really in
  oldcwd,     \* old_cwd of the thread that holds LOCK
  lock,       \* LOCK of pyproject.py
  temps       \* temporary directories, with the thread that made them

stepVars == <<at, subject, answer, metadata>>
patchVars == <<installed, saved>>
dirVars == <<workdir, oldcwd, lock>>
metadataVars == <<proc, files, failed, stepVars, patchVars, dirVars, temps>>

(* A download may be cut off or be an error page. *)
Contents == {"absent", "part", "page", "whole"}
Nothing == "nothing"
Home == "home"
Original == "original"
NoThread == "no thread"
(* Whose name and version the metadata has: the subject's, something       *)
(* else's, or none. *)
Metadata == [name : {"its own", "other", "none"}, version : {"its own", "other", "none"}]
ASSUME ProvidedAssumption == Provided \subseteq Metadata
NoResult == [missing |-> TRUE]
Answers == {"none", "metadata", "MetadataError", "exception"}
Locations == {"idle", "wheel", "project", "prepare", "prepared", "backend wheel", "source", "search",
              "script", "parsed", "egg_info", "egg_info runs", "wheel runs", "finish"}
Patched == {"os.chdir", "os.path.exists", "sys.stdout"}

InitMetadata ==
  /\ InitSubprocess
  /\ failed = {} /\ temps = {}
  /\ at = [t \in Thread |-> "idle"]
  /\ subject = [t \in Thread |-> Nothing]
  /\ answer = [t \in Thread |-> "none"]
  /\ metadata = [t \in Thread |-> NoResult]
  /\ installed = [f \in Patched |-> Original]
  /\ saved = [t \in Thread |-> [f \in Patched |-> Nothing]]
  /\ workdir = Home /\ oldcwd = Home
  /\ lock = NoThread

TypeMetadata ==
  /\ proc \in [Thread -> Calls]
  /\ files \in [Source -> Contents]
  /\ failed \subseteq Source
  /\ at \in [Thread -> Locations]
  /\ subject \in [Thread -> Source \cup {Nothing}]
  /\ answer \in [Thread -> Answers]
  /\ metadata \in [Thread -> Metadata \cup {NoResult}]
  /\ installed \in [Patched -> Thread \cup {Original}]
  /\ saved \in [Thread -> [Patched -> Thread \cup {Original, Nothing}]]
  /\ {workdir, oldcwd} \subseteq Source \cup {Home}
  /\ lock \in Thread \cup {NoThread}
  /\ temps \subseteq Thread \X {"dest", "egg_info", "wheel"}

Format(t) == Shape[subject[t]].format
Setup(t) == Shape[subject[t]].setup
Content(t) == files[subject[t]]
IsArchive(t) == Format(t) = "sdist"
Versioned(t) == Shape[subject[t]].versioned

-----------------------------------------------------------------------------
(* patch.py: begin_patch remembers the member it replaces, whoever put it  *)
(* there, and end_patch puts it back. *)

Installs(t, fs) ==
  /\ saved' = [saved EXCEPT ![t] = [f \in Patched |-> IF f \in fs THEN installed[f] ELSE @[f]]]
  /\ installed' = [f \in Patched |-> IF f \in fs THEN t ELSE installed[f]]

(* Mutant: every member is put back, patched or not. *)
RestoresAll(t, fs) ==
  /\ installed' = saved[t]
  /\ saved' = [saved EXCEPT ![t] = [f \in Patched |-> Nothing]]

Restores(t, fs) ==
  /\ installed' = [f \in Patched |-> IF f \in fs THEN saved[t][f] ELSE installed[f]]
  /\ saved' = [saved EXCEPT ![t] = [f \in Patched |-> IF f \in fs THEN Nothing ELSE @[f]]]

(* The patches of _fetch_from_setup_py, those _parse_setup_py adds, and    *)
(* those around a backend's prepare. *)
Directory == {"os.chdir"}
Script == {"os.path.exists", "sys.stdout"}
Quiet == {"sys.stdout"}

-----------------------------------------------------------------------------
Goto(t, place) == at' = [at EXCEPT ![t] = place]
GivesUpWith(t, ans) ==
  /\ Goto(t, "idle")
  /\ answer' = [answer EXCEPT ![t] = ans]
  /\ UNCHANGED <<subject, metadata>>
Finds(t, m) == /\ Goto(t, "idle")
               /\ metadata' = [metadata EXCEPT ![t] = m]
               /\ answer' = [answer EXCEPT ![t] = "metadata"]
               /\ UNCHANGED subject
(* Results of a setup.py, not yet corrected; or none, and the next step *)
Provides(t, m, place) == /\ metadata' = [metadata EXCEPT ![t] = m]
                         /\ Goto(t, place)
                         /\ UNCHANGED <<subject, answer>>
Continues(t, place) == Goto(t, place) /\ UNCHANGED <<subject, answer, metadata>>

(* The caller has taken the answer. *)
Taken(t) == /\ subject' = [subject EXCEPT ![t] = Nothing]
            /\ answer' = [answer EXCEPT ![t] = "none"]
            /\ metadata' = [metadata EXCEPT ![t] = NoResult]
            /\ UNCHANGED at
(* FAILED_BUILDS.add, and the MetadataError after it *)
Refuses(t) == /\ failed' = failed \cup {subject[t]}
              /\ GivesUpWith(t, "MetadataError")
MakesTemp(t, kind) == temps' = temps \cup {<<t, kind>>}
RemovesTemps(t, kinds) == temps' = temps \ ({t} \X kinds)

(* Does t see the original function or its own fake?  os.path.exists       *)
(* stands for all that _parse_setup_py replaces but the streams. *)
SeesOwn(t, f) == installed[f] \in {Original, t}

(* The call to extract_metadata: an extension chooses the reader.  A       *)
(* pyproject.toml is not seen through the fake exists of another thread.   *)
Extract(t, f) ==
  /\ at[t] = "idle"
  /\ subject' = [subject EXCEPT ![t] = f]
  /\ metadata' = [metadata EXCEPT ![t] = NoResult]
  /\ LET format == Shape[f].format IN
     /\ answer' = [answer EXCEPT ![t] = IF format = "egg" THEN "MetadataError" ELSE "none"]
     /\ Goto(t, CASE format = "wheel" -> "wheel"
                  [] format = "project" /\ SeesOwn(t, "os.path.exists") -> "project"
                  [] format = "egg" -> "idle"
                  [] OTHER -> "source")
  /\ RemovesTemps(t, {"egg_info", "wheel"})   \* those of earlier calls are not followed
  /\ UNCHANGED <<proc, files, failed, patchVars, dirVars>>

-----------------------------------------------------------------------------
(* Wheels.  _fetch_from_wheel knows no metadata in what is no zip file or  *)
(* has no METADATA; extract_metadata then takes the file for a source      *)
(* directory. *)

PlausibleResults == {m \in Provided : m.name = "its own" /\ m.version # "other"}

IsZip(content) == content = "whole"

ReadWheel(t) ==
  /\ at[t] = "wheel"
  /\ IF IsZip(Content(t))
       THEN \/ \E m \in PlausibleResults : Finds(t, m)
            \/ GivesUpWith(t, "MetadataError")   \* METADATA without a name
            \/ GivesUpWith(t, "exception")       \* a requirement that does not parse
            \/ Continues(t, "source")            \* no METADATA
       ELSE Continues(t, "source")
  /\ UNCHANGED <<proc, files, failed, patchVars, dirVars, temps>>

-----------------------------------------------------------------------------
(* pyproject.toml *)

(* fetch_from_pyproject up to the first call of the backend's prepare,     *)
(* which may not know the arguments proj and cwd (TypeError). *)
ReadProject(t) ==
  /\ at[t] = "project"
  /\ \/ Continues(t, "source") /\ UNCHANGED temps     \* no backend, or setuptools
     \/ GivesUpWith(t, "exception") /\ UNCHANGED temps
     \/ GivesUpWith(t, "MetadataError") /\ UNCHANGED temps   \* METADATA without a name
     \/ Continues(t, "backend wheel") /\ UNCHANGED temps
     \/ (\E m \in PlausibleResults : Finds(t, m)) /\ UNCHANGED temps
     \/ Continues(t, "prepare") /\ MakesTemp(t, "dest")
  /\ UNCHANGED <<proc, files, failed, patchVars, dirVars>>

(* with LOCK: chdir into the source directory and patch the streams.  The  *)
(* fake getcwd and chdir of another thread refuse a directory that is not  *)
(* its own. *)
EnterProject(t) ==
  /\ at[t] = "prepare" /\ lock = NoThread
  /\ IF SeesOwn(t, "os.chdir")
       THEN /\ lock' = t
            /\ oldcwd' = workdir /\ workdir' = subject[t]
            /\ Installs(t, Quiet)
            /\ Continues(t, "prepared")
            /\ UNCHANGED temps
       ELSE /\ GivesUpWith(t, "exception")
            /\ RemovesTemps(t, {"dest"})
            /\ UNCHANGED <<patchVars, dirVars>>
  /\ UNCHANGED <<proc, files, failed>>

(* Mutant: a result is returned before the lock is released. *)
KeepsLock(t) == lock' = IF answer'[t] = "metadata" THEN t ELSE NoThread
ReleasesLock(t) == lock' = NoThread

LeaveProject(t) ==
  /\ at[t] = "prepared"
  /\ Restores(t, Quiet)
  /\ IF SeesOwn(t, "os.chdir")
       THEN /\ workdir' = oldcwd
            /\ \/ \E m \in PlausibleResults : Finds(t, m)
               \/ GivesUpWith(t, "MetadataError")     \* METADATA without a name
               \/ GivesUpWith(t, "exception")
               \/ Continues(t, "backend wheel")       \* no METADATA
       ELSE GivesUpWith(t, "exception") /\ UNCHANGED workdir
  /\ ReleasesLock(t)
  /\ RemovesTemps(t, {"dest"})
  /\ UNCHANGED <<proc, files, failed, oldcwd>>

(* build_wheel is called where the process happens to be, not in the       *)
(* source directory: what it builds may be another project. *)
BackendWheel(t) ==
  /\ at[t] = "backend wheel"
  /\ \/ Continues(t, "source")
     \/ GivesUpWith(t, "MetadataError")
     \/ GivesUpWith(t, "exception")
     \/ \E m \in Provided : m.name # "none" /\ Finds(t, m)
  /\ UNCHANGED <<proc, files, failed, patchVars, dirVars, temps>>

-----------------------------------------------------------------------------
(* Sources *)

(* Mutant: what fails to open is remembered, too. *)
CannotOpenEver(t) == Refuses(t)

(* What is no archive is no distribution (BadZipfile, ReadError); a        *)
(* compressed stream that ends early raises EOFError, which nobody catches. *)
CannotOpen(t) ==
  /\ UNCHANGED failed
  /\ \/ GivesUpWith(t, "MetadataError")
     \/ Content(t) = "part" /\ GivesUpWith(t, "exception")

(* _fetch_from_source up to the patches of _fetch_from_setup_py *)
OpenSource(t) ==
  /\ at[t] = "source"
  /\ IF ~SeesOwn(t, "os.path.exists")
       THEN GivesUpWith(t, "exception") /\ UNCHANGED <<failed, patchVars>>
     ELSE IF subject[t] \in failed
       THEN GivesUpWith(t, "MetadataError") /\ UNCHANGED <<failed, patchVars>>
     ELSE IF IsArchive(t) /\ Content(t) # "whole"
       THEN CannotOpen(t) /\ UNCHANGED patchVars
     ELSE Installs(t, Directory) /\ Continues(t, "search") /\ UNCHANGED failed
  /\ UNCHANGED <<proc, files, dirVars, temps>>

(* Mutant: the return is outside of the with statement. *)
ForgetsDirectory(t) == UNCHANGED patchVars
LeavesDirectory(t) == Restores(t, Directory)

(* find_in_archive: a setup.py, or else a setup.cfg.  A file that is no    *)
(* archive is a directory without files. *)
HasSetup(t) == Format(t) # "wheel" /\ Setup(t) # "none"

FindSetup(t) ==
  /\ at[t] = "search"
  /\ IF HasSetup(t) THEN /\ Installs(t, Script)
                         /\ Continues(t, "script")
                         /\ UNCHANGED failed
                    ELSE LeavesDirectory(t) /\ Refuses(t)
  /\ UNCHANGED <<proc, files, dirVars, temps>>

(* _parse_setup_py executes the setup.py against the fakes; it may fail or *)
(* never call setup().  Its patches are undone in either case. *)
RunScript(t) ==
  /\ at[t] = "script"
  /\ \/ \E m \in Provided : Provides(t, m, "parsed")
     \/ Continues(t, "parsed")
  /\ Restores(t, Script)
  /\ UNCHANGED <<proc, files, failed, dirVars, temps>>

(* The end of the with statement around it *)
LeaveSetup(t) ==
  /\ at[t] = "parsed"
  /\ LeavesDirectory(t)
  /\ Continues(t, IF metadata[t] = NoResult THEN "egg_info" ELSE "finish")
  /\ UNCHANGED <<proc, files, failed, dirVars, temps>>

(* _build_egg_info, up to the subprocess.  The Popen of a thread whose     *)
(* neighbour runs a setup.py is the one that raises OSError. *)
BuildEggInfo(t) ==
  /\ at[t] = "egg_info"
  /\ IF Setup(t) = "cfg"
       THEN Refuses(t) /\ UNCHANGED <<proc, temps>>
       ELSE /\ UNCHANGED failed
            /\ MakesTemp(t, "egg_info")
            /\ \/ /\ SeesOwn(t, "os.path.exists")
                  /\ Popen(t) /\ Continues(t, "egg_info runs")
               \/ GivesUpWith(t, "exception") /\ UNCHANGED proc  \* extract, or Popen
  /\ UNCHANGED <<files, patchVars, dirVars>>

(* The directory is not removed when egg_info has answered. *)
EggInfoBuilt(t) ==
  /\ at[t] = "egg_info runs" /\ Answered(t) /\ HasOutput(t)
  /\ \/ \E m \in Provided : m.name = "its own" /\ Provides(t, m, "finish")
     \/ GivesUpWith(t, "exception")    \* a requirement that does not parse
  /\ Collected(t)
  /\ UNCHANGED <<files, failed, patchVars, dirVars, temps>>

(* shutil.rmtree raises where a child that was left writes on, and the     *)
(* directory stays. *)
Undeletable(t) == {{}} \cup (IF proc[t].orphans # {} THEN SUBSET {"egg_info", "wheel"} ELSE {})

(* No .egg-info, or the subprocess failed: _build_wheel *)
BuildWheel(t) ==
  /\ at[t] = "egg_info runs" /\ Answered(t)
  /\ IF SeesOwn(t, "os.path.exists")
       THEN Popen(t) /\ Continues(t, "wheel runs") /\ MakesTemp(t, "wheel")
       ELSE /\ Collected(t) /\ GivesUpWith(t, "exception")
            /\ \E kept \in Undeletable(t) : RemovesTemps(t, {"egg_info", "wheel"} \ kept)
  /\ UNCHANGED <<files, failed, patchVars, dirVars>>

(* Mutant: only the inner finally removes its directory. *)
RemovesWheelOnly(t) == RemovesTemps(t, {"wheel"})
RemovesBoth(t) == RemovesTemps(t, {"egg_info", "wheel"})

WheelBuilt(t) ==
  /\ at[t] = "wheel runs" /\ Answered(t)
  /\ RemovesBoth(t)
  /\ \/ HasOutput(t) /\ UNCHANGED failed
        /\ \/ \E m \in PlausibleResults : Provides(t, m, "finish")
           \/ GivesUpWith(t, "exception")       \* no wheel in the directory
           \/ GivesUpWith(t, "MetadataError")   \* METADATA without a name
     \/ Refuses(t)
  /\ Collected(t)
  /\ UNCHANGED <<files, patchVars, dirVars>>

(* The exception of an rmtree takes the place of what was found. *)
RemovalRaises(t) ==
  /\ at[t] = "wheel runs" /\ Answered(t)
  /\ \E kept \in Undeletable(t) \ {{}} : RemovesTemps(t, {"egg_info", "wheel"} \ kept)
  /\ GivesUpWith(t, "exception") /\ Collected(t)
  /\ UNCHANGED <<files, failed, patchVars, dirVars>>

(* Mutant: a name that was found is kept. *)
KeepsName(t, m) == m.name
(* The end of _fetch_from_setup_py: an archive is what its file name says, *)
(* as far as it says something; a version nobody gave is 0.0.0. *)
CorrectName(t, m) == IF m.name = "none" \/ IsArchive(t) THEN "its own" ELSE m.name
CorrectVersion(t, m) ==
  IF m.version = "none" \/ Versioned(t) THEN "its own" ELSE m.version

Finish(t) ==
  /\ at[t] = "finish"
  /\ LET m == metadata[t] IN
       IF m.name = "none" /\ m.version = "none"
         THEN Refuses(t)
         ELSE /\ Finds(t, [name |-> CorrectName(t, m), version |-> CorrectVersion(t, m)])
              /\ UNCHANGED failed
  /\ UNCHANGED <<proc, files, patchVars, dirVars, temps>>

-----------------------------------------------------------------------------
MetadataStep(t) ==
  \/ ReadWheel(t)
  \/ ReadProject(t) \/ EnterProject(t) \/ LeaveProject(t) \/ BackendWheel(t)
  \/ OpenSource(t) \/ FindSetup(t) \/ RunScript(t) \/ LeaveSetup(t)
  \/ BuildEggInfo(t) \/ EggInfoBuilt(t)
  \/ BuildWheel(t) \/ WheelBuilt(t) \/ RemovalRaises(t)
  \/ Finish(t)
SubprocessRuns(t) ==
  SubprocessStep(t) /\ UNCHANGED <<files, failed, stepVars, patchVars, dirVars, temps>>
ExtractStep(t) == MetadataStep(t) \/ SubprocessRuns(t)

(* The threads of the process run on, and so do the scripts and backends   *)
(* they execute; subprocesses and their children need not. *)
MetadataFairness == /\ SubprocessFairness
                    /\ \A t \in Thread : WF_metadataVars(MetadataStep(t))

-----------------------------------------------------------------------------
(* When no thread is inside a patch, every function is the original one    *)
(* and the process is where it was: neither a script that fails nor one    *)
(* that exits leaves the interpreter of req-compile changed. *)
PatchesUndone ==
  (\A t \in Thread : at[t] \notin {"search", "script", "parsed", "prepared"})
    => /\ \A f \in Patched : installed[f] = Original
       /\ workdir = Home /\ lock = NoThread

(* The metadata of an archive carries the name of its file and the version *)
(* the name gives, and what a setup.py provided has a name and a version,  *)
(* along whichever of the four ways it was found. *)
SdistIdentity ==
  \A t \in Thread :
    answer[t] = "metadata" =>
      /\ IsArchive(t) => metadata[t].name = "its own"
      /\ IsArchive(t) /\ Versioned(t) => metadata[t].version = "its own"
      /\ Format(t) \in {"sdist", "directory"} => /\ metadata[t].name # "none"
                                                /\ metadata[t].version # "none"

(* A source that is refused leaves no temporary directory behind, on none  *)
(* of the ways that end in a MetadataError; the directory of egg_info      *)
(* outlives an answer from egg_info, that of a wheel only the exception of *)
(* an rmtree.  (What a child that goes on makes anew is not followed.) *)
TempsRemoved ==
  \A t \in Thread : at[t] = "idle" =>
    \A temp \in temps : temp[1] = t =>
      \/ answer[t] = "exception" /\ temp[2] \in {"egg_info", "wheel"}
      \/ answer[t] = "metadata" /\ temp[2] = "egg_info"
=============================================================================
