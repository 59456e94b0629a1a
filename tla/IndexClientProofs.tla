-------------------------- MODULE IndexClientProofs --------------------------
(***************************************************************************)
(* Theorems about IndexClient for any number of files, whatever was        *)
(* published as each of them, any pages and any number of retries.         *)
(*                                                                         *)
(* The invariant has four parts: that of the metadata calls (CallsSafe),   *)
(* that only the thread of the program makes them (MainSafe), what the     *)
(* state of the client says about the candidate's file (FileSafe), and     *)
(* what the cache of page scans holds (ScanSafe).                          *)
(*                                                                         *)
(* The parser of a page is a fold over its events.  What it returns is     *)
(* shown by induction over the sets of places in the page (PageIsRead).    *)
(***************************************************************************)
EXTENDS IndexClient, MetadataProofs, FiniteSetTheorems, SequenceTheorems, WellFoundedInduction

ClientType ==
  /\ python \in Pythons
  /\ scanned \in [Spelling -> [0..Retries -> Listings \cup {NoListing}]]
  /\ name \in Spelling
  /\ client \in {"idle", "scanning", "requesting", "writing", "downloaded", "extracting"}
  /\ left \in 0..Retries
  /\ listing \in [Spelling -> Listings \cup {NoListing, HttpError}]
  /\ candidate \in Source \cup {Nothing}
  /\ cached \in BOOLEAN
  /\ outcome \in Answers

(* Nobody but the main thread asks for metadata. *)
MainSafe == /\ TempSafe(Main) /\ AloneSafe(Main)
            /\ \A temp \in temps : temp[1] = Main

Resolving == client \in {"requesting", "writing", "downloaded", "extracting"}
(* The file of the candidate is known to be whole when it is said to be    *)
(* cached, and known not to be whole when it is about to be overwritten.   *)
FileSafe ==
  /\ client # "extracting" => at[Main] = "idle"
  /\ client = "extracting" => WholeSafe(Main) /\ subject[Main] = candidate
  /\ client = "extracting" /\ cached => files[candidate] = "whole"
  /\ client = "downloaded" => ~cached
  /\ Resolving => candidate \in Source /\ outcome = "none"
  /\ client \in {"requesting", "writing"} /\ candidate \in Hashed
       => files[candidate] # "whole"
  /\ outcome = "metadata" => candidate \in Source /\ files[candidate] = "whole"

(* For each spelling, either nothing has been cached yet, or the scan every *)
(* other scan begins with has: with what the listing is since. *)
SpellingSafe(s) ==
  \/ /\ \A r \in 0..Retries : scanned[s][r] = NoListing
     /\ listing[s] \notin Listings
  \/ /\ listing[s] \in Listings
     /\ scanned[s][Retries] = listing[s]
     /\ client = "scanning" /\ name = s => left = Retries
ScanSafe == \A s \in Spelling : SpellingSafe(s)

IndexInv == CallsSafe /\ ClientType /\ MainSafe /\ FileSafe /\ ScanSafe

-----------------------------------------------------------------------------
LEMMA ListingsApart == NoListing \notin Listings /\ HttpError \notin Listings
                       /\ NoListing # HttpError
BY DEF NoListing, HttpError, Listings

(* What the client does outside of extract_metadata. *)
LEMMA QuietCalls ==
  ASSUME CallsSafe, MainSafe, metadataUnchanged, files' \in [Source -> Contents]
  PROVE  CallsSafe' /\ MainSafe' /\ at' = at /\ answer' = answer
<1>1. UNCHANGED <<proc, failed, stepVars, patchVars, dirVars, temps>>
  BY DEF metadataUnchanged
<1>2. TypeMetadata'
  BY <1>1 DEF CallsSafe, TypeMetadata, stepVars, patchVars, dirVars
<1>3. ProcSafe'
  BY <1>1 DEF CallsSafe, ProcSafe
<1>4. \A u \in Thread : PlaceSafe(u)' /\ TokensSafe(u)'
  BY <1>1 DEF CallsSafe, PlaceSafe, TokensSafe, Patches, Format, Setup, IsArchive, HasSetup,
              Identified, Versioned, stepVars, patchVars
<1>5. MainSafe'
  BY <1>1 DEF MainSafe, TempSafe, AloneSafe, Patches, stepVars, patchVars, dirVars
<1> QED
  BY <1>1, <1>2, <1>3, <1>4, <1>5 DEF CallsSafe, stepVars

LEMMA StutterCalls ==
  ASSUME CallsSafe, MainSafe, UNCHANGED metadataVars
  PROVE  CallsSafe' /\ MainSafe' /\ at' = at /\ answer' = answer /\ files' = files
BY QuietCalls DEF metadataVars, metadataUnchanged, CallsSafe, TypeMetadata

LEMMA ExtractMainSafe ==
  ASSUME CallsSafe, MainSafe, NEW f \in Source, Extract(Main, f)
  PROVE  /\ CallsSafe' /\ MainSafe' /\ WholeSafe(Main)' /\ subject'[Main] = f
         /\ files' = files
<1>0. StepType /\ Main \in Thread
  BY TypeFrames, IndexAssumption DEF CallsSafe
<1>1. CallsSafe' /\ TempSafe(Main)'
  BY <1>0, ExtractCallsSafe, ExtractTempSafe DEF MainSafe
<1>2. /\ subject'[Main] = f
      /\ at'[Main] \in {"idle", "wheel", "project", "source"}
      /\ answer'[Main] # "metadata"
  BY <1>0, ExtractStarts
<1>3. UNCHANGED <<files, patchVars, dirVars>> /\ RemovesTemps(Main, {"egg_info", "wheel"})
  BY DEF Extract
<1>4. at[Main] = "idle"
  BY DEF Extract
<1>5. AloneSafe(Main)'
  BY <1>2, <1>3, <1>4 DEF MainSafe, AloneSafe, Patches, patchVars, dirVars
<1>6. WholeSafe(Main)'
  BY <1>2 DEF WholeSafe, Built
<1> QED
  BY <1>1, <1>2, <1>3, <1>5, <1>6 DEF MainSafe, RemovesTemps

LEMMA ExtractingMainSafe ==
  ASSUME CallsSafe, MainSafe, WholeSafe(Main), ExtractStep(Main)
  PROVE  /\ CallsSafe' /\ MainSafe' /\ WholeSafe(Main)' /\ subject' = subject
         /\ files' = files
<1>0. StepType /\ Main \in Thread /\ PlaceSafe(Main) /\ TypeMetadata
  BY TypeFrames, IndexAssumption DEF CallsSafe
<1>1. CASE MetadataStep(Main)
  <2>1. CallsSafe' /\ TempSafe(Main)' /\ AloneSafe(Main)' /\ WholeSafe(Main)'
    BY <1>0, <1>1, StepCallsSafe, StepTempSafe, StepAloneSafe, StepWholeSafe DEF MainSafe
  <2>2. files' = files /\ subject' = subject
    BY <1>0, <1>1, StepKeepsFiles, StepOwn
  <2>3. \A temp \in temps' : temp[1] = Main
    BY <1>0, <1>1, StepKeepsTemps DEF MainSafe, MakesTemp, RemovesTemps
  <2> QED
    BY <2>1, <2>2, <2>3 DEF MainSafe
<1>2. CASE SubprocessRuns(Main)
  <2>1. UNCHANGED <<files, failed, stepVars, patchVars, dirVars, temps>>
    BY <1>2 DEF SubprocessRuns
  <2>2. CallsSafe'
    BY <1>0, <1>2, SubprocessCallsSafe
  <2>3. MainSafe' /\ WholeSafe(Main)'
    BY <2>1 DEF MainSafe, TempSafe, AloneSafe, Patches, WholeSafe, IsArchive, Format, Content,
                stepVars, patchVars, dirVars
  <2> QED
    BY <2>1, <2>2, <2>3 DEF stepVars
<1> QED
  BY <1>1, <1>2 DEF ExtractStep

-----------------------------------------------------------------------------
(* The invariant *)

LEMMA InitInv == Init => IndexInv
<1> SUFFICES ASSUME Init PROVE IndexInv
  OBVIOUS
<1>1. CallsSafe
  BY InitCallsSafe DEF Init, Contents
<1>2. ClientType
  BY IndexAssumption, ListingsApart DEF Init, ClientType, Answers
<1>3. MainSafe
  BY IndexAssumption
     DEF Init, InitMetadata, MainSafe, TempSafe, AloneSafe, Patches
<1>4. FileSafe
  BY IndexAssumption DEF Init, InitMetadata, FileSafe, Resolving
<1>5. ScanSafe
  BY ListingsApart DEF Init, ScanSafe, SpellingSafe
<1> QED
  BY <1>1, <1>2, <1>3, <1>4, <1>5 DEF IndexInv

LEMMA RestartInv == IndexInv /\ Restart => IndexInv'
<1> SUFFICES ASSUME IndexInv, Restart PROVE IndexInv'
  OBVIOUS
<1>1. CallsSafe'
  <2>1. ProcSafe'
    BY NoCallSafe DEF Restart, ProcSafe
  <2>2. proc' \in [Thread -> Calls]
    BY <2>1 DEF ProcSafe, CallSafe
  <2>3. TypeMetadata'
    BY <2>2 DEF Restart, IndexInv, CallsSafe, TypeMetadata, Locations, Answers
  <2>4. \A t \in Thread : PlaceSafe(t)' /\ TokensSafe(t)'
    BY DEF Restart, PlaceSafe, TokensSafe, Patches, ProjectPlaces, Built
  <2> QED
    BY <2>1, <2>3, <2>4 DEF CallsSafe
<1>2. ClientType'
  BY IndexAssumption, ListingsApart DEF Restart, IndexInv, ClientType, Answers
<1>3. MainSafe'
  BY IndexAssumption DEF Restart, MainSafe, TempSafe, AloneSafe, Patches
<1>4. FileSafe'
  BY IndexAssumption DEF Restart, FileSafe, Resolving
<1>5. ScanSafe'
  BY ListingsApart DEF Restart, ScanSafe, SpellingSafe
<1> QED
  BY <1>1, <1>2, <1>3, <1>4, <1>5 DEF IndexInv

(* A scan for one spelling is nothing to the others. *)
LEMMA OtherSpellings ==
  ASSUME NEW s \in Spelling, SpellingSafe(s), s # name, name' = name,
         scanned'[s] = scanned[s], listing'[s] = listing[s]
  PROVE  SpellingSafe(s)'
BY DEF SpellingSafe

LEMMA ScanAnswered ==
  ASSUME ClientType, NEW l \in Listings \cup {HttpError}, ScanAnswers(l)
  PROVE  /\ client' = "idle"
         /\ listing' \in [Spelling -> Listings \cup {NoListing, HttpError}]
         /\ listing'[name] = l
         /\ \A s \in Spelling \ {name} : listing'[s] = listing[s]
         /\ left' \in 0..Retries
BY IndexAssumption DEF ScanAnswers, ClientType

(* get_candidates, which leaves files and metadata alone *)
LEMMA ScanInv ==
  ASSUME IndexInv, (\E s \in Spelling : GetCandidates(s)) \/ Scan PROVE IndexInv'
<1> USE DEF IndexInv
<1>0. /\ UNCHANGED <<metadataVars, python, candidate, cached, outcome>>
      /\ client \in {"idle", "scanning"} /\ client' \in {"idle", "scanning"}
  BY DEF GetCandidates, Scan, CachedScan, PageFetched, ServerError, ScanFails, ScanAnswers
<1>1. CallsSafe' /\ MainSafe' /\ at' = at /\ files' = files
  BY <1>0, StutterCalls
<1>2. FileSafe'
  BY <1>0, <1>1 DEF FileSafe, Resolving
<1>3. CASE \E s \in Spelling : GetCandidates(s)
  <2>1. PICK s \in Spelling : GetCandidates(s)
    BY <1>3
  <2>2. ClientType'
    BY <2>1, IndexAssumption DEF GetCandidates, ClientType
  <2>3. ScanSafe'
    BY <2>1 DEF GetCandidates, ScanSafe, SpellingSafe
  <2> QED
    BY <1>1, <1>2, <2>2, <2>3
<1>4. CASE Scan
  <2>0. /\ UNCHANGED <<python, name, candidate, cached, outcome>> /\ client = "scanning"
        /\ name \in Spelling /\ SpellingSafe(name) /\ left \in 0..Retries
    BY <1>4 DEF Scan, CachedScan, PageFetched, ServerError, ScanFails, ScanSafe, ClientType
  <2> SUFFICES /\ scanned' \in [Spelling -> [0..Retries -> Listings \cup {NoListing}]]
               /\ listing' \in [Spelling -> Listings \cup {NoListing, HttpError}]
               /\ left' \in 0..Retries
               /\ SpellingSafe(name)'
               /\ \A s \in Spelling \ {name} :
                    scanned'[s] = scanned[s] /\ listing'[s] = listing[s]
    BY <1>0, <1>1, <1>2, <2>0, OtherSpellings DEF ClientType, ScanSafe
  <2>1. CASE CachedScan
    <3>1. scanned[name][left] \in Listings /\ UNCHANGED scanned
      BY <2>0, <2>1 DEF CachedScan, Known, ClientType
    <3>2. ScanAnswers(scanned[name][left])
      BY <2>1 DEF CachedScan
    <3>3. scanned[name][left] = scanned[name][Retries]
      BY <2>0, <3>1, ListingsApart DEF SpellingSafe
    <3> QED
      BY <2>0, <3>1, <3>2, <3>3, ScanAnswered DEF SpellingSafe, ClientType
  <2>2. CASE PageFetched
    <3>1. PICK links \in {Links(page) : page \in Pages} \cup {{}} :
            /\ ScanAnswers([links |-> links])
            /\ scanned' = [scanned EXCEPT ![name] =
                             [r \in 0..Retries |-> IF r >= left THEN [links |-> links] ELSE @[r]]]
      BY <2>2 DEF PageFetched
    <3>2. [links |-> links] \in Listings
      BY DEF Listings, Links
    <3> DEFINE l == [links |-> links]
    <3> HIDE DEF l
    <3>3. /\ l \in Listings /\ ScanAnswers(l)
          /\ scanned' = [scanned EXCEPT ![name] =
                           [r \in 0..Retries |-> IF r >= left THEN l ELSE @[r]]]
      BY <2>2, <3>1, <3>2 DEF l, PageFetched
    <3>4. /\ scanned' \in [Spelling -> [0..Retries -> Listings \cup {NoListing}]]
          /\ scanned'[name][Retries] = l
          /\ \A s \in Spelling \ {name} : scanned'[s] = scanned[s]
      BY <2>0, <3>3, IndexAssumption DEF ClientType
    <3> QED
      BY <2>0, <3>3, <3>4, ScanAnswered DEF SpellingSafe
  <2>3. CASE ServerError
    <3>1. UNCHANGED <<client, listing, scanned>> /\ left' \in 0..Retries
      BY <2>0, <2>3, IndexAssumption DEF ServerError
    <3>2. \A r \in 0..Retries : scanned[name][r] = NoListing
      BY <2>0, <2>3, ListingsApart DEF ServerError, Known, SpellingSafe
    <3>3. listing[name] \notin Listings
      BY <2>0, <3>2, ListingsApart, IndexAssumption DEF SpellingSafe
    <3> QED
      BY <2>0, <3>1, <3>2, <3>3 DEF SpellingSafe, ClientType
  <2>4. CASE ScanFails
    <3>1. ScanAnswers(HttpError) /\ UNCHANGED scanned /\ ~Known(left)
      BY <2>4 DEF ScanFails
    <3>2. \A r \in 0..Retries : scanned[name][r] = NoListing
      BY <2>0, <3>1, ListingsApart DEF Known, SpellingSafe
    <3> QED
      BY <2>0, <3>1, <3>2, ScanAnswered, ListingsApart DEF SpellingSafe, ClientType
  <2> QED
    BY <1>4, <2>1, <2>2, <2>3, <2>4 DEF Scan
<1> QED
  BY <1>3, <1>4

LEMMA ScanUnread ==
  ASSUME ScanSafe, UNCHANGED <<scanned, name, left, listing>>, client' # "scanning"
  PROVE  ScanSafe'
BY DEF ScanSafe, SpellingSafe

(* resolve_candidate *)
LEMMA ResolveInv ==
  ASSUME IndexInv, NEW f \in Source, ResolveCandidate(f) PROVE IndexInv'
<1> USE DEF IndexInv
<1>1. /\ candidate' = f /\ outcome' = "none" /\ cached' = TRUE
      /\ UNCHANGED <<python, scanned, name, left, listing>>
      /\ client' \in {"extracting", "requesting"} /\ at[Main] = "idle"
  BY DEF ResolveCandidate, ExtractNow, FileSafe
<1>2. ClientType' /\ ScanSafe'
  BY <1>1, ScanUnread DEF ClientType, Answers
<1>3. CASE HashMatches(f)
  <2>1. Extract(Main, f) /\ client' = "extracting" /\ files[f] = "whole"
    BY <1>3 DEF ResolveCandidate, ExtractNow, HashMatches
  <2>2. /\ CallsSafe' /\ MainSafe' /\ WholeSafe(Main)' /\ subject'[Main] = f
        /\ files' = files
    BY <2>1, ExtractMainSafe
  <2>3. FileSafe'
    BY <1>1, <2>1, <2>2 DEF FileSafe, Resolving
  <2> QED
    BY <1>2, <2>2, <2>3
<1>4. CASE ~HashMatches(f)
  <2>1. /\ client' = "requesting" /\ metadataUnchanged
        /\ files' = [files EXCEPT ![f] = IF f \in Hashed THEN "absent" ELSE @]
    BY <1>4 DEF ResolveCandidate
  <2>2. files \in [Source -> Contents]
    BY DEF CallsSafe, TypeMetadata
  <2>3. files' \in [Source -> Contents] /\ (f \in Hashed => files'[f] = "absent")
    BY <2>1, <2>2 DEF Contents
  <2>4. CallsSafe' /\ MainSafe' /\ at' = at
    BY <2>1, <2>3, QuietCalls
  <2>5. FileSafe'
    BY <1>1, <2>1, <2>3, <2>4 DEF FileSafe, Resolving
  <2> QED
    BY <1>2, <2>4, <2>5
<1> QED
  BY <1>3, <1>4

(* The request raises, or the download does. *)
LEMMA RaisesInv ==
  ASSUME IndexInv, RequestFails \/ DownloadFails PROVE IndexInv'
<1> USE DEF IndexInv
<1>1. /\ client' = "idle" /\ outcome' = "exception" /\ client # "extracting"
      /\ UNCHANGED <<metadataVars, python, scanned, name, left, listing, candidate, cached>>
  BY DEF RequestFails, DownloadFails, Raises
<1>2. CallsSafe' /\ MainSafe' /\ at' = at
  BY <1>1, StutterCalls
<1>3. ClientType' /\ ScanSafe' /\ FileSafe'
  BY <1>1, <1>2, ScanUnread DEF ClientType, Answers, FileSafe, Resolving
<1> QED
  BY <1>2, <1>3

(* The file is opened, and written. *)
LEMMA WritesInv ==
  ASSUME IndexInv, OpenFile \/ Download PROVE IndexInv'
<1> USE DEF IndexInv
<1>1. PICK came \in Contents :
        /\ files' = [files EXCEPT ![candidate] = came]
        /\ OpenFile => came = "part"
  BY DEF OpenFile, Download, Contents
<1>2. /\ metadataUnchanged /\ UNCHANGED <<python, scanned, name, left, listing, candidate, outcome>>
      /\ Resolving /\ client # "extracting"
      /\ OpenFile => client' = "writing" /\ cached' = cached
      /\ Download => client' = "downloaded" /\ cached' = FALSE
  BY DEF OpenFile, Download, Resolving
<1>3. candidate \in Source /\ outcome = "none" /\ at[Main] = "idle"
      /\ files \in [Source -> Contents]
  BY <1>2 DEF FileSafe, CallsSafe, TypeMetadata
<1>4. files' \in [Source -> Contents] /\ files'[candidate] = came
  BY <1>1, <1>3
<1>5. CallsSafe' /\ MainSafe' /\ at' = at
  BY <1>2, <1>4, QuietCalls
<1>6. ClientType' /\ ScanSafe' /\ FileSafe'
  BY <1>1, <1>2, <1>3, <1>4, <1>5, ScanUnread DEF ClientType, FileSafe, Resolving
<1> QED
  BY <1>5, <1>6

LEMMA ExtractDownloadInv ==
  ASSUME IndexInv, ExtractDownload PROVE IndexInv'
<1> USE DEF IndexInv
<1>1. /\ client = "downloaded" /\ client' = "extracting" /\ Extract(Main, candidate)
      /\ UNCHANGED <<python, scanned, name, left, listing, candidate, cached, outcome>>
  BY DEF ExtractDownload, ExtractNow
<1>2. candidate \in Source /\ ~cached /\ outcome = "none"
  BY <1>1 DEF FileSafe, Resolving
<1>3. /\ CallsSafe' /\ MainSafe' /\ WholeSafe(Main)' /\ subject'[Main] = candidate
      /\ files' = files
  BY <1>1, <1>2, ExtractMainSafe
<1>4. ClientType' /\ ScanSafe' /\ FileSafe'
  BY <1>1, <1>2, <1>3, ScanUnread DEF ClientType, FileSafe, Resolving
<1> QED
  BY <1>3, <1>4

LEMMA ExtractingInv ==
  ASSUME IndexInv, Extracting PROVE IndexInv'
<1> USE DEF IndexInv
<1>1. /\ client = "extracting" /\ ExtractStep(Main)
      /\ UNCHANGED <<python, scanned, client, name, left, listing, candidate, cached, outcome>>
  BY DEF Extracting, clientVars
<1>2. WholeSafe(Main)
  BY <1>1 DEF FileSafe
<1>3. /\ CallsSafe' /\ MainSafe' /\ WholeSafe(Main)' /\ subject' = subject
      /\ files' = files
  BY <1>1, <1>2, ExtractingMainSafe
<1>4. ClientType' /\ ScanSafe' /\ FileSafe'
  BY <1>1, <1>3, ScanUnread DEF ClientType, FileSafe, Resolving
<1> QED
  BY <1>3, <1>4

(* What has metadata is whole: of what filename_to_candidate lets pass,    *)
(* only wheels and archives have. *)
LEMMA AnswerIsWhole ==
  ASSUME IndexInv, client = "extracting", answer[Main] = "metadata"
  PROVE  files[candidate] = "whole"
<1>1. PlaceSafe(Main) /\ WholeSafe(Main) /\ subject[Main] = candidate /\ candidate \in Source
  BY IndexAssumption DEF IndexInv, CallsSafe, FileSafe, Resolving
<1>2. Format(Main) \in {"wheel", "sdist"}
  BY <1>1, IndexAssumption DEF PlaceSafe, Identified, Format, Setup
<1> QED
  BY <1>1, <1>2 DEF WholeSafe, Content

LEMMA ResolvedInv ==
  ASSUME IndexInv, Resolved PROVE IndexInv'
<1> USE DEF IndexInv
<1>1. /\ client = "extracting" /\ client' = "idle" /\ at[Main] = "idle"
      /\ outcome' = answer[Main] /\ metadataUnchanged
      /\ UNCHANGED <<python, scanned, name, left, listing, candidate, cached>>
  BY DEF Resolved
<1>2. /\ files' \in [Source -> Contents]
      /\ answer[Main] = "metadata" => files' = files
  BY <1>1 DEF Resolved, CallsSafe, TypeMetadata, Contents
<1>3. CallsSafe' /\ MainSafe' /\ at' = at
  BY <1>1, <1>2, QuietCalls
<1>4. answer[Main] \in Answers
  BY IndexAssumption DEF CallsSafe, TypeMetadata
<1>5. ClientType' /\ ScanSafe'
  BY <1>1, <1>4, ScanUnread DEF ClientType
<1>6. FileSafe'
  BY <1>1, <1>2, <1>3, AnswerIsWhole DEF FileSafe, Resolving
<1> QED
  BY <1>3, <1>5, <1>6

LEMMA StutterInv ==
  ASSUME IndexInv, UNCHANGED vars PROVE IndexInv'
<1>1. UNCHANGED metadataVars /\ UNCHANGED <<python, scanned, clientVars>>
  BY DEF vars
<1>2. CallsSafe' /\ MainSafe' /\ at' = at /\ files' = files
  BY <1>1, StutterCalls DEF IndexInv
<1>3. subject' = subject /\ answer' = answer
  BY <1>1 DEF metadataVars, stepVars
<1>4. ClientType' /\ ScanSafe' /\ FileSafe'
  BY <1>1, <1>2, <1>3
     DEF IndexInv, ClientType, ScanSafe, SpellingSafe, FileSafe, Resolving, WholeSafe, IsArchive, Format,
         Content, clientVars
<1> QED
  BY <1>2, <1>4 DEF IndexInv

LEMMA NextInv == IndexInv /\ [Next]_vars => IndexInv'
<1> SUFFICES ASSUME IndexInv, [Next]_vars PROVE IndexInv'
  OBVIOUS
<1> QED
  BY ScanInv, ResolveInv, RaisesInv, WritesInv, ExtractDownloadInv, ExtractingInv, ResolvedInv,
     RestartInv, StutterInv DEF Next, ClientStep

(* The inductive invariant behind the theorems below: what every place of  *)
(* extract_metadata may rely on, and what every file of the wheel          *)
(* directory may be, however often the process is killed.                  *)
THEOREM IndexClientInvariant == Spec => []IndexInv
BY InitInv, NextInv, PTL DEF Spec

-----------------------------------------------------------------------------
(* What it says *)

LEMMA InvProperties ==
  IndexInv => /\ TypeOK /\ OutputComplete /\ SdistIdentity
              /\ WholeOrNothing /\ TempsRemoved /\ PatchesUndone
<1> SUFFICES ASSUME IndexInv
             PROVE  /\ TypeOK /\ OutputComplete /\ SdistIdentity
                    /\ WholeOrNothing /\ TempsRemoved /\ PatchesUndone
  OBVIOUS
<1> USE IndexAssumption DEF IndexInv
<1>1. TypeMetadata /\ OutputComplete /\ SdistIdentity
  BY CallsSafeProperties
<1>2. TypeOK
  BY <1>1 DEF TypeOK, ClientType
<1>3. WholeOrNothing
  BY DEF WholeOrNothing, FileSafe
<1>4. TempsRemoved
  <2>1. SUFFICES ASSUME NEW t \in Thread, at[t] = "idle", NEW temp \in temps, temp[1] = t
                 PROVE  \/ answer[t] = "exception" /\ temp[2] \in {"egg_info", "wheel"}
                        \/ answer[t] = "metadata" /\ temp[2] = "egg_info"
    BY DEF TempsRemoved
  <2>2. t = Main
    BY <2>1 DEF MainSafe
  <2>3. PICK kind \in {"dest", "egg_info", "wheel"} : temp = <<Main, kind>>
    BY <1>1, <2>1, <2>2 DEF TypeMetadata
  <2> QED
    BY <2>1, <2>2, <2>3 DEF MainSafe, TempSafe
<1>5. PatchesUndone
  BY DEF PatchesUndone, MainSafe, AloneSafe, Patches
<1> QED
  BY <1>1, <1>2, <1>3, <1>4, <1>5

(* Every variable of the client keeps its type, also over a restart: in    *)
(* particular no scan goes on with less than no retries left.              *)
THEOREM IndexTypes == Spec => []TypeOK
BY IndexClientInvariant, InvProperties, PTL

(* However often the process is killed, and whatever the index sends, a    *)
(* distribution only ever comes out of a whole file, and only a whole file *)
(* is taken for one downloaded before. *)
THEOREM NothingComesOfHalf == Spec => []WholeOrNothing
BY IndexClientInvariant, InvProperties, PTL

(* What is reported of a build of egg_info or a wheel is complete: the     *)
(* subprocess has ended when the call answers, and all that it and the     *)
(* children with its output wrote is there. *)
THEOREM BuildOutputIsComplete == Spec => []OutputComplete
BY IndexClientInvariant, InvProperties, PTL

(* What an archive of an index is called, and its version, is what its     *)
(* file name says, along whichever of the ways through extract_metadata    *)
(* its metadata was found. *)
THEOREM ArchivesKeepTheirNames == Spec => []SdistIdentity
BY IndexClientInvariant, InvProperties, PTL

(* No way through extract_metadata that ends in a refusal leaves a         *)
(* temporary directory behind. *)
THEOREM RefusalsLeaveNoTemps == Spec => []TempsRemoved
BY IndexClientInvariant, InvProperties, PTL

(* In a process with one thread, the functions a setup.py was run against  *)
(* are the original ones whenever no setup.py runs, and the process is     *)
(* where it was. *)
THEOREM OriginalsAreBack == Spec => []PatchesUndone
BY IndexClientInvariant, InvProperties, PTL

-----------------------------------------------------------------------------
(* Steps *)

(* A verified file is only replaced or removed by the process that         *)
(* downloaded it and found no metadata in it. *)
THEOREM VerifiedFilesStay == Spec => KeepsVerified
<1>1. IndexInv /\ [Next]_vars =>
        [\A f \in Hashed : files[f] = "whole" /\ files'[f] # "whole"
           => client = "extracting" /\ ~cached /\ f = candidate]_vars
  <2> SUFFICES ASSUME IndexInv, Next, NEW f \in Hashed, files[f] = "whole", files'[f] # "whole"
               PROVE  client = "extracting" /\ ~cached /\ f = candidate
    BY DEF Next
  <2>0. f \in Source /\ files \in [Source -> Contents]
    BY IndexAssumption DEF IndexInv, CallsSafe, TypeMetadata
  <2>1. ASSUME NEW g \in Source, ResolveCandidate(g) PROVE FALSE
    BY <2>0, <2>1 DEF ResolveCandidate, HashMatches, ExtractNow, Extract
  <2>2. CASE OpenFile \/ Download
    BY <2>0, <2>2 DEF OpenFile, Download, IndexInv, FileSafe
  <2>3. CASE Resolved
    BY <2>0, <2>3 DEF Resolved, RemovesFile
  <2>4. CASE Extracting
    BY <2>4, ExtractingMainSafe DEF Extracting, IndexInv, FileSafe
  <2>5. CASE (\E s \in Spelling : GetCandidates(s)) \/ Scan \/ RequestFails \/ DownloadFails \/ Restart
    BY <2>5 DEF GetCandidates, Scan, RequestFails, DownloadFails, Restart, metadataVars
  <2>6. CASE ExtractDownload
    BY <2>6 DEF ExtractDownload, ExtractNow, Extract
  <2> QED
    BY <2>1, <2>2, <2>3, <2>4, <2>5, <2>6 DEF Next, ClientStep
<1> QED
  BY <1>1, IndexClientInvariant, PTL DEF Spec, KeepsVerified

(* FAILED_BUILDS only ever takes an archive that was opened, and that is   *)
(* whole. *)
THEOREM OnlyWholeIsCondemned == Spec => CondemnsOnlyWhole
<1>1. IndexInv /\ [Next]_vars =>
        [\A f \in failed' \ failed : Shape[f].format = "sdist" => files[f] = "whole"]_vars
  <2> SUFFICES ASSUME IndexInv, Next, NEW f \in failed' \ failed, Shape[f].format = "sdist"
               PROVE  files[f] = "whole"
    BY DEF Next
  <2>1. CASE Extracting
    <3>1. MetadataStep(Main) /\ WholeSafe(Main)
      BY <2>1 DEF Extracting, ExtractStep, SubprocessRuns, IndexInv, FileSafe
    <3>2. f = subject[Main] /\ at[Main] \in Built \cup {"search"}
      BY <3>1, StepCondemns, IndexAssumption
    <3> QED
      BY <3>1, <3>2 DEF WholeSafe, IsArchive, Format, Content
  <2>2. CASE ~Extracting
    <3>1. failed' = failed \/ failed' = {}
      BY <2>2 DEF Next, ClientStep, GetCandidates, Scan, RequestFails, OpenFile, Download,
                  DownloadFails, ExtractDownload, ExtractNow, Extract, Resolved, Restart,
                  ResolveCandidate, metadataVars, metadataUnchanged
    <3> QED
      BY <3>1
  <2> QED
    BY <2>1, <2>2
<1> QED
  BY <1>1, IndexClientInvariant, PTL DEF Spec, CondemnsOnlyWhole

(* The candidates of a project, once listed under a spelling of its name,  *)
(* stay listed under it as they are for the rest of the process, whatever  *)
(* other spellings are asked for in between. *)
THEOREM ListingStays == Spec => OneListing
<1>1. IndexInv /\ [Next]_vars =>
        [\A s \in Spelling :
           {listing[s], listing'[s]} \subseteq Listings => listing'[s] = listing[s]]_vars
  <2> SUFFICES ASSUME IndexInv, Next, NEW s \in Spelling,
                      listing[s] \in Listings, listing'[s] \in Listings
               PROVE  listing'[s] = listing[s]
    BY DEF Next
  <2>1. /\ scanned[s][Retries] = listing[s]
        /\ client = "scanning" /\ name = s => left = Retries
    BY DEF IndexInv, ScanSafe, SpellingSafe
  <2>2. CASE Scan
    <3>1. CASE name # s
      BY <2>2, <3>1
         DEF Scan, CachedScan, PageFetched, ServerError, ScanFails, ScanAnswers, IndexInv, ClientType
    <3>2. CASE name = s
      <4>1. CASE CachedScan
        BY <2>1, <3>2, <4>1 DEF CachedScan, ScanAnswers, IndexInv, ClientType
      <4>2. CASE PageFetched \/ ScanFails
        BY <2>1, <3>2, <4>2, ListingsApart DEF PageFetched, ScanFails, Known
      <4>3. CASE ServerError
        BY <4>3 DEF ServerError
      <4> QED
        BY <2>2, <4>1, <4>2, <4>3 DEF Scan
    <3> QED
      BY <3>1, <3>2
  <2>3. CASE Restart
    BY <2>3, ListingsApart DEF Restart
  <2>4. CASE ~Scan /\ ~Restart
    BY <2>4 DEF Next, ClientStep, GetCandidates, RequestFails, OpenFile, Download,
                DownloadFails, ExtractDownload, Extracting, Resolved, ResolveCandidate, clientVars
  <2> QED
    BY <2>2, <2>3, <2>4
<1> QED
  BY <1>1, IndexClientInvariant, PTL DEF Spec, OneListing

-----------------------------------------------------------------------------
(* Induction over the subsets of a finite set. *)
LEMMA SubsetInduction ==
  ASSUME NEW S, IsFiniteSet(S), NEW G,
         \A s \in SUBSET S : (\A t \in SUBSET s : t # s => t \in G) => s \in G
  PROVE  SUBSET S \subseteq G
<1> DEFINE Bad == (SUBSET S) \ G
<1>1. SUBSET S = FiniteSubsetsOf(S) /\ IsWellFoundedOn(StrictSubsetOrdering(S), SUBSET S)
  BY FS_FiniteSubsetsOfFinite, FS_StrictSubsetOrderingWellFounded
<1>2. SUFFICES ASSUME Bad # {} PROVE FALSE
  OBVIOUS
<1>3. PICK s \in Bad : \A t \in Bad : ~ (<<t, s>> \in StrictSubsetOrdering(S))
  <2> Bad \subseteq SUBSET S
    OBVIOUS
  <2> HIDE DEF Bad
  <2> QED
    BY <1>1, <1>2, WFMin
<1>4. \A t \in SUBSET s : t # s => t \in G
  BY <1>3 DEF StrictSubsetOrdering
<1> QED
  BY <1>3, <1>4

(* A set of natural numbers has a smallest element, *)
LEMMA SmallestOf ==
  ASSUME NEW S \in SUBSET Nat, S # {}
  PROVE  \E m \in S : \A k \in S : m <= k
<1> DEFINE Below(k) == 0..k
           T == {Below(k) : k \in S}
<1>1. T \subseteq FiniteSubsetsOf(Nat)
  <2> SUFFICES ASSUME NEW k \in S PROVE IsFiniteSet(Below(k))
    BY DEF FiniteSubsetsOf
  <2> QED
    BY FS_Interval
<1>2. PICK t \in T : \A u \in T : ~ (<<u, t>> \in StrictSubsetOrdering(Nat))
  <2> T # {}
    OBVIOUS
  <2> HIDE DEF T
  <2> QED
    BY <1>1, FS_StrictSubsetOrderingWellFounded, WFMin
<1>3. PICK m \in S : t = Below(m)
  BY <1>2
<1>4. ASSUME NEW k \in S PROVE m <= k
  <2> SUFFICES ASSUME k < m PROVE FALSE
    OBVIOUS
  <2>1. Below(k) \subseteq Below(m) /\ m \in Below(m) /\ m \notin Below(k)
    OBVIOUS
  <2>2. Below(k) \in T /\ <<Below(k), Below(m)>> \in StrictSubsetOrdering(Nat)
    BY <2>1 DEF StrictSubsetOrdering
  <2> QED
    BY <1>2, <1>3, <2>2
<1> QED
  BY <1>3, <1>4

(* and, if there is a bound, a largest one. *)
LEMMA LargestOf ==
  ASSUME NEW n \in Nat, NEW S, S \subseteq 1..n, S # {}
  PROVE  Max(S) \in S /\ \A k \in S : k <= Max(S)
<1> DEFINE T == {n - k : k \in S}
<1>1. T \in SUBSET Nat /\ T # {}
  <2>1. PICK k \in S : TRUE
    OBVIOUS
  <2>2. n - k \in T /\ \A j \in 1..n : n - j \in Nat
    OBVIOUS
  <2> QED
    BY <2>2
<1>2. PICK t \in T : \A k \in T : t <= k
  <2> HIDE DEF T
  <2> QED
    BY <1>1, SmallestOf
<1>3. PICK m \in S : t = n - m
  BY <1>2
<1>4. \A k \in S : m >= k
  BY <1>2, <1>3
<1> QED
  BY <1>3, <1>4 DEF Max

-----------------------------------------------------------------------------
(* What the parser of a page has found after the events at the places of   *)
(* s, in the order of the page: a link is active when the last tag is an   *)
(* anchor, and skipped when the last anchor asks for another Python.       *)
Tags(page) == {i \in DOMAIN page : "tag" \in DOMAIN page[i]}
Anchors(page) == {i \in Tags(page) : page[i].tag = "a"}
ActiveIn(page, s) == \E i \in s \cap Anchors(page) : \A j \in s \cap Tags(page) : j <= i
SkipIn(page, s) == \E i \in s \cap Anchors(page) :
                     Incompatible(page[i].python) /\ \A j \in s \cap Anchors(page) : j <= i
FoundIn(page, s) ==
  {page[i].text : i \in {k \in s \ Tags(page) :
                           LET before == s \cap 1..(k - 1)
                           IN  ActiveIn(page, before) /\ ~SkipIn(page, before)}}
ParserAfter(page, s) ==
  [active |-> ActiveIn(page, s), skip |-> SkipIn(page, s), dists |-> FoundIn(page, s)]
Handle(parser, event) == IF "tag" \in DOMAIN event THEN HandleTag(parser, event)
                                                   ELSE HandleData(parser, event)

LEMMA NothingParsed ==
  ASSUME NEW page PROVE ParserAfter(page, {}) = NoLinks
BY DEF ParserAfter, NoLinks, ActiveIn, SkipIn, FoundIn

LEMMA OneMoreEvent ==
  ASSUME NEW page, NEW n \in Nat, DOMAIN page = 1..n,
         NEW s \in SUBSET (1..n), NEW m \in s, \A k \in s : k <= m
  PROVE  ParserAfter(page, s) = Handle(ParserAfter(page, s \ {m}), page[m])
<1> DEFINE rest == s \ {m}
<1>0. m \in DOMAIN page /\ m \in Int /\ s \subseteq Int
  OBVIOUS
<1>1. s \cap 1..(m - 1) = rest /\ \A k \in rest : s \cap 1..(k - 1) = rest \cap 1..(k - 1)
  <2>1. \A j \in s : j \in 1..(m - 1) <=> j # m
    BY <1>0
  <2>2. \A k \in rest : m \notin 1..(k - 1)
    BY <1>0
  <2> QED
    BY <2>1, <2>2, Zenon
<1>2. Tags(page) \subseteq 1..n /\ Anchors(page) \subseteq Tags(page)
  BY DEF Tags, Anchors
<1>e. /\ ActiveIn(page, rest) \in BOOLEAN /\ SkipIn(page, rest) \in BOOLEAN
      /\ ActiveIn(page, s) \in BOOLEAN /\ SkipIn(page, s) \in BOOLEAN
  BY DEF ActiveIn, SkipIn
<1> DEFINE act == ActiveIn(page, rest)
           skip == SkipIn(page, rest)
           found == FoundIn(page, rest)
           event == page[m]
           parser == [active |-> act, skip |-> skip, dists |-> found]
<1>o. /\ "tag" \in DOMAIN event /\ event.tag = "a" =>
           Handle(parser, event) = [active |-> TRUE, skip |-> Incompatible(event.python),
                                    dists |-> found]
      /\ "tag" \in DOMAIN event /\ event.tag # "a" =>
           Handle(parser, event) = [active |-> FALSE, skip |-> skip, dists |-> found]
      /\ "tag" \notin DOMAIN event /\ act /\ ~skip =>
           Handle(parser, event) = [active |-> act, skip |-> skip,
                                    dists |-> found \cup {event.text}]
      /\ "tag" \notin DOMAIN event /\ ~(act /\ ~skip) => Handle(parser, event) = parser
  <2>1. act \in BOOLEAN /\ skip \in BOOLEAN
    BY <1>e
  <2> HIDE DEF act, skip, found, event
  <2> QED
    BY <2>1 DEF Handle, HandleTag, HandleData, Skips
<1>p. ParserAfter(page, rest) = parser
  BY DEF ParserAfter
<1> HIDE DEF parser
<1>3. CASE m \in Tags(page)
  <2>1. FoundIn(page, s) = FoundIn(page, rest)
    BY <1>1, <1>3 DEF FoundIn
  <2>2. ActiveIn(page, s) <=> m \in Anchors(page)
    BY <1>0, <1>2, <1>3 DEF ActiveIn
  <2>3. CASE m \in Anchors(page)
    <3>1. SkipIn(page, s) <=> Incompatible(page[m].python)
      BY <1>0, <1>2, <2>3 DEF SkipIn
    <3>2. SkipIn(page, s) = Incompatible(page[m].python) /\ ActiveIn(page, s) = TRUE
      BY <1>e, <2>2, <2>3, <3>1 DEF Incompatible
    <3> QED
      BY <1>0, <1>o, <1>p, <2>1, <2>3, <3>2, Zenon DEF ParserAfter, Tags, Anchors
  <2>4. CASE m \notin Anchors(page)
    <3>1. (SkipIn(page, s) <=> SkipIn(page, rest)) /\ ~ActiveIn(page, s)
      BY <1>2, <2>2, <2>4 DEF SkipIn
    <3>2. SkipIn(page, s) = SkipIn(page, rest) /\ ActiveIn(page, s) = FALSE
      BY <1>e, <3>1
    <3> QED
      BY <1>0, <1>o, <1>p, <1>3, <2>1, <2>4, <3>2, Zenon DEF ParserAfter, Tags, Anchors
  <2> QED
    BY <2>3, <2>4
<1>4. CASE m \notin Tags(page)
  <2>0. (ActiveIn(page, s) <=> ActiveIn(page, rest)) /\ (SkipIn(page, s) <=> SkipIn(page, rest))
    BY <1>2, <1>4 DEF ActiveIn, SkipIn
  <2>1. ActiveIn(page, s) = ActiveIn(page, rest) /\ SkipIn(page, s) = SkipIn(page, rest)
    BY <1>e, <2>0
  <2>2. CASE ActiveIn(page, rest) /\ ~SkipIn(page, rest)
    <3>1. FoundIn(page, s) = FoundIn(page, rest) \cup {page[m].text}
      BY <1>1, <1>4, <2>2 DEF FoundIn
    <3> QED
      BY <1>0, <1>o, <1>p, <1>4, <2>1, <2>2, <3>1, Zenon DEF ParserAfter, Tags
  <2>3. CASE ~(ActiveIn(page, rest) /\ ~SkipIn(page, rest))
    <3>1. FoundIn(page, s) = FoundIn(page, rest)
      BY <1>1, <1>4, <2>3 DEF FoundIn
    <3> QED
      BY <1>0, <1>o, <1>p, <1>4, <2>1, <2>3, <3>1, Zenon DEF ParserAfter, Tags, parser
  <2> QED
    BY <2>2, <2>3
<1> QED
  BY <1>3, <1>4

(* The fold over a page has this result. *)
LEMMA LinksAreFound ==
  ASSUME NEW page, NEW n \in Nat, DOMAIN page = 1..n
  PROVE  Links(page) = Source \cap FoundIn(page, 1..n)
<1> DEFINE Places == SUBSET (1..n)
           after == [s \in Places |-> ParserAfter(page, s)]
           Folds(f) == f = [s \in Places |->
                              IF s = {} THEN NoLinks
                              ELSE Handle(f[s \ {Max(s)}], page[Max(s)])]
           iter == CHOOSE f : Folds(f)
<1>1. ASSUME NEW s \in Places, s # {} PROVE Max(s) \in s /\ \A k \in s : k <= Max(s)
  BY <1>1, LargestOf
<1>2. Folds(after)
  <2>1. ASSUME NEW s \in Places
        PROVE  ParserAfter(page, s) = IF s = {} THEN NoLinks
                                      ELSE Handle(after[s \ {Max(s)}], page[Max(s)])
    <3>1. CASE s = {}
      BY <3>1, NothingParsed
    <3>2. CASE s # {}
      <4> DEFINE m == Max(s)
      <4>1. m \in s /\ \A k \in s : k <= m
        BY <1>1, <3>2
      <4>2. after[s \ {m}] = ParserAfter(page, s \ {m})
        OBVIOUS
      <4> HIDE DEF m
      <4>3. ParserAfter(page, s) = Handle(ParserAfter(page, s \ {m}), page[m])
        BY <4>1, OneMoreEvent
      <4> QED
        BY <3>2, <4>2, <4>3, Zenon DEF m
    <3> QED
      BY <3>1, <3>2
  <2> QED
    BY <2>1
<1>3. Folds(iter)
  <2> HIDE DEF Folds, after
  <2> QED
    BY <1>2
<1>4. Places \subseteq {s \in Places : iter[s] = after[s]}
  <2> DEFINE G == {s \in Places : iter[s] = after[s]}
  <2>1. ASSUME NEW s \in Places, \A t \in SUBSET s : t # s => t \in G PROVE s \in G
    <3>1. CASE s = {}
      BY <1>2, <1>3, <3>1
    <3>2. CASE s # {}
      <4>1. s \ {Max(s)} \in G
        BY <1>1, <2>1, <3>2
      <4>2. iter[s \ {Max(s)}] = after[s \ {Max(s)}]
        BY <4>1
      <4>3. iter[s] = Handle(iter[s \ {Max(s)}], page[Max(s)])
        <5> HIDE DEF iter
        <5> QED BY <1>3, <3>2
      <4>4. after[s] = Handle(after[s \ {Max(s)}], page[Max(s)])
        <5> HIDE DEF after
        <5> QED BY <1>2, <3>2
      <4> QED
        BY <4>2, <4>3, <4>4
    <3> QED
      BY <3>1, <3>2
  <2> DEFINE D == 1..n
  <2>2. IsFiniteSet(D)
    BY FS_Interval
  <2>3. \A s \in SUBSET D : (\A t \in SUBSET s : t # s => t \in G) => s \in G
    BY <2>1
  <2>4. SUBSET D \subseteq G
    <3> HIDE DEF G, D
    <3> QED
      BY <2>2, <2>3, SubsetInduction
  <2> QED
    BY <2>4
<1>5. iter[1..n].dists = FoundIn(page, 1..n)
  <2>1. 1..n \in Places
    OBVIOUS
  <2>2. iter[1..n] = after[1..n]
    <3> HIDE DEF iter, after
    <3> QED BY <1>4, <2>1
  <2>3. after[1..n] = ParserAfter(page, 1..n)
    BY <2>1
  <2>4. iter[1..n] = ParserAfter(page, 1..n)
    BY <2>2, <2>3, Zenon
  <2> HIDE DEF iter
  <2> QED
    BY <2>4 DEF ParserAfter
<1> QED
  BY <1>5 DEF Links, FoldLeft, MapThenFoldSet, Handle

-----------------------------------------------------------------------------
(* The filter on the versions of Python agrees with PEP 440 on the parts   *)
(* of an ordinary page. *)
LEMMA Triples ==
  /\ \A v \in [1..3 -> Nat] : v \in Seq(Nat) /\ Len(v) = 3
  /\ \A v \in Seq(Nat) : Len(v) = 3 => v \in [1..3 -> Nat]
<1>1. ASSUME NEW v \in [1..3 -> Nat] PROVE v \in Seq(Nat) /\ Len(v) = 3
  <2>1. v \in Seq(Nat)
    BY SeqDef
  <2>2. Len(v) \in Nat /\ DOMAIN v = 1..Len(v) /\ DOMAIN v = 1..3
    BY <2>1, LenProperties
  <2> QED
    BY <2>1, <2>2
<1>2. ASSUME NEW v \in Seq(Nat), Len(v) = 3 PROVE v \in [1..3 -> Nat]
  BY <1>2, LenProperties
<1> QED
  BY <1>1, <1>2

Lengths == {1, 2, 3}

LEMMA UptoTuple ==
  ASSUME NEW v \in Seq(Nat), Len(v) \in Lengths, NEW n \in Lengths, n <= Len(v)
  PROVE  /\ Upto(v, n) \in [1..3 -> Nat]
         /\ \A i \in 1..3 : Upto(v, n)[i] = IF i <= n THEN v[i] ELSE 0
<1> DEFINE w == SubSeq(v, 1, n)
           m == 3 - n
           zeros == [i \in 1..m |-> 0]
<1> USE DEF Lengths
<1> DEFINE len == Len(v)
<1>1. \A i \in 1..n : i \in 1..len
  OBVIOUS
<1>2. w \in Seq(Nat) /\ Len(w) = n /\ \A i \in 1..n : w[i] = v[i]
  BY <1>1
<1>3. m \in Nat /\ n + m = 3
  OBVIOUS
<1>4. zeros \in Seq(Nat) /\ Len(zeros) = m /\ \A i \in 1..m : zeros[i] = 0
  <2> HIDE DEF m
  <2> QED
    BY <1>3
<1>5. Upto(v, n) = w \o zeros
  BY <1>2 DEF Upto, Padded
<1> HIDE DEF w, zeros, m
<1>6. w \o zeros \in Seq(Nat) /\ Len(w \o zeros) = 3
  BY <1>2, <1>3, <1>4
<1>7. ASSUME NEW i \in 1..3 PROVE (w \o zeros)[i] = IF i <= n THEN v[i] ELSE 0
  <2>1. CASE i <= n
    <3>1. i \in 1..n
      BY <2>1
    <3> QED
      BY <1>2, <1>3, <1>4, <2>1, <3>1
  <2>2. CASE ~(i <= n)
    <3>1. i - n \in 1..m /\ i \in 1..(n + m) /\ i > n
      BY <1>3, <2>2
    <3> QED
      BY <1>2, <1>3, <1>4, <2>2, <3>1
  <2> QED
    BY <2>1, <2>2
<1> QED
  BY <1>5, <1>6, <1>7, Triples

LEMMA PaddedTuple ==
  ASSUME NEW v \in Seq(Nat), NEW len \in Lengths, Len(v) = len
  PROVE  /\ Padded(v) \in [1..3 -> Nat]
         /\ \A i \in 1..3 : Padded(v)[i] = IF i <= len THEN v[i] ELSE 0
<1>1. SubSeq(v, 1, len) = v
  BY DEF Lengths
<1>2. Upto(v, len) = Padded(v)
  BY <1>1 DEF Upto
<1>3. Len(v) \in Lengths /\ len <= Len(v)
  BY DEF Lengths
<1>4. /\ Upto(v, len) \in [1..3 -> Nat]
      /\ \A i \in 1..3 : Upto(v, len)[i] = IF i <= len THEN v[i] ELSE 0
  BY <1>3, UptoTuple, Zenon
<1> QED
  BY <1>2, <1>4, Zenon

LEMMA BeforeTuple ==
  ASSUME NEW v \in [1..3 -> Nat], NEW w \in [1..3 -> Nat]
  PROVE  Before(v, w) <=> \/ v[1] < w[1]
                          \/ v[1] = w[1] /\ v[2] < w[2]
                          \/ v[1] = w[1] /\ v[2] = w[2] /\ v[3] < w[3]
BY DEF Before

LEMMA FilterAgrees ==
  ASSUME python \in [1..3 -> Nat], NEW part, OrdinaryPart(part)
  PROVE  Parses(part) /\ (CheckPyConstraint(part) <=> PythonMeets(part))
<1> USE DEF Lengths
<1> DEFINE v == part.at
           p == Padded(v)
<1>1. python \in Seq(Nat) /\ Len(python) = 3
  BY Triples
<1>2. PICK n \in Lengths : Len(v) = n
  BY DEF OrdinaryPart
<1>3. v \in Seq(Nat) /\ (\A i \in 1..n : v[i] \in Nat) /\ 1 \in 1..n
  BY <1>2 DEF OrdinaryPart
<1>p. p \in [1..3 -> Nat] /\ \A i \in 1..3 : p[i] = IF i <= n THEN v[i] ELSE 0
  <2> HIDE DEF v
  <2> QED
    BY <1>2, <1>3, PaddedTuple
<1>4. ASSUME NEW k \in Lengths
      PROVE  /\ Upto(python, k) \in [1..3 -> Nat]
             /\ \A i \in 1..3 : Upto(python, k)[i] = IF i <= k THEN python[i] ELSE 0
  <2>1. k <= 3
    OBVIOUS
  <2> QED
    BY <1>1, <2>1, UptoTuple
<1>5. Parses(part)
  BY DEF OrdinaryPart, Parses, Operators
<1>6. CASE part.star
  <2>1. RefVersion(part) = Upto(python, n) /\ part.op \in {"==", "!="} /\ n \in {1, 2}
    BY <1>2, <1>6 DEF RefVersion, OrdinaryPart
  <2>2. Upto(python, n) = p <=> SubSeq(python, 1, n) = v
    <3> DEFINE u == Upto(python, n)
               q == SubSeq(python, 1, n)
    <3>1. q \in Seq(Nat) /\ Len(q) = n /\ \A i \in 1..n : q[i] = python[i]
      BY <1>1
    <3>2. q = v <=> \A i \in 1..n : python[i] = v[i]
      <4> HIDE DEF q, v
      <4> QED
        BY <1>2, <1>3, <3>1, SeqEqual
    <3>3. u \in [1..3 -> Nat] /\ \A i \in 1..3 : u[i] = IF i <= n THEN python[i] ELSE 0
      BY <1>4
    <3>4. u = p <=> \A i \in 1..3 : u[i] = p[i]
      <4> HIDE DEF u, p
      <4> QED
        BY <1>p, <3>3
    <3>5. (\A i \in 1..3 : u[i] = p[i]) <=> \A i \in 1..n : python[i] = v[i]
      <4>1. \A i \in 1..3 : i <= n <=> i \in 1..n
        OBVIOUS
      <4>2. 1..n \subseteq 1..3
        OBVIOUS
      <4> HIDE DEF u, p, v
      <4> QED
        BY <1>p, <3>3, <4>1, <4>2, Zenon
    <3> QED
      BY <3>2, <3>4, <3>5
  <2>3. CheckPyConstraint(part) <=> IF part.op = "==" THEN Upto(python, n) = p
                                                      ELSE Upto(python, n) # p
    BY <2>1 DEF CheckPyConstraint, Compares
  <2>4. PythonMeets(part) <=> ((SubSeq(python, 1, n) = v) <=> (part.op = "=="))
    BY <1>2, <1>6 DEF PythonMeets
  <2> QED
    BY <1>5, <2>1, <2>2, <2>3, <2>4
<1>7. CASE ~part.star
  <2> DEFINE ref == RefVersion(part)
  <2>1. ref \in [1..3 -> Nat] /\ ref[1] = python[1] /\ ref[2] = python[2]
        /\ ref[3] = (IF n = 3 THEN python[3] ELSE 0)
    <3>1. RefVersion(part) = Upto(python, IF n = 3 THEN 3 ELSE 2)
      BY <1>2, <1>7 DEF RefVersion
    <3> QED
      BY <1>4, <3>1
  <2>2. p[1] \in Nat /\ p[2] \in Nat /\ p[3] \in Nat /\ (n < 3 => p[3] = 0) /\ p[1] = v[1]
    BY <1>3, <1>p
  <2>3. python[1] \in Nat /\ python[2] \in Nat /\ python[3] \in Nat
    OBVIOUS
  <2>4. Before(ref, p) <=> Before(python, p)
    <3> HIDE DEF p, ref
    <3>1. Before(ref, p) <=> \/ ref[1] < p[1]
                             \/ ref[1] = p[1] /\ ref[2] < p[2]
                             \/ ref[1] = p[1] /\ ref[2] = p[2] /\ ref[3] < p[3]
      BY <1>p, <2>1, BeforeTuple
    <3>2. Before(python, p) <=> \/ python[1] < p[1]
                                \/ python[1] = p[1] /\ python[2] < p[2]
                                \/ python[1] = p[1] /\ python[2] = p[2] /\ python[3] < p[3]
      BY <1>p, BeforeTuple
    <3> QED
      BY <2>1, <2>2, <2>3, <3>1, <3>2
  <2>5. CASE part.op = "~="
    <3> DEFINE next == <<v[1] + 1, 0, 0>>
               minor == Upto(python, 2)
    <3>1. next \in [1..3 -> Nat] /\ next[1] = v[1] + 1 /\ next[2] = 0 /\ next[3] = 0
      BY <1>3
    <3>2. minor \in [1..3 -> Nat] /\ minor[1] = python[1] /\ minor[2] = python[2] /\ minor[3] = 0
      BY <1>4
    <3>3. CheckPyConstraint(part) <=> ~Before(ref, p) /\ Before(minor, next)
      BY <2>5 DEF CheckPyConstraint, Compares
    <3>4. PythonMeets(part) <=> ~Before(python, p) /\ python[1] = v[1]
      BY <1>7, <2>5 DEF PythonMeets
    <3>5. Before(minor, next) <=> python[1] <= v[1]
      <4> HIDE DEF next, minor
      <4>1. Before(minor, next) <=> \/ minor[1] < next[1]
                                    \/ minor[1] = next[1] /\ minor[2] < next[2]
                                    \/ minor[1] = next[1] /\ minor[2] = next[2] /\ minor[3] < next[3]
        BY <3>1, <3>2, BeforeTuple
      <4>2. v[1] \in Nat
        BY <1>3
      <4> HIDE DEF v
      <4> QED
        BY <2>3, <3>1, <3>2, <4>1, <4>2
    <3>6. ~Before(python, p) => python[1] >= v[1]
      BY <1>p, <2>2, <2>3, BeforeTuple
    <3>7. (python[1] <= v[1] /\ python[1] >= v[1]) <=> python[1] = v[1]
      BY <1>3, <2>3
    <3> QED
      BY <1>5, <2>4, <3>3, <3>4, <3>5, <3>6, <3>7, Zenon
  <2>6. CASE part.op \in {">=", "<"}
    <3>1. CheckPyConstraint(part) <=> Compares(part.op, ref, p)
      BY <2>6 DEF CheckPyConstraint
    <3>2. PythonMeets(part) <=> Compares(part.op, python, p)
      BY <1>7, <2>6 DEF PythonMeets
    <3>3. Compares(part.op, ref, p) <=> Compares(part.op, python, p)
      BY <2>4, <2>6 DEF Compares
    <3> QED
      BY <1>5, <3>1, <3>2, <3>3
  <2> QED
    BY <1>7, <2>5, <2>6 DEF OrdinaryPart
<1> QED
  BY <1>6, <1>7 DEF OrdinaryPart

LEMMA SkippedAgrees ==
  ASSUME python \in [1..3 -> Nat], NEW parts, \A j \in DOMAIN parts : OrdinaryPart(parts[j]),
         \A i \in DOMAIN parts : 1..i \subseteq DOMAIN parts
  PROVE  Incompatible(parts) <=> ~ \A j \in DOMAIN parts : PythonMeets(parts[j])
<1>1. \A j \in DOMAIN parts :
        Parses(parts[j]) /\ (CheckPyConstraint(parts[j]) <=> PythonMeets(parts[j]))
  BY FilterAgrees
<1> QED
  BY <1>1, Zenon DEF Incompatible

(* Of an ordinary page, the parser finds the links for this Python. *)
LEMMA PageIsRead ==
  ASSUME python \in [1..3 -> Nat], NEW page, OrdinaryPage(page)
  PROVE  Links(page) = {f \in Source : AnchorFor(page, f)}
<1> DEFINE n == Len(page)
<1>1. n \in Nat /\ DOMAIN page = 1..n
  BY DEF OrdinaryPage
<1>2. ASSUME NEW i \in Anchors(page)
      PROVE  Incompatible(page[i].python) <=> ~ \A j \in DOMAIN page[i].python : PythonMeets(page[i].python[j])
  <2> HIDE DEF n
  <2> QED
    BY SkippedAgrees, Zenon DEF OrdinaryPage, Anchors, Tags
<1>3. ASSUME NEW f \in Source, AnchorFor(page, f) PROVE f \in FoundIn(page, 1..n)
  <2>1. PICK i \in 1..(n - 1) :
          /\ "tag" \in DOMAIN page[i] /\ page[i].tag = "a"
          /\ "text" \in DOMAIN page[i + 1] /\ page[i + 1].text = f
          /\ \A j \in DOMAIN page[i].python : PythonMeets(page[i].python[j])
    BY <1>3 DEF AnchorFor
  <2>2. i \in 1..n /\ i + 1 \in 1..n /\ (1..n) \cap 1..((i + 1) - 1) = 1..i
    BY <1>1
  <2>3. i \in Anchors(page) /\ i + 1 \notin Tags(page)
    BY <1>1, <2>1, <2>2 DEF Anchors, Tags, OrdinaryPage
  <2>4. ~Incompatible(page[i].python)
    BY <1>2, <2>1, <2>3
  <2>5. ActiveIn(page, 1..i)
    BY <2>2, <2>3 DEF ActiveIn
  <2>6. ~SkipIn(page, 1..i)
    <3> SUFFICES ASSUME NEW k \in (1..i) \cap Anchors(page), Incompatible(page[k].python),
                        \A j \in (1..i) \cap Anchors(page) : j <= k
                 PROVE  FALSE
      BY DEF SkipIn
    <3>1. k = i
      BY <2>2, <2>3
    <3> QED
      BY <2>4, <3>1
  <2> QED
    BY <2>1, <2>2, <2>3, <2>5, <2>6 DEF FoundIn
<1>4. ASSUME NEW f \in Source, f \in FoundIn(page, 1..n) PROVE AnchorFor(page, f)
  <2>1. PICK k \in (1..n) \ Tags(page) :
          /\ f = page[k].text
          /\ ActiveIn(page, (1..n) \cap 1..(k - 1)) /\ ~SkipIn(page, (1..n) \cap 1..(k - 1))
    BY <1>4 DEF FoundIn
  <2>2. "text" \in DOMAIN page[k] /\ k > 1 /\ "tag" \in DOMAIN page[k - 1]
    BY <1>1, <2>1 DEF OrdinaryPage, Tags
  <2>3. (1..n) \cap 1..(k - 1) = 1..(k - 1) /\ k - 1 \in 1..(n - 1) /\ k - 1 \in 1..n /\ (k - 1) + 1 = k
    BY <1>1, <2>2
  <2>4. PICK i \in (1..(k - 1)) \cap Anchors(page) : \A j \in (1..(k - 1)) \cap Tags(page) : j <= i
    BY <2>1, <2>3 DEF ActiveIn
  <2>5. k - 1 \in Tags(page) /\ k - 1 \in 1..(k - 1)
    BY <1>1, <2>2, <2>3 DEF Tags
  <2>6. i = k - 1
    BY <2>3, <2>4, <2>5
  <2>7. ~Incompatible(page[k - 1].python)
    <3>1. \A j \in (1..(k - 1)) \cap Anchors(page) : j <= k - 1
      BY <2>3
    <3> QED
      BY <2>1, <2>3, <2>4, <2>6, <3>1 DEF SkipIn
  <2>8. \A j \in DOMAIN page[k - 1].python : PythonMeets(page[k - 1].python[j])
    BY <1>2, <2>4, <2>6, <2>7
  <2>9. page[k - 1].tag = "a"
    BY <2>4, <2>6 DEF Anchors
  <2> QED
    BY <2>1, <2>2, <2>3, <2>8, <2>9 DEF AnchorFor
<1>5. Links(page) = Source \cap FoundIn(page, 1..n)
  BY <1>1, LinksAreFound
<1> HIDE DEF n
<1> QED
  BY <1>3, <1>4, <1>5

(* The links of a page are those for this Python, whatever the number and  *)
(* the order of its links and breaks, for any version of Python and any    *)
(* names of files, if the pages of the index are ordinary ones: no link    *)
(* keeps the mark of the one before, and none is lost. *)
THEOREM LinksAreComplete ==
  ASSUME \A page \in Pages : OrdinaryPage(page)
  PROVE  Spec => []LinksComplete
<1>1. IndexInv => LinksComplete
  <2> SUFFICES ASSUME IndexInv PROVE LinksComplete
    OBVIOUS
  <2>1. python \in [1..3 -> Nat]
    BY PythonAssumption DEF IndexInv, ClientType
  <2> QED
    BY <2>1, PageIsRead DEF LinksComplete
<1> QED
  BY <1>1, IndexClientInvariant, PTL DEF Spec
=============================================================================
