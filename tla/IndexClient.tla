----------------------------- MODULE IndexClient -----------------------------
(***************************************************************************)
(* PyPIRepository of repos/pypi.py for one project: the page of the index  *)
(* is scanned for links, a candidate is downloaded into the wheel          *)
(* directory, and its metadata is extracted (SourceMetadata).              *)
(*                                                                         *)
(* The process may be killed at any time; the wheel directory stays, and   *)
(* the next process finds what was left there.                             *)
(***************************************************************************)
EXTENDS SourceMetadata, Integers, SequencesExt

CONSTANTS
  Main,      \* the thread of the program
  Hashed,    \* files whose link has a #sha256= fragment
  Spelling,  \* ways the requirements on the project write its name
  Pages,     \* pages the index may answer with
  Retries,   \* retries of a PyPIRepository
  Pythons    \* versions of Python that may run req-compile
(* What filename_to_candidate takes for a candidate is a wheel or an       *)
(* archive, or a .tar: extract_metadata does not know that one, and takes  *)
(* it for a directory, in which it finds nothing.  do_get_candidate passes *)
(* over archives whose names give no version. *)
ASSUME IndexAssumption ==
  /\ Main \in Thread
  /\ Hashed \subseteq Source
  /\ Retries \in Nat
  /\ \A f \in Source : \/ Shape[f].format \in {"wheel", "sdist"} /\ Shape[f].versioned
                       \/ Shape[f].format = "directory" /\ Shape[f].setup = "none"
ASSUME PythonAssumption == Pythons \subseteq [1..3 -> Nat]

VARIABLES
  python,     \* sys.version
  scanned,    \* the lru_cache of _scan_page_links: spelling -> retries left -> links
  client,     \* what the repository is doing
  name,       \* req.name, as the last requirement spells it
  left,       \* retries left in the scan under way
  listing,    \* spelling -> what get_candidates last came back with
  candidate,  \* the file of the candidate resolve_candidate is given
  cached,     \* it was found in the wheel directory
  outcome     \* what resolve_candidate came back with

clientVars == <<client, name, left, listing, candidate, cached, outcome>>
vars == <<metadataVars, python, scanned, clientVars>>
metadataUnchanged == UNCHANGED <<proc, failed, stepVars, patchVars, dirVars, temps>>

Listings == [links : SUBSET Source]
NoListing == [error |-> "none"]
HttpError == [error |-> "http"]

-----------------------------------------------------------------------------
(* check_python_compatibility: a part of the expression is an operator and *)
(* one to three segments, the last of which may be a star. *)

Padded(v) == v \o [i \in 1..(3 - Len(v)) |-> 0]
Before(v, w) == \E i \in 1..3 : v[i] < w[i] /\ \A j \in 1..(i - 1) : v[j] = w[j]
Compares(op, v, w) == CASE op = "<" -> Before(v, w)
                        [] op = "<=" -> ~Before(w, v)
                        [] op = ">" -> Before(w, v)
                        [] op = ">=" -> ~Before(v, w)
                        [] op = "==" -> v = w
                        [] op = "!=" -> v # w
Operators == {"<", "<=", ">", ">=", "==", "!=", "~="}
Upto(v, n) == Padded(SubSeq(v, 1, n))

(* ref_version: as much of Python's version as the part speaks of, but no  *)
(* less than the minor version where there is no star. *)
RefVersion(part) ==
  IF part.star THEN Upto(python, Len(part.at))
               ELSE Upto(python, IF Len(part.at) = 3 THEN 3 ELSE 2)

CheckPyConstraint(part) ==
  IF part.op = "~="
    THEN /\ Compares(">=", RefVersion(part), Padded(part.at))
         /\ Before(Upto(python, 2), <<part.at[1] + 1, 0, 0>>)
    ELSE Compares(part.op, RefVersion(part), Padded(part.at))

(* all() stops at the first part that does not hold; a part that cannot be *)
(* parsed before that leaves the link in. *)
Parses(part) == part.op \in Operators
Incompatible(parts) ==
  \E i \in DOMAIN parts : /\ \A j \in 1..i : Parses(parts[j])
                          /\ ~CheckPyConstraint(parts[i])

-----------------------------------------------------------------------------
(* LinksHTMLParser: a page is a sequence of start tags and texts.          *)

NoLinks == [active |-> FALSE, skip |-> FALSE, dists |-> {}]

(* Mutant: the next link keeps the mark of the last. *)
SkipsOn(parser, parts) == parser.skip \/ Incompatible(parts)
Skips(parser, parts) == Incompatible(parts)

(* Any tag ends the active link, only an anchor sets a new one. *)
HandleTag(parser, event) ==
  IF event.tag = "a"
    THEN [parser EXCEPT !.active = TRUE, !.skip = Skips(parser, event.python)]
    ELSE [parser EXCEPT !.active = FALSE]
HandleData(parser, event) ==
  IF parser.active /\ ~parser.skip
    THEN [parser EXCEPT !.dists = @ \cup {event.text}] ELSE parser

(* filename_to_candidate: a text that names no file is no candidate.       *)
Links(page) ==
  Source \cap
    FoldLeft(LAMBDA parser, event : IF "tag" \in DOMAIN event THEN HandleTag(parser, event)
                                                              ELSE HandleData(parser, event),
             NoLinks, page).dists

-----------------------------------------------------------------------------
Init ==
  /\ InitMetadata
  /\ files = [f \in Source |-> "absent"]
  /\ python \in Pythons
  /\ scanned = [s \in Spelling |-> [r \in 0..Retries |-> NoListing]]
  /\ client = "idle" /\ name \in Spelling /\ left = Retries
  /\ listing = [s \in Spelling |-> NoListing] /\ candidate = Nothing
  /\ cached = TRUE /\ outcome = "none"

(* Only a MetadataError is caught: another exception ends the program. *)
Alive == outcome # "exception" /\ \A s \in Spelling : listing[s] # HttpError

-----------------------------------------------------------------------------
(* get_candidates *)

(* The name is that of the requirement: merged requirements have the       *)
(* normalised one, one that stands alone has what its file says.           *)
GetCandidates(s) ==
  /\ client = "idle" /\ Alive
  /\ client' = "scanning" /\ name' = s /\ left' = Retries
  /\ UNCHANGED <<metadataVars, python, scanned, listing, candidate, cached, outcome>>

(* lru_cache: the key has the name as it is spelled, although the page is  *)
(* the same for every spelling. *)
(* Mutant: every scan asks the index. *)
NeverKnown(r) == FALSE
Known(r) == scanned[name][r] # NoListing

ScanAnswers(links) == /\ client' = "idle" /\ left' = Retries
                      /\ listing' = [listing EXCEPT ![name] = links]
CachedScan == /\ client = "scanning" /\ Known(left)
              /\ ScanAnswers(scanned[name][left])
              /\ UNCHANGED scanned
(* A 404 is a page without links; the calls between the first and the one  *)
(* that succeeded are cached, too. *)
PageFetched ==
  /\ client = "scanning" /\ ~Known(left)
  /\ \E links \in {Links(page) : page \in Pages} \cup {{}} :
       /\ ScanAnswers([links |-> links])
       /\ scanned' = [scanned EXCEPT ![name] =
                        [r \in 0..Retries |-> IF r >= left THEN [links |-> links] ELSE @[r]]]

ServerError == /\ client = "scanning" /\ ~Known(left)
               /\ left > 0 /\ left' = left - 1
               /\ UNCHANGED <<client, listing, scanned>>
(* Another status, the last 5xx, or no connection: nothing is cached. *)
ScanFails == /\ client = "scanning" /\ ~Known(left)
             /\ ScanAnswers(HttpError)
             /\ UNCHANGED scanned
Scan == /\ CachedScan \/ PageFetched \/ ServerError \/ ScanFails
        /\ UNCHANGED <<metadataVars, python, name, candidate, cached, outcome>>

-----------------------------------------------------------------------------
(* resolve_candidate: _do_download, then extract_metadata *)

(* Mutant: a file of that name will do. *)
IsThere(f) == f \in Hashed /\ files[f] # "absent"
HashMatches(f) == f \in Hashed /\ files[f] = "whole"

ExtractNow(f) == Extract(Main, f) /\ client' = "extracting"

(* One of the candidates that were listed for this requirement *)
ResolveCandidate(f) ==
  /\ client = "idle" /\ Alive
  /\ listing[name] \in Listings /\ f \in listing[name].links
  /\ candidate' = f /\ outcome' = "none" /\ cached' = TRUE
  /\ IF HashMatches(f)
       THEN ExtractNow(f)
       ELSE /\ client' = "requesting"
            /\ files' = [files EXCEPT ![f] = IF f \in Hashed THEN "absent" ELSE @]
            /\ metadataUnchanged
  /\ UNCHANGED <<python, scanned, name, left, listing>>

(* session.get raises, or answers *)
Raises == client' = "idle" /\ outcome' = "exception"
RequestFails == /\ client = "requesting" /\ Raises
                /\ UNCHANGED <<metadataVars, python, scanned, name, left, listing, candidate, cached>>

OpenFile == /\ client = "requesting"
            /\ client' = "writing"
            /\ files' = [files EXCEPT ![candidate] = "part"]
            /\ metadataUnchanged
            /\ UNCHANGED <<python, scanned, name, left, listing, candidate, cached, outcome>>

(* Whatever came is written: neither the status nor the hash is looked at. *)
(* A connection that is cut off ends the loop, or raises. *)
Download ==
  /\ client = "writing"
  /\ \E came \in {"whole", "part", "page"} : files' = [files EXCEPT ![candidate] = came]
  /\ client' = "downloaded" /\ cached' = FALSE
  /\ metadataUnchanged
  /\ UNCHANGED <<python, scanned, name, left, listing, candidate, outcome>>
DownloadFails == /\ client = "writing" /\ Raises
                 /\ UNCHANGED <<metadataVars, python, scanned, name, left, listing, candidate, cached>>

ExtractDownload == /\ client = "downloaded" /\ ExtractNow(candidate)
                   /\ UNCHANGED <<python, scanned, name, left, listing, candidate, cached, outcome>>

Extracting == /\ client = "extracting"
              /\ ExtractStep(Main)
              /\ UNCHANGED <<python, scanned, clientVars>>

(* Mutant: the file goes in any case. *)
RemovesAnyFile == TRUE
RemovesFile == ~cached
(* A file that was just downloaded and has no metadata is removed.         *)
Resolved ==
  /\ client = "extracting" /\ at[Main] = "idle"
  /\ client' = "idle"
  /\ outcome' = answer[Main]
  /\ files' = [files EXCEPT ![candidate] =
                 IF answer[Main] = "MetadataError" /\ RemovesFile THEN "absent" ELSE @]
  /\ metadataUnchanged
  /\ UNCHANGED <<python, scanned, name, left, listing, candidate, cached>>

-----------------------------------------------------------------------------
(* The process ends or is killed; another one starts with what is in the   *)
(* wheel directory.  (Temporary directories of the old one stay, but are   *)
(* not followed.) *)
Restart ==
  /\ proc' = [t \in Thread |-> NoCall] /\ failed' = {} /\ temps' = {}
  /\ at' = [t \in Thread |-> "idle"] /\ subject' = [t \in Thread |-> Nothing]
  /\ answer' = [t \in Thread |-> "none"] /\ metadata' = [t \in Thread |-> NoResult]
  /\ installed' = [f \in Patched |-> Original]
  /\ saved' = [t \in Thread |-> [f \in Patched |-> Nothing]]
  /\ workdir' = Home /\ oldcwd' = Home /\ lock' = NoThread
  /\ scanned' = [s \in Spelling |-> [r \in 0..Retries |-> NoListing]]
  /\ client' = "idle" /\ name' \in Spelling /\ left' = Retries
  /\ listing' = [s \in Spelling |-> NoListing]
  /\ candidate' = Nothing /\ cached' = TRUE /\ outcome' = "none"
  /\ UNCHANGED <<files, python>>

ClientStep == \/ Scan
              \/ RequestFails \/ OpenFile \/ Download \/ DownloadFails \/ ExtractDownload
              \/ Resolved
Next == \/ \E s \in Spelling : GetCandidates(s)
        \/ \E f \in Source : ResolveCandidate(f)
        \/ ClientStep \/ Extracting
        \/ Restart

(* A request that is sent is answered: the code sets no timeout, so this   *)
(* is an assumption about the index, as is the end of every build. *)
Spec == Init /\ [][Next]_vars
FairSpec == Spec /\ WF_vars(ClientStep) /\ MetadataFairness /\ OrphansEnd

-----------------------------------------------------------------------------
TypeOK ==
  /\ TypeMetadata
  /\ python \in Pythons
  /\ scanned \in [Spelling -> [0..Retries -> Listings \cup {NoListing}]]
  /\ name \in Spelling
  /\ client \in {"idle", "scanning", "requesting", "writing", "downloaded", "extracting"}
  /\ left \in 0..Retries
  /\ listing \in [Spelling -> Listings \cup {NoListing, HttpError}]
  /\ candidate \in Source \cup {Nothing}
  /\ cached \in BOOLEAN
  /\ outcome \in Answers

(* No distribution comes out of a download that was cut off or of an error *)
(* page, and no such file is taken for one downloaded before, whenever the *)
(* process was killed: the next one downloads it again. *)
WholeOrNothing ==
  (outcome = "metadata" \/ (client = "extracting" /\ cached))
    => files[candidate] = "whole"

(* A file in the wheel directory that is known by its hash is not touched  *)
(* by a process that did not download it, however that process ends. *)
KeepsVerified ==
  [][\A f \in Hashed : files[f] = "whole" /\ files'[f] # "whole"
       => client = "extracting" /\ ~cached /\ f = candidate]_vars

(* A download that went wrong does not condemn a source archive for the    *)
(* rest of the process: FAILED_BUILDS only takes those that could be       *)
(* opened.  (A wheel that cannot be read is recorded as it is.) *)
CondemnsOnlyWhole ==
  [][\A f \in failed' \ failed : Shape[f].format = "sdist" => files[f] = "whole"]_vars

(* Within a process, every question for the candidates of a project under  *)
(* the same spelling has the same answer, whatever the index has changed   *)
(* and whatever was asked under other spellings in between.  (A walkback   *)
(* that leaves one requirer of several, or one more, may ask under another *)
(* spelling, and choose from another list.) *)
OneListing ==
  [][\A s \in Spelling :
       {listing[s], listing'[s]} \subseteq Listings => listing'[s] = listing[s]]_vars

(* The links of a page are those for this Python, for the expressions      *)
(* where the filter does what PEP 440 says: >=, < and ~= with two segments *)
(* and == and != with a star (others: see README). *)
PythonMeets(part) ==
  \/ part.star /\ ((SubSeq(python, 1, Len(part.at)) = part.at) <=> (part.op = "=="))
  \/ ~part.star /\ part.op = "~=" /\ ~Before(python, Padded(part.at))
                 /\ python[1] = part.at[1]
  \/ ~part.star /\ part.op # "~=" /\ Compares(part.op, python, Padded(part.at))
AnchorFor(page, f) ==
  \E i \in 1..(Len(page) - 1) :
    /\ "tag" \in DOMAIN page[i] /\ page[i].tag = "a"
    /\ "text" \in DOMAIN page[i + 1] /\ page[i + 1].text = f
    /\ \A j \in DOMAIN page[i].python : PythonMeets(page[i].python[j])
LinksComplete == \A page \in Pages : Links(page) = {f \in Source : AnchorFor(page, f)}

(* A page as an index of packages writes it: the name of a file stands     *)
(* directly behind a start tag, and of Python's versions only what the     *)
(* filter understands as PEP 440 does is asked for. *)
OrdinaryPart(part) ==
  /\ part.at \in Seq(Nat) /\ Len(part.at) \in 1..3 /\ part.star \in BOOLEAN
  /\ IF part.star THEN part.op \in {"==", "!="} /\ Len(part.at) < 3
                  ELSE \/ part.op \in {">=", "<"}
                       \/ part.op = "~=" /\ Len(part.at) = 2
OrdinaryPage(page) ==
  /\ DOMAIN page = 1..Len(page) /\ Len(page) \in Nat
  /\ \A i \in DOMAIN page :
       /\ "tag" \in DOMAIN page[i] => "text" \notin DOMAIN page[i]
       /\ "tag" \notin DOMAIN page[i] => "text" \in DOMAIN page[i]
       /\ "tag" \in DOMAIN page[i] /\ page[i].tag = "a" =>
            \A j \in DOMAIN page[i].python : /\ 1..j \subseteq DOMAIN page[i].python
                                             /\ OrdinaryPart(page[i].python[j])
       /\ "text" \in DOMAIN page[i] /\ page[i].text \in Source =>
            i > 1 /\ "tag" \in DOMAIN page[i - 1]

(* A call of the repository comes back: the retries end, and so does every *)
(* build, within its timeout. *)
AlwaysAnswers == client # "idle" ~> client = "idle"
=============================================================================
