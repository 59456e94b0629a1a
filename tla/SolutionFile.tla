---------------------------- MODULE SolutionFile ----------------------------
(***************************************************************************)
(* A solution is written as a requirements file (write_requirements_file   *)
(* of cmdline.py), and a later compilation reads it back, line after line, *)
(* as a repository (SolutionRepository of repos/solution.py).              *)
(*                                                                         *)
(* A physical line is a sequence of tokens: a pin, a hash, a directive and *)
(* the parts of its comment between the characters #; continued says that  *)
(* it ends in a backslash.  No requirement of a solution conflicts with    *)
(* its pins, so that add_dist (DistGraph) adds nodes and edges only; they  *)
(* are kept here as the requirements of each distribution.                 *)
(***************************************************************************)
EXTENDS Naturals, FiniteSets, SequencesExt

CONSTANTS
  Key,        \* projects
  File,       \* input files
  Recognised, \* those of them whose names end in .txt or .out, or hold a slash
  Extra,
  Solutions,  \* what may have been resolved
  Excluded,   \* excluded_packages, which are to be upgraded
  None
Hash == {"hash", None}
Url == {"url", "url with fragment", None}
Pin == [version : Nat, hash : Hash, url : Url]
Missing == [version |-> None, hash |-> None, url |-> None]

(* pins are the distributions the file lists; requires says who requires   *)
(* what: a pin, a project that is not listed (a local one), or an input    *)
(* file.  under are the extras of the requirement's marker, spec and       *)
(* extras what it asks for. *)
Edge == [from : Key \cup File, under : SUBSET Extra, name : Key, spec : STRING,
         extras : SUBSET Extra]
ASSUME SolutionAssumption ==
  \A s \in Solutions : /\ DOMAIN s.pins \subseteq Key
                       /\ \A p \in DOMAIN s.pins : /\ s.pins[p] \in Pin
                                                   /\ \E e \in s.requires : e.name = p
                       /\ \A e \in s.requires : e \in Edge
ASSUME KeyAssumption == Key \cap File = {} /\ Recognised \subseteq File /\ Extra # {}

(* pins is not no_pins, explain not no_explanations; no_comments is none   *)
(* of annotate, explain and urls. *)
Options == [multiline : BOOLEAN, pins : BOOLEAN, hashes : BOOLEAN, annotate : BOOLEAN,
            explain : BOOLEAN, urls : BOOLEAN]

VARIABLES
  solution,  \* what was resolved
  options,   \* of write_requirements_file
  lines,     \* lines of the file the loop has not seen
  partial,   \* _partial_line
  dists,     \* the nodes of the collection: what their lines say, or Missing
  reqs,      \* the requirements appended to their metadata
  status
vars == <<solution, options, lines, partial, dists, reqs, status>>

Token(kind, value) == [kind |-> kind, value |-> value]
Line(tokens) == [tokens |-> tokens, continued |-> FALSE]
Continued(tokens) == [tokens |-> tokens, continued |-> TRUE]
When(test, seq) == IF test THEN seq ELSE <<>>

-----------------------------------------------------------------------------
(* build_explanation, with _process_constraint_req for each requirement    *)
Explanation(s, p) ==
  {[source |-> e.from, under |-> e.under, spec |-> e.spec, extras |-> e.extras] :
     e \in {x \in s.requires : x.name = p}}

(* ExplanationRender: one constraint after via, or via alone and each of   *)
(* them on a line of its own; in the single-line form a list. *)
Constraints(s, p) == SetToSeq(Explanation(s, p))
ViaLines(s, p) ==
  IF Len(Constraints(s, p)) = 1
    THEN <<Line(<<Token("via source", Constraints(s, p)[1])>>)>>
    ELSE <<Line(<<Token("via", None)>>)>>
         \o [i \in DOMAIN Constraints(s, p) |-> Line(<<Token("source", Constraints(s, p)[i])>>)]

(* A URL contains a # where its index gave it a fragment, which a reader   *)
(* takes for another part of the comment. *)
Fragment(url) == When(url = "url with fragment", <<Token("fragment", url)>>)

(* The main loop of write_requirements_file for one distribution.  Its     *)
(* hash is in its first line or in a continuation of it; a comment is one  *)
(* line for each of its parts or, in the single-line form, one part that   *)
(* holds the list of the constraints and the URL. *)
PinToken(s, o, p) == Token("pin", [name |-> p, version |-> IF o.pins THEN s.pins[p].version ELSE None])
HashTokens(s, o, p) == When(o.hashes /\ s.pins[p].hash # None, <<Token("hash", s.pins[p].hash)>>)
UrlOf(s, o, p) == IF o.urls THEN s.pins[p].url ELSE None
MultiLine(s, o, p) ==
  (IF HashTokens(s, o, p) = <<>>
     THEN <<Line(<<PinToken(s, o, p)>>)>>
     ELSE <<Continued(<<PinToken(s, o, p)>>), Line(HashTokens(s, o, p))>>)
  \o When(o.annotate, <<Line(<<Token("index", None)>>)>>)
  \o When(o.explain, ViaLines(s, p))
  \o When(UrlOf(s, o, p) # None,
          <<Line(<<Token("url", UrlOf(s, o, p))>> \o Fragment(UrlOf(s, o, p)))>>)
SingleLine(s, o, p) ==
  LET listed == [sources |-> When(o.explain, Constraints(s, p)), url |-> UrlOf(s, o, p)]
  IN  <<Line(<<PinToken(s, o, p)>> \o HashTokens(s, o, p)
             \o (IF o.explain \/ listed.url # None
                   THEN <<Token("list", listed)>> \o Fragment(listed.url)
                   ELSE When(o.annotate, <<Token("index", None)>>)))>>

(* The header of annotate, the directives, and the distributions *)
Header(o) == When(o.annotate, <<Line(<<Token("index", None)>>), Line(<<>>)>>)
             \o <<Line(<<Token("directive", "--index-url")>>), Line(<<>>)>>
Written(s, o) ==
  LET listed == SetToSeq(DOMAIN s.pins)
  IN  Header(o) \o FlattenSeq([i \in DOMAIN listed |->
                                 IF o.multiline THEN MultiLine(s, o, listed[i])
                                                ELSE SingleLine(s, o, listed[i])])

-----------------------------------------------------------------------------
(* _parse_single_line *)
IsPart(token) == token.kind \notin {"pin", "hash", "directive"}
Requirement(tokens) == SelectSeq(tokens, LAMBDA token : ~IsPart(token))
Parts(tokens) == SelectSeq(tokens, IsPart)

(* The loop over the parts of a comment.  A part that ends like an archive *)
(* is a URL, which a list of constraints with a URL at its end is, too. *)
NoParts == [inSources |-> FALSE, inUrl |-> FALSE, url |-> None, sources |-> <<>>]

ScanPart(scan, part) ==
  CASE part.kind \in {"url", "list"} ->
         [scan EXCEPT !.inUrl = TRUE, !.inSources = FALSE, !.url = "url"]
    [] part.kind \notin {"url", "list"} /\ scan.inUrl ->
         [scan EXCEPT !.inUrl = FALSE, !.url = part.value]
    [] ~scan.inUrl /\ scan.inSources -> [scan EXCEPT !.sources = Append(@, part.value)]
    [] ~scan.inUrl /\ ~scan.inSources /\ part.kind = "via" -> [scan EXCEPT !.inSources = TRUE]
    [] ~scan.inUrl /\ ~scan.inSources /\ part.kind = "via source" ->
         [scan EXCEPT !.inSources = TRUE, !.sources = Append(@, part.value)]
    [] ~scan.inUrl /\ ~scan.inSources /\ part.kind \in {"index", "source"} -> scan
Scanned(tokens) == FoldLeft(ScanPart, NoParts, Parts(tokens))

(* A comment of one part that does not begin with via is split at its      *)
(* commas instead: a URL is then the path of a file, or belongs to the     *)
(* last constraint, whose specifier cannot be parsed with it. *)
IsList(tokens) == Len(Parts(tokens)) = 1 /\ Parts(tokens)[1].kind \in {"list", "index", "url"}
Listed(tokens) == IF Parts(tokens)[1].kind = "list" THEN Parts(tokens)[1].value.sources ELSE <<>>
Unparsable(tokens) ==
  /\ IsList(tokens) /\ Listed(tokens) # <<>>
  /\ Parts(tokens)[1].value.url # None
  /\ Last(Listed(tokens)).spec # "" \/ Last(Listed(tokens)).extras # {}

Sources(tokens) == IF IsList(tokens) THEN Listed(tokens) ELSE Scanned(tokens).sources
Described(tokens) ==
  LET hashes == SelectSeq(tokens, LAMBDA token : token.kind = "hash")
  IN  [version |-> tokens[1].value.version,
       hash |-> IF hashes = <<>> THEN None ELSE hashes[1].value,
       url |-> IF IsList(tokens) THEN None ELSE Scanned(tokens).url]

(* _create_metadata_req: the requirement of a source.  Of several extras   *)
(* in its brackets the first of a set is taken. *)
Required(p, c, preferred) ==
  [from |-> c.source, name |-> p, spec |-> c.spec, extras |-> c.extras,
   under |-> IF Cardinality(c.under) <= 1 THEN c.under
             ELSE IF preferred \in c.under THEN {preferred}
             ELSE {CHOOSE e \in c.under : TRUE}]

(* _add_sources: what is named but is no file gets a node, which is        *)
(* missing until its own line is read. *)
AddSources(tokens) ==
  LET p == tokens[1].value.name
      named == {c \in ToSet(Sources(tokens)) : c.source \notin Recognised}
  IN  /\ dists' = (p :> Described(tokens)) @@ dists @@ [n \in {c.source : c \in named} |-> Missing]
      /\ \E preferred \in Extra :
           reqs' = reqs \cup {Required(p, c, preferred) : c \in named}
      /\ UNCHANGED status

ParseSingleLine(tokens) ==
  \/ /\ ~IsList(tokens) /\ Scanned(tokens).sources = <<>>
     /\ status' = "refused"   \* RepositoryInitializationError: not fully annotated
     /\ UNCHANGED <<dists, reqs>>
  \/ /\ IsList(tokens) \/ Scanned(tokens).sources # <<>>
     /\ Described(tokens).version = None \/ Unparsable(tokens)
     /\ status' = "failed"    \* ValueError: failed to parse line
     /\ UNCHANGED <<dists, reqs>>
  \/ /\ IsList(tokens) \/ Scanned(tokens).sources # <<>>
     /\ ~(Described(tokens).version = None \/ Unparsable(tokens))
     /\ AddSources(tokens)

-----------------------------------------------------------------------------
(* _load_from_lines *)
Init ==
  /\ solution \in Solutions /\ options \in Options
  /\ lines = Written(solution, options)
  /\ partial = <<>> /\ dists = <<>> /\ reqs = {}
  /\ status = "loading"

NextLine == Head(lines).tokens
StartsWith(kinds) == NextLine # <<>> /\ NextLine[1].kind \in kinds
InDirective == partial = <<>> /\ StartsWith({"directive", "hash"})
NoRequirement == partial = <<>> /\ Requirement(NextLine) = <<>>
OnOneLine == /\ partial = <<>> /\ ~InDirective /\ ~NoRequirement
             /\ Parts(NextLine) # <<>> /\ ~Head(lines).continued
InSeveralLines == ~InDirective /\ ~NoRequirement /\ ~OnOneLine

SkipLine == /\ InDirective \/ NoRequirement
            /\ UNCHANGED <<partial, dists, reqs, status>>
ParseLine == /\ OnOneLine
             /\ ParseSingleLine(NextLine)
             /\ UNCHANGED partial

(* _parse_multi_line: comments and options go on with the partial line;    *)
(* anything else begins the next one.                                      *)
Begins == NextLine = <<>> \/ NextLine[1].kind = "pin"
ParseMultiLine ==
  /\ InSeveralLines
  /\ \/ /\ partial # <<>> /\ Begins
        /\ ParseSingleLine(partial)
        /\ partial' = NextLine
     \/ /\ partial = <<>> \/ ~Begins
        /\ partial' = partial \o NextLine
        /\ UNCHANGED <<dists, reqs, status>>

LoadLine ==
  /\ status = "loading" /\ lines # <<>>
  /\ SkipLine \/ ParseLine \/ ParseMultiLine
  /\ lines' = Tail(lines)
  /\ UNCHANGED <<solution, options>>

(* Mutant: the end of the file does not end the partial line. *)
DropsPartial == FALSE
EndsPartial == partial # <<>>

EndOfFile ==
  /\ status = "loading" /\ lines = <<>>
  /\ EndsPartial
  /\ ParseSingleLine(partial)
  /\ partial' = <<>>
  /\ UNCHANGED <<solution, options, lines>>

(* _remove_nodes *)
RemoveNodes ==
  /\ status = "loading" /\ lines = <<>> /\ ~EndsPartial
  /\ dists' = [p \in {q \in DOMAIN dists : dists[q] # Missing} |-> dists[p]]
  /\ status' = "loaded"
  /\ UNCHANGED <<solution, options, lines, partial, reqs>>

Stopped == status # "loading" /\ UNCHANGED vars

Next == LoadLine \/ EndOfFile \/ RemoveNodes \/ Stopped
Spec == Init /\ [][Next]_vars

-----------------------------------------------------------------------------
(* get_candidates and resolve_candidate of the loaded repository *)
Candidates(p) ==
  IF p \in Excluded \/ p \notin DOMAIN dists THEN {}
  ELSE {[dist |-> dists[p], requires |-> {[r EXCEPT !.from = p] : r \in {q \in reqs : q.from = p}}]}

(* req_iter_from_lines: the same file as a requirements or constraints     *)
(* file. *)
NothingRead == [full |-> <<>>, continuation |-> FALSE, requirements |-> <<>>, parameters |-> <<>>]

(* Mutant: the line is not cleared. *)
KeepsLine(read) == [read EXCEPT !.continuation = FALSE]
ClearsLine(read) == [read EXCEPT !.full = <<>>, !.continuation = FALSE]

ReadLine(read, line) ==
  LET tokens == Requirement(line.tokens)
      full == IF read.continuation \/ read.full = <<>> THEN read.full \o tokens ELSE read.full
  IN  CASE tokens = <<>> -> read
        [] tokens # <<>> /\ line.continued -> [read EXCEPT !.full = full, !.continuation = TRUE]
        [] tokens # <<>> /\ ~line.continued /\ full[1].kind = "directive" ->
             [ClearsLine([read EXCEPT !.full = full])
              EXCEPT !.parameters = Append(@, full[1].value)]
        [] tokens # <<>> /\ ~line.continued /\ full[1].kind # "directive" ->
             [ClearsLine([read EXCEPT !.full = full])
              EXCEPT !.requirements = Append(@, full[1].value)]
ReadRequirements(file) == FoldLeft(ReadLine, NothingRead, file)

-----------------------------------------------------------------------------
(* A file with pins and explanations, with its URLs only in the multi-line *)
(* form: the others are refused, fail, or load with less than they say. *)
Complete(o) == o.pins /\ o.explain /\ (o.multiline \/ ~o.urls)

(* A complete file never fails to load, whatever else it says.  The loaded *)
(* repository then offers exactly the distributions that were resolved, at *)
(* their versions, with their hashes and URLs as far as they were written, *)
(* and each of them requires what it did: under one of the extras it did,  *)
(* and nothing else (write_requirements_file, SolutionRepository). *)
Offered(p) ==
  LET pin == solution.pins[p]
  IN  [version |-> pin.version, hash |-> IF options.hashes THEN pin.hash ELSE None,
       url |-> IF options.urls THEN pin.url ELSE None]
Keeps(r, e) == /\ r = [e EXCEPT !.under = r.under]
               /\ r.under \subseteq e.under /\ (r.under = {} <=> e.under = {})
ReloadAgrees ==
  Complete(options) =>
    /\ status \in {"loading", "loaded"}
    /\ status = "loaded" =>
         \A p \in Key :
           IF p \in Excluded \/ p \notin DOMAIN solution.pins THEN Candidates(p) = {}
           ELSE \E c \in Candidates(p) :
                  LET required == {e \in solution.requires : e.from = p /\ e.name \in DOMAIN solution.pins}
                  IN  /\ c.dist = Offered(p)
                      /\ \A e \in required : \E r \in c.requires : Keeps(r, e)
                      /\ \A r \in c.requires : \E e \in required : Keeps(r, e)

(* Whatever the options, the file reads as a requirements file with each   *)
(* distribution once, and with nothing but its directives beside them: no  *)
(* comment is taken for a requirement, and no continuation runs into the   *)
(* next one (write_requirements_file, req_iter_from_lines). *)
ReadsAsRequirements ==
  status # "loading" =>
    LET read == ReadRequirements(Written(solution, options))
    IN  /\ Len(read.requirements) = Cardinality(DOMAIN solution.pins)
        /\ ToSet(read.requirements) =
             {[name |-> p, version |-> IF options.pins THEN solution.pins[p].version ELSE None] :
                p \in DOMAIN solution.pins}
        /\ read.parameters = <<"--index-url">>
        /\ ~read.continuation
=============================================================================
