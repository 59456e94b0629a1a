------------------------------- MODULE Compile -------------------------------
(***************************************************************************)
(* The resolver of req_compile/compile.py: perform_compile drives          *)
(* compile_roots over the roots until all of them are complete, and        *)
(* compile_roots picks a candidate for an unsolved node, walks back on a   *)
(* conflict and descends into the dependencies.                            *)
(*                                                                         *)
(* The resolver is a client of the graph (DistGraph).  It has a call stack *)
(* of its own, calls, because one compile_roots call may unsolve, remove   *)
(* or replace nodes an outer call still holds in its local variables.  A   *)
(* step of the resolver happens when no call of the graph is active.       *)
(*                                                                         *)
(* The repository is modelled by what get_dist promises: the best          *)
(* candidate is the highest published version the requirement allows       *)
(* (CandidateSelection.tla models how it is found, and the versions whose  *)
(* metadata is unusable, which count as unpublished here).  What a         *)
(* distribution requires becomes known when it is first fetched: index     *)
(* records it.                                                             *)
(***************************************************************************)
EXTENDS DistGraph

CONSTANTS
  Project,       \* projects a repository can have
  Published,     \* Project -> set of published versions
  Offers,        \* <<project, version>> -> the metadata it may turn out to have
  DoNotUse,      \* <<project, version>> -> name of its do-not-use entry
  Inputs,        \* what perform_compile may be called with
  MaxDowngrade,  \* the max_downgrade option (20 by default)
  MaxDepth,      \* MAX_COMPILE_DEPTH (80 by default)
  MaxRounds      \* bound of perform_compile's loop (1000 in the code)

VARIABLES
  input,    \* the arguments of perform_compile
  roots,    \* the nodes perform_compile waits for
  calls,    \* active calls and loops of compile.py, the innermost first
  rounds,   \* itertools.count() of the main loop
  index,    \* metadata fetched so far
  outcome   \* how perform_compile ends

compileVars == <<input, roots, calls, rounds, index, outcome>>
allVars == <<vars, compileVars>>

Outcomes == {"running", "solved", "NoCandidate", "RepositoryError", "AssertionError",
             "RecursionError", "RecursionTooDeep", "IterationLimit",
             "CircularDependency"}

-----------------------------------------------------------------------------
(* Frames *)

CTop == Head(calls)
Idle == stack = <<>> /\ error = None

(* The frames an exception stops at: a finally clause, and for a missing   *)
(* candidate _add_constraints, which still completes the results.          *)
(* Mutant: do-not-use entries are left behind. *)
HandlesResults(f) == f.op = "constrain" /\ outcome = "NoCandidate"
Handles(f) ==
  f.op = "finally" \/ (f.op = "constrain" /\ outcome = "NoCandidate")
Running(op) == /\ Idle /\ calls # <<>> /\ CTop.op = op
               /\ outcome = "running" \/ Handles(CTop)
CThen(fs) == calls' = fs \o Tail(calls)
Quiet == UNCHANGED vars

(* compile_roots(node, source, ..) with its depth, its max_downgrade, the  *)
(* path back to the root and the walkback budget. *)
CompileRoots(n, src, depth, downgrade, path, budget) ==
  [op |-> "compile", node |-> n, source |-> src, depth |-> depth,
   downgrade |-> downgrade, path |-> path, budget |-> budget]

(* An exception leaves the active calls, the innermost first. *)
Raise(ex) == outcome' = ex /\ UNCHANGED calls
Unwind ==
  /\ Idle /\ calls # <<>> /\ outcome # "running" /\ ~Handles(CTop)
  /\ CThen(<<>>)
  /\ Quiet /\ UNCHANGED <<input, roots, rounds, index, outcome>>

-----------------------------------------------------------------------------
(* perform_compile *)

(* The arguments: input files or projects, constraint sources, extras for  *)
(* local projects, whether the constraints stay out of the results and     *)
(* whether circular dependencies are refused.                              *)
Input == [roots : Seq(Dist), constraints : Seq(Dist), extras : SUBSET Extra,
          removeConstraints : BOOLEAN, refuseCircular : BOOLEAN]
ASSUME InputsAssumption == Inputs \subseteq Input
ASSUME LimitsAssumption ==
  MaxDowngrade \in Nat /\ MaxDepth \in Nat /\ MaxRounds \in Nat
(* What is fetched for a published version is a distribution of it.        *)
ASSUME OffersAssumption ==
  \A k \in Project : \A v \in Published[k] :
    /\ <<k, v>> \in DOMAIN Offers
    /\ Offers[<<k, v>>] \subseteq {d \in Dist : d.name = k /\ d.version = v}

PinnedReq(req) == \E c \in req.spec : c[1] = "=="
(* The lines of a constraint file as they stand: a file of the model has   *)
(* one line for each project and no marker that is false, so that nothing  *)
(* is merged or left out of requires(None) (README). *)
SourceReqs(d) == {d.requires[None][i] : i \in DOMAIN d.requires[None]}
AllPinned(cs) == \A i \in DOMAIN cs : \A r \in SourceReqs(cs[i]) : PinnedReq(r)

(* Sources that are all pins do not become roots: they restrict the        *)
(* candidates and join the results at the end.                             *)
Sources == IF AllPinned(input.constraints)
           THEN input.roots
           ELSE input.constraints \o input.roots
Afterwards == IF AllPinned(input.constraints) /\ ~input.removeConstraints
              THEN input.constraints
              ELSE <<>>

CInit ==
  /\ Init
  /\ input \in Inputs
  /\ roots = {}
  /\ calls = <<[op |-> "start", todo |-> Sources],
               [op |-> "loop"],
               [op |-> "constrain", todo |-> Afterwards]>>
  /\ rounds = 0
  /\ index = [c \in DOMAIN Offers |-> None]
  /\ outcome = "running"

(* Unpinned constraint sources and the inputs become the roots.            *)
AddRoot ==
  /\ Running("start")
  /\ IF CTop.todo = <<>>
     THEN /\ CThen(<<>>)
          /\ Quiet /\ UNCHANGED roots
     ELSE LET d == Head(CTop.todo) IN
          /\ CallAdd(d.name, d, None, None)
          /\ roots' = roots \cup {Target(d.name)}
          /\ CThen(<<[CTop EXCEPT !.todo = Tail(@)]>>)
  /\ UNCHANGED <<input, rounds, index, outcome>>

(* while any(not node.complete for node in nodes) *)
Round ==
  /\ Running("loop")
  /\ \/ /\ \A n \in roots : complete[n]
        /\ CThen(<<>>)
        /\ UNCHANGED <<rounds, outcome>>
     \/ /\ \E n \in roots : ~complete[n]
        /\ rounds > MaxRounds
        /\ Raise("IterationLimit")
        /\ UNCHANGED rounds
     \/ /\ \E n \in roots : ~complete[n]
        /\ rounds <= MaxRounds
        /\ rounds' = rounds + 1
        /\ CThen(<<[op |-> "round", todo |-> roots], CTop>>)
        /\ UNCHANGED outcome
  /\ Quiet /\ UNCHANGED <<input, roots, index>>

(* for node in sorted(nodes): if not node.complete *)
NextRoot ==
  /\ Running("round")
  /\ \/ /\ CTop.todo = {}
        /\ CThen(<<>>)
     \/ \E n \in CTop.todo :
          LET rest == [CTop EXCEPT !.todo = @ \ {n}] IN
          /\ First(n, CTop.todo)
          /\ IF complete[n]
             THEN CThen(<<rest>>)
             ELSE CThen(<<CompileRoots(n, None, 1, MaxDowngrade, {},
                                       MaxDowngrade), rest>>)
  /\ Quiet /\ UNCHANGED <<input, roots, rounds, index, outcome>>

(* _add_constraints, and the end of perform_compile. *)
AddConstraints ==
  /\ Running("constrain")
  /\ IF CTop.todo = <<>>
     THEN /\ CThen(<<>>)
          /\ Quiet
          /\ outcome' = IF outcome = "running" THEN "solved" ELSE outcome
     ELSE LET d == Head(CTop.todo) IN
          /\ CallAdd(d.name, d, None, None)
          /\ CThen(<<[CTop EXCEPT !.todo = Tail(@)]>>)
          /\ UNCHANGED outcome
  /\ UNCHANGED <<input, roots, rounds, index>>

(* A call of the graph ended in an exception. *)
GraphFailed ==
  /\ Catch
  /\ Raise(error)
  /\ UNCHANGED <<input, roots, rounds, index>>

-----------------------------------------------------------------------------
(* build_constraints *)

Active(m) == LET es == Extras(m) \cup {None} IN
             UNION {{metadata[m].requires[e][i] :
                       i \in DOMAIN metadata[m].requires[e]} : e \in es}
ConstraintsKnown(n) ==
  \A m \in rdeps[n] : metadata[m] # None /\ RequestersSolved(m)
Constraints(n) == UNION {UNION {r.spec : r \in {q \in Active(m) :
                                                q.name = KeyOf(n)}}
                           : m \in rdeps[n]}

(* options.pinned_requirements: the last pin given for a project counts.   *)
(* Mutant: pins do not restrict the candidates. *)
NoPins(k) == {}
Pins(k) ==
  LET cs == input.constraints
      mine == {i \in DOMAIN cs : \E r \in SourceReqs(cs[i]) : r.name = k}
  IN  IF mine = {} \/ ~AllPinned(cs)
      THEN {}
      ELSE LET last == CHOOSE i \in mine : \A j \in mine : j <= i
           IN  UNION {r.spec : r \in {q \in SourceReqs(cs[last]) : q.name = k}}
Wanted(n) == Constraints(n) \cup Pins(KeyOf(n))

-----------------------------------------------------------------------------
(* _get_strictest_reverse_dep *)

ReasonSpec(r, n) == IF deps[r][n] = None THEN {} ELSE deps[r][n].spec
Clash(a, b, n) == ~IsPossible(ReasonSpec(a, n) \cup ReasonSpec(b, n))
Clashing(a, n) == {b \in rdeps[n] \ {a} : Clash(a, b, n)}
Score(a, n) == Cardinality(Clashing(a, n))

(* Merging two edges that carry no reason violates an assert. *)
MergeAssertFails(n) ==
  \E a, b \in rdeps[n] : a # b /\ deps[a][n] = None /\ deps[b][n] = None

(* The position in violate_score: the rank of the first node whose row of  *)
(* the pairwise comparison mentions a. *)
Row(a, n) == LET ks == {Rank[KeyOf(b)] : b \in Clashing(a, n) \cup {a}}
             IN  CHOOSE k \in ks : \A j \in ks : k <= j
Earlier(a, b, n) ==
  \/ Score(a, n) < Score(b, n)
  \/ Score(a, n) = Score(b, n) /\ Row(a, n) < Row(b, n)
  \/ /\ Score(a, n) = Score(b, n) /\ Row(a, n) = Row(b, n)
     /\ Rank[KeyOf(a)] <= Rank[KeyOf(b)]

Blamable(n) == {a \in rdeps[n] : /\ Score(a, n) > 0
                                 /\ metadata[a] # None
                                 /\ ~metadata[a].meta
                                 /\ ~metadata[a].local}
IsStrictest(a, n) ==
  a \in Blamable(n) /\ \A b \in Blamable(n) : Earlier(a, b, n)
NobodyToBlame(n) ==
  \A a \in rdeps[n] : IsStrictest(a, n) => metadata[a].version = None

-----------------------------------------------------------------------------
(* compile_roots *)

TooDeep ==
  /\ Running("compile") /\ CTop.depth > MaxDepth
  /\ Raise("RecursionTooDeep")
  /\ Quiet /\ UNCHANGED <<input, roots, rounds, index>>

Entered == Running("compile") /\ CTop.depth <= MaxDepth

(* The assertion that a complete node is solved (compile.py:145) cannot    *)
(* fail: update_complete completes no node without metadata, and what      *)
(* unsolves a node calls it right after (dists.py:378-381).                *)
NoNeed ==
  /\ Entered
  /\ ~Live(CTop.node) \/ complete[CTop.node]
  /\ CThen(<<>>)
  /\ Quiet /\ UNCHANGED <<input, roots, rounds, index, outcome>>

ToProcess == Entered /\ Live(CTop.node) /\ ~complete[CTop.node]
Unsolved == ToProcess /\ metadata[CTop.node] = None
Impossible == Unsolved /\ ConstraintsKnown(CTop.node)
                       /\ ~IsPossible(Wanted(CTop.node))

Descend(f) == [op |-> "descend", node |-> f.node, depth |-> f.depth,
               downgrade |-> f.downgrade, path |-> f.path]

AlreadySolved ==
  /\ ToProcess /\ metadata[CTop.node] # None
  /\ CThen(<<Descend(CTop)>>)
  /\ Quiet /\ UNCHANGED <<input, roots, rounds, index, outcome>>

CompileAssertFails ==
  /\ Unsolved
  /\ \/ ~ConstraintsKnown(CTop.node)
     \/ Impossible /\ MergeAssertFails(CTop.node)
  /\ Raise("AssertionError")
  /\ Quiet /\ UNCHANGED <<input, roots, rounds, index>>

GiveUp ==
  /\ Impossible /\ ~MergeAssertFails(CTop.node)
  /\ NobodyToBlame(CTop.node) \/ CTop.budget <= 0
  /\ Raise("NoCandidate")
  /\ Quiet /\ UNCHANGED <<input, roots, rounds, index>>

(* Mutant: only the budget of this call is used up. *)
KeepsDowngrade(f, b) ==
  [op |-> "block", node |-> b, version |-> metadata[b].version,
   depth |-> f.depth, downgrade |-> f.downgrade,
   path |-> f.path \ {b}, budget |-> f.budget - 1]
WalkBackTo(f, b) ==
  [op |-> "block", node |-> b, version |-> metadata[b].version,
   depth |-> f.depth, downgrade |-> f.downgrade - 1,
   path |-> f.path \ {b}, budget |-> f.budget - 1]

(* Unsolve the reverse dependency that is to blame and compile it again    *)
(* under a do-not-use entry for its present version. *)
WalkBack ==
  /\ Impossible /\ ~MergeAssertFails(CTop.node)
  /\ CTop.budget > 0
  /\ \E b \in rdeps[CTop.node] :
       /\ IsStrictest(b, CTop.node) /\ metadata[b].version # None
       /\ CallRemove(b)
       /\ CThen(<<WalkBackTo(CTop, b)>>)
  /\ UNCHANGED <<input, roots, rounds, index, outcome>>

(* The do-not-use entry.  Its name in the code also holds the depth, which *)
(* only tells apart entries for one version; two walkbacks under way never *)
(* exclude the same version.                                               *)
BadDist(k, v) ==
  [name |-> DoNotUse[<<k, v>>], version |-> 0, meta |-> TRUE, local |-> FALSE,
   requires |-> [e \in Extra \cup {None} |->
                   IF e = None
                   THEN <<[name |-> k, spec |-> {<<"!=", v>>}, extras |-> {}]>>
                   ELSE <<>>]]
ASSUME BadDistAssumption ==
  \A d \in Dist : d.version # None /\ ~d.meta /\ ~d.local =>
    BadDist(d.name, d.version) \in Dist

(* An entry is named "#donotuse#-..", which no project, requirement or     *)
(* input is. *)
EntryKey == {DoNotUse[pv] : pv \in DOMAIN DoNotUse}
ASSUME EntryAssumption ==
  /\ EntryKey \subseteq Key \ Project
  /\ \A d \in Dist : \A e \in Extra \cup {None} : \A i \in DOMAIN d.requires[e] :
       d.requires[e][i].name \notin EntryKey
  /\ \A in \in Inputs :
       /\ \A i \in DOMAIN in.roots : in.roots[i].name \notin EntryKey
       /\ \A i \in DOMAIN in.constraints :
            in.constraints[i].name \notin EntryKey
(* Whatever else is no project (a requirement file, the command line) has  *)
(* no version. *)
ASSUME MetaAssumption ==
  \A d \in Dist : d.meta /\ d.version # None => d.name \in EntryKey

Block ==
  /\ Running("block")
  /\ LET bad == BadDist(KeyOf(CTop.node), CTop.version) IN
     /\ CallAdd(bad.name, bad, None, None)
     /\ CThen(<<[op |-> "try", node |-> CTop.node, depth |-> CTop.depth,
                 downgrade |-> CTop.downgrade, path |-> CTop.path,
                 budget |-> CTop.budget, entry |-> Target(bad.name)]>>)
  /\ UNCHANGED <<input, roots, rounds, index, outcome>>

(* Compile it again; whatever comes of that, the entry is removed.         *)
Retry ==
  /\ Running("try")
  /\ CThen(<<CompileRoots(CTop.node, None, CTop.depth, CTop.downgrade,
                          CTop.path, CTop.budget),
             [op |-> "finally", node |-> CTop.entry]>>)
  /\ Quiet /\ UNCHANGED <<input, roots, rounds, index, outcome>>

Unblock ==
  /\ Running("finally")
  /\ CallRemove(CTop.node)
  /\ CThen(<<>>)
  /\ UNCHANGED <<input, roots, rounds, index, outcome>>

(* Mutant: exclusions are not looked at. *)
FitsRange(k, spec) ==
  IF k \in Project
  THEN {v \in Published[k] : Contains({c \in spec : c[1] # "!="}, v)} ELSE {}
Fits(k, spec) == IF k \in Project
                 THEN {v \in Published[k] : Contains(spec, v)} ELSE {}

NoCandidate ==
  /\ Unsolved /\ ConstraintsKnown(CTop.node)
  /\ IsPossible(Wanted(CTop.node))
  /\ Fits(KeyOf(CTop.node), Wanted(CTop.node)) = {}
  /\ Raise("NoCandidate")
  /\ Quiet /\ UNCHANGED <<input, roots, rounds, index>>

(* The repository cannot be read while a distribution is fetched for the   *)
(* first time.  (A candidate whose metadata is unusable is no failure:     *)
(* get_dist goes on to the next version.) *)
RepositoryError ==
  /\ Unsolved /\ ConstraintsKnown(CTop.node)
  /\ IsPossible(Wanted(CTop.node))
  /\ \E v \in Fits(KeyOf(CTop.node), Wanted(CTop.node)) :
       index[KeyOf(CTop.node), v] = None
  /\ Raise("RepositoryError")
  /\ Quiet /\ UNCHANGED <<input, roots, rounds, index>>

(* The reason the source gives for the node, with the extras of the        *)
(* command line when the candidate is a local project.                     *)
Reason(n, src, d) ==
  IF src = None \/ n \notin DOMAIN deps[src]
  THEN None
  ELSE IF deps[src][n] # None /\ d.local
       THEN [deps[src][n] EXCEPT !.extras = @ \cup input.extras]
       ELSE deps[src][n]

(* get_dist, then add_dist. *)
Acquire ==
  /\ Unsolved /\ ConstraintsKnown(CTop.node)
  /\ IsPossible(Wanted(CTop.node))
  /\ LET n == CTop.node
         fits == Fits(KeyOf(n), Wanted(n)) IN
     \E v \in fits :
       /\ \A u \in fits : u <= v
       /\ \E d \in IF index[<<KeyOf(n), v>>] = None THEN Offers[<<KeyOf(n), v>>]
                   ELSE {index[<<KeyOf(n), v>>]} :
            /\ index' = [index EXCEPT ![<<KeyOf(n), v>>] = d]
            /\ CallAdd(KeyOf(n), d, CTop.source, Reason(n, CTop.source, d))
       /\ CThen(<<Descend(CTop)>>)
  /\ UNCHANGED <<input, roots, rounds, outcome>>

(* for dep in sorted(node.dependencies): the loop runs over the            *)
(* dependencies the node has now, whatever happens to the node meanwhile. *)
EnterDeps ==
  /\ Running("descend")
  /\ CThen(<<[op |-> "deps", node |-> CTop.node, depth |-> CTop.depth,
              downgrade |-> CTop.downgrade, path |-> CTop.path,
              todo |-> DOMAIN deps[CTop.node]]>>)
  /\ Quiet /\ UNCHANGED <<input, roots, rounds, index, outcome>>

(* Mutant: while any(not dep.complete ...) instead of for. *)
RepeatDeps ==
  /\ Running("deps")
  /\ \/ /\ \A d \in CTop.todo : complete[d] \/ d \in CTop.path
        /\ CThen(<<>>)
     \/ \E d \in CTop.todo :
          /\ ~complete[d] /\ d \notin CTop.path
          /\ CThen(<<CompileRoots(d, CTop.node, CTop.depth + 1, CTop.downgrade,
                                  CTop.path \cup {CTop.node},
                                  CTop.downgrade), CTop>>)
  /\ Quiet /\ UNCHANGED <<input, roots, rounds, index, outcome>>

NextDep ==
  /\ Running("deps")
  /\ \/ /\ CTop.todo = {}
        /\ CThen(<<>>)
     \/ \E d \in CTop.todo :
          LET rest == [CTop EXCEPT !.todo = @ \ {d}] IN
          /\ First(d, CTop.todo)
          /\ d \in CTop.path => ~input.refuseCircular
          /\ IF d \in CTop.path \/ complete[d]
             THEN CThen(<<rest>>)
             ELSE CThen(<<CompileRoots(d, CTop.node, CTop.depth + 1,
                                       CTop.downgrade,
                                       CTop.path \cup {CTop.node},
                                       CTop.downgrade), rest>>)
  /\ Quiet /\ UNCHANGED <<input, roots, rounds, index, outcome>>

CircularDependency ==
  /\ Running("deps") /\ input.refuseCircular
  /\ \E d \in CTop.todo \cap CTop.path : First(d, CTop.todo)
  /\ Raise("CircularDependency")
  /\ Quiet /\ UNCHANGED <<input, roots, rounds, index>>

-----------------------------------------------------------------------------
CompileStep ==
  \/ AddRoot \/ Round \/ NextRoot \/ AddConstraints \/ GraphFailed \/ Unwind
  \/ TooDeep \/ NoNeed \/ AlreadySolved \/ CompileAssertFails
  \/ GiveUp \/ WalkBack \/ Block \/ Retry \/ Unblock
  \/ NoCandidate \/ RepositoryError \/ Acquire
  \/ EnterDeps \/ NextDep \/ CircularDependency

Finished == Idle /\ calls = <<>>
Done == Finished /\ UNCHANGED allVars

CNext == \/ GraphStep /\ UNCHANGED compileVars
         \/ CompileStep
         \/ Done

CSpec == CInit /\ [][CNext]_allVars
(* The resolver is one thread that nothing blocks: it always takes its     *)
(* next step. *)
FairSpec == CSpec /\ WF_allVars(CNext)
=============================================================================
