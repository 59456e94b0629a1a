# A verification project for req-compile

req-compile turns input requirements into a pinned solution.  This directory
holds TLA+ modules translated from its Python source, the TLC configurations
that check them on small instances, and proofs checked by TLAPS.

## The system

| Part | State it keeps | Operations | Talks to |
|---|---|---|---|
| Containers (`containers.py`, `utils.py`) | name, version, requirements of a file or distribution | `requires(extra)`, `merge_requirements` | read by everything |
| Dependency graph (`dists.py`) | nodes with metadata, `dependencies` (with the requirement that is the reason), `reverse_deps`, `complete` | `add_dist`, `_update_dists`, `remove_dists`, `update_complete`; `build_constraints`, `extras` read it | called by the resolver and by solution files |
| Resolver (`compile.py`) | the Python stack of `compile_roots`: depth, path, downgrade limit, walkback budget, do-not-use entries; `perform_compile`'s roots and rounds | `perform_compile`, `compile_roots`, `_get_strictest_reverse_dep`, `_add_constraints` | graph, `is_possible`, repository |
| Satisfiability (`versions.py`) | a lower and an upper bound, an exact version | `is_possible` | called by the resolver |
| Candidate selection (`repos/repository.py`, `repos/multi.py`, `build_repo`) | tried versions, position in the list of repositories | `get_dist`, `do_get_candidate` | index client, source trees, solutions |
| Index client (`repos/pypi.py`, `repos/findlinks.py`) | wheel directory, page cache | page scan with retries, download, reuse by hash | network, metadata |
| Solution files (`repos/solution.py`, writer in `cmdline.py`) | a graph read back from a file, the parser's partial line | load, write | graph |
| Source trees (`repos/source.py`) | distributions found, those left for later | discovery in a thread pool | metadata |
| Metadata (`metadata/`) | cache of failed builds, patched functions of `os` | a chain of fallbacks up to building a wheel, subprocess with timeout | file system, subprocesses |
| Command line (`cmdline.py`) | options | `build_repo`, reports | everything |
| Bazel rules (`private`, `extensions`, `scripts`) | none of their own | call the program | |

The resolver is one thread.  What makes it hard is not
preemption but re-entrance: `add_dist` calls `_update_dists`, which calls
`add_dist` for every requirement, which on a conflict calls `remove_dists`, which
prunes recursively and calls `update_complete`, which recurses over reverse
dependencies, all while the callers are in the middle of loops over the same
graph; and `compile_roots` recurses over a graph that its own walkbacks unsolve.
An exception may leave any of these half done, and the graph it leaves is what
the user is shown.  Around it there is real concurrency: a thread that reads the
output of a subprocess while another waits for it, threads of a pool that run
setup scripts under patches of one interpreter, and a wheel directory that
outlives the process, whenever it is killed.  `PROJECT.json` lists the hazards at
their lines.

What makes each part correct:

- graph: edges and reverse dependencies agree; nothing that is required is
  pruned; a solution fits every requirement of every requirer, extras included;
  `complete` never runs ahead of the truth;
- resolver: what it returns is a solution; walkbacks are bounded, exclude the
  version they left and clean up after themselves; it ends;
- satisfiability: nothing satisfiable is refused, an exact version is decided
  exactly;
- candidate selection: the best usable candidate of the first repository that
  has one, prereleases as a last resort, a bounded number of downloads, an end;
- index client: only whole files become distributions, whatever the network did
  and whenever a process was killed; one listing of a project, under one spelling of its
  name, in a process; an answer to every call;
- metadata: what is found is named for what was asked; a source that is refused
  leaves nothing behind; the interpreter is as it was;
- source trees: every project is looked at, and nothing below a
  directory that is left out;
- solution files: a file that was written reads back as what was resolved.

## Modules

| Module | Models | State and actions against the code |
|---|---|---|
| `Requirements` | `containers.py`, `packaging` requirements | clauses, requirements, containers; `IsPossible` over whole versions |
| `DistGraph` | `DependencyNode`, `DistributionCollection` | one variable per attribute; `stack` is the Python stack of the graph's methods, one frame per active call or loop; an action is one step of the innermost frame (`AddDist` is the body of `add_dist` up to the call it makes) |
| `Compile` (extends `DistGraph`) | `compile.py` | `calls` is the stack of `compile_roots`; it moves only when the graph is idle; an exception leaves it one frame a step (`Unwind`) and stops at the finally clause of a walkback and at `_add_constraints` |
| `Resolution` | the promise of `perform_compile` | abstract: search, then accept a solution or give up |
| `ResolverProperties` | properties of the resolver | `Promise == INSTANCE Resolution WITH ...` is the refinement mapping |
| `MCResolver` | | indexes and inputs for the resolver |
| `Versions` | `is_possible` | one action per branch of its loop, specifiers taken in any order; alternatives of a `!=` wildcard wait in `others` |
| `CandidateSelection` (extends `Versions`) | `build_repo`, `MultiRepository.get_dist`, `do_get_candidate` | one action per turn of each loop; a candidate may resolve, fail or bring the repository down |
| `MCSelection` | | specifiers, candidates and command lines |
| `Subprocess` | `_run_with_output` | `proc` has the caller, the subprocess, the children it leaves (with its pipe or with an output of their own) and the reader of the pipe, of each thread; the environment, the clock, the reader and the caller are actions |
| `SourceMetadata` (extends `Subprocess`) | `extract_metadata` and the readers it falls back to, `metadata/patch.py`, `LOCK`, `FAILED_BUILDS` | `at` is the place a thread is in; what a script, a backend or a build provides is chosen from `Provided`; `installed` and `saved` are the patched functions and the tokens of `patch` |
| `IndexClient` (extends `SourceMetadata`) | `PyPIRepository` | `files` is the wheel directory and survives `Restart`; an action is one request, one write, one answer; `Links` is the HTML parser as a fold over the events of a page |
| `MCFetch` | | an index with a source archive and a wheel, and two pages |
| `SourceTree` (extends `SourceMetadata`) | `SourceRepository` | `os.walk` visits one directory a step; a worker takes a source, defers it or extracts it |
| `MCDiscovery` | | a tree of ten directories |
| `SolutionFile` | `write_requirements_file`, `SolutionRepository`, `req_iter_from_lines` | the file is a sequence of lines of tokens; one action reads one line; the reader of requirement files is a fold |
| `MCSolution` | | solutions to be written |
| `DistGraphProofs` (extends `DistGraph`) | | the graph under any client |
| `CompileProofs` (extends `ResolverProperties`, `DistGraphProofs`) | | the resolver is such a client; its walkbacks are bounded and leave no entry behind |
| `AcyclicProofs` (extends `CompileProofs`) | | on an acyclic index every solution fits what is required of it, what is complete is solved, and the reasons on the edges are current; on any index the roots stay complete |
| `VersionsProofs`, `SelectionProofs` | | the search for a candidate, in any repositories |
| `MetadataProofs` (extends `SourceMetadata`) | | what a build and a call of `extract_metadata` keep, for any number of threads |
| `IndexClientProofs`, `SourceTreeProofs` (both extend `MetadataProofs`) | | the two callers of `extract_metadata` |

`IndexClient` and `SourceTree` are the two clients of `SourceMetadata`: one calls it
from the main thread for what it downloaded, the other from several threads for
what it found.  `CandidateSelection` sees either as a repository whose candidates
resolve, fail or raise, and the resolver sees the selection.

Choices that hold everywhere:

- A node is a pair of key and number: `compile_roots` and reverse dependencies
  hold objects that were removed while the graph has made another one for the
  key.
- Dictionaries and sets are walked in any order where the code does not sort
  (`remove_dists`, `{None} | extras`), so the models allow more orders than
  one run of the program has; where it sorts, by `Rank`.
- The resolver's versions are whole numbers, since it only tells satisfied from
  violated clauses; `Versions` models segments, prereleases and the arithmetic
  on them.  The resolver sees repositories through what `CandidateSelection`
  establishes: the highest version that fits, or none, or an error.  A version
  whose metadata is unusable counts as unpublished there.
- The index of a run is not fixed: what a distribution requires is chosen from
  `Offers` when it is first fetched, so that one run covers every index of a
  family, and stays the same afterwards.
- The text of requirements, markers, log messages and reports are left out.
  Markers are evaluated before: `requires[e]` holds what they select, and names
  each project once in a list.  Constraint files are read line by line by the code
  (compile.py:343-346), without that reduction: theirs have one line a project and no marker.
- Versions of `~=` and `===`, which `is_possible` does not look at, are left out.

- A patched member is modelled by who put it there.  `os.chdir`, `os.path.exists` and
  `sys.stdout` stand for the three groups of functions that are patched together.
  A thread that meets another thread's fake gets an exception where the fake
  refuses what it is not its own for, and an answer about the wrong archive
  elsewhere.
- The metadata of a distribution is reduced to whose name and version it has.
- A line of a solution file is a sequence of tokens: where a line breaks, what is
  part of a comment and what follows a `#` decide how it is read, and are kept; how
  a specifier is spelled is not.  The requirements of a solution agree with its
  pins, so that `add_dist` only adds there.
- The project called setuptools, whose setup.py is not run, is an archive without
  setup files.

Mutants stand beside the definitions they change and are named for the mistake.

## Runs

| Run | Question | Instance |
|---|---|---|
| `acyclic` | is the result a solution, is the graph consistent on the way | four projects in two versions; a may require b and c, b c and d, c d, each without restriction or with one that makes conflicts; three pairs of input files, two of them in conflict with parts of the index |
| `cyclic` | does it end, does completeness come to rest, is no lookup of an edge wrong | three projects, each version requires any subset of the others, and two of them may ask for extras of each other that conflict, or that ask for each other again and again; one or two input files; circular dependencies allowed and refused |
| `extras` | are extras and constraint files honoured, do solutions fit at every step, does the graph survive exceptions | a and b with an extra, a possibly local with extras of the command line; pins, unpublished pins, open constraints and a mixture over two files; a stack so small that the recursion limit is hit in the middle of the loops |
| `selection` | `is_possible` and the search for a candidate | all sets of up to three specifiers; one to three repositories with subsets of up to eight candidates, `--pre`, `--only-binary`, limits none, 0, 1, 2 |
| `fetch` | from a page to metadata, under every failure | a source archive with a hash, a wheel without; two pages of the index, asked for under two spellings of the project's name; one retry; requests, downloads, scripts and builds that succeed or fail in every way, builds with children that outlive them; the process may be killed at any step |
| `discovery` | is every project found, does it end | ten directories: a setup.py at the root and below, pyproject.toml with and without setup files, special, marked, excluded and test directories, two marker directories next to each other, of which only the one that is listed first leaves anything out; one thread, or the main thread and two workers |
| `solution` | does a written solution read back | 36 solutions of up to three listed projects, one local project and two input files; all 64 combinations of options, one project to be upgraded |
| `unsolved_requester`, `round_trip`, `back_reference`, `same_project`, `orphan_pipe` | one finding each | one index, or one subprocess |

Bounds.  `MaxObjects` (12 objects a project) is never reached in the runs: an
`add_dist` that needs another object would deadlock, and deadlock is checked.
The proofs hold for every value of it, and of the other bounds.
`MaxDowngrade` is 2 for 20 in the code: enough for a nested walkback and for
both budgets to run out.  `MaxDepth` is 12 for 80 (a walkback starts again at the
depth of the conflict, so that depths add up); in `cyclic` it is 5, where the limit cuts
resolutions short, and `MaxStack` 40 frames for
Python's limit.  Of the runs that pass, `acyclic` does not reach it; `cyclic` reaches it on the
indexes with extras that ask for each other, as any larger limit would be reached
(below), and shows what holds after it too; `extras` has 10, to reach the limit on
indexes that need more.  `MaxRounds` is 2 for 1000: it is reached
where the rounds repeat for ever, and a larger value only adds rounds that repeat
(`acyclic` grows by some 600 states a round).  `PartMax` is 4 for the code's 999999999,
larger than every segment in use and small enough to look at every ordinary version below it.  Two versions of each project suffice for every
walkback of depth two; a third version adds states but no kind of step.

`Chunks` is 1: the output of a build is whole or not read yet, which is what
`OutputComplete` tells apart.  `Retries` is 1 for 3: a second and a third retry repeat the
first.  Two workers are enough for one to meet the other's patches and lock, and
the ten directories have each reason to be left out once.  Temporary directories
of the calls before the last are not followed, and builds of a killed process are not
either.  In `discovery` no build leaves children behind (`Lingers` is FALSE): `fetch` covers them,
those that hold the pipe as well as those that do not, which may be left by any build, and
by the one before.

Fairness.  The resolver's and the selection's `FairSpec` ask for weak fairness of the next
step as a whole: they are single threads that wait for nothing but a repository, and
a repository either answers or raises.  No fairness is put on a choice: which
dependency comes first, what an index offers or whether a candidate fails stays
open.

`SubprocessFairness` is fair to the clock, to the caller's loop and to the reader's,
which are this program's own; a subprocess need never end and its children need not
either.  `TimeoutAnswers` is checked under exactly that, and fails.  `IndexClient` and
`SourceTree` add two assumptions about their surroundings, both named in their modules:
children of a build that hold its pipe end some time (`OrphansEnd`; nothing is assumed of the others), and the index answers or drops the
connection (the session has no timeout; weak fairness of `ClientStep`).  What a setup.py or
a backend does inside the interpreter has no timeout either and is taken to end
(`MetadataFairness`).  Restarts are under no fairness.

What the runs show:

- On the acyclic indexes of the runs, without two requirements of one distribution on one
  project, the resolver implements `Resolution`: whatever the order of conflicts,
  walkbacks and repository errors, the graph stays consistent at every step of
  the resolver and an answer is a solution, extras and pins included.  With a fifth
  project it does not always (the stale requester below).
- On cycles it still ends, by a result or an exception, calls of `update_complete` inside each other are
  never more than there are objects, and requesters keep their edges, also when an assertion or
  the recursion limit cuts calls short.  Of `add_dist` no such bound holds: extras that ask for
  each other are applied until the limit (below).  It does not keep the other promises there:
  `EdgesMutual`, `RequirementsHaveEdges`, `CompleteMeansSolved`, `SolutionsFitRequesters`
  and `ReturnsSolutions` fail on the `cyclic` indexes, which is why that run does not
  list them.  A common cause: a node that a conflict removed while its own
  requirements were being added is put back (dists.py:314), unknown to its
  dependencies.  `back_reference` shows the shortest case that reaches the user.
- Whatever exception cuts calls of the graph short in `extras`, no registered solution
  violates a requirer's requirement before it, and what is returned is a solution.
- `is_possible` refuses nothing that a three-segment final release or one of its
  prereleases satisfies when the bounds among the specifiers name final releases of three
  segments.
- A distribution only comes out of a file that is whole, and a file that is reused
  by its hash is whole, although downloads are written under their final name
  without a look at status or hash: what is not whole has no metadata, and is removed,
  downloaded again, or left for the next process to replace.  It does not condemn the
  archive: only what could be opened enters `FAILED_BUILDS`.
- Under one spelling of a project's name, every listing of a process is the first one; the page is parsed into the links for
  this Python as far as the filter agrees with PEP 440 (below).
- When a call of a subprocess answers, the subprocess and the children that inherited its pipe have
  ended and all they wrote is read, by the same join that may never end.  Children with an
  output of their own, like the backend pip runs, are neither killed nor waited for, and may
  still write to the directory that is removed next.
- Discovery ends and finds every project, with one thread or several, and with one
  thread every patch is undone.  With more it may end in an exception.
- A solution file with pins and explanations reloads into what was resolved, whatever the
  other options, except for a requirement under several extras, which comes back
  under one of them.  Every file the program writes reads as a requirements file
  with each distribution once.

Findings (each confirmed on the real program):

1. `unsolved_requester`: the loop over the dependencies of b goes on after a nested walkback has unsolved b
   (compile.py:277), which thereby becomes a requester of d without a solution; `perform_compile`
   ends in the assertion of `extras` (dists.py:65) when `_update_dists` asks what is required of d.
2. `round_trip`: two roots undo each other's walkback until "Iteration limit hit.
   This is a bug in req-compile."
3. `back_reference`: r requires a, a==2 requires b, b requires a<2.  b's
   requirement unsolves a, which prunes b and takes it out of a's reverse dependencies; b is then put back
   (dists.py:314), with an edge to a that a does not know of.  a==2 is chosen again, and its
   completion completes a and r, both nodes of the cycle being solved; b, which nobody
   recomputes, stays incomplete.  The result holds a==2 and b.
4. `same_project`: the edge keeps one requirement; b[y] followed by b>=1 forgets y.
5. `orphan_pipe`: a build that overruns its timeout is killed, but the caller waits
   without a timeout for a reader whose pipe a grandchild holds.

Seen while modelling, and the finding of no run:

- A stale requester.  The loop of `compile_roots` over a node's dependencies (compile.py:277) goes
  on after a nested walkback has removed the node upstream and another object has been
  registered for its project.  `add_dist` looks only for the key of the source among the nodes
  (dists.py:295), so that the removed object becomes a requester again, with the requirements
  it had.  Shown by TLC on larger indexes, and by the real program:
  - r asks for a, s for d and e; a==2 requires b and c<2, a==1 requires b<2, b==2 requires c>=2 and d>=2,
    b==1 requires c, e requires d<2.  The removed b of version 2 requires d; when e
    unsolves d, the removed b is blamed, and taking it apart deletes its c, and with it the key
    `c` under which another object is registered that b==1 requires.  `RemovesOnlyOrphans`,
    `EdgesMutual` and `SolvedIsSolution` are violated: the result has no c.
  - r asks for a, s for d, and b==2 requires d<2 instead: the result is a solution, but d==2 is
    explained by `b (<2)`, which no b in it requires.
  - a==2 requires b, c and d; b==2 requires c and a<2; d requires b<2.  Here it is dists.py:314 that puts b
    back with the edge it had to an old c, and removing b deletes the new one.
- Endless extras (on indexes of `cyclic`).  a requires b[y], and b[x,y] for its extra x; b requires a[x], and a[x,y] for its extra
  y.  A requirement with an extra nobody asks for yet applies its node again (dists.py:285-291), and
  applying a node first draws its edges with the smaller extras, which takes back what the larger
  ones asked for: a and b are applied in turn, inside each other, until the stack is full.
  There is no conflict, and the depth of `compile_roots` is 3, so that the documented
  limit of 80 on it (README.rst:248) does not help: the program ends in a RecursionError, with each
  of 16 hash seeds.  These indexes are among those of `cyclic`; a limit of 50 frames instead of 40 is reached by
  them as well.
- A local project that is given as an input has a version (cmdline.py:988), and is registered
  whatever the inputs before it require of it (compile.py:358): with r that requires `a>=2` and then the
  local a of version 1 the result holds a==1; in the other order a==2 is chosen.
- `is_possible` answers differently with the hash seed for some impossible requirements
  (`<1.0.0,<1.0.1,>=1.0.0`), raises ValueError for an upper bound at 0.0.0, and, since the
  exclusive bounds move by one in the third segment whatever follows, refuses `>1.0.0b1,<=1.0.0`
  and `>=1.0.0.1,<1.0.0.3`.
- `PooledCandidateMultiRepository` pools nothing: resolution calls the `get_dist` it inherits, and
  several indexes are asked in order.
- Two constraint files that pin one project differently unsolve it after the solution was
  found, so that a root comes back incomplete (no input of `extras` does that); a
  dependency that was dropped by the node under way may get an edge without a
  requirement; a requirement that comes from an extra of a deeper node may unsolve the
  node whose edges are being drawn, the loop of `_update_dists` goes on with the metadata it
  was given, and the next version of the node starts with an edge of the old one (b[x] of d==2 asks
  for c[y], which asks for d<2: d==1 keeps the edge to a that only d==2 requires, so that
  `ReasonsCurrent` is false there); `_get_strictest_reverse_dep` takes the lowest score where its docstring
  says the most conflicting.
- The cache of listings has the name as a requirement spells it (pypi.py:146-149, 294), while the page
  is that of the normalised name.  A requirement that was merged with another has the
  normalised name (utils.py:217), one that stands alone its own, so that after a walkback a project may
  be listed a second time, and its candidates differ when the index has changed.  The model
  has both, and `OneListing` speaks of one spelling.
- The filter on Python versions compares as many segments as the expression has, and
  disagrees with PEP 440 on `<=3.6`, `>3.6`, `==3.6`, `!=3.6` (one release instead of the other
  patch releases) and on `~=3.6.1`.  A tag inside an anchor ends the link before its text.
- `build_wheel` of a backend is called where the process is, not in the project's directory, so
  that it may build another one.  `LOCK` keeps two backends apart, but not a backend from
  a setup.py that another thread runs under its patches (parallelism above 1, which only the
  API can ask for): tokens are then put back in the wrong order, and a thread may get
  another's fake or an exception, which ends the constructor.
- A truncated tar.gz raises EOFError and a requirement of an egg-info that does not parse
  raises InvalidRequirement; neither is a MetadataError, and either ends the program.  So does
  the exception of an rmtree that a child of a killed build disturbs (source.py:347, 415), which is in
  the model.  The temporary directory of egg_info is only removed when the wheel had to be built.
- An archive whose name gives no version keeps the version its script gave (source.py:244-248), but
  `do_get_candidate` passes over such candidates.
- An excluded path is compared letter by letter and excludes neighbours whose name
  begins like it.
- A solution written without pins does not load; with `--no-multiline --urls` it is refused, fails, or
  loses its URLs; with annotations only, or URLs only, it loads without a requirement,
  where other unannotated files are refused.
- A requirements file that ends in a continuation loses its last requirement; files that
  include each other with `-r` are read for ever.
- `compile_requirements` in `private/compiler.py:258` removes the wheel directory it was given and leaves
  behind the one it made: the test of `external_wheeldir` is inverted.

## Proofs

Everything below is proved for every value of the constants that meets their named
assumptions, and for runs of any length.

### The graph (`DistGraphProofs`)

For every client that calls `add_dist` and `remove_dists` in any order with any arguments:

- `TypeCorrect`: `Spec => []TypeOK`;
- `RequestersKeepEdges`: `Spec => []RequestersHaveEdge`.  An object that lists a
  reverse dependency is among the dependencies of that object.  `extras` looks the
  edge up and `remove_dists` deletes it without a check (dists.py:66, 367): a
  KeyError there is impossible;
- `NodesHoldTheirOwn`: a node is listed under its own key and holds a distribution
  of its own project, as long as the client registers distributions under their names.

`RequestersHaveEdge` is not inductive.  `remove_dists` empties a node's
dependencies at the end of a loop that has told them one by one, and calls itself
in between; with `remove_upstream` it deletes the edges to a node without telling
that node.  What saves it is in the frames that wait on the stack (`StackSafe`):
a drop frame has taken its node out of every dependency that it does not have to
visit any more; a node that is about to be removed upstream has no reverse
dependencies; and while such a frame waits only removals and completeness updates run above it,
which draw no edge.  `IInv == TypeOK /\ RequestersHaveEdge /\ StackSafe` is inductive;
`Inductive` proves it from one lemma per action, and two lemmas carry what all the
actions that only shrink the edges have in common.  Recursion limits and assertions
may cut the stack at any step: `IInv` holds there too.  `NamesInv` adds the keys, and that
every frame that waits works on an object of the project it was called for.

### The resolver (`CompileProofs`)

- `ResolverIsAClient`: `CSpec => Spec`.  Every step of the resolver is a step of the
  graph or leaves it alone, so that what holds of the graph holds under
  `compile_roots`: `ResolverTypes`, `ResolverKeepsEdges`.
- `WalkbacksAreBounded`: never more than `max_downgrade` do-not-use entries are under way.
- `EntriesAreRemoved`: whichever way `perform_compile` ends, no do-not-use entry is left that
  restricts the result (`NoBlockLeft`), unless an assertion or the recursion limit ended it.

The first is not a matter of syntax: a step is one of the graph's client only if the
nodes the resolver's frames hold, some of them long removed, are objects, what it
registers are distributions, and what was fetched is what was offered.
`WalkbackBounded` counts frames, and a frame alone does not know how many walkbacks are
below it: every descent starts with a fresh walkback budget (compile.py:124), and only the
budget is tested.  `CompileInv` counts from the bottom of the stack: the downgrade of a
call and the entries below it add up to at most `MaxDowngrade`, and the budget of a call is
never larger than its downgrade.  A walkback takes one from both.

That an entry goes away again is not a matter of the finally clause alone: `remove_dists`
unsolves the object it is given, so that this has to be the registered one still, and
`add_dist`, which runs before the try statement, must not raise.  `EntrySafe` says that an entry
that holds its distribution, or is about to be given one, is watched by a frame that will remove it:
the try or finally of its walkback, or `remove_dists` itself at the bottom of the graph's stack
(`EntriesWatched`); that no edge leads to an entry, so that it is never pruned or
replaced, and the object with a distribution is the registered one (`GraphSpares`); and that the
calls that wait hold this object (`CallsSpare`).  Every action of the graph is shown to keep it, above the
call that adds or removes an entry as well as elsewhere.  Assertions and recursion limits that
strike while an entry is added or removed break it, so `EntryInv` lets go once either is raised.

### Acyclic indexes (`AcyclicProofs`)

- `SolutionsFit`: between any two steps of the resolver and in the result, every solved node fits
  what each registered and solved node that lists it requires of it (`SolutionsFitRequesters`),
  for any number of projects and versions, extras, local projects, constraint files and walkbacks.
- `CompletionIsTrue`: until an exception ends the resolution, a node whose flag says that it is complete
  is solved, and so is whatever it depends on (`CompleteMeansSolved`).
- `ReasonsAreCurrent`: until then, the reason on an edge is one of the requirements of the distribution its
  source holds now (`ReasonsCurrent`).
- `RootsStayComplete`, on any index, cyclic or not: the roots the main loop found complete still are when
  `perform_compile` returns (`RootsComplete`).

The first has two hypotheses.  `Acyclic`: the names can be put on levels (`Height`) so that every distribution,
whatever its version and with each of its extras, only requires what lies below it.  On cycles the
property is false (above).  `InputsApart`: no distribution requires an input that comes with a version.
Without it the code overwrites: see the local project below *Seen while modelling*.  The indexes and
inputs of `acyclic` and `extras` meet both.

The property holds between two calls of the graph and not inside one: a node is solved before its
requirements are drawn, a conflict unsolves a node in the middle of someone else's loop, extras
that arrive late add requirements to a node that others already rely on.  The frames say where.
`Layered` says that the frames that wait lie on falling levels (`Orderly`), the edges too, and the
registered object of a key is the youngest: a call never comes back to a node whose call
waits, so that this node is still registered, with the distribution and the extras the frame
remembers.  `Fitting` then speaks of what is settled.  A requirement of a node is `Settled` when
the node is registered and solved, no call is about to change it (`Busy`) and no frame has still to draw the
edge for it (`Waiting`).  What is settled fits every node that serves it (`Fit`); while a node's
requirements are added, the settled ones have reached whoever serves them (`Covered`), so that a
conflict below cannot bring in a node that was never compared; every edge is drawn on both
sides, except where a drop frame is at work (`BothSides`); and what is about to be applied fits
already (`Given`).  The resolver's own stack matters as well: `compile_roots` holds a source and a
node for as long as a whole subtree is resolved, both may have been replaced since, and the
source becomes a requester again without a comparison (dists.py:295).  `PairsSafe` says that
what the source still requires is known to the node or to a younger object in its place; an
object that is as young as the registered one is the registered one (`YoungestIsLive`), so that the
candidate was chosen for this source too (`AcquireFits`).  One lemma per action
keeps all this, and `AcyclicInv` lets go once an exception is raised.

`CompletionIsTrue` has the same hypotheses.  The flag is stale in between: while a node is unsolved or
loses an edge, those above it are still said to be complete.  It may be
wrong only where `update_complete` is `Due` (a frame that will call it, or one that drops an edge in
the middle of a removal), and `Backed` says that a frame that is about to recompute a node lies above
what made it stale, the loops of `_update_dists` above the `update_complete` of their node.
`FlaggedSolved` and `FlaggedAbove` speak of the nodes where nothing is due.  The flag of a node is
computed from its dependencies outside its cycle, so the proof has to open `Cycle`: on an acyclic
index the search of `_get_cycle` has a result, by a smallest counterexample over the sets of
nodes it may add (`SmallestNumber`), and never comes back to the level it began on, so that every
dependency lies outside.

`ReasonsAreCurrent` has two more.  `InputsDistinct`: the inputs of one call have names of their own, and
what joins them at the end is no project; the code replaces the distribution of a name that is
given twice without looking at the edges it drew for the first.  `EntriesApart`: a name of a do-not-use entry belongs to one
distribution, as compile.py:210 makes it.  The runs `acyclic` and `extras` meet both.  The invariant says
that every edge's reason is required by the distribution of its source (`EdgesReasoned`), that a
distribution is only applied to a node that has none or has this one, and with a reason its source has
for it (`Prepared`).  For the calls that come from the inputs this needs the order of
`compile_roots`: while the roots are added (`Starting`), all that is held is inputs (`HeldFromInputs`), which
have names of their own; the constraint files that join last are no project, and only an input
has the name of one (`CallsInOrder`).

`RootsStayComplete` is about `_add_constraints`, which runs `add_dist` on the constraint files after the
loop.  Its hypotheses are about these files only.  `JoinedApart`: such a file is no project and no
input, and nothing requires it.  `PinsAgree`: the pins ask for no extras, do not contradict each
other, and allow the versions of the local projects that are given as inputs.  The runs `acyclic`,
`cyclic` and `extras` meet both.  The invariant says that whatever is held meets the pins from the
beginning, because `Pins` restricts every candidate (`HeldMeets`, `FittingMeets`), and so does what a waiting
frame brings (`Tidy`); and that no node has a file as a dependency (`Unasked`).  So once the
files join (`Joining`), each frame works on a file or draws one of its pins to a node that is left as
it is (`Joins`): nothing is unsolved, and `update_complete` has nowhere to go from a file.  That the files
come last is the shape of the call stack (`LoopIsLast`): the loop lies right above the last call and
returns only when every root is complete.

### Satisfiability and candidate selection (`VersionsProofs`, `SelectionProofs`)

- `ExactAnswers`: for any specifiers in any order, `is_possible` says yes to an exact
  version only if it meets all of them.  What the loop looks at is the requirement with some of
  its `!=` wildcards replaced by something stricter (`Stands`), an `==` is never replaced, and
  the exact version is that of every `==` seen (`ExactSeen`).
- `RefusesOnlyImpossible`: what `is_possible` refuses, no version of three segments, final or
  prerelease, satisfies, for any set of specifiers in any order whose bounds (`<`, `<=`, `>`,
  `>=`) name final releases of three segments.  `BoundsInv`: each such version that satisfies the
  requirement satisfies the branch and has its release between the bounds, or waits in another
  alternative (`Open`).  It is kept because an exclusive bound moves to the next release in the
  third segment, which skips none (`GreaterBound`, `LessBound`), a wildcard's prefix spans its
  range (`WildcardBounds`), and what misses a `!=` wildcard is below or above all of it
  (`OutsideWildcard`).  The hypothesis is needed: without it the code refuses
  `>1.0.0b1,<=1.0.0`.
- `SearchTypes`, `BestIsChosen`, `EarlierFirst`, `PrereleaseLast`, `EffortIsBounded`: the
  properties of `selection`, for any repositories, candidates and command line;
  `ExactBeforeSearch` and `RefusalBeforeSearch` carry the two answers over.  `PassSafe`
  says of every candidate a pass admits that it waits in the queue, was passed over, or the pass
  was given up; `ForceSafe` what a second pass remembers of the first; `EffortSafe` counts the
  versions tried over both.

### Metadata and its callers

- `MetadataProofs`: `OutputIsComplete`.  A call answers after it joined its reader, a reader ends
  when nobody holds the pipe, and nobody can hand on what nobody holds (`CallSafe`).  Nothing is proved
  of children that do not hold it: they may outlive every call.
  For `extract_metadata` it has a lemma for each step that its two callers cite.  The
  invariant of a thread speaks of its own place only: what it was asked for
  (`PlaceSafe`), that an archive past opening is whole (`WholeSafe`), which temporary
  directories there are (`TempSafe`), what its tokens of `patch` are (`TokensSafe`), and what
  holds when no other thread patches (`AloneSafe`).
- `IndexClientProofs`: `IndexTypes`, `NothingComesOfHalf`, `BuildOutputIsComplete`,
  `ArchivesKeepTheirNames`, `RefusalsLeaveNoTemps`, `OriginalsAreBack` and the action
  properties `VerifiedFilesStay`, `OnlyWholeIsCondemned`, `ListingStays`, for any files, pages and
  retries and any number of restarts.  `IndexInv` adds what the client knows of the
  candidate's file (`FileSafe`: whole if it is said to be cached, not whole if it is about to be
  overwritten), and that the entry every scan under a spelling begins with is the listing of that spelling (`ScanSafe`).
- `LinksAreComplete`: the parser finds exactly the links whose interpreter bounds the running
  Python meets, on pages of any length.  Its hypothesis `OrdinaryPage` leaves out what the code does
  not read as PEP 503 and 440 do: a tag inside an anchor, and bounds like `<=3.6` that the
  filter on Python versions takes differently.  What the fold over the events has found after a
  part of the page is what stands in that part (`FoundIn`); the induction is over the sets of
  places of the page, by a smallest counterexample (`WFMin`), since the library's induction
  theorems cannot be instantiated here.
- `SourceTreeProofs`: `TreeTypes`, `EveryProjectIsFound`, `OneThreadIsClean`, `ThreadsKeepIdentity`, for any
  tree and any number of threads.  `WalkSafe` says that some order in which `os.walk` lists the root
  explains the walk so far: what was seen is a project that is kept, and a project that is kept
  was seen or lies below a directory that waits.  The path from the root to a directory is
  defined without recursion, as what every set of directories that is closed upward and has
  the directory contains.

### Assumptions

They are the named ones of the modules, evaluated by every run that extends the module
(`Requirements`, `DistGraph`, `Compile`: `acyclic`, `cyclic`, `extras`; `Versions`,
`CandidateSelection`: `selection`; `Subprocess`, `SourceMetadata`: `fetch`, `discovery`; `IndexClient`: `fetch`;
`SourceTree`: `discovery`).  Most give a constant its type.  The others: `None` is none of the
other values and no number; what is fetched for a published version is a distribution of it
(`OffersAssumption`) and a do-not-use entry for a version that may be walked back from is a
distribution (`BadDistAssumption`), which say of the parameters of the model what the
code has by construction; the name of a do-not-use entry is that of no project, requirement or input
(`EntryAssumption`: it begins with `#donotuse#-`, compile.py:210), and nothing else that is no
project comes with a version (`MetaAssumption`: cmdline.py:347, 1006 and 1073 and containers.py:101
give None); a version of Python has three segments (`PythonAssumption`); a requirement has finitely many specifiers with
segments below `PartMax` (999999999 in the code); files in a wheel directory are archives or wheels whose names give a version, or a plain .tar,
which is read as a directory in which nothing is found;
the directories of a tree hang together below the root.

### Only model-checked

- Liveness, which is out of the prover's reach, as is ENABLED.
- What folds and recursive functions compute for every file: `ReloadAgrees`,
  `ReadsAsRequirements`.
- `EdgesMutual`, `RequirementsHaveEdges` and `ReturnsSolutions`, which are false on some acyclic
  indexes too (the stale requester above), and `SolutionsFitRequesters` and `CompleteMeansSolved`
  on cycles, where they may be false, and after an exception.
- `RootsComplete` where two constraint files pin one project differently, which makes it false;
  `CompletenessSettles`, which bounds the calls of one method in a stack that others share.
- `ReasonsCurrent` on cycles, where it is false if they go through extras (above), and after an exception.
- `NoBlockLeft` after an assertion or a recursion limit.
- `RemovesOnlyOrphans`, which the attempt to prove it showed to be false with five projects, or
  four on a cycle (the stale requester above).  It holds on the family of `acyclic`, whose indexes are
  too small for a removed object to be blamed for the conflict of a project it still requires.
- `BlockedStaysOut`, which is false on some cycles for the same reason: while an entry holds, the
  node it excludes a version of can only be pruned if an object of the same project that was
  replaced is removed in its place.  s asks for b; b==2 requires a and d<2, a==2 d>=2, a==1 b<2, d and e,
  d==2 f, e==2 f<2, f==2 a>=2, f==1 a: a==2 is solved again while `a!=2` is registered.
  Thousands of random acyclic indexes of up to six projects, resolved by the program itself, gave none.

## Not modelled

- Bazel rules, code generators and release scripts: sequential callers of the program
  without state of their own.
- Tags, platforms, file names and archive formats: functions of data; the selection
  has their result as a score and a flag.
- A whole file whose hash is not that of its link: the code takes what the index sends.
- The inside of setup(): what it is called with is chosen from `Provided`.
- `FindLinksRepository`, which lists a directory; `-r` in requirements files; the report of a failure,
  argument parsing and `candidates.py`, which print.
- The text of requirements and markers.  Markers are evaluated before a model sees
  them.

## Plan

All modules of the plan are written and the theorems of each component that can be stated
for all constants are proved, with these left, in this order:

1. `NoBlockLeft` after assertions: none strikes while an entry is added or removed.
2. `BlockedStaysOut` on acyclic indexes, or a counterexample.
3. The graph's properties under an assumption that leaves stale requesters out, that is, that no
   walkback inside the loop of compile.py:277 removes the node of this loop.
