-------------------------- MODULE CandidateSelection --------------------------
(***************************************************************************)
(* How a distribution is found for a requirement: compile_roots asks       *)
(* is_possible (Versions) and then get_dist, MultiRepository.get_dist asks *)
(* its repositories in order, and each of them filters and sorts its       *)
(* candidates and resolves one after the other until one is usable         *)
(* (Repository.do_get_candidate of repos/repository.py).                   *)
(*                                                                         *)
(* A PooledCandidateMultiRepository inherits get_dist from MultiRepository *)
(* (repos/multi.py:73): its repositories, too, are asked one after the     *)
(* other, and what its get_candidates pools is never sorted together.      *)
(***************************************************************************)
EXTENDS Versions

CONSTANTS
  Candidate,     \* what repositories may offer
  CommandLines   \* requirement -> repositories and options it may be met with

(* kind is the value of the DistributionType; build the build tag of a     *)
(* wheel and score its tag_score; runs says whether Python, ABI and        *)
(* platform fit; named whether the file has the name of the project.       *)
ASSUME CandidateAssumption ==
  Candidate \subseteq [version : Version, build : Nat, kind : 0..2, score : Nat,
                       runs : BOOLEAN, named : BOOLEAN]
SDIST == 0

(* The repositories of build_repo, with what each of them has for the      *)
(* project, and the options --pre, --only-binary and max_downgrade.        *)
CommandLine == [solutions : Seq(SUBSET Candidate), sources : Seq(SUBSET Candidate),
                pooled : Seq(SUBSET Candidate), pre : BOOLEAN,
                onlyBinary : BOOLEAN, maxDowngrade : Int]
ASSUME CommandLineAssumption ==
  \A r \in Requirements : \A line \in CommandLines[r] : line \in CommandLine

VARIABLES
  args,      \* the command line
  place,     \* the repository that is being asked
  force,     \* force_allow_prerelease
  queue,     \* filtered candidates of this pass the loop has not seen
  tried,     \* tried_versions of this pass
  unusable,  \* <<place, candidate>> that resolved to nothing usable
  gaveUp,    \* repositories where max_downgrade ended a pass
  found      \* what get_dist returned or raised

selectionVars == <<args, place, force, queue, tried, unusable, gaveUp, found>>
vars == <<possibleVars, selectionVars>>

Searching == [result |-> "searching"]
Raised(ex) == [result |-> ex]
Returned(p, c) == [result |-> "dist", place |-> p, candidate |-> c]

-----------------------------------------------------------------------------
(* build_repo: solutions come first, then source trees, then links and     *)
(* indexes. *)
Repositories == args.solutions \o args.sources \o args.pooled
LastLocal == Len(args.solutions) + Len(args.sources)
AllowPrerelease(p) == p <= LastLocal \/ args.pre

(* check_usability *)
IsPinned == \E s \in requirement : s.op = "=="
Usable(c, allow) ==
  /\ c.runs
  /\ IsPrerelease(c.version) => IsPinned \/ allow
  /\ Contains(requirement, c.version)

FilterCandidates(p, allow) == {c \in Repositories[p] : Usable(c, allow)}
IsAllPrereleases(p) == \A c \in Repositories[p] : IsPrerelease(c.version)
HasPrerelease == \E s \in requirement : s.op \notin {"==*", "!=*"} /\ IsPrerelease(s.at)

(* sortkey: version, build tag, kind, tags. *)
SortsBefore(c, d) ==
  \/ Before(d.version, c.version)
  \/ /\ c.version = d.version
     /\ \/ c.build > d.build
        \/ c.build = d.build /\ c.kind > d.kind
        \/ c.build = d.build /\ c.kind = d.kind /\ c.score > d.score
(* Mutant: the kind counts before the version. *)
FirstByKind(c) == c \in queue /\ \A d \in queue : d.kind <= c.kind
FirstInQueue(c) == c \in queue /\ \A d \in queue : ~SortsBefore(d, c)

-----------------------------------------------------------------------------
SelectionInit ==
  /\ args \in CommandLines[requirement]
  /\ place = 0
  /\ force = FALSE
  /\ queue = {}
  /\ tried = {}
  /\ unusable = {}
  /\ gaveUp = {}
  /\ found = Searching

Selecting == possible = "yes" /\ found = Searching
InRepository == Selecting /\ place \in 1..Len(Repositories)

Pass(p, f) ==
  /\ place' = p
  /\ force' = f
  /\ tried' = {}
  /\ queue' = IF p <= Len(Repositories)
              THEN FilterCandidates(p, f \/ AllowPrerelease(p))
              ELSE {}

(* The first repository is asked, or the next one after the last raised    *)
(* NoCandidateException. *)
(* Mutant: one is left out. *)
SkipRepository == Pass(place + 2, FALSE)
NextRepository == Pass(place + 1, FALSE)

FirstRepository ==
  /\ Selecting /\ place = 0
  /\ NextRepository
  /\ UNCHANGED <<args, unusable, gaveUp, found>>

NoRepositoryLeft ==
  /\ Selecting /\ place > Len(Repositories)
  /\ found' = Raised("NoCandidate")
  /\ UNCHANGED <<args, place, force, queue, tried, unusable, gaveUp>>

(* The index or the file cannot be read: the exception is passed on.       *)
RepositoryError ==
  /\ InRepository
  /\ found' = Raised("RepositoryError")
  /\ UNCHANGED <<args, place, force, queue, tried, unusable, gaveUp>>

(* Source distributions are skipped with --only-binary. *)
SkipSourceDist ==
  /\ InRepository
  /\ \E c \in queue : /\ FirstInQueue(c) /\ c.kind = SDIST /\ args.onlyBinary
                      /\ queue' = queue \ {c}
  /\ UNCHANGED <<args, place, force, tried, unusable, gaveUp, found>>

Resolvable(c) == FirstInQueue(c) /\ ~(c.kind = SDIST /\ args.onlyBinary)

(* A candidate that came to nothing in the first pass is resolved again in *)
(* the second, and may be usable then: a file that was cut short is        *)
(* fetched anew (repos/pypi.py:319-325). *)
ResolveCandidate ==
  /\ InRepository
  /\ \E c \in queue : /\ Resolvable(c) /\ c.named
                      /\ found' = Returned(place, c)
  /\ UNCHANGED <<args, place, force, queue, tried, unusable, gaveUp>>

(* A MetadataError or another project: the version counts as tried, and    *)
(* after max_downgrade versions the loop ends. *)
(* Mutant: the limit is looked at before the version is counted. *)
LimitLate(vs) == args.maxDowngrade >= 0 /\ Cardinality(vs) > args.maxDowngrade
LimitReached(vs) == args.maxDowngrade >= 0 /\ Cardinality(vs) >= args.maxDowngrade
CandidateUnusable ==
  /\ InRepository
  /\ \E c \in queue :
       /\ Resolvable(c)
       /\ unusable' = unusable \cup {<<place, c>>}
       /\ tried' = tried \cup {c.version}
       /\ IF LimitReached(tried')
          THEN queue' = {} /\ gaveUp' = gaveUp \cup {place}
          ELSE queue' = queue \ {c} /\ UNCHANGED gaveUp
  /\ UNCHANGED <<args, place, force, found>>

(* The loop is over.  Where there are only prereleases, or the requirement *)
(* names one, a second pass looks at them as well. *)
(* Mutants: the second pass may follow itself; it follows in any case. *)
RetryAgain == IsAllPrereleases(place) \/ HasPrerelease
RetryAlways == ~(force \/ AllowPrerelease(place))
RetryWithPrereleases ==
  /\ IsAllPrereleases(place) \/ HasPrerelease
  /\ ~(force \/ AllowPrerelease(place))

EndOfPass ==
  /\ InRepository /\ queue = {}
  /\ IF RetryWithPrereleases THEN Pass(place, TRUE) ELSE NextRepository
  /\ UNCHANGED <<args, unusable, gaveUp, found>>

-----------------------------------------------------------------------------
GetDist == \/ FirstRepository \/ NoRepositoryLeft \/ RepositoryError
           \/ SkipSourceDist \/ ResolveCandidate \/ CandidateUnusable
           \/ EndOfPass

Answered == \/ possible \in {"no", "ValueError"}
            \/ found # Searching
Done == Answered /\ UNCHANGED vars

Init == PossibleInit /\ SelectionInit
Next == \/ IsPossible /\ UNCHANGED selectionVars
        \/ GetDist /\ UNCHANGED possibleVars
        \/ Done
Spec == Init /\ [][Next]_vars
(* One thread, and every call of a repository returns or raises. *)
FairSpec == Spec /\ WF_vars(Next)

-----------------------------------------------------------------------------
(* Properties *)

Refused(c) == c.kind = SDIST /\ args.onlyBinary
(* Nothing came of this candidate, or it was not to be used. *)
PassedOver(p, c) == <<p, c>> \in unusable \/ Refused(c)
Chosen == found.result = "dist"

(* The search stays inside its repositories, whatever fails in them: a     *)
(* candidate is only marked unusable where it was offered.                 *)
TypeOK ==
  /\ place \in 0..(Len(Repositories) + 1)
  /\ queue \subseteq Candidate
  /\ \A u \in unusable : u[1] \in 1..Len(Repositories) /\ u[2] \in Repositories[u[1]]
  /\ found.result \in {"searching", "dist", "NoCandidate", "RepositoryError"}

(* The distribution is the best its repository has: every candidate that   *)
(* would sort before it under the rules it was chosen by was resolved and  *)
(* found unusable, or is a source distribution that --only-binary refuses  *)
(* (repository.py:703-731). *)
BestOfRepository ==
  Chosen => \A c \in Repositories[found.place] :
    /\ Usable(c, force \/ AllowPrerelease(found.place))
    /\ SortsBefore(c, found.candidate)
    => PassedOver(found.place, c)

(* A later repository is asked only when the earlier ones have nothing     *)
(* left: whatever they offer that the requirement allows was tried, or the *)
(* limit of versions to try ended the search there ("If a candidate can be *)
(* found in a provided solution or source directory, the remaining         *)
(* repositories will not be considered", README.rst:127). *)
EarlierRepositoriesExhausted ==
  \A p \in 1..(place - 1) : \A c \in Repositories[p] :
    Usable(c, AllowPrerelease(p)) => PassedOver(p, c) \/ p \in gaveUp

(* A prerelease that nobody asked for is a last resort: without --pre it   *)
(* is chosen only where the requirement is a pin or names a prerelease, or *)
(* where its repository has nothing but prereleases, and even then only    *)
(* when no final release was left to try (repository.py:737-750). *)
PrereleaseIsLastResort ==
  /\ Chosen /\ IsPrerelease(found.candidate.version)
  /\ ~AllowPrerelease(found.place) /\ ~IsPinned
  => /\ IsAllPrereleases(found.place) \/ HasPrerelease
     /\ \A c \in Repositories[found.place] :
          Usable(c, FALSE) => \/ PassedOver(found.place, c)
                              \/ found.place \in gaveUp

(* No more versions are downloaded and built than max_downgrade allows,    *)
(* but always one: the second pass with prereleases starts a new count.    *)
EffortBounded ==
  args.maxDowngrade >= 0 =>
    \A p \in 1..Len(Repositories) :
      Cardinality({u[2].version : u \in {w \in unusable : w[1] = p}})
        <= 2 * (IF args.maxDowngrade = 0 THEN 1 ELSE args.maxDowngrade)

(* Whatever the repositories offer and however many candidates fail, the   *)
(* search ends. *)
AlwaysAnswers == <>Answered
=============================================================================
