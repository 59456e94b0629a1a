---------------------------- MODULE Requirements ----------------------------
(***************************************************************************)
(* Requirements and distributions as the resolver sees them.               *)
(*                                                                         *)
(* A requirement names a project, restricts its version with a set of      *)
(* specifier clauses and may ask for extras.  Merging two requirements on  *)
(* one project (utils.py merge_requirements) is the union of their         *)
(* clauses.  Versions are whole numbers (N stands for N.0.0): enough to    *)
(* tell a satisfied clause from a violated one.  Versions.tla models the   *)
(* arithmetic on segmented versions that this module leaves out.           *)
(***************************************************************************)
EXTENDS Naturals, Sequences, FiniteSets

CONSTANTS
  Key,      \* names of projects, of input files and of do-not-use entries
  Version,  \* version numbers of published distributions
  Extra,    \* names of extras
  Dist,     \* every RequirementContainer that can enter the graph
  None      \* Python's None

(***************************************************************************)
(* One clause of a SpecifierSet, and a packaging Requirement.              *)
(***************************************************************************)
Clause == {"==", "!=", ">=", "<"} \X Version
Req == [name : Key, spec : SUBSET Clause, extras : SUBSET Extra]

(***************************************************************************)
(* A RequirementContainer.  requires[e] is the list its method             *)
(* requires(e) returns: the requirements its markers select for the extra  *)
(* e (None: without any), one per project.  version is None for            *)
(* requirement files.  meta marks the entries that are not a project,      *)
(* local those whose origin is a SourceRepository.                         *)
(***************************************************************************)
Container == [name : Key, version : Version \cup {None},
              requires : [Extra \cup {None} -> Seq(Req)],
              meta : BOOLEAN, local : BOOLEAN]

ASSUME VersionAssumption == Version \subseteq Nat
ASSUME DistAssumption == Dist \subseteq Container
ASSUME NoneAssumption == /\ None \notin Version
                         /\ None \notin Nat
                         /\ None \notin Extra
                         /\ None \notin Dist
                         /\ None \notin Req
                         /\ None \notin Key

(***************************************************************************)
(* packaging's SpecifierSet.contains(version, prereleases=True).           *)
(***************************************************************************)
Satisfies(v, c) == CASE c[1] = "==" -> v = c[2]
                     [] c[1] = "!=" -> v # c[2]
                     [] c[1] = ">=" -> v >= c[2]
                     [] c[1] = "<"  -> v < c[2]
Contains(spec, v) == \A c \in spec : Satisfies(v, c)

(***************************************************************************)
(* versions.is_possible over whole versions: whether the clauses can hold  *)
(* together, before asking any repository.  A "!=" clause counts only      *)
(* against an exact version.                                               *)
(***************************************************************************)
Exact(spec) == {c[2] : c \in {d \in spec : d[1] = "=="}}
RangeEmpty(spec) == \E lo, hi \in spec : /\ lo[1] = ">=" /\ hi[1] = "<"
                                         /\ hi[2] <= lo[2]
IsPossible(spec) ==
  \/ Cardinality(spec) = 1
  \/ /\ Cardinality(Exact(spec)) <= 1
     /\ ~RangeEmpty(spec)
     /\ \A v \in Exact(spec) : Contains(spec, v)
=============================================================================
