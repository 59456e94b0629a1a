------------------------------ MODULE Versions ------------------------------
(***************************************************************************)
(* is_possible of req_compile/versions.py: whether the specifiers of a     *)
(* requirement can hold together, decided from a lower and an upper bound  *)
(* before any repository is asked.  Its loop runs over a frozenset, so the *)
(* specifiers come in any order.                                           *)
(*                                                                         *)
(* A version is a tuple of four release segments and a stage, 0 for a      *)
(* prerelease and 1 for a final release; a segment that is not written     *)
(* is 0.  Specifiers that is_possible does not look at ("~=", "===") are   *)
(* left out.                                                               *)
(***************************************************************************)
EXTENDS Integers, Sequences, FiniteSets

CONSTANTS
  PartMax,       \* PART_MAX: larger than any segment of a version
  Requirements   \* the specifier sets is_possible may be asked about

ASSUME PartMaxAssumption == PartMax \in Nat \ {0}

Segment == Nat
Version == Segment \X Segment \X Segment \X Segment \X {0, 1}

(* version 0.0.0 and MAX.MAX.MAX *)
Zero == <<0, 0, 0, 0, 1>>
Top3 == <<PartMax, PartMax, PartMax, 0, 1>>

(* A Specifier: at is its version; the wildcards compare the first width   *)
(* segments only.                                                          *)
Specifier == [op : {"==", "!=", "<", "<=", ">", ">=", "==*", "!=*"},
              at : Version, width : 1..2]
Spec1(op, v) == [op |-> op, at |-> v, width |-> 1]
(* PART_MAX stands for infinity: no segment comes near it. *)
ASSUME RequirementsAssumption ==
  \A r \in Requirements :
    /\ r \subseteq Specifier /\ IsFiniteSet(r)
    /\ \A s \in r : \A i \in 1..4 : s.at[i] < PartMax

Before(v, w) ==
  \E i \in 1..5 : v[i] < w[i] /\ \A j \in 1..(i - 1) : v[j] = w[j]
AtMost(v, w) == v = w \/ Before(v, w)
IsPrerelease(v) == v[5] = 0
SameRelease(v, w) == \A i \in 1..4 : v[i] = w[i]
SamePrefix(v, w, n) == \A i \in 1..n : v[i] = w[i]

(* packaging's Specifier.contains with prereleases allowed. *)
Matches(v, s) ==
  CASE s.op = "=="  -> v = s.at
    [] s.op = "!="  -> v # s.at
    [] s.op = ">="  -> AtMost(s.at, v)
    [] s.op = "<="  -> AtMost(v, s.at)
    [] s.op = ">"   -> Before(s.at, v)
    [] s.op = "<"   -> /\ Before(v, s.at)
                       /\ ~(IsPrerelease(v) /\ ~IsPrerelease(s.at)
                                            /\ SameRelease(v, s.at))
    [] s.op = "==*" -> SamePrefix(v, s.at, s.width)
    [] s.op = "!=*" -> ~SamePrefix(v, s.at, s.width)
Contains(specs, v) == \A s \in specs : Matches(v, s)

-----------------------------------------------------------------------------
(* Arithmetic on versions *)

(* _offset_minor_version(v, 1): the third segment counts up; a fourth one  *)
(* stays, a suffix is dropped. *)
OffsetUp(v) == [v EXCEPT ![3] = @ + 1, ![5] = 1]

(* _offset_minor_version(v, -1): a segment that is 0 borrows from the one  *)
(* before it.  There is no version below 0.0.0: ValueError. *)
CanOffsetDown(v) == v[1] > 0 \/ v[2] > 0 \/ v[3] > 0
OffsetDown(v) ==
  IF v[3] > 0 THEN [v EXCEPT ![3] = @ - 1, ![5] = 1]
  ELSE IF v[2] > 0
  THEN [v EXCEPT ![3] = PartMax, ![2] = @ - 1, ![5] = 1]
  ELSE [v EXCEPT ![3] = PartMax, ![2] = PartMax, ![1] = @ - 1, ![5] = 1]

(* _build_wildcard_min_max: prefix.0 and prefix.MAX. *)
Wildcard(s, last) == [i \in 1..5 |-> IF i <= s.width THEN s.at[i]
                                     ELSE IF i = s.width + 1 THEN last
                                     ELSE IF i = 5 THEN 1 ELSE 0]
WildcardMin(s) == Wildcard(s, 0)
WildcardMax(s) == Wildcard(s, PartMax)

-----------------------------------------------------------------------------
(* is_possible *)

NoVersion == <<>>

VARIABLES
  requirement,  \* the specifiers the question is about
  branch,       \* those of the alternative that is being looked at
  todo,         \* specifiers of the branch the loop has not seen
  others,       \* alternatives to look at should this one be impossible
  lower, upper, \* lower_bound and upper_bound
  exact,        \* the version of an "==" seen so far, or NoVersion
  possible      \* "unknown", then "yes", "no" or "ValueError"

bounds == <<lower, upper, exact>>
possibleVars == <<requirement, branch, todo, others, bounds, possible>>

PossibleInit ==
  /\ requirement \in Requirements
  /\ branch = requirement
  /\ todo = requirement
  /\ others = <<>>
  /\ lower = Zero
  /\ upper = Top3
  /\ exact = NoVersion
  /\ possible = "unknown"

Begin(b) == /\ branch' = b
            /\ todo' = b
            /\ lower' = Zero
            /\ upper' = Top3
            /\ exact' = NoVersion

(* The answer for this branch: "no" leaves the question to the next one.   *)
Answer(a) ==
  IF a = "no" /\ others # <<>>
  THEN /\ Begin(Head(others))
       /\ others' = Tail(others)
       /\ UNCHANGED possible
  ELSE /\ possible' = a
       /\ UNCHANGED <<branch, todo, others, bounds>>

Looping == possible = "unknown" /\ Cardinality(branch) # 1
Take(s) == todo' = todo \ {s}
(* The branches of the loop that only move a bound. *)
Raises(low) == lower' = low /\ UNCHANGED <<upper, exact>>
Lowers(up) == upper' = up /\ UNCHANGED <<lower, exact>>
Stays == UNCHANGED bounds

SingleSpecifier ==
  /\ possible = "unknown" /\ Cardinality(branch) = 1
  /\ possible' = "yes"
  /\ UNCHANGED <<requirement, branch, todo, others, bounds>>

Equal ==
  /\ Looping
  /\ \E s \in todo :
       /\ s.op = "=="
       /\ \/ /\ exact \in {NoVersion, s.at}
             /\ exact' = s.at
             /\ Take(s)
             /\ UNCHANGED <<branch, others, lower, upper, possible>>
          \/ /\ exact \notin {NoVersion, s.at}
             /\ Answer("no")
  /\ UNCHANGED requirement

EqualWildcard ==
  /\ Looping
  /\ \E s \in todo :
       /\ s.op = "==*"
       /\ Take(s)
       /\ lower' = IF Before(lower, WildcardMin(s)) THEN WildcardMin(s) ELSE lower
       /\ upper' = IF Before(WildcardMax(s), upper) THEN WildcardMax(s) ELSE upper
  /\ UNCHANGED <<requirement, branch, others, exact, possible>>

(* != 4.2.* : below 4.2.0 or above 4.2.MAX, the first answer "yes" counts. *)
(* Mutant: only the lower alternative. *)
NotEqualWildcardBelow ==
  /\ Looping
  /\ \E s \in todo :
       /\ s.op = "!=*"
       /\ Begin((branch \ {s}) \cup {Spec1("<", WildcardMin(s))})
  /\ UNCHANGED <<requirement, others, possible>>
NotEqualWildcard ==
  /\ Looping
  /\ \E s \in todo :
       /\ s.op = "!=*"
       /\ Begin((branch \ {s}) \cup {Spec1("<", WildcardMin(s))})
       /\ others' = <<(branch \ {s}) \cup {Spec1(">", WildcardMax(s))}>> \o others
  /\ UNCHANGED <<requirement, possible>>

(* not_equal is only compared with exact where exact is None. *)
NotEqual ==
  /\ Looping
  /\ \E s \in todo : s.op = "!=" /\ Take(s)
  /\ Stays /\ UNCHANGED <<requirement, branch, others, possible>>

Greater ==
  /\ Looping
  /\ \E s \in todo :
       /\ s.op = ">"
       /\ Take(s)
       /\ IF Before(lower, s.at) THEN Raises(OffsetUp(s.at)) ELSE Stays
  /\ UNCHANGED <<requirement, branch, others, possible>>

GreaterEqual ==
  /\ Looping
  /\ \E s \in todo :
       /\ s.op = ">="
       /\ Take(s)
       /\ IF AtMost(lower, s.at) THEN Raises(s.at) ELSE Stays
  /\ UNCHANGED <<requirement, branch, others, possible>>

Less ==
  /\ Looping
  /\ \E s \in todo :
       /\ s.op = "<"
       /\ \/ /\ Before(s.at, upper) /\ ~CanOffsetDown(s.at)
             /\ possible' = "ValueError"
             /\ UNCHANGED <<branch, todo, others, bounds>>
          \/ /\ Before(s.at, upper) => CanOffsetDown(s.at)
             /\ Take(s)
             /\ IF Before(s.at, upper) THEN Lowers(OffsetDown(s.at)) ELSE Stays
             /\ UNCHANGED <<branch, others, possible>>
  /\ UNCHANGED requirement

LessEqual ==
  /\ Looping
  /\ \E s \in todo :
       /\ s.op = "<="
       /\ Take(s)
       /\ IF AtMost(s.at, upper) THEN Lowers(s.at) ELSE Stays
  /\ UNCHANGED <<requirement, branch, others, possible>>

(* Mutant: the exact version is only compared with the bounds. *)
ConcludeFromBounds ==
  /\ Looping /\ todo = {}
  /\ Answer(IF Before(upper, lower) THEN "no" ELSE "yes")
  /\ UNCHANGED requirement
Conclude ==
  /\ Looping /\ todo = {}
  /\ Answer(IF \/ Before(upper, lower)
               \/ exact # NoVersion /\ ~Contains(branch, exact)
            THEN "no" ELSE "yes")
  /\ UNCHANGED requirement

IsPossible == \/ SingleSpecifier \/ Equal \/ EqualWildcard \/ NotEqualWildcard
              \/ NotEqual \/ Greater \/ GreaterEqual \/ Less \/ LessEqual
              \/ Conclude

-----------------------------------------------------------------------------
(* Properties *)

(* What a repository usually has: releases of three segments, and their    *)
(* prereleases.                                                            *)
Ordinary == LET Part == 0..(PartMax - 1)
            IN  Part \X Part \X Part \X {0} \X {0, 1}

(* The bounds of a requirement are final releases of three segments: below *)
(* and above these _offset_minor_version skips no ordinary version.        *)
NamesReleases(specs) ==
  \A s \in specs : s.op \in {"<", "<=", ">", ">="} => s.at[4] = 0 /\ s.at[5] = 1

(* A requirement that is refused is one that no ordinary version satisfies: *)
(* what is_possible calls impossible makes compile_roots unsolve a         *)
(* requester (compile.py:160) although a repository might have a candidate. *)
NeverRefuses ==
  possible = "no" /\ NamesReleases(requirement) =>
    \A v \in Ordinary : ~Contains(requirement, v)

(* With an exact version among several specifiers the answer is definite:  *)
(* "yes" only if that version satisfies all of them, wildcards included    *)
(* (versions.py:137). *)
ExactIsDefinite ==
  possible = "yes" /\ Cardinality(requirement) > 1 =>
    \A s \in requirement : s.op = "==" => Contains(requirement, s.at)
=============================================================================
