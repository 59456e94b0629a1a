--------------------------- MODULE VersionsProofs ---------------------------
(***************************************************************************)
(* ExactIsDefinite and NeverRefuses for any requirement and any order of   *)
(* its specifiers.                                                         *)
(*                                                                         *)
(* What is_possible looks at, a branch, is the requirement with some of    *)
(* its "!=" wildcards replaced by a stricter "<" or ">" (Stands).  An "==" *)
(* is never replaced, so a branch with one has another specifier too, and  *)
(* the version it names is compared with all of the branch in the end.     *)
(*                                                                         *)
(* In the other direction a wildcard loses no ordinary version, because    *)
(* the two alternatives share them out (OutsideWildcard), and a bound cuts *)
(* none off, because no release lies between a bound and its neighbour in  *)
(* the third segment (GreaterBound, LessBound).                            *)
(***************************************************************************)
EXTENDS Versions, FiniteSetTheorems, SequenceTheorems, TLAPS

Below(r) == Spec1("<", WildcardMin(r))
Above(r) == Spec1(">", WildcardMax(r))

(* The branch b stands for the specifiers req. *)
Stands(req, b) ==
  /\ IsFiniteSet(b)
  /\ \A r \in req :
       \/ r \in b
       \/ r.op = "!=*" /\ (Below(r) \in b \/ Above(r) \in b)
  /\ \A s \in b : s.op \in {"==", "!=*"} => s \in req

(* The version of every "==" the loop has seen is exact. *)
ExactSeen ==
  /\ \A s \in branch \ todo : s.op = "==" => exact = s.at
  /\ exact # NoVersion =>
       \E s \in branch : s.op = "==" /\ exact = s.at

PossibleInv ==
  /\ requirement \in Requirements
  /\ Stands(requirement, branch) /\ todo \subseteq branch /\ ExactSeen
  /\ \E S : others \in Seq(S)
  /\ \A i \in 1..Len(others) : Stands(requirement, others[i])
  /\ ExactIsDefinite

-----------------------------------------------------------------------------
(* A wildcard holds where its replacement does. *)

LEMMA BelowIsStricter ==
  ASSUME NEW r \in Specifier, r.op = "!=*", NEW v \in Version, Matches(v, Below(r))
  PROVE  Matches(v, r)
<1> DEFINE m == WildcardMin(r)
<1>1. Before(v, m) /\ ~(IsPrerelease(v) /\ ~IsPrerelease(m) /\ SameRelease(v, m))
  BY DEF Below, Spec1, Matches
<1>2. /\ \A i \in 1..4 : v[i] \in Nat
      /\ v[5] \in {0, 1} /\ r.width \in {1, 2}
  BY DEF Specifier, Version, Segment
<1>3. SUFFICES ASSUME SamePrefix(v, r.at, r.width) PROVE FALSE
  BY DEF Matches
<1>4. \A i \in 1..5 : m[i] = IF i <= r.width THEN r.at[i] ELSE IF i = 5 THEN 1 ELSE 0
  BY <1>2 DEF WildcardMin, Wildcard
<1> HIDE DEF m
<1>5. PICK i \in 1..5 : v[i] < m[i] /\ \A j \in 1..(i - 1) : v[j] = m[j]
  BY <1>1 DEF Before
<1>6. \A j \in 1..5 : j <= r.width => v[j] = m[j]
  BY <1>2, <1>3, <1>4 DEF SamePrefix
<1>7. i = 5
  BY <1>2, <1>4, <1>5, <1>6
<1>8. SameRelease(v, m) /\ v[5] = 0 /\ m[5] = 1
  BY <1>2, <1>4, <1>5, <1>7 DEF SameRelease
<1> QED
  BY <1>1, <1>8 DEF IsPrerelease

LEMMA AboveIsStricter ==
  ASSUME NEW r \in Specifier, r.op = "!=*", NEW v \in Version, Matches(v, Above(r)),
         \A i \in 1..4 : v[i] < PartMax
  PROVE  Matches(v, r)
<1> DEFINE m == WildcardMax(r)
<1>1. Before(m, v)
  BY DEF Above, Spec1, Matches
<1>2. /\ \A i \in 1..4 : v[i] \in Nat
      /\ v[5] \in {0, 1} /\ r.width \in {1, 2} /\ PartMax \in Nat
  BY PartMaxAssumption DEF Specifier, Version, Segment
<1>3. SUFFICES ASSUME SamePrefix(v, r.at, r.width) PROVE FALSE
  BY DEF Matches
<1>4. /\ \A i \in 1..5 : i <= r.width => m[i] = r.at[i]
      /\ m[r.width + 1] = PartMax
  BY <1>2 DEF WildcardMax, Wildcard
<1> HIDE DEF m
<1>5. PICK i \in 1..5 : m[i] < v[i] /\ \A j \in 1..(i - 1) : m[j] = v[j]
  BY <1>1 DEF Before
<1>6. \A j \in 1..5 : j <= r.width => v[j] = m[j]
  BY <1>2, <1>3, <1>4 DEF SamePrefix
<1>7. v[r.width + 1] < m[r.width + 1] /\ r.width + 1 \in 1..4
  BY <1>2, <1>4
<1>8. ~(i <= r.width)
  BY <1>2, <1>5, <1>6
<1>9. i # r.width + 1 /\ ~(r.width + 1 \in 1..(i - 1))
  BY <1>2, <1>4, <1>5, <1>7
<1> QED
  BY <1>2, <1>8, <1>9

(* What holds in a branch holds in the requirement. *)
LEMMA StandsContains ==
  ASSUME requirement \in Requirements, NEW b, Stands(requirement, b), NEW e \in requirement,
         Contains(b, e.at)
  PROVE  Contains(requirement, e.at)
<1> SUFFICES ASSUME NEW r \in requirement PROVE Matches(e.at, r)
  BY DEF Contains
<1>1. /\ r \in Specifier /\ e.at \in Version
      /\ \A i \in 1..4 : e.at[i] < PartMax
  BY RequirementsAssumption DEF Specifier
<1>2. CASE r \in b
  BY <1>2 DEF Contains
<1>3. CASE r.op = "!=*" /\ Below(r) \in b
  BY <1>1, <1>3, BelowIsStricter DEF Contains
<1>4. CASE r.op = "!=*" /\ Above(r) \in b
  BY <1>1, <1>4, AboveIsStricter DEF Contains
<1> QED
  BY <1>2, <1>3, <1>4 DEF Stands

-----------------------------------------------------------------------------
(* The steps of is_possible *)

LEMMA VersionIsNotNone == \A v \in Version : v # NoVersion
<1> SUFFICES ASSUME NEW v \in Version, v = NoVersion PROVE FALSE
  OBVIOUS
<1>1. Len(v) = 5
  BY DEF Version
<1>2. Len(v) = 0
  BY DEF NoVersion
<1> QED
  BY <1>1, <1>2

LEMMA PossibleInit1 == PossibleInit => PossibleInv
<1> SUFFICES ASSUME PossibleInit PROVE PossibleInv
  OBVIOUS
<1>1. requirement \in Requirements /\ Stands(requirement, branch)
  BY RequirementsAssumption DEF PossibleInit, Stands
<1>2. others \in Seq({}) /\ Len(others) = 0
  BY DEF PossibleInit
<1> QED
  BY <1>1, <1>2 DEF PossibleInit, PossibleInv, ExactSeen, ExactIsDefinite

(* The question goes to the next branch, or is answered. *)
LEMMA AnswerKeeps ==
  ASSUME PossibleInv, NEW a, Answer(a), requirement' = requirement, possible = "unknown",
         a = "yes" => \A s \in requirement : s.op = "==" => Contains(requirement, s.at)
  PROVE  PossibleInv'
<1>1. CASE a = "no" /\ others # <<>>
  <2>1. Begin(Head(others)) /\ others' = Tail(others) /\ possible' = possible
    BY <1>1 DEF Answer
  <2>2. PICK S : others \in Seq(S)
    BY DEF PossibleInv
  <2>3. /\ Head(others) = others[1] /\ Tail(others) \in Seq(S)
        /\ 1 \in 1..Len(others)
        /\ \A i \in 1..Len(Tail(others)) : /\ Tail(others)[i] = others[i + 1]
                                           /\ i + 1 \in 1..Len(others)
    BY <1>1, <2>2
  <2>4. Stands(requirement', branch') /\ todo' = branch' /\ exact' = NoVersion
    BY <2>1, <2>3 DEF Begin, PossibleInv
  <2>5. \A i \in 1..Len(others') : Stands(requirement', others'[i])
    BY <2>1, <2>3 DEF PossibleInv
  <2> QED
    BY <2>1, <2>2, <2>3, <2>4, <2>5 DEF PossibleInv, ExactSeen, ExactIsDefinite
<1>2. CASE ~(a = "no" /\ others # <<>>)
  <2>1. possible' = a /\ UNCHANGED <<branch, todo, others, bounds>>
    BY <1>2 DEF Answer
  <2> QED
    BY <2>1 DEF PossibleInv, Stands, ExactSeen, ExactIsDefinite, bounds
<1> QED
  BY <1>1, <1>2

(* A specifier is seen that is no "==". *)
LEMMA SeenKeeps ==
  ASSUME PossibleInv, NEW s \in todo, s.op # "==", todo' \in {todo, todo \ {s}},
         UNCHANGED <<requirement, branch, others, exact>>, possible' # "yes"
  PROVE  PossibleInv'
BY DEF PossibleInv, Stands, ExactSeen, ExactIsDefinite

LEMMA SingleKeeps ==
  ASSUME PossibleInv, SingleSpecifier PROVE PossibleInv'
<1>1. ASSUME NEW s \in requirement, s.op = "==", Cardinality(requirement) > 1 PROVE FALSE
  <2>1. IsFiniteSet(branch) /\ IsFiniteSet(requirement) /\ requirement \subseteq Specifier
    BY RequirementsAssumption DEF PossibleInv, Stands
  <2>2. PICK b : branch = {b}
    BY <2>1, FS_Singleton DEF SingleSpecifier
  <2>3. PICK r \in requirement : r # s
    BY <1>1, FS_Singleton
  <2>4. branch = {s}
    BY <1>1, <2>2 DEF PossibleInv, Stands
  <2>5. Below(r) # s /\ Above(r) # s
    BY <1>1 DEF Below, Above, Spec1
  <2> QED
    BY <2>3, <2>4, <2>5 DEF PossibleInv, Stands
<1> QED
  BY <1>1 DEF SingleSpecifier, PossibleInv, Stands, ExactSeen, ExactIsDefinite, bounds

LEMMA EqualKeeps ==
  ASSUME PossibleInv, Equal PROVE PossibleInv'
<1>1. PICK s \in todo :
        /\ s.op = "=="
        /\ \/ /\ exact \in {NoVersion, s.at} /\ exact' = s.at
              /\ todo' = todo \ {s}
              /\ UNCHANGED <<branch, others, lower, upper, possible>>
           \/ Answer("no")
  BY DEF Equal, Take
<1>2. requirement' = requirement /\ possible = "unknown"
  BY DEF Equal, Looping
<1>3. CASE Answer("no")
  BY <1>2, <1>3, AnswerKeeps
<1>4. CASE /\ exact \in {NoVersion, s.at} /\ exact' = s.at
           /\ todo' = todo \ {s}
           /\ UNCHANGED <<branch, others, lower, upper, possible>>
  <2>1. ASSUME NEW u \in branch \ todo, u.op = "==" PROVE u.at = s.at
    <3>1. u \in requirement /\ exact = u.at
      BY <2>1 DEF PossibleInv, Stands, ExactSeen
    <3>2. u.at \in Version
      BY <3>1, RequirementsAssumption DEF PossibleInv, Specifier
    <3>3. u.at # NoVersion
      BY <3>2, VersionIsNotNone
    <3> QED
      BY <1>4, <3>1, <3>3
  <2>2. ExactSeen'
    BY <1>1, <1>4, <2>1 DEF ExactSeen, PossibleInv
  <2> QED
    BY <1>2, <1>4, <2>2 DEF PossibleInv, Stands, ExactIsDefinite
<1> QED
  BY <1>1, <1>3, <1>4

LEMMA WildcardKeeps ==
  ASSUME PossibleInv, NotEqualWildcard PROVE PossibleInv'
<1>1. PICK s \in todo :
        /\ s.op = "!=*"
        /\ Begin((branch \ {s}) \cup {Below(s)})
        /\ others' = <<(branch \ {s}) \cup {Above(s)}>> \o others
  BY DEF NotEqualWildcard, Below, Above
<1>2. requirement' = requirement /\ possible' = possible /\ possible = "unknown"
  BY DEF NotEqualWildcard, Looping
<1> DEFINE b == (branch \ {s}) \cup {Below(s)}
           c == (branch \ {s}) \cup {Above(s)}
<1>3. /\ Below(s).op = "<" /\ Above(s).op = ">"
      /\ \A r : Below(r).op # "!=*" /\ Above(r).op # "!=*"
  BY DEF Below, Above, Spec1
<1>4. IsFiniteSet(b) /\ IsFiniteSet(c)
  BY FS_AddElement, FS_RemoveElement DEF PossibleInv, Stands
<1>5. Stands(requirement, b) /\ Stands(requirement, c)
  BY <1>1, <1>3, <1>4 DEF PossibleInv, Stands
<1> HIDE DEF b, c
<1>6. PICK S : others \in Seq(S)
  BY DEF PossibleInv
<1>7. <<c>> \in Seq(S \cup {c}) /\ others \in Seq(S \cup {c}) /\ Len(<<c>>) = 1 /\ <<c>>[1] = c
  BY <1>6
<1>8. others' = <<c>> \o others /\ Begin(b)
  BY <1>1 DEF b, c
<1>9. /\ others' \in Seq(S \cup {c}) /\ Len(others') = 1 + Len(others) /\ Len(others) \in Nat
      /\ \A i \in 1..(1 + Len(others)) :
           others'[i] = IF i <= 1 THEN c ELSE others[i - 1]
  BY <1>6, <1>7, <1>8, ConcatProperties
<1>10. ASSUME NEW i \in 1..Len(others') PROVE Stands(requirement, others'[i])
  <2>1. CASE i <= 1
    BY <1>5, <1>9, <2>1
  <2>2. CASE ~(i <= 1)
    <3>1. i - 1 \in 1..Len(others) /\ others'[i] = others[i - 1]
      BY <1>9, <2>2
    <3> QED
      BY <3>1 DEF PossibleInv
  <2> QED
    BY <2>1, <2>2
<1>11. Stands(requirement', branch') /\ todo' = branch' /\ exact' = NoVersion
  BY <1>2, <1>5, <1>8 DEF Begin
<1>12. \A i \in 1..Len(others') : Stands(requirement', others'[i])
  BY <1>2, <1>10
<1> QED
  BY <1>2, <1>9, <1>11, <1>12 DEF PossibleInv, ExactSeen, ExactIsDefinite

LEMMA ConcludeKeeps ==
  ASSUME PossibleInv, Conclude PROVE PossibleInv'
<1> DEFINE a == IF \/ Before(upper, lower)
                   \/ exact # NoVersion /\ ~Contains(branch, exact)
                THEN "no" ELSE "yes"
<1>1. /\ todo = {} /\ Answer(a) /\ requirement' = requirement /\ possible = "unknown"
  BY DEF Conclude, Looping
<1>2. ASSUME a = "yes", NEW s \in requirement, s.op = "=="
      PROVE  Contains(requirement, s.at)
  <2>1. s \in branch /\ exact = s.at
    BY <1>1, <1>2 DEF PossibleInv, Stands, ExactSeen
  <2>2. s.at # NoVersion
    BY RequirementsAssumption, VersionIsNotNone DEF PossibleInv, Specifier
  <2>3. Contains(branch, s.at)
    BY <1>2, <2>1, <2>2
  <2> QED
    BY <2>3, StandsContains DEF PossibleInv
<1> HIDE DEF a
<1> QED
  BY <1>1, <1>2, AnswerKeeps

LEMMA PossibleNext1 == PossibleInv /\ [IsPossible]_possibleVars => PossibleInv'
<1> SUFFICES ASSUME PossibleInv, [IsPossible]_possibleVars PROVE PossibleInv'
  OBVIOUS
<1>1. CASE UNCHANGED possibleVars
  BY <1>1 DEF possibleVars, bounds, PossibleInv, Stands, ExactSeen, ExactIsDefinite
<1>2. CASE EqualWildcard \/ NotEqual \/ Greater \/ GreaterEqual \/ Less \/ LessEqual
  <2>1. PICK s \in todo :
          /\ s.op # "==" /\ todo' \in {todo, todo \ {s}} /\ possible' # "yes"
          /\ UNCHANGED <<requirement, branch, others, exact>>
    BY <1>2 DEF EqualWildcard, NotEqual, Greater, GreaterEqual, Less, LessEqual, Looping, Take,
                Raises, Lowers, Stays, bounds
  <2> QED
    BY <2>1, SeenKeeps
<1> QED
  BY <1>1, <1>2, SingleKeeps, EqualKeeps, WildcardKeeps, ConcludeKeeps DEF IsPossible

LEMMA PossibleInvExact == PossibleInv => ExactIsDefinite
BY DEF PossibleInv

(* Whatever the specifiers are and in whatever order they come, a "yes" to *)
(* several of which one is an "==" means that its version meets them all. *)
THEOREM ExactAnswers == PossibleInit /\ [][IsPossible]_possibleVars => []ExactIsDefinite
BY PossibleInit1, PossibleNext1, PossibleInvExact, PTL

-----------------------------------------------------------------------------
(* NeverRefuses.  On ordinary versions and the bounds that arise from      *)
(* named releases, the first three segments decide.                        *)

ReleaseBefore(v, w) ==
  \/ v[1] < w[1]
  \/ v[1] = w[1] /\ v[2] < w[2]
  \/ v[1] = w[1] /\ v[2] = w[2] /\ v[3] < w[3]

(* A final release of three segments. *)
Bound(v) == v \in [1..5 -> Nat] /\ v[4] = 0 /\ v[5] = 1

Sane(s) == /\ s.at \in [1..5 -> Nat] /\ s.width \in {1, 2}
           /\ s.op \in {"<", "<=", ">", ">="} => Bound(s.at)
SaneBranch(b) == \A s \in b : Sane(s)

LEMMA BeforeIsLexicographic ==
  ASSUME NEW v, NEW w, \A i \in 1..5 : v[i] \in Nat /\ w[i] \in Nat
  PROVE  Before(v, w) <=>
           \/ ReleaseBefore(v, w)
           \/ /\ v[1] = w[1] /\ v[2] = w[2] /\ v[3] = w[3]
              /\ v[4] < w[4] \/ (v[4] = w[4] /\ v[5] < w[5])
<1>1. ASSUME Before(v, w)
      PROVE  \/ ReleaseBefore(v, w)
             \/ /\ v[1] = w[1] /\ v[2] = w[2] /\ v[3] = w[3]
                /\ v[4] < w[4] \/ (v[4] = w[4] /\ v[5] < w[5])
  <2>1. PICK i \in 1..5 : v[i] < w[i] /\ \A j \in 1..(i - 1) : v[j] = w[j]
    BY <1>1 DEF Before
  <2>2. i \in {1, 2, 3, 4, 5}
    OBVIOUS
  <2> QED
    BY <2>1, <2>2 DEF ReleaseBefore
<1>2. ASSUME NEW i \in 1..5, v[i] < w[i], \A j \in 1..(i - 1) : v[j] = w[j]
      PROVE  Before(v, w)
  BY <1>2 DEF Before
<1>3. ASSUME v[1] < w[1] PROVE Before(v, w)
  BY <1>2, <1>3
<1>4. ASSUME v[1] = w[1] /\ v[2] < w[2] PROVE Before(v, w)
  BY <1>2, <1>4
<1>5. ASSUME v[1] = w[1] /\ v[2] = w[2] /\ v[3] < w[3] PROVE Before(v, w)
  BY <1>2, <1>5
<1>6. ASSUME v[1] = w[1] /\ v[2] = w[2] /\ v[3] = w[3] /\ v[4] < w[4] PROVE Before(v, w)
  BY <1>2, <1>6
<1>7. ASSUME v[1] = w[1] /\ v[2] = w[2] /\ v[3] = w[3] /\ v[4] = w[4] /\ v[5] < w[5] PROVE Before(v, w)
  BY <1>2, <1>7
<1> QED
  BY <1>1, <1>3, <1>4, <1>5, <1>6, <1>7 DEF ReleaseBefore

LEMMA OrdinaryVersion ==
  ASSUME NEW v \in Ordinary
  PROVE  /\ v \in [1..5 -> Nat] /\ v[4] = 0 /\ v[5] \in {0, 1}
         /\ v[1] < PartMax /\ v[2] < PartMax /\ v[3] < PartMax
BY PartMaxAssumption DEF Ordinary

LEMMA VersionSegments == \A v \in Version : v \in [1..5 -> Nat]
BY DEF Version, Segment

(* An ordinary version that meets a specifier lies within the bound that   *)
(* is_possible derives from it. *)
LEMMA GreaterBound ==
  ASSUME NEW s, Sane(s), s.op = ">", NEW v \in Ordinary, Matches(v, s)
  PROVE  Bound(OffsetUp(s.at)) /\ ~ReleaseBefore(v, OffsetUp(s.at))
<1>1. Before(s.at, v)
  BY DEF Matches
<1>2. Bound(s.at)
  BY DEF Sane
<1>3. \A i \in 1..5 : s.at[i] \in Nat /\ v[i] \in Nat
  BY <1>2, OrdinaryVersion DEF Bound
<1>4. ReleaseBefore(s.at, v)
  BY <1>1, <1>2, <1>3, OrdinaryVersion, BeforeIsLexicographic DEF Bound
<1> DEFINE u == OffsetUp(s.at)
<1>5. u \in [1..5 -> Nat] /\ u[1] = s.at[1] /\ u[2] = s.at[2] /\ u[3] = s.at[3] + 1
      /\ u[4] = 0 /\ u[5] = 1
  BY <1>2 DEF OffsetUp, Bound
<1> HIDE DEF u
<1>6. ~ReleaseBefore(v, u)
  BY <1>3, <1>4, <1>5 DEF ReleaseBefore
<1> QED
  BY <1>5, <1>6 DEF Bound, u

LEMMA LessBound ==
  ASSUME NEW s, Sane(s), s.op = "<", CanOffsetDown(s.at), NEW v \in Ordinary, Matches(v, s)
  PROVE  Bound(OffsetDown(s.at)) /\ ~ReleaseBefore(OffsetDown(s.at), v)
<1>1. Before(v, s.at) /\ ~(v[5] = 0 /\ s.at[5] # 0 /\ SameRelease(v, s.at))
  BY DEF Matches, IsPrerelease
<1>2. Bound(s.at)
  BY DEF Sane
<1>3. \A i \in 1..5 : s.at[i] \in Nat /\ v[i] \in Nat
  BY <1>2, OrdinaryVersion DEF Bound
<1>4. ReleaseBefore(v, s.at)
  <2>1. CASE ~ReleaseBefore(v, s.at)
    <3>1. v[1] = s.at[1] /\ v[2] = s.at[2] /\ v[3] = s.at[3] /\ v[4] = s.at[4] /\ v[5] = 0
      BY <1>1, <1>2, <1>3, <2>1, OrdinaryVersion, BeforeIsLexicographic DEF Bound
    <3>2. SameRelease(v, s.at)
      BY <3>1 DEF SameRelease
    <3> QED
      BY <1>1, <1>2, <3>1, <3>2 DEF Bound
  <2> QED
    BY <2>1
<1> DEFINE d == OffsetDown(s.at)
<1>5. /\ d \in [1..5 -> Nat] /\ d[4] = 0 /\ d[5] = 1
      /\ \/ s.at[3] > 0 /\ d[1] = s.at[1] /\ d[2] = s.at[2] /\ d[3] = s.at[3] - 1
         \/ /\ s.at[3] = 0 /\ s.at[2] > 0
            /\ d[1] = s.at[1] /\ d[2] = s.at[2] - 1 /\ d[3] = PartMax
         \/ /\ s.at[3] = 0 /\ s.at[2] = 0 /\ s.at[1] > 0
            /\ d[1] = s.at[1] - 1 /\ d[2] = PartMax /\ d[3] = PartMax
  BY <1>2, <1>3, PartMaxAssumption DEF OffsetDown, CanOffsetDown, Bound
<1> HIDE DEF d
<1>6. ~ReleaseBefore(d, v)
  BY <1>3, <1>4, <1>5, OrdinaryVersion DEF ReleaseBefore
<1> QED
  BY <1>5, <1>6 DEF Bound, d

LEMMA WildcardBounds ==
  ASSUME NEW s, Sane(s)
  PROVE  /\ Bound(WildcardMin(s)) /\ Bound(WildcardMax(s))
         /\ \A v \in Ordinary : SamePrefix(v, s.at, s.width) =>
              ~ReleaseBefore(v, WildcardMin(s)) /\ ~ReleaseBefore(WildcardMax(s), v)
<1> DEFINE m == WildcardMin(s)
           n == WildcardMax(s)
<1>1. s.width \in {1, 2} /\ PartMax \in Nat /\ \A i \in 1..5 : s.at[i] \in Nat
  BY PartMaxAssumption DEF Sane
<1>2. /\ m \in [1..5 -> Nat] /\ m[4] = 0 /\ m[5] = 1
      /\ m[1] = s.at[1] /\ m[2] = (IF s.width = 1 THEN 0 ELSE s.at[2]) /\ m[3] = 0
  BY <1>1 DEF WildcardMin, Wildcard
<1>3. /\ n \in [1..5 -> Nat] /\ n[4] = 0 /\ n[5] = 1
      /\ n[1] = s.at[1] /\ n[2] = (IF s.width = 1 THEN PartMax ELSE s.at[2])
      /\ n[3] = (IF s.width = 1 THEN 0 ELSE PartMax)
  BY <1>1 DEF WildcardMax, Wildcard
<1> HIDE DEF m, n
<1>4. ASSUME NEW v \in Ordinary, SamePrefix(v, s.at, s.width)
      PROVE  ~ReleaseBefore(v, m) /\ ~ReleaseBefore(n, v)
  <2>1. v[1] = s.at[1] /\ (s.width = 2 => v[2] = s.at[2])
    BY <1>1, <1>4 DEF SamePrefix
  <2>2. \A i \in 1..5 : v[i] \in Nat
    BY OrdinaryVersion
  <2> QED
    BY <1>1, <1>2, <1>3, <2>1, <2>2, OrdinaryVersion DEF ReleaseBefore
<1> QED
  BY <1>2, <1>3, <1>4 DEF Bound, m, n

(* An ordinary version outside a wildcard is below or above all of it.     *)
LEMMA OutsideWildcard ==
  ASSUME NEW s, Sane(s), NEW v \in Ordinary, ~SamePrefix(v, s.at, s.width)
  PROVE  Matches(v, Below(s)) \/ Matches(v, Above(s))
<1> DEFINE m == WildcardMin(s)
           n == WildcardMax(s)
<1>1. s.width \in {1, 2} /\ PartMax \in Nat /\ \A i \in 1..5 : s.at[i] \in Nat /\ v[i] \in Nat
  BY PartMaxAssumption, OrdinaryVersion DEF Sane
<1>2. /\ m \in [1..5 -> Nat] /\ m[1] = s.at[1] /\ (s.width = 2 => m[2] = s.at[2])
  BY <1>1 DEF WildcardMin, Wildcard
<1>3. /\ n \in [1..5 -> Nat] /\ n[1] = s.at[1] /\ (s.width = 2 => n[2] = s.at[2])
  BY <1>1 DEF WildcardMax, Wildcard
<1> HIDE DEF m, n
<1>4. \/ v[1] # s.at[1]
      \/ s.width = 2 /\ v[1] = s.at[1] /\ v[2] # s.at[2]
  BY <1>1 DEF SamePrefix
<1>5. \/ Before(v, m) /\ ~SameRelease(v, m)
      \/ Before(n, v)
  <2>1. \/ ReleaseBefore(v, m) /\ ~SameRelease(v, m)
        \/ ReleaseBefore(n, v)
    BY <1>1, <1>2, <1>3, <1>4 DEF ReleaseBefore, SameRelease
  <2>2. \A i \in 1..5 : m[i] \in Nat /\ n[i] \in Nat
    BY <1>2, <1>3
  <2> QED
    BY <1>1, <2>1, <2>2, BeforeIsLexicographic
<1> QED
  BY <1>5 DEF Below, Above, Spec1, Matches, m, n

-----------------------------------------------------------------------------
(* Every ordinary version that the requirement contains is within the      *)
(* bounds of the branch, or waits in another alternative. *)

BranchAdmits(v) == /\ Contains(branch, v)
           /\ ~ReleaseBefore(v, lower) /\ ~ReleaseBefore(upper, v)
Elsewhere(v) == \E i \in 1..Len(others) : Contains(others[i], v)

Open == \A v \in Ordinary : Contains(requirement, v) => BranchAdmits(v) \/ Elsewhere(v)

BoundsInv ==
  NamesReleases(requirement) =>
    /\ SaneBranch(branch) /\ \A i \in 1..Len(others) : SaneBranch(others[i])
    /\ Bound(lower) /\ Bound(upper)
    /\ possible = "unknown" => Open
    /\ NeverRefuses

RefusalInv == PossibleInv /\ BoundsInv

LEMMA StartBounds ==
  /\ Bound(Zero) /\ Bound(Top3)
  /\ \A v \in Ordinary : ~ReleaseBefore(v, Zero) /\ ~ReleaseBefore(Top3, v)
<1>1. Zero \in [1..5 -> Nat] /\ Top3 \in [1..5 -> Nat]
  BY PartMaxAssumption DEF Zero, Top3
<1>2. /\ Zero[1] = 0 /\ Zero[2] = 0 /\ Zero[3] = 0 /\ Zero[4] = 0 /\ Zero[5] = 1
      /\ Top3[1] = PartMax /\ Top3[2] = PartMax /\ Top3[3] = PartMax
      /\ Top3[4] = 0 /\ Top3[5] = 1
  BY DEF Zero, Top3
<1>3. ASSUME NEW v \in Ordinary PROVE ~ReleaseBefore(v, Zero) /\ ~ReleaseBefore(Top3, v)
  <2>1. v[1] \in Nat /\ v[2] \in Nat /\ v[3] \in Nat
    BY OrdinaryVersion
  <2> QED
    BY <1>2, <2>1, OrdinaryVersion, PartMaxAssumption DEF ReleaseBefore
<1> QED
  BY <1>1, <1>2, <1>3 DEF Bound

LEMMA RequirementIsSane ==
  ASSUME NEW req \in Requirements, NamesReleases(req) PROVE SaneBranch(req)
<1> SUFFICES ASSUME NEW s \in req PROVE Sane(s)
  BY DEF SaneBranch
<1>1. s \in Specifier
  BY RequirementsAssumption
<1>2. s.at \in [1..5 -> Nat] /\ s.width \in {1, 2}
  BY <1>1, VersionSegments DEF Specifier
<1> QED
  BY <1>2 DEF Sane, Bound, NamesReleases

LEMMA BoundsInit1 == PossibleInit => RefusalInv
<1> SUFFICES ASSUME PossibleInit, NamesReleases(requirement) PROVE BoundsInv
  BY PossibleInit1 DEF RefusalInv, BoundsInv
<1>1. SaneBranch(branch) /\ Len(others) = 0
  BY RequirementIsSane DEF PossibleInit
<1>2. Bound(lower) /\ Bound(upper) /\ Open
  BY StartBounds DEF PossibleInit, Open, BranchAdmits
<1> QED
  BY <1>1, <1>2 DEF BoundsInv, NeverRefuses, PossibleInit

(* The branch is refused: no version fits it, so all that are left wait    *)
(* elsewhere. *)
LEMMA RefusalKeeps ==
  ASSUME RefusalInv, Answer("no"), requirement' = requirement, possible = "unknown",
         NamesReleases(requirement), \A v \in Ordinary : ~BranchAdmits(v)
  PROVE  BoundsInv'
<1>1. \A v \in Ordinary : Contains(requirement, v) => Elsewhere(v)
  BY DEF RefusalInv, BoundsInv, Open
<1>2. PICK S : others \in Seq(S)
  BY DEF RefusalInv, PossibleInv
<1>3. CASE others # <<>>
  <2>1. Begin(Head(others)) /\ others' = Tail(others) /\ possible' = possible
    BY <1>3 DEF Answer
  <2>2. /\ Head(others) = others[1] /\ Len(Tail(others)) = Len(others) - 1
        /\ Len(others) \in Nat /\ 1 \in 1..Len(others)
        /\ \A i \in 1..Len(Tail(others)) : /\ Tail(others)[i] = others[i + 1]
                                           /\ i + 1 \in 1..Len(others)
    BY <1>2, <1>3
  <2>3. /\ SaneBranch(branch') /\ \A i \in 1..Len(others') : SaneBranch(others'[i])
        /\ Bound(lower') /\ Bound(upper')
    BY <2>1, <2>2, StartBounds DEF Begin, RefusalInv, BoundsInv
  <2>4. ASSUME NEW v \in Ordinary, Contains(requirement, v)
        PROVE  \/ /\ Contains(branch', v)
                  /\ ~ReleaseBefore(v, lower') /\ ~ReleaseBefore(upper', v)
               \/ \E i \in 1..Len(others') : Contains(others'[i], v)
    <3>1. PICK i \in 1..Len(others) : Contains(others[i], v)
      BY <1>1, <2>4 DEF Elsewhere
    <3>2. CASE i = 1
      BY <2>1, <2>2, <3>1, <3>2, StartBounds DEF Begin
    <3>3. CASE i # 1
      <4>1. i - 1 \in 1..Len(others') /\ others'[i - 1] = others[i]
        BY <2>1, <2>2, <3>3
      <4> QED
        BY <3>1, <4>1
    <3> QED
      BY <3>2, <3>3
  <2>5. Open'
    BY <2>4 DEF Open, BranchAdmits, Elsewhere
  <2> QED
    BY <2>1, <2>3, <2>5 DEF BoundsInv, NeverRefuses
<1>4. CASE others = <<>>
  <2>1. possible' = "no" /\ UNCHANGED <<branch, todo, others, bounds>>
    BY <1>4 DEF Answer
  <2>2. \A v \in Ordinary : ~Contains(requirement, v)
    BY <1>1, <1>4 DEF Elsewhere
  <2> QED
    BY <2>1, <2>2 DEF RefusalInv, BoundsInv, NeverRefuses, bounds
<1> QED
  BY <1>3, <1>4

(* The loop sees a specifier and perhaps moves a bound. *)
LEMMA SeenKeepsBounds ==
  ASSUME BoundsInv, possible = "unknown", possible' = "unknown",
         UNCHANGED <<requirement, branch, others>>, NamesReleases(requirement),
         Bound(lower'), Bound(upper'),
         \A v \in Ordinary : BranchAdmits(v) => ~ReleaseBefore(v, lower') /\ ~ReleaseBefore(upper', v)
  PROVE  BoundsInv'
<1>1. ASSUME NEW v \in Ordinary, Contains(requirement, v)
      PROVE  \/ /\ Contains(branch, v)
                /\ ~ReleaseBefore(v, lower') /\ ~ReleaseBefore(upper', v)
             \/ Elsewhere(v)
  BY <1>1 DEF BoundsInv, Open, BranchAdmits
<1>2. Open'
  BY <1>1 DEF Open, BranchAdmits, Elsewhere
<1> QED
  BY <1>2 DEF BoundsInv, NeverRefuses

LEMMA EqualKeepsBounds ==
  ASSUME RefusalInv, Equal, NamesReleases(requirement) PROVE BoundsInv'
<1>1. PICK s \in todo :
        /\ s.op = "=="
        /\ \/ UNCHANGED <<branch, others, lower, upper, possible>>
           \/ exact \notin {NoVersion, s.at} /\ Answer("no")
  BY DEF Equal
<1>2. requirement' = requirement /\ possible = "unknown"
  BY DEF Equal, Looping
<1>3. CASE UNCHANGED <<branch, others, lower, upper, possible>>
  BY <1>2, <1>3, SeenKeepsBounds DEF RefusalInv, BoundsInv, BranchAdmits
<1>4. CASE exact \notin {NoVersion, s.at} /\ Answer("no")
  <2>1. PICK t \in branch : t.op = "==" /\ exact = t.at
    BY <1>4 DEF RefusalInv, PossibleInv, ExactSeen
  <2>2. s \in branch
    BY DEF RefusalInv, PossibleInv
  <2>3. ASSUME NEW v \in Ordinary, BranchAdmits(v) PROVE FALSE
    <3>1. Matches(v, s) /\ Matches(v, t)
      BY <2>2, <2>3 DEF BranchAdmits, Contains
    <3>2. v = s.at /\ v = t.at
      BY <1>1, <2>1, <3>1 DEF Matches
    <3> QED
      BY <1>4, <2>1, <3>2
  <2> QED
    BY <1>2, <1>4, <2>3, RefusalKeeps
<1> QED
  BY <1>1, <1>3, <1>4

LEMMA EqualWildcardKeepsBounds ==
  ASSUME RefusalInv, EqualWildcard, NamesReleases(requirement) PROVE BoundsInv'
<1>1. PICK s \in todo :
        /\ s.op = "==*"
        /\ lower' = IF Before(lower, WildcardMin(s)) THEN WildcardMin(s) ELSE lower
        /\ upper' = IF Before(WildcardMax(s), upper) THEN WildcardMax(s) ELSE upper
  BY DEF EqualWildcard
<1>2. UNCHANGED <<requirement, branch, others, possible>> /\ possible = "unknown"
  BY DEF EqualWildcard, Looping
<1>3. s \in branch /\ Sane(s)
  BY DEF RefusalInv, PossibleInv, BoundsInv, SaneBranch
<1>4. Bound(lower) /\ Bound(upper)
  BY DEF RefusalInv, BoundsInv
<1>5. Bound(lower') /\ Bound(upper')
  BY <1>1, <1>3, <1>4, WildcardBounds
<1>6. ASSUME NEW v \in Ordinary, BranchAdmits(v)
      PROVE  ~ReleaseBefore(v, lower') /\ ~ReleaseBefore(upper', v)
  <2>1. Matches(v, s)
    BY <1>3, <1>6 DEF BranchAdmits, Contains
  <2>2. SamePrefix(v, s.at, s.width)
    BY <1>1, <2>1 DEF Matches
  <2> QED
    BY <1>1, <1>3, <1>6, <2>2, WildcardBounds DEF BranchAdmits
<1> QED
  BY <1>2, <1>5, <1>6, SeenKeepsBounds DEF RefusalInv

LEMMA NotEqualWildcardKeepsBounds ==
  ASSUME RefusalInv, NotEqualWildcard, NamesReleases(requirement) PROVE BoundsInv'
<1>1. PICK s \in todo :
        /\ s.op = "!=*"
        /\ Begin((branch \ {s}) \cup {Below(s)})
        /\ others' = <<(branch \ {s}) \cup {Above(s)}>> \o others
  BY DEF NotEqualWildcard, Below, Above
<1>2. requirement' = requirement /\ possible' = possible /\ possible = "unknown"
  BY DEF NotEqualWildcard, Looping
<1>3. s \in branch /\ Sane(s) /\ SaneBranch(branch)
  BY DEF RefusalInv, PossibleInv, BoundsInv, SaneBranch
<1> DEFINE b == (branch \ {s}) \cup {Below(s)}
           c == (branch \ {s}) \cup {Above(s)}
<1>4. Sane(Below(s)) /\ Sane(Above(s))
  BY <1>3, WildcardBounds DEF Sane, Below, Above, Spec1, Bound
<1>5. SaneBranch(b) /\ SaneBranch(c)
  BY <1>3, <1>4 DEF SaneBranch
<1>6. ASSUME NEW v \in Ordinary, Contains(branch, v) PROVE Contains(b, v) \/ Contains(c, v)
  <2>1. Matches(v, s)
    BY <1>3, <1>6 DEF Contains
  <2>2. ~SamePrefix(v, s.at, s.width)
    BY <1>1, <2>1 DEF Matches
  <2>3. Matches(v, Below(s)) \/ Matches(v, Above(s))
    BY <1>3, <2>2, OutsideWildcard
  <2> QED
    BY <1>6, <2>3 DEF Contains
<1> HIDE DEF b, c
<1>7. PICK S : others \in Seq(S)
  BY DEF RefusalInv, PossibleInv
<1>8. <<c>> \in Seq(S \cup {c}) /\ others \in Seq(S \cup {c}) /\ Len(<<c>>) = 1 /\ <<c>>[1] = c
  BY <1>7
<1>9. others' = <<c>> \o others /\ Begin(b)
  BY <1>1 DEF b, c
<1>10. /\ Len(others') = 1 + Len(others) /\ Len(others) \in Nat
       /\ \A i \in 1..(1 + Len(others)) :
            others'[i] = IF i <= 1 THEN c ELSE others[i - 1]
  BY <1>7, <1>8, <1>9, ConcatProperties
<1>11. /\ 1 \in 1..Len(others') /\ others'[1] = c
       /\ \A i \in 1..Len(others) : i + 1 \in 1..Len(others') /\ others'[i + 1] = others[i]
  BY <1>10
<1>12. ASSUME NEW i \in 1..Len(others') PROVE SaneBranch(others'[i])
  <2>1. CASE i <= 1
    BY <1>5, <1>10, <2>1
  <2>2. CASE ~(i <= 1)
    <3>1. i - 1 \in 1..Len(others) /\ others'[i] = others[i - 1]
      BY <1>10, <2>2
    <3> QED
      BY <3>1 DEF RefusalInv, BoundsInv
  <2> QED
    BY <2>1, <2>2
<1>13. branch' = b /\ lower' = Zero /\ upper' = Top3
  BY <1>9 DEF Begin
<1>14. ASSUME NEW v \in Ordinary, Contains(requirement, v)
       PROVE  \/ /\ Contains(branch', v)
                 /\ ~ReleaseBefore(v, lower') /\ ~ReleaseBefore(upper', v)
              \/ \E i \in 1..Len(others') : Contains(others'[i], v)
  <2>1. CASE Contains(branch, v)
    BY <1>6, <1>11, <1>13, <2>1, StartBounds
  <2>2. CASE Elsewhere(v)
    BY <1>11, <2>2 DEF Elsewhere
  <2> QED
    BY <1>2, <1>14, <2>1, <2>2 DEF RefusalInv, BoundsInv, Open, BranchAdmits
<1>15. Open'
  BY <1>2, <1>14 DEF Open, BranchAdmits, Elsewhere
<1> QED
  BY <1>2, <1>5, <1>12, <1>13, <1>15, StartBounds DEF BoundsInv, NeverRefuses

LEMMA GreaterKeepsBounds ==
  ASSUME RefusalInv, Greater \/ GreaterEqual, NamesReleases(requirement) PROVE BoundsInv'
<1>1. PICK s \in todo : \/ s.op = ">" /\ lower' \in {lower, OffsetUp(s.at)}
                        \/ s.op = ">=" /\ lower' \in {lower, s.at}
  BY DEF Greater, GreaterEqual, Raises, Stays, bounds
<1>2. UNCHANGED <<requirement, branch, others, possible, upper>> /\ possible = "unknown"
  BY DEF Greater, GreaterEqual, Raises, Stays, bounds, Looping
<1>3. s \in branch /\ Sane(s) /\ Bound(s.at) /\ Bound(lower) /\ Bound(upper)
  BY <1>1 DEF RefusalInv, PossibleInv, BoundsInv, SaneBranch, Sane
<1>4. ASSUME NEW v \in Ordinary, Matches(v, s), s.op = ">=" PROVE ~ReleaseBefore(v, s.at)
  <2>1. \A i \in 1..5 : s.at[i] \in Nat /\ v[i] \in Nat
    BY <1>3, OrdinaryVersion DEF Bound
  <2>2. s.at = v \/ Before(s.at, v)
    BY <1>4 DEF Matches, AtMost
  <2> QED
    BY <2>1, <2>2, BeforeIsLexicographic DEF ReleaseBefore
<1>5. ASSUME NEW v \in Ordinary, BranchAdmits(v) PROVE ~ReleaseBefore(v, lower')
  <2>1. Matches(v, s)
    BY <1>3, <1>5 DEF BranchAdmits, Contains
  <2> QED
    BY <1>1, <1>3, <1>4, <1>5, <2>1, GreaterBound DEF BranchAdmits
<1>6. Bound(lower')
  <2>1. CASE s.op = ">"
    <3>1. Bound(OffsetUp(s.at))
      BY <1>3 DEF Bound, OffsetUp
    <3> QED
      BY <1>1, <1>3, <2>1, <3>1
  <2> QED
    BY <1>1, <1>3, <2>1
<1> QED
  BY <1>2, <1>3, <1>5, <1>6, SeenKeepsBounds DEF RefusalInv, BranchAdmits

LEMMA LessKeepsBounds ==
  ASSUME RefusalInv, Less \/ LessEqual, NamesReleases(requirement), possible' # "ValueError"
  PROVE  BoundsInv'
<1>1. PICK s \in todo :
        \/ /\ s.op = "<"
           /\ upper' = upper \/ (CanOffsetDown(s.at) /\ upper' = OffsetDown(s.at))
        \/ s.op = "<=" /\ upper' \in {upper, s.at}
  BY DEF Less, LessEqual, Lowers, Stays, bounds
<1>2. UNCHANGED <<requirement, branch, others, possible, lower>> /\ possible = "unknown"
  BY DEF Less, LessEqual, Lowers, Stays, bounds, Looping
<1>3. s \in branch /\ Sane(s) /\ Bound(s.at) /\ Bound(lower) /\ Bound(upper)
  BY <1>1 DEF RefusalInv, PossibleInv, BoundsInv, SaneBranch, Sane
<1>4. ASSUME NEW v \in Ordinary, Matches(v, s), s.op = "<=" PROVE ~ReleaseBefore(s.at, v)
  <2>1. \A i \in 1..5 : s.at[i] \in Nat /\ v[i] \in Nat
    BY <1>3, OrdinaryVersion DEF Bound
  <2>2. s.at = v \/ Before(v, s.at)
    BY <1>4 DEF Matches, AtMost
  <2> QED
    BY <2>1, <2>2, BeforeIsLexicographic DEF ReleaseBefore
<1>5. ASSUME NEW v \in Ordinary, BranchAdmits(v) PROVE ~ReleaseBefore(upper', v)
  <2>1. Matches(v, s)
    BY <1>3, <1>5 DEF BranchAdmits, Contains
  <2> QED
    BY <1>1, <1>3, <1>4, <1>5, <2>1, LessBound DEF BranchAdmits
<1>6. Bound(upper')
  <2>1. ASSUME CanOffsetDown(s.at) PROVE Bound(OffsetDown(s.at))
    BY <1>3, <2>1, PartMaxAssumption DEF Bound, OffsetDown, CanOffsetDown
  <2> QED
    BY <1>1, <1>3, <2>1
<1> QED
  BY <1>2, <1>3, <1>5, <1>6, SeenKeepsBounds DEF RefusalInv, BranchAdmits

LEMMA ConcludeKeepsBounds ==
  ASSUME RefusalInv, Conclude, NamesReleases(requirement) PROVE BoundsInv'
<1> DEFINE a == IF \/ Before(upper, lower)
                   \/ exact # NoVersion /\ ~Contains(branch, exact)
                THEN "no" ELSE "yes"
<1>1. Answer(a) /\ requirement' = requirement /\ possible = "unknown"
  BY DEF Conclude, Looping
<1>2. CASE a = "no"
  <2>1. Bound(lower) /\ Bound(upper)
    BY DEF RefusalInv, BoundsInv
  <2>2. ASSUME NEW v \in Ordinary, BranchAdmits(v) PROVE FALSE
    <3>1. CASE Before(upper, lower)
      <4>1. ReleaseBefore(upper, lower)
        BY <2>1, <3>1, BeforeIsLexicographic DEF Bound
      <4>2. /\ v[1] \in Nat /\ v[2] \in Nat /\ v[3] \in Nat
            /\ \A i \in 1..5 : lower[i] \in Nat /\ upper[i] \in Nat
        BY <2>1, OrdinaryVersion DEF Bound
      <4> QED
        BY <2>2, <4>1, <4>2 DEF BranchAdmits, ReleaseBefore
    <3>2. CASE exact # NoVersion /\ ~Contains(branch, exact)
      <4>1. PICK s \in branch : s.op = "==" /\ exact = s.at
        BY <3>2 DEF RefusalInv, PossibleInv, ExactSeen
      <4>2. Matches(v, s) /\ Contains(branch, v)
        BY <2>2 DEF BranchAdmits, Contains
      <4>3. v = exact
        BY <4>1, <4>2 DEF Matches
      <4> QED
        BY <3>2, <4>2, <4>3
    <3> QED
      BY <1>2, <3>1, <3>2
  <2> QED
    BY <1>1, <1>2, <2>2, RefusalKeeps
<1>3. CASE a # "no"
  <2>1. possible' = "yes" /\ UNCHANGED <<branch, todo, others, bounds>>
    BY <1>1, <1>3 DEF Answer
  <2> QED
    BY <1>1, <2>1 DEF RefusalInv, BoundsInv, NeverRefuses, bounds
<1> QED
  BY <1>2, <1>3

LEMMA BoundsNext1 == RefusalInv /\ [IsPossible]_possibleVars => RefusalInv'
<1> SUFFICES ASSUME RefusalInv, [IsPossible]_possibleVars PROVE BoundsInv'
  BY PossibleNext1 DEF RefusalInv
<1>1. requirement' = requirement
  BY DEF possibleVars, IsPossible, SingleSpecifier, Equal, EqualWildcard, NotEqualWildcard,
         NotEqual, Greater, GreaterEqual, Less, LessEqual, Conclude
<1>2. CASE ~NamesReleases(requirement)
  BY <1>1, <1>2 DEF BoundsInv
<1>3. CASE NamesReleases(requirement)
  <2>1. CASE UNCHANGED possibleVars
    BY <2>1 DEF possibleVars, bounds, RefusalInv, BoundsInv, Open, BranchAdmits, Elsewhere, NeverRefuses
  <2>2. CASE SingleSpecifier
    BY <1>3, <2>2 DEF SingleSpecifier, bounds, RefusalInv, BoundsInv, NeverRefuses
  <2>3. CASE NotEqual
    <3>1. UNCHANGED <<requirement, branch, others, possible, lower, upper>> /\ possible = "unknown"
      BY <2>3 DEF NotEqual, Stays, bounds, Looping
    <3> QED
      BY <1>3, <3>1, SeenKeepsBounds DEF RefusalInv, BoundsInv, BranchAdmits
  <2>4. CASE (Less \/ LessEqual) /\ possible' = "ValueError"
    <3>1. UNCHANGED <<branch, others, lower, upper>>
      BY <2>4 DEF Less, LessEqual, bounds, Looping
    <3> QED
      BY <1>1, <1>3, <2>4, <3>1 DEF RefusalInv, BoundsInv, NeverRefuses
  <2> QED
    BY <1>3, <2>1, <2>2, <2>3, <2>4, EqualKeepsBounds, EqualWildcardKeepsBounds,
       NotEqualWildcardKeepsBounds, GreaterKeepsBounds, LessKeepsBounds, ConcludeKeepsBounds
    DEF IsPossible
<1> QED
  BY <1>2, <1>3

LEMMA BoundsInvSound == RefusalInv => NeverRefuses
BY DEF RefusalInv, BoundsInv, NeverRefuses

(* Whatever the specifiers are and in whatever order they come: where the  *)
(* bounds are final releases of three segments, a requirement that is      *)
(* refused is one that no ordinary version meets. *)
THEOREM RefusesOnlyImpossible ==
  PossibleInit /\ [][IsPossible]_possibleVars => []NeverRefuses
BY BoundsInit1, BoundsNext1, BoundsInvSound, PTL
=============================================================================
