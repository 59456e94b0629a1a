--------------------------- MODULE SelectionProofs ---------------------------
(***************************************************************************)
(* Theorems about CandidateSelection for any candidates, any repositories  *)
(* and any command line.                                                   *)
(*                                                                         *)
(* The invariant follows one pass through a repository: every candidate    *)
(* the pass admits is still in the queue, or was passed over, or the pass  *)
(* was given up (PassSafe); a second pass remembers what the first one     *)
(* came to (ForceSafe); and the versions a repository was tried with are   *)
(* counted over both of its passes (EffortSafe).                           *)
(***************************************************************************)
EXTENDS CandidateSelection, VersionsProofs

InRange == place \in 1..Len(Repositories)
Allowed == force \/ AllowPrerelease(place)

ArgsSafe == /\ requirement \in Requirements
            /\ args \in CommandLine
            /\ Repositories \in Seq(SUBSET Candidate)
PlaceSafe == /\ place \in 0..(Len(Repositories) + 1)
             /\ force \in BOOLEAN
             /\ ~InRange => queue = {}
             /\ InRange => \A c \in queue : c \in Repositories[place] /\ Usable(c, Allowed)
             /\ \A u \in unusable : u[1] \in 1..Len(Repositories) /\ u[2] \in Repositories[u[1]]
PassSafe == InRange => \A c \in Repositories[place] :
                         Usable(c, Allowed) => \/ c \in queue
                                               \/ PassedOver(place, c)
                                               \/ queue = {} /\ place \in gaveUp
ForceSafe == force => /\ InRange /\ (IsAllPrereleases(place) \/ HasPrerelease)
                      /\ \A c \in Repositories[place] :
                           Usable(c, FALSE) => PassedOver(place, c) \/ place \in gaveUp
FoundSafe == /\ found.result \in {"searching", "dist", "NoCandidate", "RepositoryError"}
             /\ Chosen => /\ InRange /\ found.place = place
                          /\ FirstInQueue(found.candidate)

SelectionInv == /\ ArgsSafe /\ PlaceSafe /\ PassSafe /\ ForceSafe /\ FoundSafe
                /\ EarlierRepositoriesExhausted

-----------------------------------------------------------------------------
LEMMA RepositoriesTyped ==
  ASSUME args \in CommandLine PROVE Repositories \in Seq(SUBSET Candidate)
BY DEF CommandLine, Repositories

LEMMA InitInv == Init => SelectionInv
<1> SUFFICES ASSUME Init PROVE SelectionInv
  OBVIOUS
<1> USE DEF Init, PossibleInit, SelectionInit
<1>1. ArgsSafe
  BY CommandLineAssumption, RepositoriesTyped DEF ArgsSafe
<1>2. Len(Repositories) \in Nat /\ ~InRange
  BY <1>1 DEF ArgsSafe, InRange
<1>3. PlaceSafe /\ PassSafe /\ ForceSafe
  <2>1. place \in 0..(Len(Repositories) + 1)
    BY <1>2
  <2> QED
    BY <1>2, <2>1 DEF PlaceSafe, PassSafe, ForceSafe
<1>4. FoundSafe
  BY DEF FoundSafe, Searching, Chosen
<1>5. EarlierRepositoriesExhausted
  BY DEF EarlierRepositoriesExhausted
<1> QED
  BY <1>1, <1>3, <1>4, <1>5 DEF SelectionInv

(* What no step changes. *)
LEMMA ArgsKept ==
  ASSUME ArgsSafe, Next
  PROVE  /\ requirement' = requirement /\ args' = args /\ ArgsSafe'
         /\ Repositories' = Repositories
<1>1. requirement' = requirement /\ args' = args
  BY DEF Next, IsPossible, SingleSpecifier, Equal, EqualWildcard, NotEqualWildcard, NotEqual,
         Greater, GreaterEqual, Less, LessEqual, Conclude, GetDist, FirstRepository,
         NoRepositoryLeft, RepositoryError, SkipSourceDist, ResolveCandidate,
         CandidateUnusable, EndOfPass, Done, selectionVars, possibleVars, vars
<1>2. Repositories' = Repositories
  BY <1>1 DEF Repositories
<1> QED
  BY <1>1, <1>2 DEF ArgsSafe

LEMMA UsableMore ==
  ASSUME NEW c, NEW allow \in BOOLEAN, Usable(c, FALSE) PROVE Usable(c, allow)
BY DEF Usable

(* Steps that only say something about the answer *)
LEMMA AnswersInv ==
  ASSUME SelectionInv, Next, UNCHANGED <<place, force, queue, unusable, gaveUp>>,
         \/ found' = found
         \/ found' \in {Raised("NoCandidate"), Raised("RepositoryError")}
         \/ InRange /\ \E c \in queue : FirstInQueue(c) /\ found' = Returned(place, c)
  PROVE  SelectionInv'
<1>1. requirement' = requirement /\ args' = args /\ ArgsSafe' /\ Repositories' = Repositories
  BY ArgsKept DEF SelectionInv
<1> USE <1>1 DEF SelectionInv, InRange, Allowed, AllowPrerelease, LastLocal, Usable, IsPinned,
                 PassedOver, Refused
<1>2. PlaceSafe'
  BY DEF PlaceSafe
<1>3. PassSafe'
  BY DEF PassSafe
<1>4. ForceSafe'
  BY DEF ForceSafe, IsAllPrereleases, HasPrerelease
<1>5. FoundSafe'
  BY DEF FoundSafe, Chosen, FirstInQueue, Raised, Returned
<1>6. EarlierRepositoriesExhausted'
  BY DEF EarlierRepositoriesExhausted
<1> QED
  BY <1>2, <1>3, <1>4, <1>5, <1>6

(* A pass begins: at the next repository, or again at the same one. *)
LEMMA PassInv ==
  ASSUME SelectionInv, Next, NEW p, NEW f \in BOOLEAN, Pass(p, f), found = Searching,
         UNCHANGED <<args, unusable, gaveUp, found>>,
         \/ p = place + 1 /\ f = FALSE /\ (place = 0 \/ (InRange /\ queue = {}))
         \/ InRange /\ p = place /\ f = TRUE /\ queue = {} /\ RetryWithPrereleases
  PROVE  SelectionInv'
<1>1. requirement' = requirement /\ args' = args /\ ArgsSafe' /\ Repositories' = Repositories
  BY ArgsKept DEF SelectionInv
<1>2. Len(Repositories) \in Nat
  BY DEF SelectionInv, ArgsSafe
<1>3. place' = p /\ force' = f /\ p \in 1..(Len(Repositories) + 1) /\ place \in Nat
  BY <1>2 DEF Pass, SelectionInv, PlaceSafe, InRange
<1>4. queue' = IF p <= Len(Repositories)
               THEN {c \in Repositories[p] : Usable(c, f \/ AllowPrerelease(p))} ELSE {}
  BY DEF Pass, FilterCandidates
<1> USE <1>1 DEF SelectionInv
<1> DEFINE Fits(c) == Usable(c, f \/ AllowPrerelease(p))
<1>a. ASSUME NEW c PROVE Usable(c, Allowed)' <=> Fits(c)
  BY <1>3 DEF Usable, IsPinned, Allowed, AllowPrerelease, LastLocal
<1>b. queue' = IF p <= Len(Repositories) THEN {c \in Repositories[p] : Fits(c)} ELSE {}
  BY <1>4
<1>c. InRange' <=> p <= Len(Repositories)
  BY <1>2, <1>3 DEF InRange
<1> HIDE DEF Fits
<1>5. PlaceSafe'
  <2>1. place' \in 0..(Len(Repositories) + 1) /\ force' \in BOOLEAN
    BY <1>2, <1>3
  <2>2. \A u \in unusable : u[1] \in 1..Len(Repositories) /\ u[2] \in Repositories[u[1]]
    BY DEF PlaceSafe
  <2>3. ~InRange' => queue' = {}
    BY <1>b, <1>c
  <2>4. ASSUME InRange', NEW c \in queue'
        PROVE  c \in Repositories'[place'] /\ Usable(c, Allowed)'
    BY <1>3, <1>a, <1>b, <1>c, <2>4
  <2> QED
    BY <2>1, <2>2, <2>3, <2>4 DEF PlaceSafe
<1>6. PassSafe'
  <2> SUFFICES ASSUME InRange', NEW c \in Repositories[p], Usable(c, Allowed)'
               PROVE  c \in queue'
    BY <1>3 DEF PassSafe
  <2> QED
    BY <1>a, <1>b, <1>c
<1> USE DEF InRange, Allowed, AllowPrerelease, LastLocal, Usable, IsPinned, PassedOver, Refused
<1>7. ForceSafe'
  <2>1. CASE f = FALSE
    BY <1>3, <2>1 DEF ForceSafe
  <2>2. CASE InRange /\ p = place /\ f = TRUE /\ queue = {} /\ RetryWithPrereleases
    <3>1. (IsAllPrereleases(place) \/ HasPrerelease)'
      BY <1>3, <2>2 DEF RetryWithPrereleases, IsAllPrereleases, HasPrerelease
    <3>2. \A c \in Repositories[place] :
            Usable(c, FALSE) => PassedOver(place, c) \/ place \in gaveUp
      BY <2>2 DEF PassSafe, RetryWithPrereleases, PlaceSafe
    <3> QED
      BY <1>3, <2>2, <3>1, <3>2 DEF ForceSafe
  <2> QED
    BY <2>1, <2>2
<1>8. FoundSafe'
  BY DEF FoundSafe, Chosen, Searching
<1>9. EarlierRepositoriesExhausted'
  <2> SUFFICES ASSUME NEW q \in 1..(p - 1), NEW c \in Repositories[q],
                      Usable(c, AllowPrerelease(q))
               PROVE  PassedOver(q, c) \/ q \in gaveUp
    BY <1>3 DEF EarlierRepositoriesExhausted
  <2>1. CASE q \in 1..(place - 1)
    BY <2>1 DEF EarlierRepositoriesExhausted
  <2>2. CASE q = place
    <3>1. InRange /\ queue = {}
      BY <1>2, <1>3, <2>2
    <3> QED
      BY <2>2, <3>1 DEF PassSafe
  <2> QED
    BY <1>3, <2>1, <2>2
<1> QED
  BY <1>5, <1>6, <1>7, <1>8, <1>9

(* The loop goes on after a candidate, or gives up.  *)
LEMMA SeenInv ==
  ASSUME SelectionInv, Next, InRange, found = Searching, NEW c \in queue,
         UNCHANGED <<args, place, force, found>>,
         unusable \subseteq unusable', gaveUp \subseteq gaveUp',
         unusable' \subseteq unusable \cup {<<place, c>>},
         \/ queue' = queue \ {c} /\ (Refused(c) \/ <<place, c>> \in unusable')
         \/ queue' = {} /\ place \in gaveUp'
  PROVE  SelectionInv'
<1>1. requirement' = requirement /\ args' = args /\ ArgsSafe' /\ Repositories' = Repositories
  BY ArgsKept DEF SelectionInv
<1> USE <1>1 DEF SelectionInv, InRange, Allowed, AllowPrerelease, LastLocal, Usable, IsPinned,
                 PassedOver, Refused
<1>2. PlaceSafe'
  <2>1. queue' \subseteq queue
    OBVIOUS
  <2>2. ASSUME NEW u \in unusable'
        PROVE  u[1] \in 1..Len(Repositories) /\ u[2] \in Repositories[u[1]]
    <3>1. CASE u \in unusable
      BY <3>1 DEF PlaceSafe
    <3>2. CASE u = <<place, c>>
      <4>1. u[1] = place /\ u[2] = c
        BY <3>2
      <4> QED
        BY <4>1 DEF PlaceSafe
    <3> QED
      BY <3>1, <3>2
  <2> QED
    BY <2>1, <2>2 DEF PlaceSafe
<1>3. PassSafe'
  BY DEF PassSafe
<1>4. ForceSafe'
  BY DEF ForceSafe, IsAllPrereleases, HasPrerelease
<1>5. FoundSafe'
  BY DEF FoundSafe, Chosen, Searching
<1>6. EarlierRepositoriesExhausted'
  BY DEF EarlierRepositoriesExhausted
<1> QED
  BY <1>2, <1>3, <1>4, <1>5, <1>6

LEMMA NextInv == SelectionInv /\ [Next]_vars => SelectionInv'
<1> SUFFICES ASSUME SelectionInv, [Next]_vars PROVE SelectionInv'
  OBVIOUS
<1>1. CASE UNCHANGED vars \/ Done
  <2>1. Done \/ UNCHANGED vars => UNCHANGED vars
    BY DEF Done
  <2>2. UNCHANGED <<requirement, selectionVars>>
    BY <1>1, <2>1 DEF vars, possibleVars
  <2> QED
    BY <2>2 DEF SelectionInv, ArgsSafe, PlaceSafe, PassSafe, ForceSafe, FoundSafe, Chosen, InRange,
                Allowed, AllowPrerelease, LastLocal, Usable, IsPinned, PassedOver, Refused,
                Repositories, IsAllPrereleases, HasPrerelease, FirstInQueue,
                EarlierRepositoriesExhausted, selectionVars
<1>2. CASE IsPossible /\ UNCHANGED selectionVars
  <2>1. Next
    BY <1>2 DEF Next
  <2> QED
    BY <1>2, <2>1, AnswersInv DEF selectionVars
<1>3. CASE GetDist /\ UNCHANGED possibleVars
  <2>0. Next
    BY <1>3 DEF Next
  <2>1. CASE FirstRepository
    BY <2>0, <2>1, PassInv DEF FirstRepository, NextRepository, Selecting
  <2>2. CASE NoRepositoryLeft \/ RepositoryError
    BY <2>0, <2>2, AnswersInv DEF NoRepositoryLeft, RepositoryError
  <2>3. CASE SkipSourceDist
    BY <2>0, <2>3, SeenInv DEF SkipSourceDist, InRepository, Selecting, InRange, Refused
  <2>4. CASE ResolveCandidate
    BY <2>0, <2>4, AnswersInv DEF ResolveCandidate, InRepository, InRange, Resolvable
  <2>5. CASE CandidateUnusable
    <3>1. PICK c \in queue :
            /\ unusable' = unusable \cup {<<place, c>>}
            /\ \/ queue' = {} /\ gaveUp' = gaveUp \cup {place}
               \/ queue' = queue \ {c} /\ UNCHANGED gaveUp
      BY <2>5 DEF CandidateUnusable
    <3>2. InRange /\ found = Searching /\ UNCHANGED <<args, place, force, found>>
      BY <2>5 DEF CandidateUnusable, InRepository, Selecting, InRange
    <3> QED
      BY <2>0, <3>1, <3>2, SeenInv
  <2>6. CASE EndOfPass
    BY <2>0, <2>6, PassInv
       DEF EndOfPass, NextRepository, InRepository, Selecting, InRange
  <2> QED
    BY <1>3, <2>1, <2>2, <2>3, <2>4, <2>5, <2>6 DEF GetDist
<1> QED
  BY <1>1, <1>2, <1>3 DEF Next

LEMMA SelectionInvariant == Spec => []SelectionInv
BY InitInv, NextInv, PTL DEF Spec

-----------------------------------------------------------------------------
(* What it says *)

LEMMA InvTypeOK == SelectionInv => TypeOK
<1> SUFFICES ASSUME SelectionInv PROVE TypeOK
  OBVIOUS
<1>1. queue \subseteq Candidate
  <2>1. CASE InRange
    BY <2>1 DEF SelectionInv, ArgsSafe, PlaceSafe, InRange
  <2>2. CASE ~InRange
    BY <2>2 DEF SelectionInv, PlaceSafe
  <2> QED
    BY <2>1, <2>2
<1> QED
  BY <1>1 DEF SelectionInv, PlaceSafe, FoundSafe, TypeOK

LEMMA InvBest == SelectionInv => BestOfRepository
<1> SUFFICES ASSUME SelectionInv, Chosen, NEW c \in Repositories[found.place],
                    Usable(c, force \/ AllowPrerelease(found.place)),
                    SortsBefore(c, found.candidate)
             PROVE  PassedOver(found.place, c)
  BY DEF BestOfRepository
<1>1. InRange /\ found.place = place /\ FirstInQueue(found.candidate)
  BY DEF SelectionInv, FoundSafe
<1>2. c \notin queue /\ queue # {}
  BY <1>1 DEF FirstInQueue
<1> QED
  BY <1>1, <1>2 DEF SelectionInv, PassSafe, Allowed

LEMMA InvLastResort == SelectionInv => PrereleaseIsLastResort
<1> SUFFICES ASSUME SelectionInv, Chosen, IsPrerelease(found.candidate.version),
                    ~AllowPrerelease(found.place), ~IsPinned
             PROVE  /\ IsAllPrereleases(found.place) \/ HasPrerelease
                    /\ \A c \in Repositories[found.place] :
                         Usable(c, FALSE) => \/ PassedOver(found.place, c)
                                             \/ found.place \in gaveUp
  BY DEF PrereleaseIsLastResort
<1>1. InRange /\ found.place = place /\ found.candidate \in queue
  BY DEF SelectionInv, FoundSafe, FirstInQueue
<1>2. Usable(found.candidate, Allowed)
  BY <1>1 DEF SelectionInv, PlaceSafe
<1>3. Allowed
  BY <1>2 DEF Usable
<1>4. force
  BY <1>1, <1>3 DEF Allowed
<1> QED
  BY <1>1, <1>4 DEF SelectionInv, ForceSafe

(* The search stays inside its repositories, whatever fails in them. *)
THEOREM SearchTypes == Spec => []TypeOK
BY SelectionInvariant, InvTypeOK, PTL

(* Whatever the repositories offer and whatever fails to resolve, a        *)
(* distribution is the best its repository had left to offer.              *)
THEOREM BestIsChosen == Spec => []BestOfRepository
BY SelectionInvariant, InvBest, PTL

(* However many repositories there are, the next one is only asked when    *)
(* those before it have nothing left. *)
THEOREM EarlierFirst == Spec => []EarlierRepositoriesExhausted
<1>1. SelectionInv => EarlierRepositoriesExhausted
  BY DEF SelectionInv
<1> QED
  BY <1>1, SelectionInvariant, PTL

(* A prerelease nobody asked for only comes out of a second pass, after    *)
(* the final releases of its repository. *)
THEOREM PrereleaseLast == Spec => []PrereleaseIsLastResort
BY SelectionInvariant, InvLastResort, PTL

-----------------------------------------------------------------------------
(* Effort: a pass stops at the limit, so the versions a repository was     *)
(* tried with are those of at most two passes. *)

Limit == IF args.maxDowngrade = 0 THEN 1 ELSE args.maxDowngrade
TriedAt(p) == {u[2].version : u \in {w \in unusable : w[1] = p}}

EffortSafe ==
  args.maxDowngrade >= 0 =>
    /\ IsFiniteSet(tried) /\ Cardinality(tried) <= Limit
    /\ queue # {} => Cardinality(tried) < Limit
    /\ \A p \in Nat : IsFiniteSet(TriedAt(p)) /\ Cardinality(TriedAt(p)) <= 2 * Limit
    /\ \A p \in Nat : p > place => TriedAt(p) = {}
    /\ tried \subseteq TriedAt(place)
    /\ ~force => TriedAt(place) \subseteq tried
    /\ force => Cardinality(TriedAt(place)) <= Limit + Cardinality(tried)

LEMMA TriedAtGrows ==
  ASSUME NEW c, NEW q, unusable' = unusable \cup {<<q, c>>}
  PROVE  \A p : TriedAt(p)' = IF p = q THEN TriedAt(q) \cup {c.version} ELSE TriedAt(p)
<1>1. <<q, c>>[1] = q /\ <<q, c>>[2] = c
  OBVIOUS
<1> QED
  BY <1>1 DEF TriedAt

LEMMA LimitTyped ==
  ASSUME ArgsSafe, args.maxDowngrade >= 0
  PROVE  args.maxDowngrade \in Nat /\ Limit \in Nat \ {0}
BY DEF ArgsSafe, CommandLine, Limit

LEMMA InitEffort == Init => EffortSafe
<1> SUFFICES ASSUME Init, args.maxDowngrade >= 0 PROVE EffortSafe
  BY DEF EffortSafe
<1>1. Limit \in Nat \ {0}
  BY InitInv, LimitTyped DEF SelectionInv
<1>2. \A p : TriedAt(p) = {}
  BY DEF Init, SelectionInit, TriedAt
<1> QED
  BY <1>1, <1>2, FS_EmptySet DEF Init, SelectionInit, EffortSafe

(* Nothing was tried. *)
LEMMA EffortStays ==
  ASSUME EffortSafe, UNCHANGED <<args, place, force, tried, unusable>>, queue' \subseteq queue
  PROVE  EffortSafe'
BY DEF EffortSafe, Limit, TriedAt

LEMMA EffortPass ==
  ASSUME SelectionInv, EffortSafe, NEW p, NEW f \in BOOLEAN, Pass(p, f),
         UNCHANGED <<args, unusable>>,
         \/ p = place + 1 /\ f = FALSE
         \/ p = place /\ f = TRUE /\ ~force
  PROVE  EffortSafe'
<1> SUFFICES ASSUME args.maxDowngrade >= 0 PROVE EffortSafe'
  BY DEF EffortSafe
<1>1. Limit' = Limit /\ Limit \in Nat \ {0} /\ place \in Nat
  <2>1. Len(Repositories) \in Nat
    BY DEF SelectionInv, ArgsSafe
  <2> QED
    BY <2>1, LimitTyped DEF SelectionInv, PlaceSafe, Limit
<1>2. ASSUME NEW q PROVE TriedAt(q)' = TriedAt(q)
  BY DEF TriedAt
<1>3. place' = p /\ force' = f /\ tried' = {} /\ p \in Nat
  BY <1>1 DEF Pass
<1>4. IsFiniteSet({}) /\ Cardinality({}) = 0
  BY FS_EmptySet
<1>5. p = place + 1 => TriedAt(p) = {}
  BY <1>1 DEF EffortSafe
<1>6. ~force => Cardinality(TriedAt(place)) <= Limit
  <2>1. ~force => TriedAt(place) = tried
    BY DEF EffortSafe
  <2> QED
    BY <2>1 DEF EffortSafe
<1>7. \A q \in Nat : /\ IsFiniteSet(TriedAt(q)') /\ Cardinality(TriedAt(q)') <= 2 * Limit
                     /\ q > p => TriedAt(q)' = {}
  BY <1>1, <1>2, <1>3 DEF EffortSafe
<1>8. /\ ~f => TriedAt(p)' \subseteq {}
      /\ f => Cardinality(TriedAt(p)') <= Limit
  BY <1>2, <1>5, <1>6
<1> QED
  BY <1>1, <1>3, <1>4, <1>7, <1>8 DEF EffortSafe

LEMMA EffortUnusable ==
  ASSUME SelectionInv, EffortSafe, CandidateUnusable
  PROVE  EffortSafe'
<1> SUFFICES ASSUME args.maxDowngrade >= 0 PROVE EffortSafe'
  BY DEF EffortSafe, CandidateUnusable
<1> DEFINE max == args.maxDowngrade
<1>0. PICK c \in queue :
        /\ unusable' = unusable \cup {<<place, c>>}
        /\ tried' = tried \cup {c.version}
        /\ IF LimitReached(tried') THEN queue' = {} ELSE queue' = queue \ {c}
        /\ UNCHANGED <<args, place, force>>
  BY DEF CandidateUnusable
<1> DEFINE v == c.version
<1>1. /\ Limit' = Limit /\ Limit \in Nat \ {0} /\ max \in Nat
      /\ Limit = IF max = 0 THEN 1 ELSE max
      /\ place \in Nat
  <2>1. Len(Repositories) \in Nat
    BY DEF SelectionInv, ArgsSafe
  <2> QED
    BY <1>0, <2>1, LimitTyped DEF SelectionInv, PlaceSafe, Limit
<1> DEFINE n == Cardinality(tried)
           at == TriedAt(place)
<1>2. IsFiniteSet(tried) /\ n \in Nat /\ n < Limit
  BY <1>0, FS_CardinalityType DEF EffortSafe
<1>3. IsFiniteSet(at) /\ Cardinality(at) \in Nat /\ tried \subseteq at
  BY <1>1, FS_CardinalityType DEF EffortSafe
<1>4. /\ IsFiniteSet(tried')
      /\ Cardinality(tried') = IF v \in tried THEN n ELSE n + 1
  BY <1>0, <1>2, FS_AddElement
<1>5. \A p : TriedAt(p)' = IF p = place THEN at \cup {v} ELSE TriedAt(p)
  BY <1>0, TriedAtGrows
<1>6. /\ IsFiniteSet(at \cup {v})
      /\ Cardinality(at \cup {v}) = IF v \in at THEN Cardinality(at) ELSE Cardinality(at) + 1
  BY <1>3, FS_AddElement
<1>7. Cardinality(tried') <= Limit /\ (queue' # {} => Cardinality(tried') < Limit)
  BY <1>0, <1>1, <1>2, <1>4 DEF LimitReached
<1>8. ~force => at \cup {v} = tried'
  BY <1>0, <1>3 DEF EffortSafe
<1>9. force => Cardinality(at \cup {v}) <= Limit + Cardinality(tried')
  <2>1. force => Cardinality(at) <= Limit + n
    BY DEF EffortSafe
  <2> QED
    BY <1>1, <1>2, <1>3, <1>4, <1>6, <2>1
<1>10. Cardinality(at \cup {v}) <= 2 * Limit
  <2>1. Cardinality(tried') \in Nat /\ Cardinality(at \cup {v}) \in Nat
    BY <1>4, <1>6, FS_CardinalityType
  <2>2. CASE force
    BY <1>1, <1>7, <1>9, <2>1, <2>2
  <2>3. CASE ~force
    BY <1>1, <1>7, <1>8, <2>1, <2>3
  <2> QED
    BY <2>2, <2>3
<1>11. \A p \in Nat : /\ IsFiniteSet(TriedAt(p)') /\ Cardinality(TriedAt(p)') <= 2 * Limit
                      /\ p > place => TriedAt(p)' = {}
  <2> SUFFICES ASSUME NEW p \in Nat
               PROVE  /\ IsFiniteSet(TriedAt(p)') /\ Cardinality(TriedAt(p)') <= 2 * Limit
                      /\ p > place => TriedAt(p)' = {}
    OBVIOUS
  <2>1. CASE p = place
    BY <1>1, <1>5, <1>6, <1>10, <2>1
  <2>2. CASE p # place
    BY <1>5, <2>2 DEF EffortSafe
  <2> QED
    BY <2>1, <2>2
<1>12. tried' = tried \cup {v} /\ UNCHANGED <<args, place, force>>
  BY <1>0
<1> HIDE DEF v, at
<1>13. TriedAt(place)' = at \cup {v} /\ tried' \subseteq at \cup {v}
  BY <1>3, <1>5, <1>12
<1> QED
  BY <1>1, <1>4, <1>7, <1>8, <1>9, <1>11, <1>12, <1>13 DEF EffortSafe

LEMMA NextEffort == SelectionInv /\ EffortSafe /\ [Next]_vars => EffortSafe'
<1> SUFFICES ASSUME SelectionInv, EffortSafe, [Next]_vars PROVE EffortSafe'
  OBVIOUS
<1>1. CASE UNCHANGED selectionVars
  BY <1>1, EffortStays DEF selectionVars
<1>2. CASE GetDist
  <2>1. CASE FirstRepository
    BY <2>1, EffortPass DEF FirstRepository, NextRepository
  <2>2. CASE NoRepositoryLeft \/ RepositoryError \/ SkipSourceDist \/ ResolveCandidate
    BY <2>2, EffortStays
       DEF NoRepositoryLeft, RepositoryError, SkipSourceDist, ResolveCandidate
  <2>3. CASE CandidateUnusable
    BY <2>3, EffortUnusable
  <2>4. CASE EndOfPass
    BY <2>4, EffortPass DEF EndOfPass, NextRepository, RetryWithPrereleases
  <2> QED
    BY <1>2, <2>1, <2>2, <2>3, <2>4 DEF GetDist
<1> QED
  BY <1>1, <1>2 DEF Next, Done, vars

(* However many repositories and candidates there are, the versions that   *)
(* are downloaded and built for one question are at most twice             *)
(* max_downgrade for each repository. *)
THEOREM EffortIsBounded == Spec => []EffortBounded
<1>1. SelectionInv /\ EffortSafe => EffortBounded
  <2> SUFFICES ASSUME SelectionInv, EffortSafe, args.maxDowngrade >= 0,
                      NEW p \in 1..Len(Repositories)
               PROVE  Cardinality({u[2].version : u \in {w \in unusable : w[1] = p}})
                        <= 2 * (IF args.maxDowngrade = 0 THEN 1 ELSE args.maxDowngrade)
    BY DEF EffortBounded
  <2>1. p \in Nat
    BY DEF SelectionInv, ArgsSafe
  <2> QED
    BY <2>1 DEF EffortSafe, TriedAt, Limit
<1> QED
  BY <1>1, InitInv, NextInv, InitEffort, NextEffort, PTL DEF Spec

-----------------------------------------------------------------------------
(* The question that comes first *)

(* get_dist leaves is_possible's variables alone, so a "yes" to a pinned   *)
(* requirement is as definite here as where it is asked alone. *)
THEOREM ExactBeforeSearch == Spec => []ExactIsDefinite
<1>1. Init => PossibleInv
  BY PossibleInit1 DEF Init
<1>2. PossibleInv /\ [Next]_vars => PossibleInv'
  <2> SUFFICES ASSUME PossibleInv, [Next]_vars PROVE PossibleInv'
    OBVIOUS
  <2>1. [IsPossible]_possibleVars
    BY DEF Next, Done, vars
  <2> QED
    BY <2>1, PossibleNext1
<1> QED
  BY <1>1, <1>2, PossibleInvExact, PTL DEF Spec

(* So is a refusal: no ordinary version meets a requirement that get_dist  *)
(* is spared. *)
THEOREM RefusalBeforeSearch == Spec => []NeverRefuses
<1>1. Init => RefusalInv
  BY BoundsInit1 DEF Init
<1>2. RefusalInv /\ [Next]_vars => RefusalInv'
  <2> SUFFICES ASSUME RefusalInv, [Next]_vars PROVE RefusalInv'
    OBVIOUS
  <2>1. [IsPossible]_possibleVars
    BY DEF Next, Done, vars
  <2> QED
    BY <2>1, BoundsNext1
<1> QED
  BY <1>1, <1>2, BoundsInvSound, PTL DEF Spec
=============================================================================
