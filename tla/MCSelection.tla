------------------------------ MODULE MCSelection ------------------------------
(***************************************************************************)
(* Small requirements, indexes and command lines for the search for a      *)
(* candidate.                                                              *)
(***************************************************************************)
EXTENDS CandidateSelection

Final(a, b, c) == <<a, b, c, 0, 1>>
Pre(a, b, c) == <<a, b, c, 0, 0>>
Sp(op, v) == [op |-> op, at |-> v, width |-> 1]
Sp2(op, v) == [op |-> op, at |-> v, width |-> 2]

-----------------------------------------------------------------------------
(* Requirements for is_possible alone: up to three specifiers on final     *)
(* versions of three segments.                                             *)
Plain == {Sp(op, v) : op \in {"==", "!=", "<", "<=", ">", ">="},
                      v \in {Final(1, 0, 0), Final(1, 0, 1), Final(1, 1, 0),
                             Final(2, 0, 0)}}
Wild == {Sp(op, Final(1, 0, 0)) : op \in {"==*", "!=*"}}
        \cup {Sp2(op, v) : op \in {"==*", "!=*"},
                           v \in {Final(1, 0, 0), Final(1, 1, 0)}}
FromZero == {{Sp("<", Final(0, 0, 0)), s} : s \in Plain}
            \cup {{Sp("!=*", Final(0, 0, 0)), s} : s \in Plain}
ThreeSegments == {{s, t, u} : s, t, u \in Plain \cup Wild} \cup FromZero

-----------------------------------------------------------------------------
(* Candidates *)

Wheel(v) == [version |-> v, build |-> 0, kind |-> 1, score |-> 1,
             runs |-> TRUE, named |-> TRUE]
Rebuilt(v) == [Wheel(v) EXCEPT !.build = 1]
Specific(v) == [Wheel(v) EXCEPT !.score = 2]
Sdist(v) == [Wheel(v) EXCEPT !.kind = SDIST, !.score = 0]
Foreign(v) == [Wheel(v) EXCEPT !.runs = FALSE]
Misnamed(v) == [Wheel(v) EXCEPT !.named = FALSE]

One == Final(1, 0, 0)
Two == Final(2, 0, 0)
OneBeta == Pre(1, 0, 0)
TwoBeta == Pre(2, 0, 0)

Single == {Wheel(One), Sdist(One), Rebuilt(One), Wheel(OneBeta), Sdist(Two),
           Misnamed(Two), Foreign(Two), Wheel(TwoBeta)}
Several == {Wheel(One), Wheel(Two), Wheel(TwoBeta)}
MCCandidate == Single \cup Several \cup {Specific(One)}

Asked == {{}, {Sp("<", Two)}, {Sp(">=", OneBeta)}, {Sp("==", TwoBeta)},
          {Sp(">=", One), Sp("!=", Two)}}

Line(sol, src, pool, pre, bin, max) ==
  [solutions |-> sol, sources |-> src, pooled |-> pool, pre |-> pre,
   onlyBinary |-> bin, maxDowngrade |-> max]

NoRepository == {Line(<<>>, <<>>, <<>>, FALSE, FALSE, -1)}
OneIndex == {Line(<<>>, <<>>, <<cs>>, pre, bin, max) :
               cs \in SUBSET Single, pre \in BOOLEAN, bin \in BOOLEAN,
               max \in {0, 1, 2}}
LocalFirst == {Line(<<sol>>, <<src>>, <<cs>>, FALSE, FALSE, max) :
                 sol \in SUBSET {Wheel(One), Wheel(TwoBeta)},
                 src \in SUBSET {Specific(One)},
                 cs \in SUBSET Several, max \in {-1, 1}}
TwoIndexes == {Line(<<>>, <<>>, <<cs, ds>>, FALSE, FALSE, -1) :
                 cs, ds \in SUBSET Several}

MCRequirements == ThreeSegments \cup Asked
MCCommandLines == [r \in MCRequirements |->
                     IF r \in Asked THEN OneIndex \cup LocalFirst \cup TwoIndexes
                                    ELSE NoRepository]

=============================================================================
