------------------------------ MODULE MCResolver ------------------------------
(***************************************************************************)
(* Small indexes for the resolver.  "a" .. "d" are projects, "r" and "s"   *)
(* are requirement files, "k" and "l" constraint files.  An index gives    *)
(* each published distribution one of several lists of requirements; which *)
(* one is chosen when the distribution is first fetched.                   *)
(***************************************************************************)
EXTENDS ResolverProperties, TLC

Seqs == INSTANCE SequencesExt

MCVersion == 0..3
Files == {"r", "s", "k", "l"}

(* Requirements *)
Asking(p, spec, es) == [name |-> p, spec |-> spec, extras |-> es]
AnyOf(p) == Asking(p, {}, {})
Below(p, v) == Asking(p, {<<"<", v>>}, {})
From(p, v) == Asking(p, {<<">=", v>>}, {})
Pin(p, v) == Asking(p, {<<"==", v>>}, {})
With(p, e) == Asking(p, {}, {e})
Form(f, p) == CASE f = "any" -> AnyOf(p)
                [] f = "below2" -> Below(p, 2)
                [] f = "from2" -> From(p, 2)
                [] f = "with x" -> With(p, "x")

(* Distributions *)
Requires(reqs, extra) ==
  [e \in Extra \cup {None} |-> IF e = None THEN reqs
                               ELSE IF e = "x" THEN extra ELSE <<>>]
D(p, v, reqs) == [name |-> p, version |-> v, requires |-> Requires(reqs, <<>>),
                  meta |-> FALSE, local |-> FALSE]
WithExtra(d, extra) == [d EXCEPT !.requires["x"] = extra]
File(p, reqs) == [name |-> p, version |-> None, requires |-> Requires(reqs, <<>>),
                  meta |-> TRUE, local |-> FALSE]

(* Every list of requirements on distinct projects of the sequence ps,     *)
(* each in one of the forms fs. *)
Lists(ps, fs) ==
  LET opt(p) == {<<>>} \cup {<<Form(f, p)>> : f \in fs}
  IN  Seqs!FoldLeft(LAMBDA acc, p : {l \o x : l \in acc, x \in opt(p)}, {<<>>}, ps)

(* perform_compile with its defaults. *)
Resolve(fs, cs) == [roots |-> fs, constraints |-> cs, extras |-> {},
                    removeConstraints |-> FALSE, refuseCircular |-> FALSE]

-----------------------------------------------------------------------------
(* An acyclic index: a may require b and c, b may require c and d, c may   *)
(* require d. *)
FourProjects == {"a", "b", "c", "d"}
AcyclicOffers ==
  [pv \in FourProjects \X {1, 2} |->
     {D(pv[1], pv[2], l) :
        l \in CASE pv[1] = "a" -> Lists(<<"b", "c">>, {"any", "from2"})
                [] pv[1] = "b" -> Lists(<<"c", "d">>, {"any", "below2"})
                [] pv[1] = "c" -> Lists(<<"d">>, {"any", "from2"})
                [] pv[1] = "d" -> {<<>>}}]
AcyclicInputs ==
  {Resolve(<<File("r", <<AnyOf("a")>>), File("s", l)>>, <<>>) :
     l \in {<<AnyOf("b")>>, <<From("d", 2)>>, <<AnyOf("c"), Below("d", 2)>>}}

(* Any two of three projects may require each other; circular dependencies *)
(* are allowed or refused.  The second versions of a and b may also be     *)
(* entangled: b asks for an extra of a that refuses this version of b, or  *)
(* each asks the other for the extra that makes it ask again. *)
ThreeProjects == {"a", "b", "c"}
Others == [a |-> <<"b", "c">>, b |-> <<"a", "c">>, c |-> <<"a", "b">>]
Endless(v) ==
  LET both(p) == <<Asking(p, {}, {"x", "y"})>> IN
  {[D("a", v, <<With("b", "y")>>) EXCEPT !.requires["x"] = both("b")],
   [D("b", v, <<With("a", "x")>>) EXCEPT !.requires["y"] = both("a")]}
Entangled == {WithExtra(D("a", 2, <<AnyOf("b")>>), <<Below("b", 2)>>),
              WithExtra(D("b", 2, <<With("a", "x")>>), <<AnyOf("c")>>)}
               \cup Endless(2)
CyclicOffers ==
  [pv \in ThreeProjects \X {1, 2} |->
     {D(pv[1], pv[2], l) :
        l \in Lists(Others[pv[1]], IF pv[2] = 1 THEN {"any"}
                                   ELSE {"below2", "from2"})}
     \cup {d \in Entangled : <<d.name, d.version>> = pv}]
CyclicInputs ==
  {[Resolve(fs, <<>>) EXCEPT !.refuseCircular = b] :
     b \in BOOLEAN,
     fs \in {<<File("r", <<AnyOf("a")>>)>>,
             <<File("r", <<AnyOf("a")>>), File("s", <<With("b", "x")>>)>>}}

(* An acyclic index where a and b may be asked for with the extra "x",     *)
(* which requires more.  a may be a local project, which gets the extras   *)
(* of the command line. *)
ExtrasOffers ==
  [pv \in ThreeProjects \X {1, 2} |->
     CASE pv[1] = "a" ->
            {WithExtra([D("a", pv[2], l) EXCEPT !.local = loc], e) :
               loc \in BOOLEAN,
               l \in {<<>>, <<AnyOf("b")>>, <<With("b", "x")>>},
               e \in {<<>>, <<AnyOf("c")>>, <<Below("c", 2)>>}}
       [] pv[1] = "b" ->
            {WithExtra(D("b", pv[2], l), e) :
               l \in Lists(<<"c">>, {"any", "below2"}),
               e \in Lists(<<"c">>, {"any", "from2"})}
       [] pv[1] = "c" -> {D("c", pv[2], <<>>)}]
ExtraRequests ==
  {[Resolve(<<File("r", <<q>>), File("s", <<t>>)>>, <<>>) EXCEPT !.extras = es] :
     q \in {With("a", "x"), AnyOf("b")},
     t \in {AnyOf("a"), With("b", "x")},
     es \in {{}, {"x"}}}

(* Constraint files beside the input: pins, which only restrict the        *)
(* candidates, or open requirements, which become roots.                   *)
ConstrainedRequests ==
  {[Resolve(<<File("r", <<With("a", "x")>>)>>, cs) EXCEPT !.removeConstraints = rc] :
     rc \in BOOLEAN,
     cs \in {<<File("k", <<Pin("a", 1), Pin("c", 1)>>)>>,
             <<File("k", <<Pin("b", 2)>>), File("l", <<Pin("c", 1)>>)>>,
             <<File("k", <<Pin("b", 2)>>), File("l", <<Below("c", 2)>>)>>,
             <<File("k", <<Pin("c", 3)>>)>>}}
ExtrasInputs == ExtraRequests \cup ConstrainedRequests

-----------------------------------------------------------------------------
(* Single indexes, for one disagreement between code and comments each.    *)

Index(ds) == [pv \in {<<d.name, d.version>> : d \in ds} |->
                {d \in ds : d.name = pv[1] /\ d.version = pv[2]}]
TwoFiles(p, q) == {Resolve(<<File("r", p), File("s", q)>>, <<>>)}
OneFile(p) == {Resolve(<<File("r", p)>>, <<>>)}

(* A nested walkback unsolves b while the loop over b's dependencies is    *)
(* under way (compile.py:277): d is still compiled on behalf of b, which   *)
(* becomes a requester of d without a solution. *)
UnsolvedRequesterOffers ==
  Index({D("a", 1, <<From("b", 2)>>), D("a", 2, <<AnyOf("b"), From("c", 2)>>),
         D("b", 1, <<Below("c", 2), AnyOf("d")>>),
         D("b", 2, <<Below("d", 2)>>),
         D("c", 1, <<>>), D("c", 2, <<>>),
         D("d", 1, <<>>), D("d", 2, <<>>)})
UnsolvedRequesterInputs == TwoFiles(<<AnyOf("a")>>, <<From("d", 2)>>)

(* Two roots that undo each other's walkback in every round.               *)
RoundTripOffers ==
  Index({D("a", 1, <<From("b", 2), Below("c", 2)>>),
         D("a", 2, <<Below("b", 2), Below("c", 2)>>),
         D("b", 1, <<From("c", 2)>>), D("b", 2, <<From("c", 2)>>),
         D("c", 1, <<>>), D("c", 2, <<>>)})
RoundTripInputs == TwoFiles(<<AnyOf("a")>>, <<AnyOf("b")>>)

(* A dependency that refuses the project it is reached from: pruned with   *)
(* it, and put back with an edge to it that it knows nothing of. *)
BackReferenceOffers ==
  Index({D("a", 1, <<AnyOf("b")>>), D("a", 2, <<AnyOf("b")>>),
         D("b", 1, <<Below("a", 2)>>)})
BackReferenceInputs == OneFile(<<AnyOf("a")>>)

(* A requirement with an extra and another one on the same project.        *)
SameProjectOffers ==
  Index({WithExtra(D("a", 1, <<With("b", "y")>>), <<From("b", 1)>>),
         [D("b", 1, <<>>) EXCEPT !.requires["y"] = <<AnyOf("c")>>],
         D("c", 1, <<>>)})
SameProjectInputs == OneFile(<<With("a", "x")>>)

-----------------------------------------------------------------------------
MCPublished == [p \in Project |-> {v \in MCVersion : <<p, v>> \in DOMAIN Offers}]
NotUsed(p, v) == "#" \o p \o ToString(v)
MCDoNotUse == [pv \in DOMAIN Offers |-> NotUsed(pv[1], pv[2])]
MCKey == Project \cup Files \cup {NotUsed(p, v) : p \in Project, v \in {1, 2, 3}}
KeyOrder == <<"#a1", "#a2", "#a3", "#b1", "#b2", "#b3", "#c1", "#c2", "#c3",
              "#d1", "#d2", "#d3", "a", "b", "c", "d", "k", "l", "r", "s">>
MCRank == [k \in MCKey |-> CHOOSE i \in DOMAIN KeyOrder : KeyOrder[i] = k]
MCDist == UNION {Offers[pv] : pv \in DOMAIN Offers}
            \cup {BadDist(pv[1], pv[2]) : pv \in DOMAIN Offers}
            \cup UNION {{i.roots[j] : j \in DOMAIN i.roots}
                          \cup {i.constraints[j] : j \in DOMAIN i.constraints}
                          : i \in Inputs}

(* Enough objects for every run: a run that needed more would deadlock.    *)
MCMaxObjects == [k \in MCKey |-> IF k \in Project THEN 12 ELSE 1]
=============================================================================
