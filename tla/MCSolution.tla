------------------------------ MODULE MCSolution ------------------------------
(***************************************************************************)
(* Solutions of up to three projects: with cycles, extras, hashes, URLs,   *)
(* input files, and a local project that is not listed.                    *)
(***************************************************************************)
EXTENDS SolutionFile

App == "app"
Lib == "lib"
Tool == "tool"
Local == "local"
MCKey == {App, Lib, Tool, Local}
Txt == "requirements.txt"
In == "requirements.in"
MCFile == {Txt, In}

Pinned(version, hash, url) == [version |-> version, hash |-> hash, url |-> url]
Asks(from, name) == [from |-> from, under |-> {}, name |-> name, spec |-> "", extras |-> {}]
From1(from, name) == [Asks(from, name) EXCEPT !.spec = ">=1"]
With(edge, extras) == [edge EXCEPT !.extras = extras]
Under(edge, extras) == [edge EXCEPT !.under = extras]

Resolved(pins, requires) == [pins |-> pins, requires |-> requires]
AllOf(url) == (App :> Pinned(2, "hash", url)) @@ (Lib :> Pinned(1, None, "url"))
              @@ (Tool :> Pinned(3, "hash", "url with fragment"))
Alone(hash, url) == App :> Pinned(1, hash, url)
MCSolutions ==
  {Resolved(Alone(h, u), {q}) :
     h \in Hash, u \in Url, q \in {Asks(Txt, App), From1(In, App), With(Asks(Local, App), {"x"})}}
  \cup
  {Resolved(AllOf(u), {From1(Txt, App), Asks(Local, Lib), back} \cup rest) :
     u \in Url,
     back \in {From1(Lib, App), Under(With(Asks(Tool, App), {"x"}), {"y"})},
     rest \in {{Asks(App, Lib), From1(Lib, Tool)},
               {With(From1(App, Lib), {"x", "y"}), Asks(App, Lib), Under(Asks(App, Tool), {"x"})},
               {Under(From1(App, Tool), {"x", "y"}), With(Asks(Tool, Lib), {"y"})}}}
=============================================================================
