------------------------------- MODULE MCFetch -------------------------------
(***************************************************************************)
(* An index with a source archive whose link has a hash and a wheel whose  *)
(* link has none, under two spellings of the project's name.               *)
(***************************************************************************)
EXTENDS IndexClient

Wheel == "wheel"
Sdist == "sdist"
MCSource == {Wheel, Sdist}
Published(format, setup) == [format |-> format, setup |-> setup, versioned |-> TRUE]
MCShape == (Wheel :> Published("wheel", "none")) @@ (Sdist :> Published("sdist", "py"))
MCProvided == [name : {"its own", "other", "none"}, version : {"its own", "other", "none"}]
MCHashed == {Sdist}
MCPythons == {<<3, 10, 0>>}

Part(op, v) == [op |-> op, at |-> v, star |-> FALSE]
Star(op, v) == [op |-> op, at |-> v, star |-> TRUE]
Anchor(parts) == [tag |-> "a", python |-> parts]
Break == [tag |-> "br"]
Text(f) == [text |-> f]
White == [text |-> "\n"]

(* A link for every Python, and one for all that are new enough but a      *)
(* series; a release later, the source archives are for older ones. *)
FirstPage == <<Anchor(<<>>), Text(Wheel), Break, White,
               Anchor(<<Part("~=", <<3, 6>>), Star("!=", <<3, 7>>)>>), Text(Sdist), Break>>
LaterPage == <<Anchor(<<Star("==", <<2>>)>>), Text(Sdist), Break,
               Anchor(<<Part(">=", <<3, 6, 1>>), Part("<", <<3, 10, 1>>)>>), Text(Wheel),
               Anchor(<<Part(">=", <<3>>), Part("<", <<3, 7>>)>>), Text(Sdist)>>
MCPages == {FirstPage, LaterPage}
ASSUME PagesAssumption == \A page \in MCPages : OrdinaryPage(page)
=============================================================================
