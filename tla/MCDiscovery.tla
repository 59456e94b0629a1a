----------------------------- MODULE MCDiscovery -----------------------------
(***************************************************************************)
(* A tree with projects of every kind below a root with a setup.py, and    *)
(* directories that are left out for every reason.  Of the root's two      *)
(* marker directories os.walk may list either first.                       *)
(***************************************************************************)
EXTENDS SourceTree, TLC

At(parent, named, format, setup) ==
  [parent |-> parent, named |-> named, format |-> format, setup |-> setup]
Tree ==
  ("src" :> At("src", "plain", "directory", "py"))
  @@ ("src/tests" :> At("src", "tests", "directory", "py"))
  @@ ("src/tool" :> At("src", "plain", "project", "cfg"))
  @@ ("src/build" :> At("src", "special", "directory", "py"))
  @@ ("src/build/lib" :> At("src/build", "plain", "directory", "py"))
  @@ ("src/package" :> At("src", "plain", "directory", "py"))
  @@ ("src/.nosource" :> At("src", "marker", "directory", "none"))
  @@ ("src/.nosource/modern" :> At("src/.nosource", "plain", "project", "none"))
  @@ ("src/.generated" :> At("src", "marker", "directory", "none"))
  @@ ("src/library" :> At("src", "plain", "directory", "py"))
MCSource == DOMAIN Tree
MCShape == [d \in MCSource |-> [format |-> Tree[d].format, setup |-> Tree[d].setup,
                                versioned |-> FALSE]]
MCProvided == {[name |-> "its own", version |-> "its own"], [name |-> "none", version |-> "none"]}
MCParent == [d \in MCSource \ {"src"} |-> Tree[d].parent]
MCNamed == [d \in MCSource |-> Tree[d].named]
MCMarked == {"src", "src/package"}
MCExcluding == {<<"src/libr", "src/library">>}
=============================================================================
