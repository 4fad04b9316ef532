------------------------- MODULE MCWorkspaceObserver -------------------------
(***************************************************************************)
(* Instances of WorkspaceObserver for TLC: a workspace /ws, a link /alias  *)
(* to it, a directory /out, and links in the workspace that stay in it,    *)
(* leave it, follow one another, loop, or lead to nothing.                 *)
(***************************************************************************)
EXTENDS WorkspaceObserver

Dir == [kind |-> "dir"]
File == [kind |-> "file"]
Link(to) == [kind |-> "link", to |-> to]

InWorkspace ==
  {Nothing, Dir, File} \cup
  {Link(to) : to \in {<<"out">>, <<"out", "x">>, <<"ws", "a">>, <<"ws", "d">>,
                      <<"nowhere">>}}
InDirectory == {Nothing, File, Link(<<"out">>), Link(<<"ws", "d", Up, Up, "out">>)}

\* A workspace that a path leaves by its names and comes back to, past a link of
\* the host; a link of the workspace to itself.
Winding ==
  (<<>> :> Dir) @@ (<<"ws">> :> Dir) @@ (<<"ws", "a">> :> Link(<<"out">>)) @@
  (<<"ws", "s">> :> Link(<<"ws">>)) @@ (<<"alias">> :> Link(<<"out", "x">>)) @@
  (<<"out">> :> Dir) @@ (<<"out", "x">> :> Dir) @@ (<<"out", "ws">> :> Dir)

MCTrees == {Winding} \cup
  {(<<>> :> Dir) @@ (<<"ws">> :> Dir) @@ (<<"alias">> :> Link(<<"ws">>)) @@
   (<<"out">> :> Dir) @@ (<<"out", "x">> :> x) @@
   (<<"ws", "a">> :> a) @@ (<<"ws", "d">> :> d) @@
   (IF d = Dir THEN <<"ws", "d", "s">> :> s ELSE <<"out", "s">> :> s) :
     a \in InWorkspace, d \in {Dir, Link(<<"out">>)}, s \in InDirectory,
     x \in {Nothing, Link(<<"ws", "a">>)}}

MCGivenRoots == {<<"ws">>, <<"alias">>, <<"nowhere">>, <<"ws", "s">>}

UpTo(S, n) == UNION {[1..k -> S] : k \in 0..n}
MCNames == {"ws", "alias", "out", "nowhere", "x", "a", "d", "s", Up}
MCSteps == 0..16

Below3 == {"a", "d", "s", Up}

MCRaws ==
  [absolute : {FALSE}, path : UpTo(Below3, 3)]
    \cup {[absolute |-> TRUE, path |-> <<top>> \o names] :
            top \in {"ws", "alias"}, names \in UpTo(Below3, 2)}
    \cup {[absolute |-> TRUE, path |-> path] :
            path \in {<<>>, <<"out">>, <<"out", "x">>, <<"out", "x", "a">>, <<"out", Up, "ws", "a">>}}
    \cup {[absolute |-> FALSE, path |-> path] :
            path \in {<<Up, "out", "x">>, <<"d", "s", Up, Up>>, <<"a", Up, "d", "s">>,
                      <<Up, "ws", "d", "s">>, <<Up, "alias", "a">>, <<Up, "alias", Up, "ws", "a">>}}

MCDenied == {<<"d", "s">>}
MCWritable == {<<"a">>, <<"d", "s">>, <<"a", "s">>}
===============================================================================
