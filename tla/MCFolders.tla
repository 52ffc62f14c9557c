----------------------------- MODULE MCFolders -----------------------------
EXTENDS PathRAII

CONSTANTS p1, p2, h1, h2, a, b, u

MCUid == p1 :> Root @@ p2 :> u
MCHandleOf == h1 :> p2 @@ h2 :> p2

\* A folder with a file in it: one of root's, or one of the unprivileged user
\* who may only list it, or not even that.
Tree(nodes) == [q \in Path |-> IF q \in DOMAIN nodes THEN nodes[q] ELSE Nothing]
MCTrees ==
  {Tree(<<a>> :> NewFolder(Root) @@ <<a, b>> :> NewFile(u, <<"old">>))}
  \cup {Tree(<<b>> :> [NewFolder(u) EXCEPT !.mode = mode]
             @@ <<b, a>> :> NewFile(u, <<"old">>)) : mode \in {{}, {"r"}}}

R(op, from, at, own) == [op |-> op, from |-> from, at |-> at, own |-> own]
MCRequest ==
  p1 :> {R("createFileIfNecessary", <<b, a>>, <<b, a>>, u),
         R("copyFile", <<a, b>>, <<a, b>>, NoOwner),
         R("copyFolder", <<a>>, <<b>>, u),
         R("copyFolder", <<a>>, <<a, a>>, NoOwner),
         R("writeTextFile", <<a, b>>, <<a, b>>, NoOwner),
         R("appendTextFile", <<b, a>>, <<b, a>>, NoOwner)} @@
  p2 :> {R("createFoldersIfNecessary", <<b, a>>, <<b, a>>, Root),
         R("copyFolder", <<b>>, <<a>>, NoOwner),
         R("removeFile", <<b>>, <<b>>, NoOwner)}
MCManaged == {<<b>>}
MCMaxCalls == p1 :> 1 @@ p2 :> 2
==============================================================================
