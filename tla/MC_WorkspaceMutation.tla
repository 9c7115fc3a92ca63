----------------------- MODULE MC_WorkspaceMutation -----------------------
EXTENDS WorkspaceMutation, TLC

CONSTANTS f1, f2, quoted,  \* two files; how git prints the name of f2
          lf, crlf         \* a text, and the same with other line ends

MCAsText     == [c \in {lf, crlf} |-> lf]
MCPrinted    == (f1 :> f1) @@ (f2 :> quoted)
\* Both files, or one of them, in the first commit.
MCFirstTrees == {(f1 :> lf) @@ (f2 :> lf), (f1 :> Absent) @@ (f2 :> lf)}

\* A text for f2, staging f2, committing f1 or f2, publishing.
MCApproved ==
  LET Step(kind, paths, content) == [kind |-> kind, paths |-> paths, content |-> content]
  IN {Step("write", {f2}, crlf), Step("add", {f2}, Absent), Step("commit", {f1}, Absent),
      Step("commit", {f2}, Absent), Step("push", {}, Absent)}

Symmetry == Permutations(Jobs)

=============================================================================
