-------------------------------- MODULE MCCorpus --------------------------------
EXTENDS Corpus

CONSTANTS i, j, older, oldest

Line(kind, size, says) == [kind |-> kind, size |-> size, says |-> says]
MCLines == {Line("head", 1, "1"), Line("head", 3, "2"), Line("text", 1, "a"),
          Line("text", 3, "b"), Line("blank", 0, ""), Line("blank", 1, "")}

Some(n) == UNION {[1..k -> MCLines] : k \in 0..n}
b == Line("text", 3, "b")

MCJobs == {i, j}
MCOlder == {older, oldest}
MCOlderLinks == (older :> oldest) @@ (oldest :> None)
MCTexts == (i :> Some(3) \cup {<<b, blank, c, blank, b>> :
                    blank \in {l \in MCLines : Blank(l)}, c \in MCLines})
           @@ (j :> {<<b>>})
MCNumberOf == (i :> "n1") @@ (j :> "n2") @@ (older :> "n0") @@ (oldest :> "n0")
MCReferences == (i :> {<<"n2">>, <<"n3", "n0">>}) @@ (j :> {<<"n1">>})
================================================================================
