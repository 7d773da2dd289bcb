---------------------------- MODULE MCFileEdits -----------------------------
(* Every patch of up to three lines, and longer ones that begin with an       *)
(* update; every edit of up to three lines.                                   *)
EXTENDS FileEdits

Ln(k) == [kind |-> k, path |-> ""]
Of(k, p) == [kind |-> k, path |-> p]
Framed(inner) == <<Ln("begin")>> \o inner \o <<Ln("end")>>
BodyLines == {Ln("@@"), Ln("eof"), Ln("+"), Ln("-"), Ln("other")}
Heads == {Of("add", "p"), Of("update", "p"), Of("update", "q"), Of("delete", "q"), Of("move", "q"), Of("move", "p")}
PatchTexts ==
    {<<>>, <<Ln("begin")>>, <<Ln("begin"), Of("delete", "p")>>, <<Ln("other"), Ln("end")>>,
     Framed(<<Of("environment", "")>>), Framed(<<Of("environment", "e"), Of("delete", "p")>>),
     Framed(<<Of("delete", "p"), Of("environment", "e")>>), Framed(<<Of("delete", "")>>),
     Framed(<<Of("update", "p"), Of("move", "")>>), Framed(<<Of("update", "p"), Ln(" ")>>)}
    \cup {Framed(s) : s \in BoundedSeq(BodyLines \cup Heads, 3)}
    \cup {Framed(<<Of("update", "p")>> \o s) : s \in BoundedSeq(BodyLines, 4)}
    \cup {Framed(<<Of("update", "p"), h>> \o s) : h \in Heads \cup {Ln("+")}, s \in BoundedSeq(Heads \cup {Ln("+")}, 2)}
Copies == BoundedSeq({"a", "b"}, 3)
AnEdit(old, new, all) == [old |-> old, new |-> <<new>>, all |-> all]
SomeEdits == {AnEdit(<<old>>, new, FALSE) : old, new \in Copies}
    \cup {AnEdit(<<>>, <<"a">>, FALSE), AnEdit(<<<<"a">>>>, <<"b">>, TRUE)}
=============================================================================
