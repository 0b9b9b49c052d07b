------------------------- MODULE MCPermissionPolicy -------------------------
(***************************************************************************)
(* Instances of PermissionPolicy for TLC.                                  *)
(***************************************************************************)
EXTENDS PermissionPolicy, SequencesExt

CONSTANTS MaxGlob, MaxName, MaxRules   \* bounds on lengths

AllChars == {"a", "A", "b", "*", "?"}
ThreeNames == {"github", "GitHub", "notion"}
LowerCase ==
    [x \in AllChars \union Connectors |->
        IF x = "A" THEN "a" ELSE IF x = "GitHub" THEN "github" ELSE x]

Letters == {"a", "A", "b"}
MixedGlobs == BoundedSeq({"A", "b", "*", "?"}, MaxGlob)
Names == BoundedSeq(Letters, MaxName)

\* One rule with any glob, or a few with an easy one.
Rule1(x, g, s) == [connector |-> x, pattern |-> g, stance |-> s]
OneRule == {<<Rule1("github", g, "block")>> : g \in Globs}
EasyRules == {Rule1(x, g, s) : x \in {"github", "notion"}, g \in {<<"*">>, <<"A">>}, s \in Stances}
OneOrMoreRules == OneRule \union BoundedSeq(EasyRules, MaxRules)
=============================================================================
