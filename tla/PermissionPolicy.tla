-------------------------- MODULE PermissionPolicy --------------------------
(***************************************************************************)
(* PermissionPolicy::decide of src/src/policy.rs: a pass over the rules of *)
(* policy.toml that collects the stance of every rule whose connector and  *)
(* glob fit, and answers with the strictest.  wildcard_match's loop is run *)
(* step by step, backtracking included: it remembers one `*` of the        *)
(* pattern and how much of the text that star has taken.                   *)
(*                                                                         *)
(* A glob and a tool name are sequences of characters, "*" and "?" among   *)
(* them.  Indices count from zero, as in the source.                       *)
(***************************************************************************)
EXTENDS Integers, Sequences

CONSTANTS
    Chars,       \* characters of globs and tool names
    Connectors,  \* connector names, as rules and callers write them
    Lower,       \* to_ascii_lowercase, on both
    Globs,       \* globs a rule may carry
    ToolNames,   \* tool names a caller may ask about
    RuleLists    \* what policy.toml may list

Stances == {"allow", "ask", "block"}
Rules == [connector : Connectors, pattern : Globs, stance : Stances]

ASSUME CharAssumption ==
    /\ Globs \subseteq Seq(Chars) /\ ToolNames \subseteq Seq(Chars)
    /\ Lower \in [Chars \union Connectors -> Chars \union Connectors]
    /\ \A x \in Chars \union Connectors : Lower[Lower[x]] = Lower[x]
    /\ \A x \in Chars : Lower[x] \in Chars
    /\ \A x \in Chars : Lower[x] \in {"*", "?"} <=> x \in {"*", "?"}
    /\ \A x \in {"*", "?"} \intersect Chars : Lower[x] = x
ASSUME RuleAssumption == RuleLists \subseteq Seq(Rules)

VARIABLES
    rules, connector, tool_name,  \* the policy and the question
    next,                         \* how many rules are done with
    cursor,                       \* wildcard_match's locals
    matching,                     \* stances of the rules that fitted
    answer                        \* "none" until decide returns

question == <<rules, connector, tool_name>>
vars == <<question, next, cursor, matching, answer>>

\* wildcard_match's locals: places in the glob and the text, the last star
\* passed and the end of what it has taken.
None == -1
Cursor(p_i, t_i, s, s_ti) == [pi |-> p_i, ti |-> t_i, star |-> s, star_ti |-> s_ti]
AtStart == Cursor(0, 0, None, 0)
pi == cursor.pi
ti == cursor.ti
star == cursor.star
star_ti == cursor.star_ti

Rule == rules[next + 1]
Lowered(s) == [i \in 1..Len(s) |-> Lower[s[i]]]
p == Lowered(Rule.pattern)
t == Lowered(tool_name)

Busy == answer = "none" /\ next < Len(rules)
SameConnector(rule) == Lower[rule.connector] = Lower[connector]
Matching == Busy /\ SameConnector(Rule)

TypeOK ==
    /\ rules \in RuleLists /\ connector \in Connectors /\ tool_name \in ToolNames
    /\ next \in 0..Len(rules)
    /\ matching \subseteq Stances
    /\ answer \in Stances \union {"none"}
    /\ IF next < Len(rules)
         THEN \E i \in 0..Len(Rule.pattern), j \in 0..Len(tool_name) :
                \E s \in {None} \union 0..(i - 1), k \in 0..j :
                    cursor = Cursor(i, j, s, k)
         ELSE cursor = AtStart
-----------------------------------------------------------------------------
Strictest(stances) ==
    IF "block" \in stances THEN "block"
    ELSE IF "ask" \in stances THEN "ask" ELSE "allow"

\* The loop's conditions, in its order.
AtLiteral == pi < Len(p) /\ p[pi + 1] \in {"?", t[ti + 1]}
AtStar == ~AtLiteral /\ pi < Len(p) /\ p[pi + 1] = "*"
AtMismatch == ~AtLiteral /\ ~AtStar

Init ==
    /\ rules \in RuleLists /\ connector \in Connectors /\ tool_name \in ToolNames
    /\ next = 0 /\ matching = {} /\ answer = "none"
    /\ cursor = AtStart

\* On to the next rule, with this one's stance if it fitted.
Conclude(stances) ==
    /\ matching' = matching \union stances
    /\ next' = next + 1
    /\ cursor' = AtStart
    /\ UNCHANGED <<question, answer>>

Move(to) ==
    /\ cursor' = to
    /\ UNCHANGED <<question, next, matching, answer>>

\* The rule is about another connector: its glob is not looked at.
OtherConnector ==
    /\ Busy /\ ~SameConnector(Rule)
    /\ Conclude({})

Literal ==
    /\ Matching /\ ti < Len(t) /\ AtLiteral
    /\ Move(Cursor(pi + 1, ti + 1, star, star_ti))

\* A star takes nothing at first.
Star ==
    /\ Matching /\ ti < Len(t) /\ AtStar
    /\ Move(Cursor(pi + 1, ti, pi, ti))

\* Slips: a retry that gives the star nothing more, one that gives it two
\* characters, and one that goes on where the glob failed.
BacktrackInPlace ==
    /\ Matching /\ ti < Len(t) /\ AtMismatch /\ star # None
    /\ Move(Cursor(star + 1, star_ti, star, star_ti))
BacktrackByTwo ==
    /\ Matching /\ ti < Len(t) /\ AtMismatch /\ star # None
    /\ Move(Cursor(star + 1, star_ti + 2, star, star_ti + 2))
BacktrackTextOnly ==
    /\ Matching /\ ti < Len(t) /\ AtMismatch /\ star # None
    /\ Move(Cursor(pi, star_ti + 1, star, star_ti + 1))

\* The last star takes one character more, and its successor is tried again.
Backtrack ==
    /\ Matching /\ ti < Len(t) /\ AtMismatch /\ star # None
    /\ Move(Cursor(star + 1, star_ti + 1, star, star_ti + 1))

Mismatch ==
    /\ Matching /\ ti < Len(t) /\ AtMismatch /\ star = None
    /\ Conclude({})

\* A slip: trailing stars are not skipped.
EndOfTextExact ==
    /\ Matching /\ ti = Len(t)
    /\ Conclude(IF pi = Len(p) THEN {Rule.stance} ELSE {})

\* The text is used up: what is left of the glob must be stars.
EndOfText ==
    /\ Matching /\ ti = Len(t)
    /\ Conclude(IF \A i \in (pi + 1)..Len(p) : p[i] = "*" THEN {Rule.stance} ELSE {})

Answer ==
    /\ answer = "none" /\ next = Len(rules)
    /\ answer' = Strictest(matching)
    /\ UNCHANGED <<question, next, cursor, matching>>

Next ==
    \/ OtherConnector \/ Literal \/ Star \/ Backtrack \/ Mismatch \/ EndOfText
    \/ Answer

\* decide is a plain function: it runs to its end once called.
Spec == Init /\ [][Next]_vars /\ WF_vars(Next)
-----------------------------------------------------------------------------
\* What a glob means: the text can be cut into one piece per character of the
\* glob, a star's of any length, any other's of one fitting character.  `cut`
\* says where each piece ends; here for the glob's first i characters and the
\* text's first j.
Fits(glob, i, text, j, cut) ==
    /\ cut[0] = 0 /\ cut[i] = j
    /\ \A m, n \in 0..i : m <= n => cut[m] <= cut[n]
    /\ \A n \in 1..i : glob[n] # "*" =>
            cut[n] = cut[n - 1] + 1 /\ glob[n] \in {"?", text[cut[n]]}

PrefixMatches(glob, i, text, j) ==
    \E cut \in [0..i -> 0..j] : Fits(glob, i, text, j, cut)
GlobMatches(glob, text) == PrefixMatches(glob, Len(glob), text, Len(text))

Applies(rule) ==
    SameConnector(rule) /\ GlobMatches(Lowered(rule.pattern), t)

\* Names without a character that the loop could take for the glob's own star.
StarlessNames == \A name \in ToolNames : \A i \in 1..Len(name) : name[i] # "*"

\* At every head of the loop the glob's first pi characters match the text's
\* first ti, and up to the star they match the text's first star_ti.
PrefixesMatch ==
    Matching =>
        /\ PrefixMatches(p, pi, t, ti)
        /\ star # None => p[star + 1] = "*" /\ PrefixMatches(p, star + 1, t, star_ti)

\* No way to fit the whole glob is given up for good: before the first star
\* there is one, and of what a star takes only less than star_ti is ruled out.
NothingMissed ==
    Matching =>
        \A cut \in [0..Len(p) -> 0..Len(t)] : Fits(p, Len(p), t, Len(t), cut) =>
            /\ star = None => cut[pi] = ti
            /\ star # None => /\ cut[star + 1] >= star_ti /\ cut[pi] >= ti
                              /\ cut[star + 1] = star_ti => cut[pi] = ti

\* The stances collected so far are those of the rules that apply.
OnlyWhatApplies ==
    \A s \in matching : \E i \in 1..next : Applies(rules[i]) /\ rules[i].stance = s
AllThatApplies ==
    \A i \in 1..next : Applies(rules[i]) => rules[i].stance \in matching

AnswersAtTheEnd ==
    answer # "none" => next = Len(rules) /\ answer = Strictest(matching)

\* The inductive invariant behind AnswerIsStrictest.
CursorInv ==
    /\ TypeOK /\ PrefixesMatch /\ OnlyWhatApplies /\ AnswersAtTheEnd
    /\ StarlessNames => NothingMissed /\ AllThatApplies

\* decide's answer is the strictest stance among the rules whose glob, as globs
\* are defined above, fits (allow if none does); one star to go back to is
\* enough.
Severity == [allow |-> 0, ask |-> 1, block |-> 2]
AnswerIsStrictest ==
    answer # "none" =>
        /\ \A i \in 1..Len(rules) : Applies(rules[i]) =>
                Severity[rules[i].stance] <= Severity[answer]
        /\ answer = "allow" \/
                \E i \in 1..Len(rules) : Applies(rules[i]) /\ rules[i].stance = answer

\* decide answers: every retry leaves the star less text to take.
Terminates == <>(answer # "none")
=============================================================================
