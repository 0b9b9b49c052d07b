----------------------- MODULE PermissionPolicy_proofs -----------------------
(***************************************************************************)
(* Theorems about PermissionPolicy: wildcard_match's loop decides globs,   *)
(* and decide answers with the strictest stance that applies.              *)
(***************************************************************************)
EXTENDS PermissionPolicy, SequenceTheorems, TLAPS

\* Lowering keeps a sequence's length and works character by character.
LEMMA LoweredIsSeq ==
    ASSUME NEW s \in Seq(Chars)
    PROVE  /\ Lowered(s) \in Seq(Chars)
           /\ Len(Lowered(s)) = Len(s)
           /\ \A i \in 1..Len(s) : Lowered(s)[i] = Lower[s[i]]
<1>1. Len(s) \in Nat /\ \A i \in 1..Len(s) : s[i] \in Chars
    BY LenProperties
<1>2. \A i \in 1..Len(s) : Lower[s[i]] \in Chars
    BY <1>1, CharAssumption
<1>3. Lowered(s) \in [1..Len(s) -> Chars]
    BY <1>2 DEF Lowered
<1>4. Lowered(s) \in Seq(Chars)
    BY <1>1, <1>3, SeqDef
<1> QED
    BY <1>1, <1>3, <1>4, LenProperties DEF Lowered

\* Where the rules, and the sequences the loop compares, come from.
LEMMA QuestionType ==
    ASSUME TypeOK
    PROVE  /\ Len(rules) \in Nat /\ next \in 0..Len(rules)
           /\ \A i \in 1..Len(rules) : rules[i] \in Rules
           /\ t \in Seq(Chars) /\ Len(t) \in Nat /\ Len(t) = Len(tool_name)
           /\ next < Len(rules) => /\ p \in Seq(Chars) /\ Len(p) \in Nat
                                   /\ Len(p) = Len(Rule.pattern)
<1>1. rules \in Seq(Rules)
    BY RuleAssumption DEF TypeOK
<1>2. Len(rules) \in Nat /\ \A i \in 1..Len(rules) : rules[i] \in Rules
    BY <1>1, LenProperties, ElementOfSeq
<1>3. tool_name \in Seq(Chars)
    BY CharAssumption DEF TypeOK
<1>4. t \in Seq(Chars) /\ Len(t) \in Nat /\ Len(t) = Len(tool_name)
    BY <1>3, LoweredIsSeq, LenProperties DEF t
<1>5. ASSUME next < Len(rules)
      PROVE  p \in Seq(Chars) /\ Len(p) \in Nat /\ Len(p) = Len(Rule.pattern)
    <2>1. next + 1 \in 1..Len(rules)
        BY <1>2, <1>5 DEF TypeOK
    <2>2. Rule \in Rules
        BY <1>2, <2>1 DEF Rule
    <2>3. Rule.pattern \in Seq(Chars)
        BY <2>2, CharAssumption DEF Rules
    <2> QED
        BY <2>3, LoweredIsSeq, LenProperties DEF p
<1> QED
    BY <1>2, <1>4, <1>5 DEF TypeOK

\* A longer cut: the glob's next character fits at the end of the text so far.
LEMMA Extend ==
    ASSUME NEW glob \in Seq(Chars), NEW text \in Seq(Chars),
           NEW i \in Nat, NEW j \in Nat, NEW k \in Nat,
           j <= k,
           glob[i + 1] # "*" => k = j + 1 /\ glob[i + 1] \in {"?", text[k]},
           PrefixMatches(glob, i, text, j)
    PROVE  PrefixMatches(glob, i + 1, text, k)
<1>1. PICK cut \in [0..i -> 0..j] : Fits(glob, i, text, j, cut)
    BY DEF PrefixMatches
<1> DEFINE more == [n \in 0..(i + 1) |-> IF n <= i THEN cut[n] ELSE k]
<1>2. more \in [0..(i + 1) -> 0..k]
    OBVIOUS
<1>3. more[0] = 0 /\ more[i + 1] = k
    BY <1>1 DEF Fits
<1>4. \A m, n \in 0..(i + 1) : m <= n => more[m] <= more[n]
    BY <1>1 DEF Fits
<1>5. ASSUME NEW n \in 1..(i + 1), glob[n] # "*"
      PROVE  more[n] = more[n - 1] + 1 /\ glob[n] \in {"?", text[more[n]]}
    <2>1. CASE n <= i
        BY <1>1, <1>5, <2>1 DEF Fits
    <2>2. CASE n = i + 1
        BY <1>1, <1>5, <2>2 DEF Fits
    <2> QED
        BY <2>1, <2>2
<1>6. Fits(glob, i + 1, text, k, more)
    BY <1>3, <1>4, <1>5 DEF Fits
<1> QED
    BY <1>2, <1>6 DEF PrefixMatches

\* A glob that ends in a star also matches with more text.
LEMMA Stretch ==
    ASSUME NEW glob \in Seq(Chars), NEW text \in Seq(Chars),
           NEW i \in Nat \ {0}, NEW j \in Nat, NEW k \in Nat,
           j <= k, glob[i] = "*",
           PrefixMatches(glob, i, text, j)
    PROVE  PrefixMatches(glob, i, text, k)
<1>1. PICK cut \in [0..i -> 0..j] : Fits(glob, i, text, j, cut)
    BY DEF PrefixMatches
<1> DEFINE more == [n \in 0..i |-> IF n < i THEN cut[n] ELSE k]
<1>2. more \in [0..i -> 0..k]
    OBVIOUS
<1>3. more[0] = 0 /\ more[i] = k
    BY <1>1 DEF Fits
<1>4. \A m, n \in 0..i : m <= n => more[m] <= more[n]
    BY <1>1 DEF Fits
<1>5. \A n \in 1..i : glob[n] # "*" =>
            more[n] = more[n - 1] + 1 /\ glob[n] \in {"?", text[more[n]]}
    BY <1>1 DEF Fits
<1>6. Fits(glob, i, text, k, more)
    BY <1>3, <1>4, <1>5 DEF Fits
<1> QED
    BY <1>2, <1>6 DEF PrefixMatches

\* A glob whose rest is stars matches all of the text its beginning matches.
LEMMA StarsTakeNothing ==
    ASSUME NEW glob \in Seq(Chars), NEW text \in Seq(Chars),
           NEW i \in 0..Len(glob), NEW j \in Nat,
           \A n \in (i + 1)..Len(glob) : glob[n] = "*",
           PrefixMatches(glob, i, text, j)
    PROVE  PrefixMatches(glob, Len(glob), text, j)
<1>1. PICK cut \in [0..i -> 0..j] : Fits(glob, i, text, j, cut)
    BY DEF PrefixMatches
<1> DEFINE more == [n \in 0..Len(glob) |-> IF n <= i THEN cut[n] ELSE j]
<1>0. Len(glob) \in Nat
    BY LenProperties
<1>2. more \in [0..Len(glob) -> 0..j]
    OBVIOUS
<1>3. more[0] = 0 /\ more[Len(glob)] = j
    BY <1>0, <1>1 DEF Fits
<1>4. \A m, n \in 0..Len(glob) : m <= n => more[m] <= more[n]
    BY <1>0, <1>1 DEF Fits
<1>5. \A n \in 1..Len(glob) : glob[n] # "*" =>
            more[n] = more[n - 1] + 1 /\ glob[n] \in {"?", text[more[n]]}
    BY <1>0, <1>1 DEF Fits
<1>6. Fits(glob, Len(glob), text, j, more)
    BY <1>3, <1>4, <1>5 DEF Fits
<1> QED
    BY <1>2, <1>6 DEF PrefixMatches

\* Nothing of a glob matches nothing of a text.
LEMMA NothingMatches ==
    ASSUME NEW glob, NEW text
    PROVE  PrefixMatches(glob, 0, text, 0)
<1> DEFINE cut == [n \in 0..0 |-> 0]
<1>1. cut \in [0..0 -> 0..0] /\ Fits(glob, 0, text, 0, cut)
    BY DEF Fits
<1> QED
    BY <1>1 DEF PrefixMatches

\* A lowered tool name has a star only where the name has one.
LEMMA StarlessText ==
    ASSUME TypeOK, StarlessNames, NEW i \in 1..Len(t)
    PROVE  t[i] # "*"
<1>1. tool_name \in Seq(Chars) /\ Len(tool_name) \in Nat
    BY CharAssumption, LenProperties DEF TypeOK
<1>2. Len(t) = Len(tool_name) /\ t[i] = Lower[tool_name[i]]
    BY <1>1, LoweredIsSeq DEF t
<1>3. tool_name[i] # "*" /\ tool_name[i] \in Chars
    BY <1>1, <1>2, ElementOfSeq DEF StarlessNames, TypeOK
<1> QED
    BY <1>2, <1>3, CharAssumption

\* The ranges of the loop's locals while a rule is being matched.
LEMMA CursorType ==
    ASSUME TypeOK, next < Len(rules)
    PROVE  /\ pi \in 0..Len(p) /\ ti \in 0..Len(t)
           /\ star = None \/ star \in 0..(pi - 1)
           /\ star_ti \in 0..ti
BY QuestionType DEF TypeOK, Cursor, pi, ti, star, star_ti, None

\* No step changes the question, nor what applies to it.
LEMMA QuestionStays ==
    ASSUME Next
    PROVE  /\ UNCHANGED <<rules, connector, tool_name>> /\ t' = t
           /\ \A i : Applies(rules[i])' <=> Applies(rules[i])
<1>1. UNCHANGED <<rules, connector, tool_name>>
    BY DEF Next, OtherConnector, Literal, Star, Backtrack, Mismatch, EndOfText, Answer,
           Conclude, Move, question
<1> QED
    BY <1>1 DEF t, Applies, SameConnector

\* A move of the loop stays with its rule.
LEMMA MoveFrame ==
    ASSUME NEW i, NEW j, NEW s, NEW k, Matching, Move(Cursor(i, j, s, k))
    PROVE  /\ UNCHANGED <<rules, connector, tool_name, next, matching, answer>>
           /\ p' = p /\ t' = t /\ Matching' /\ Rule' = Rule
           /\ pi' = i /\ ti' = j /\ star' = s /\ star_ti' = k
BY DEF Move, Cursor, question, p, t, Rule, Matching, Busy, SameConnector,
       pi, ti, star, star_ti

\* Every move keeps what is known of the cursor.
LEMMA MoveInv ==
    ASSUME CursorInv, Literal \/ Star \/ Backtrack
    PROVE  TypeOK' /\ PrefixesMatch' /\ (StarlessNames => NothingMissed')
<1> USE DEF CursorInv, None
<1>1. /\ Matching /\ next < Len(rules) /\ ti < Len(t)
      /\ p \in Seq(Chars) /\ t \in Seq(Chars) /\ Len(p) \in Nat /\ Len(t) \in Nat
      /\ Len(p) = Len(Rule.pattern) /\ Len(t) = Len(tool_name)
    BY QuestionType DEF Literal, Star, Backtrack, Matching, Busy
<1>2. /\ pi \in 0..Len(p) /\ ti \in 0..Len(t) /\ star_ti \in 0..ti
      /\ star = None \/ star \in 0..(pi - 1)
    BY <1>1, CursorType
<1>3. /\ PrefixMatches(p, pi, t, ti)
      /\ star # None => p[star + 1] = "*" /\ PrefixMatches(p, star + 1, t, star_ti)
    BY <1>1 DEF PrefixesMatch
<1>4. ASSUME NEW i \in 0..Len(p), NEW j \in 0..Len(t), NEW s \in {None} \union 0..(i - 1),
             NEW k \in 0..j, Move(Cursor(i, j, s, k))
      PROVE  TypeOK'
    <2>1. /\ UNCHANGED <<rules, connector, tool_name, next, matching, answer>>
          /\ Rule' = Rule /\ cursor' = Cursor(i, j, s, k)
        BY <1>1, <1>4, MoveFrame DEF Move
    <2>2. \E a \in 0..Len(Rule.pattern), b \in 0..Len(tool_name) :
            \E c \in {None} \union 0..(a - 1), d \in 0..b : cursor' = Cursor(a, b, c, d)
        BY <1>1, <2>1
    <2> QED
        BY <1>1, <2>1, <2>2 DEF TypeOK, Cursor
<1>5. ASSUME StarlessNames, NEW cut \in [0..Len(p) -> 0..Len(t)],
             Fits(p, Len(p), t, Len(t), cut)
      PROVE  /\ star = None => cut[pi] = ti
             /\ star # None => /\ cut[star + 1] >= star_ti /\ cut[pi] >= ti
                               /\ cut[star + 1] = star_ti => cut[pi] = ti
    BY <1>1, <1>5 DEF NothingMissed
<1>6. CASE Literal
    <2>1. /\ Move(Cursor(pi + 1, ti + 1, star, star_ti))
          /\ pi < Len(p) /\ p[pi + 1] \in {"?", t[ti + 1]}
        BY <1>6 DEF Literal, AtLiteral
    <2>2. TypeOK'
        BY <1>1, <1>2, <1>4, <2>1
    <2>3. PrefixMatches(p, pi + 1, t, ti + 1)
        BY <1>1, <1>2, <1>3, <2>1, Extend
    <2>4. PrefixesMatch'
        BY <1>1, <1>3, <2>1, <2>3, MoveFrame DEF PrefixesMatch
    <2>5. ASSUME StarlessNames PROVE NothingMissed'
        <3>1. p[pi + 1] # "*"
            BY <1>1, <1>2, <2>1, <2>5, StarlessText
        <3>2. ASSUME NEW cut \in [0..Len(p) -> 0..Len(t)], Fits(p, Len(p), t, Len(t), cut)
              PROVE  cut[pi + 1] = cut[pi] + 1
            BY <1>1, <1>2, <2>1, <3>1, <3>2 DEF Fits
        <3>3. ASSUME NEW cut \in [0..Len(p) -> 0..Len(t)], Fits(p, Len(p), t, Len(t), cut)
              PROVE  /\ star = None => cut[pi + 1] = ti + 1
                     /\ star # None => /\ cut[star + 1] >= star_ti
                                       /\ cut[pi + 1] >= ti + 1
                                       /\ cut[star + 1] = star_ti => cut[pi + 1] = ti + 1
            <4>1. /\ star = None => cut[pi] = ti
                  /\ star # None => /\ cut[star + 1] >= star_ti /\ cut[pi] >= ti
                                    /\ cut[star + 1] = star_ti => cut[pi] = ti
                BY <1>5, <2>5, <3>3
            <4>2. cut[pi + 1] = cut[pi] + 1
                BY <3>2, <3>3
            <4>3. cut[pi] \in Int /\ ti \in Int
                BY <1>1, <1>2
            <4> HIDE DEF CursorInv
            <4> QED
                BY <4>1, <4>2, <4>3
        <3> QED
            BY <1>1, <2>1, <3>3, MoveFrame DEF NothingMissed
    <2> QED
        BY <2>2, <2>4, <2>5
<1>7. CASE Star
    <2>1. /\ Move(Cursor(pi + 1, ti, pi, ti))
          /\ pi < Len(p) /\ p[pi + 1] = "*"
        BY <1>7 DEF Star, AtStar
    <2>2. TypeOK'
        BY <1>1, <1>2, <1>4, <2>1
    <2>3. PrefixMatches(p, pi + 1, t, ti)
        BY <1>1, <1>2, <1>3, <2>1, Extend
    <2>4. PrefixesMatch'
        BY <1>1, <1>2, <2>1, <2>3, MoveFrame DEF PrefixesMatch
    <2>5. ASSUME StarlessNames PROVE NothingMissed'
        <3>1. ASSUME NEW cut \in [0..Len(p) -> 0..Len(t)], Fits(p, Len(p), t, Len(t), cut)
              PROVE  cut[pi] >= ti /\ cut[pi + 1] >= cut[pi]
            <4>1. cut[pi] >= ti
                BY <1>1, <1>2, <1>5, <2>5, <3>1
            <4>2. cut[pi + 1] >= cut[pi]
                BY <1>1, <1>2, <2>1, <3>1 DEF Fits
            <4> QED BY <4>1, <4>2
        <3>2. ASSUME NEW cut \in [0..Len(p) -> 0..Len(t)], Fits(p, Len(p), t, Len(t), cut)
              PROVE  cut[pi + 1] >= ti
            BY <1>1, <1>2, <2>1, <3>1, <3>2
        <3> QED
            BY <1>1, <1>2, <2>1, <3>2, MoveFrame DEF NothingMissed
    <2> QED
        BY <2>2, <2>4, <2>5
<1>8. CASE Backtrack
    <2>1. /\ Move(Cursor(star + 1, star_ti + 1, star, star_ti + 1))
          /\ star # None /\ AtMismatch
        BY <1>8 DEF Backtrack
    <2>2. TypeOK'
        BY <1>1, <1>2, <1>4, <2>1
    <2>3. p[star + 1] = "*" /\ PrefixMatches(p, star + 1, t, star_ti + 1)
        BY <1>1, <1>2, <1>3, <2>1, Stretch
    <2>4. PrefixesMatch'
        BY <1>1, <1>2, <2>1, <2>3, MoveFrame DEF PrefixesMatch
    <2>5. ASSUME StarlessNames PROVE NothingMissed'
        <3>1. ASSUME NEW cut \in [0..Len(p) -> 0..Len(t)], Fits(p, Len(p), t, Len(t), cut)
              PROVE  cut[star + 1] >= star_ti + 1
            <4>0. cut[star + 1] >= star_ti
                BY <1>5, <2>1, <2>5, <3>1
            <4>1. SUFFICES ASSUME cut[star + 1] = star_ti PROVE FALSE
                <5>1. cut[star + 1] \in Int /\ star_ti \in Int
                    BY <1>1, <1>2, <2>1
                <5> HIDE DEF CursorInv
                <5> QED
                    BY <4>0, <5>1
            <4>2. cut[pi] = ti
                BY <1>5, <2>1, <2>5, <3>1, <4>1
            <4>3. CASE pi = Len(p)
                BY <1>1, <3>1, <4>2, <4>3 DEF Fits
            <4>4. CASE pi < Len(p)
                <5>1. p[pi + 1] # "*" /\ p[pi + 1] \notin {"?", t[ti + 1]}
                    BY <2>1, <4>4 DEF AtMismatch, AtLiteral, AtStar
                <5>2. cut[pi + 1] = ti + 1 /\ p[pi + 1] \in {"?", t[cut[pi + 1]]}
                    BY <1>1, <1>2, <3>1, <4>2, <4>4, <5>1 DEF Fits
                <5> QED BY <5>1, <5>2
            <4> QED
                BY <1>1, <1>2, <4>3, <4>4
        <3> QED
            BY <1>1, <1>2, <2>1, <3>1, MoveFrame DEF NothingMissed
    <2> QED
        BY <2>2, <2>4, <2>5
<1> QED
    BY <1>6, <1>7, <1>8

\* A whole cut, while a rule is being matched: what NothingMissed says of it.
LEMMA Cut ==
    ASSUME CursorInv, StarlessNames, Matching, Applies(Rule)
    PROVE  \E cut \in [0..Len(p) -> 0..Len(t)] :
              Fits(p, Len(p), t, Len(t), cut) /\ cut[pi] >= ti /\ (star = None => cut[pi] = ti)
<1>1. PICK cut \in [0..Len(p) -> 0..Len(t)] : Fits(p, Len(p), t, Len(t), cut)
    BY DEF Applies, GlobMatches, PrefixMatches, p
<1>2. /\ star = None => cut[pi] = ti
      /\ star # None => cut[pi] >= ti
    BY <1>1 DEF CursorInv, NothingMissed
<1>3. ti \in Int
    BY CursorType, QuestionType DEF CursorInv, Matching, Busy
<1>4. cut[pi] >= ti
    BY <1>2, <1>3
<1> QED
    BY <1>1, <1>2, <1>4

\* A mismatch before any star: the rule does not apply.
LEMMA MismatchIsFinal ==
    ASSUME CursorInv, StarlessNames, Mismatch
    PROVE  ~Applies(Rule)
<1>1. Matching /\ ti < Len(t) /\ AtMismatch /\ star = None
    BY DEF Mismatch
<1>2. SUFFICES ASSUME Applies(Rule) PROVE FALSE
    OBVIOUS
<1>3. PICK cut \in [0..Len(p) -> 0..Len(t)] :
          Fits(p, Len(p), t, Len(t), cut) /\ cut[pi] = ti
    BY <1>1, <1>2, Cut
<1>4. /\ pi \in 0..Len(p) /\ ti \in 0..Len(t)
      /\ Len(p) \in Nat /\ Len(t) \in Nat
    BY <1>1, CursorType, QuestionType DEF CursorInv, Matching, Busy
<1>5. CASE pi = Len(p)
    BY <1>1, <1>3, <1>4, <1>5 DEF Fits
<1>6. CASE pi < Len(p)
    <2>1. p[pi + 1] # "*" /\ p[pi + 1] \notin {"?", t[ti + 1]}
        BY <1>1, <1>6 DEF AtMismatch, AtLiteral, AtStar
    <2>2. cut[pi + 1] = ti + 1 /\ p[pi + 1] \in {"?", t[cut[pi + 1]]}
        BY <1>3, <1>4, <1>6, <2>1 DEF Fits
    <2> QED
        BY <2>1, <2>2
<1> QED
    BY <1>4, <1>5, <1>6

\* The text is used up and only stars are left: the rule applies.
LEMMA StarsLeft ==
    ASSUME CursorInv, Matching, ti = Len(t), \A n \in (pi + 1)..Len(p) : p[n] = "*"
    PROVE  Applies(Rule)
<1>1. /\ pi \in 0..Len(p) /\ Len(t) \in Nat
      /\ p \in Seq(Chars) /\ t \in Seq(Chars)
    BY CursorType, QuestionType DEF CursorInv, Matching, Busy
<1>2. PrefixMatches(p, pi, t, Len(t))
    BY DEF CursorInv, PrefixesMatch
<1>3. PrefixMatches(p, Len(p), t, Len(t))
    BY <1>1, <1>2, StarsTakeNothing
<1> QED
    BY <1>3 DEF Applies, GlobMatches, Matching, p

\* The text is used up and more than stars is left: the rule does not apply.
LEMMA MoreThanStarsLeft ==
    ASSUME CursorInv, StarlessNames, Matching, ti = Len(t),
           NEW n \in (pi + 1)..Len(p), p[n] # "*"
    PROVE  ~Applies(Rule)
<1>1. SUFFICES ASSUME Applies(Rule) PROVE FALSE
    OBVIOUS
<1>2. PICK cut \in [0..Len(p) -> 0..Len(t)] :
          Fits(p, Len(p), t, Len(t), cut) /\ cut[pi] >= ti
    BY <1>1, Cut
<1>3. pi \in 0..Len(p) /\ Len(p) \in Nat /\ Len(t) \in Nat
    BY CursorType, QuestionType DEF CursorInv, Matching, Busy
<1>4. n \in 1..Len(p) /\ n - 1 \in 0..Len(p) /\ pi <= n - 1
    BY <1>3
<1>5. cut[n] = cut[n - 1] + 1
    BY <1>2, <1>4 DEF Fits
<1>6. cut[pi] <= cut[n - 1]
    BY <1>2, <1>3, <1>4 DEF Fits
<1>7. cut[n] \in 0..Len(t) /\ cut[n - 1] \in 0..Len(t) /\ cut[pi] \in 0..Len(t)
    BY <1>2, <1>3, <1>4
<1>8. cut[pi] >= Len(t)
    BY <1>2
<1> QED
    BY <1>3, <1>5, <1>6, <1>7, <1>8

\* A rule is left with its stance collected exactly if it applies; the loop
\* starts afresh on the next.
LEMMA ConcludeInv ==
    ASSUME CursorInv, Busy, NEW stances, Conclude(stances),
           stances # {} => Applies(Rule) /\ stances = {Rule.stance},
           StarlessNames /\ Applies(Rule) => Rule.stance \in stances
    PROVE  CursorInv'
<1>1. /\ UNCHANGED <<rules, connector, tool_name, answer>>
      /\ matching' = matching \union stances /\ next' = next + 1 /\ cursor' = AtStart
    BY DEF Conclude, question
<1>2. /\ next \in Nat /\ Len(rules) \in Nat /\ next < Len(rules) /\ next' \in 0..Len(rules)
      /\ \A i \in 1..Len(rules) : rules[i] \in Rules
    BY <1>1, QuestionType DEF CursorInv, Busy
<1>3. Rule.stance \in Stances /\ stances \subseteq Stances
    BY <1>2 DEF Rule, Rules
<1>4. pi' = 0 /\ ti' = 0 /\ star' = None /\ star_ti' = 0
    BY <1>1 DEF AtStart, Cursor, pi, ti, star, star_ti
<1>5. \A i : Applies(rules[i])' <=> Applies(rules[i])
    BY <1>1 DEF Applies, SameConnector, t
<1>6. TypeOK'
    <2>1. /\ rules' \in RuleLists /\ connector' \in Connectors /\ tool_name' \in ToolNames
          /\ next' \in 0..Len(rules') /\ matching' \subseteq Stances
          /\ answer' \in Stances \union {"none"}
        BY <1>1, <1>2, <1>3 DEF CursorInv, TypeOK
    <2>2. ASSUME next' < Len(rules')
          PROVE  \E i \in 0..Len(Rule'.pattern), j \in 0..Len(tool_name') :
                    \E s \in {None} \union 0..(i - 1), k \in 0..j :
                        cursor' = Cursor(i, j, s, k)
        <3>1. Len(Rule'.pattern) \in Nat
            <4>1. next' + 1 \in 1..Len(rules)
                BY <1>1, <1>2, <2>2
            <4>2. Rule' \in Rules
                BY <1>1, <1>2, <4>1 DEF Rule
            <4>3. Rule'.pattern \in Seq(Chars)
                BY <4>2, CharAssumption DEF Rules
            <4> QED
                BY <4>3, LenProperties
        <3>2. Len(tool_name') \in Nat
            BY <1>1, QuestionType DEF CursorInv
        <3>3. cursor' = Cursor(0, 0, None, 0) /\ 0 \in 0..Len(Rule'.pattern)
              /\ 0 \in 0..Len(tool_name') /\ None \in {None} \union 0..(0 - 1) /\ 0 \in 0..0
            BY <1>1, <3>1, <3>2 DEF AtStart
        <3> QED
            BY <3>3
    <2> QED
        BY <1>1, <2>1, <2>2 DEF TypeOK
<1>7. PrefixesMatch'
    BY <1>4, NothingMatches DEF PrefixesMatch
<1>8. NothingMissed'
    BY <1>4 DEF NothingMissed, Fits, None
<1>9. OnlyWhatApplies'
    <2>1. ASSUME NEW s \in matching'
          PROVE  \E i \in 1..next' : Applies(rules[i])' /\ rules[i].stance = s
        <3>1. CASE s \in matching
            <4>1. PICK i \in 1..next : Applies(rules[i]) /\ rules[i].stance = s
                BY <3>1 DEF CursorInv, OnlyWhatApplies
            <4>2. i \in 1..next' /\ Applies(rules[i])'
                BY <1>1, <1>2, <1>5, <4>1
            <4> QED
                BY <4>1, <4>2
        <3>2. CASE s \in stances
            <4>1. PICK i : i = next + 1
                OBVIOUS
            <4>2. Applies(rules[i]) /\ rules[i].stance = s
                BY <3>2, <4>1 DEF Rule
            <4>3. i \in 1..next' /\ Applies(rules[i])'
                BY <1>1, <1>2, <1>5, <4>1, <4>2
            <4> QED
                BY <4>2, <4>3
        <3> QED
            BY <1>1, <2>1, <3>1, <3>2
    <2> QED
        BY <1>1, <2>1 DEF OnlyWhatApplies
<1>10. ASSUME StarlessNames PROVE AllThatApplies'
    <2>1. ASSUME NEW i \in 1..next', Applies(rules[i])'
          PROVE  rules[i].stance \in matching'
        <3>1. Applies(rules[i])
            BY <1>5, <2>1
        <3>2. CASE i \in 1..next
            BY <1>1, <1>10, <3>1, <3>2 DEF CursorInv, AllThatApplies
        <3>3. CASE i = next + 1
            BY <1>1, <1>10, <3>1, <3>3 DEF Rule
        <3> QED
            BY <1>1, <1>2, <2>1, <3>2, <3>3
    <2> QED
        BY <1>1, <2>1 DEF AllThatApplies
<1>11. AnswersAtTheEnd'
    BY <1>1 DEF Busy, AnswersAtTheEnd
<1> QED
    BY <1>6, <1>7, <1>8, <1>9, <1>10, <1>11 DEF CursorInv, StarlessNames

\* The loop's moves leave what earlier rules have settled alone.
LEMMA MoveKeepsTheRest ==
    ASSUME CursorInv, Literal \/ Star \/ Backtrack
    PROVE  CursorInv'
<1>1. UNCHANGED <<rules, connector, tool_name, next, matching, answer>>
    BY DEF Literal, Star, Backtrack, Move, question
<1>2. OnlyWhatApplies' /\ AnswersAtTheEnd' /\ (StarlessNames => AllThatApplies')
    BY <1>1 DEF CursorInv, OnlyWhatApplies, AnswersAtTheEnd, AllThatApplies, Applies,
                SameConnector, t
<1>3. TypeOK' /\ PrefixesMatch' /\ (StarlessNames => NothingMissed')
    BY MoveInv
<1> QED
    BY <1>2, <1>3 DEF CursorInv, StarlessNames

\* The pass begins with nothing decided.
LEMMA InitInv ==
    ASSUME Init
    PROVE  CursorInv
<1>1. rules \in Seq(Rules) /\ Len(rules) \in Nat
    BY RuleAssumption, LenProperties DEF Init
<1>2. tool_name \in Seq(Chars) /\ Len(tool_name) \in Nat
    BY CharAssumption, LenProperties DEF Init
<1>3. ASSUME next < Len(rules)
      PROVE  \E i \in 0..Len(Rule.pattern), j \in 0..Len(tool_name) :
                \E s \in {None} \union 0..(i - 1), k \in 0..j : cursor = Cursor(i, j, s, k)
    <2>1. Rule \in Rules
        BY <1>1, <1>3, ElementOfSeq DEF Init, Rule
    <2>2. Rule.pattern \in Seq(Chars)
        BY <2>1, CharAssumption DEF Rules
    <2>3. Len(Rule.pattern) \in Nat
        BY <2>2, LenProperties
    <2>4. cursor = Cursor(0, 0, None, 0) /\ 0 \in 0..Len(Rule.pattern)
          /\ 0 \in 0..Len(tool_name) /\ None \in {None} \union 0..(0 - 1) /\ 0 \in 0..0
        BY <1>2, <2>3 DEF Init, AtStart
    <2> QED
        BY <2>4
<1>4. TypeOK
    BY <1>1, <1>2, <1>3 DEF Init, TypeOK
<1>5. pi = 0 /\ ti = 0 /\ star = None /\ star_ti = 0
    BY DEF Init, AtStart, Cursor, pi, ti, star, star_ti
<1>6. PrefixesMatch
    BY <1>5, NothingMatches DEF PrefixesMatch
<1>7. NothingMissed
    BY <1>5 DEF NothingMissed, Fits, None
<1>8. OnlyWhatApplies /\ AllThatApplies /\ AnswersAtTheEnd
    BY DEF Init, OnlyWhatApplies, AllThatApplies, AnswersAtTheEnd
<1> QED
    BY <1>4, <1>6, <1>7, <1>8 DEF CursorInv

\* Every step of decide preserves the inductive invariant.
LEMMA StepInv ==
    ASSUME CursorInv, [Next]_vars
    PROVE  CursorInv'
<1>1. CASE OtherConnector
    <2>1. Busy /\ ~Applies(Rule) /\ Conclude({})
        BY <1>1 DEF OtherConnector, Applies
    <2> QED
        BY <2>1, ConcludeInv
<1>2. CASE Literal \/ Star \/ Backtrack
    BY <1>2, MoveKeepsTheRest
<1>3. CASE Mismatch
    <2>1. Busy /\ Conclude({}) /\ (StarlessNames => ~Applies(Rule))
        BY <1>3, MismatchIsFinal DEF Mismatch, Matching
    <2> QED
        BY <2>1, ConcludeInv
<1>4. CASE EndOfText
    <2>1. Busy /\ Matching /\ ti = Len(t)
        BY <1>4 DEF EndOfText, Matching
    <2>2. CASE \A n \in (pi + 1)..Len(p) : p[n] = "*"
        <3>1. Conclude({Rule.stance})
            BY <1>4, <2>2 DEF EndOfText
        <3> QED
            BY <2>1, <2>2, <3>1, StarsLeft, ConcludeInv
    <2>3. CASE \E n \in (pi + 1)..Len(p) : p[n] # "*"
        <3>1. Conclude({})
            BY <1>4, <2>3 DEF EndOfText
        <3> QED
            BY <2>1, <2>3, <3>1, MoreThanStarsLeft, ConcludeInv
    <2> QED
        BY <2>2, <2>3
<1>5. CASE Answer
    <2>1. /\ UNCHANGED <<rules, connector, tool_name, next, cursor, matching>>
          /\ answer = "none" /\ next = Len(rules) /\ answer' = Strictest(matching)
        BY <1>5 DEF Answer, question
    <2>2. TypeOK'
        BY <2>1 DEF CursorInv, TypeOK, Strictest, Stances, Rule
    <2>3. ~Matching'
        BY <2>1, QuestionType DEF Matching, Busy, CursorInv
    <2>4. PrefixesMatch' /\ NothingMissed'
        BY <2>3 DEF PrefixesMatch, NothingMissed
    <2>5. OnlyWhatApplies' /\ (StarlessNames => AllThatApplies')
        BY <2>1 DEF CursorInv, OnlyWhatApplies, AllThatApplies, Applies, SameConnector, t
    <2>6. AnswersAtTheEnd'
        BY <2>1 DEF AnswersAtTheEnd
    <2> QED
        BY <2>2, <2>4, <2>5, <2>6 DEF CursorInv, StarlessNames
<1>6. CASE UNCHANGED vars
    BY <1>6 DEF vars, question, CursorInv, TypeOK, PrefixesMatch, NothingMissed, OnlyWhatApplies,
                AllThatApplies, AnswersAtTheEnd, StarlessNames, Matching, Busy, Applies,
                SameConnector, Rule, p, t, pi, ti, star, star_ti
<1> QED
    BY <1>1, <1>2, <1>3, <1>4, <1>5, <1>6 DEF Next

\* At the end the stances collected are those of the rules that apply.
LEMMA AnswerFromInv ==
    ASSUME CursorInv, StarlessNames
    PROVE  AnswerIsStrictest
<1> SUFFICES ASSUME answer # "none"
             PROVE  /\ \A i \in 1..Len(rules) : Applies(rules[i]) =>
                            Severity[rules[i].stance] <= Severity[answer]
                    /\ answer = "allow" \/
                            \E i \in 1..Len(rules) : Applies(rules[i]) /\ rules[i].stance = answer
    BY DEF AnswerIsStrictest
<1>1. next = Len(rules) /\ answer = Strictest(matching) /\ matching \subseteq Stances
    BY DEF CursorInv, AnswersAtTheEnd, TypeOK
<1>2. answer \in {"allow"} \union matching
    BY <1>1 DEF Strictest
<1>3. ASSUME NEW s \in matching
      PROVE  Severity[s] <= Severity[answer]
    BY <1>1 DEF Strictest, Stances, Severity
<1>4. \A i \in 1..Len(rules) : Applies(rules[i]) => rules[i].stance \in matching
    BY <1>1 DEF CursorInv, AllThatApplies
<1>5. \A s \in matching : \E i \in 1..Len(rules) : Applies(rules[i]) /\ rules[i].stance = s
    BY <1>1 DEF CursorInv, OnlyWhatApplies
<1> QED
    BY <1>2, <1>3, <1>4, <1>5

\* wildcard_match's loop and decide's pass keep the inductive invariant.
THEOREM Matched == Spec => []CursorInv
<1>1. Init => CursorInv
    BY InitInv
<1>2. CursorInv /\ [Next]_vars => CursorInv'
    BY StepInv
<1> QED
    BY <1>1, <1>2, PTL DEF Spec

\* Every index the loop forms is inside its glob and its text.
THEOREM InRange == Spec => []TypeOK
<1>1. CursorInv => TypeOK
    BY DEF CursorInv
<1> QED
    BY <1>1, Matched, PTL

\* decide answers with the strictest stance among the rules whose glob fits,
\* for rules and globs of any length, unless a tool name contains a star.
THEOREM Decided ==
    ASSUME StarlessNames
    PROVE  Spec => []AnswerIsStrictest
<1>1. CursorInv => AnswerIsStrictest
    BY AnswerFromInv
<1> QED
    BY <1>1, Matched, PTL
=============================================================================
