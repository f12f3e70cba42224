----------------------------- MODULE MCGrammar -----------------------------
(* Characters of one, two and three bytes that share their later bytes, the *)
(* tokens that are pieces of them, and grammars of two rules.               *)
EXTENDS Grammar

Ref(r)    == [ref |-> r, negated |-> FALSE, chars |-> {}]
Chars(C)  == [ref |-> 0, negated |-> FALSE, chars |-> C]
NotIn(C)  == [ref |-> 0, negated |-> TRUE, chars |-> C]

\* 61, 62, C3 A9, C3 AA, and E0 A9 AA with its like
LetterA   == 97
LetterB   == 98
Two       == 233
Three     == 2666
MCAlphabet == {LetterA, LetterB, Two, 234, 2665, Three, 2729, 2730}

MCVocab ==
    {<<x>> : x \in {97, 98, 195, 169, 170, 224}}
      \cup {<<97, 98>>, <<195, 169>>, <<97, 195>>, <<169, 97>>, <<224, 169>>, <<169, 195>>, <<170, 224>>}

IsA == Chars({LetterA})
IsB == Chars({LetterB})

Roots == {<<IsA, Ref(2)>>, <<Ref(2), IsA>>, <<Chars({Two})>>, <<Ref(2), Ref(2)>>,
          <<IsB, Ref(1), IsA>>, <<Ref(1), IsB>>}

Seconds == {<<>>, <<Chars({Two, LetterB})>>, <<Chars({Three}), IsA>>, <<Chars({Two}), Ref(2)>>,
            <<NotIn({LetterA, LetterB})>>}

\* two alternates of a rule, the first of which ends
Alternates(r, X) == {<<x, y>> : x \in {z \in X : \A n \in DOMAIN z : z[n].ref # r}, y \in X}

\* left recursion if the second rule may be empty
Led(q) == << <<<<IsB>>, <<Ref(2), Ref(1), IsA>>>>, q>>

MCGrammars ==
    {<<r, q>> : r \in Alternates(1, Roots), q \in Alternates(2, Seconds)}
      \cup {Led(<<<<IsA>>, x>>) : x \in {<<>>, <<Chars({Three})>>}}

\* the second rule may be empty because the third may
NullableGrammars == {Led(<<<<Ref(3)>>>>) \o <<<<<<IsA>>, <<>>>>>>}

=============================================================================
