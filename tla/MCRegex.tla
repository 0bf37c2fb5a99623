------------------------------ MODULE MCRegex ------------------------------
(***************************************************************************)
(* Regex on two slots, texts of up to four letters, and a small regexec:   *)
(* the leftmost longest match of a*, $ and (a)(b)?.                        *)
(***************************************************************************)
EXTENDS Regex

MCPatterns == {"a*", "$", "(a)(b)?", "a NOSUB"}
MCBadPatterns == {"("}
MCNoSub == {"a NOSUB"}
MCLeftovers == {<<0, 0>>, <<2, 1>>, <<9, 1>>, <<0, 9>>}
MCSimple == {"(a)(b)?"}
MCNsub == [p \in MCPatterns |-> IF p = "(a)(b)?" THEN 2 ELSE 0]
MCWord == <<"a", "b", "b", "a">>
MCTexts == {SubSeq(MCWord, i, j) : i \in 1..4, j \in 0..4}
MCLoopTexts == {<<>>, MCWord}
MCExecTexts == {<<"b">>, <<"a", "b">>}
MCReplacements == {<<>>, <<"R", "R", "R">>}
MCHandleArgs == -1..2
MCGroupArgs == -1..3

(* Whether characters i+1 to j of t are a match of p.                      *)
IsWord(p, t, i, j) ==
  CASE p = "a NOSUB" -> j = i + 1 /\ t[j] = "a"
    [] p = "a*" -> \A n \in (i + 1)..j : t[n] = "a"
    [] p = "$" -> i = Len(t) /\ j = i
    [] p = "(a)(b)?" -> SubSeq(t, i + 1, j) \in {<<"a">>, <<"a", "b">>}

MCRegexec == [p \in MCPatterns |-> [t \in MCTexts |->
  LET W == {w \in (0..Len(t)) \X (0..Len(t)) :
              w[1] <= w[2] /\ w[2] <= Len(t) /\ IsWord(p, t, w[1], w[2])} IN
  IF W = {} THEN <<>>
  ELSE LET w == CHOOSE v \in W :
                  \A u \in W : v[1] < u[1] \/ (v[1] = u[1] /\ u[2] <= v[2]) IN
       IF p # "(a)(b)?" THEN <<w>>
       ELSE <<w, <<w[1], w[1] + 1>>,
              IF w[2] = w[1] + 2 THEN <<w[1] + 1, w[2]>> ELSE <<-1, -1>> >>]]
=============================================================================
