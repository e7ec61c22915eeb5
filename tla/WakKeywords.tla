----------------------------- MODULE WakKeywords -----------------------------
(* The keyword table of src/lexer.c in the order const_str_map_new leaves  *)
(* it, for the instances that run the lexer on words.                      *)
EXTENDS Integers, Sequences

token_keywords ==
  << [key |-> <<"b", "o", "o", "l">>,                     value |-> "KEYWORD_BOOL"],
     [key |-> <<"d", "e", "f", "e", "r">>,                value |-> "KEYWORD_DEFER"],
     [key |-> <<"e", "l", "s", "e">>,                     value |-> "KEYWORD_ELSE"],
     [key |-> <<"f", "3", "2">>,                          value |-> "KEYWORD_F32"],
     [key |-> <<"f", "u", "n", "c">>,                     value |-> "KEYWORD_FUNC"],
     [key |-> <<"i", "3", "2">>,                          value |-> "KEYWORD_I32"],
     [key |-> <<"i", "f">>,                               value |-> "KEYWORD_IF"],
     [key |-> <<"n", "u", "l", "l">>,                     value |-> "KEYWORD_NULL"],
     [key |-> <<"n", "u", "l", "l", "p", "t", "r">>,      value |-> "KEYWORD_NULLPTR"],
     [key |-> <<"r", "e", "t", "u", "r", "n">>,           value |-> "KEYWORD_RETURN"],
     [key |-> <<"s", "t", "r", "u", "c", "t">>,           value |-> "KEYWORD_STRUCT"],
     [key |-> <<"t", "y", "p", "e">>,                     value |-> "KEYWORD_TYPE"],
     [key |-> <<"u", "n", "i", "n", "i", "t">>,           value |-> "KEYWORD_UNINIT"] >>

(* The characters of the keywords in the order of their codes. *)
alphabet == <<"2", "3", "b", "c", "d", "e", "f", "i", "l", "n", "o", "p", "r",
              "s", "t", "u", "y">>

Code(c) == CHOOSE k \in DOMAIN alphabet : alphabet[k] = c

(* strcmp(v, w) < 0 *)
Before(v, w) ==
  \E k \in DOMAIN w : /\ \A j \in 1..(k - 1) : j \in DOMAIN v /\ v[j] = w[j]
                      /\ k \in DOMAIN v => Code(v[k]) < Code(w[k])

ASSUME KeywordsAssumption ==
  \A k \in 1..(Len(token_keywords) - 1) :
    Before(token_keywords[k].key, token_keywords[k + 1].key)
=============================================================================
