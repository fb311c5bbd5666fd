---------------------------- MODULE MCLanguage ----------------------------
(* Short texts of all symbols, and longer ones of words and spaces. *)
EXTENDS Language

TextsUpTo(n, symbols) == UNION {[1..k -> symbols] : k \in 0..n}

ShortAndLong ==
  TextsUpTo(4, Symbol) \union TextsUpTo(8, {"e", "r", "sp"})
    \union TextsUpTo(6, {"e", "1", "<", ">"})

\* e e, e ee and r r
EnPairs == {<<"sp", "e", "sp", "e", "sp">>, <<"sp", "e", "sp", "e", "e", "sp">>}
RuPairs == {<<"sp", "r", "sp", "r", "sp">>}
=============================================================================
