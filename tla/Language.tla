------------------------------ MODULE Language ------------------------------
(***************************************************************************)
(* detectors/language: which language a text is in, with the functions of  *)
(* lua-text it calls.  A text is a sequence of symbols, each of which      *)
(* stands for one class of characters that these functions tell apart:     *)
(*                                                                         *)
(*   "e" "E"    a letter of chars/alphabet/en, small and capital, one byte *)
(*   "r"        a letter of chars/alphabet/ru, two bytes                   *)
(*   "o"        a letter of neither alphabet, two bytes                    *)
(*   "1"        a digit, a currency sign or a punctuation mark             *)
(*   "sp"       white space                                                *)
(*   "<" ">"    themselves                                                 *)
(*   "url"      http:// and a character that is not a space                *)
(*   "ctl"      a control character, for which utf8_char_len has no length *)
(*   "bad"      a byte that is not UTF-8                                   *)
(*                                                                         *)
(* No symbol is or holds www., @ or a dot: the other patterns of           *)
(* strip_urls and that of strip_emails match nothing.  Nor is any a        *)
(* character that NFKC maps to one of another class: normalize folds case  *)
(* and no more.  (A fullwidth < would come out of it as a <, after         *)
(* strip_tags.)                                                            *)
(***************************************************************************)
EXTENDS Naturals, Sequences, FiniteSets, SequencesExt

CONSTANTS
  Texts,      \* the texts to look at
  EnGrams,    \* the keys of en2grams
  RuGrams,    \* the keys of ru2grams
  SplitLimit, \* pairs of words looked at: 200
  FindLimit,  \* pairs found that are enough to stop: 20
  Enough,     \* pairs found that decide: 10
  ScoreUnit   \* one pair found in so many decides: 1 / .05

Symbol == {"e", "E", "r", "o", "1", "sp", "<", ">", "url", "ctl", "bad"}

ASSUME LanguageAssumption ==
  /\ Texts \subseteq Seq(Symbol)
  /\ EnGrams \subseteq Seq(Symbol)
  /\ RuGrams \subseteq Seq(Symbol)
  /\ {SplitLimit, FindLimit, Enough, ScoreUnit} \subseteq Nat \ {0}

VARIABLES
  stage,    \* the next call, or "done", "raised", "undefined"
  content,  \* info.file.content
  target,   \* what is left of it
  isLatin,  \* more than half of its letters are English
  lowest,   \* lowest index the last collapse_whitespace has read at
  words,    \* the result of collapse_whitespace
  grams,    \* the result of split_2grams: the pairs
  count,    \* and how many were looked at
  language  \* info.language, or "none"

vars == <<stage, content, target, isLatin, lowest, words, grams, count, language>>

TypeOK ==
  /\ stage \in {"clean", "normalize", "strip", "classify", "collapse", "split",
                "find", "done", "raised", "undefined"}
  /\ content \in Seq(Symbol)
  /\ target \in Seq(Symbol)
  /\ stage \in {"strip", "classify"} => ToSet(target) \cap {"<", ">", "bad", "E"} = {}
  /\ isLatin \in BOOLEAN
  /\ lowest \in Nat
  /\ words \in Seq(Symbol \ {"1", "<", ">", "url", "bad"})
  /\ \A g \in grams : Len(g) >= 5
  /\ count \in 0..SplitLimit /\ Cardinality(grams) <= count
  /\ language \in {"none", "en", "ru"}

Init ==
  /\ stage = "clean"
  /\ content \in Texts
  /\ target = content
  /\ isLatin = FALSE
  /\ lowest = 1
  /\ words = <<>>
  /\ grams = {}
  /\ count = 0
  /\ language = "none"

----------------------------------------------------------------------------
(* lua-text *)

\* The n-th smallest member of a set of positions, and the symbols of a text at
\* these positions, in order.
Nth(S, n) == CHOOSE i \in S : Cardinality({j \in S : j <= i}) = n
Copy(text, S) == [n \in 1..Cardinality(S) |-> text[Nth(S, n)]]

Without(text, symbols) == Copy(text, {i \in 1..Len(text) : text[i] \notin symbols})

\* Position i is behind a < that no > has followed yet.
InTag(text, i) ==
  \E j \in 1..(i - 1) : text[j] = "<" /\ \A k \in j..(i - 1) : text[k] # ">"

\* What strip_tags copies: no space before anything else.
Untagged(text) == {i \in 1..Len(text) : text[i] = ">" \/ (text[i] # "<" /\ ~InTag(text, i))}
Unindented(text) ==
  {i \in Untagged(text) :
     text[i] = "sp" => \E j \in Untagged(text) : j < i /\ text[j] # "sp"}

\* Mutant of StripTags: a > that ends no tag is copied.
StripTagsPaired(text) ==
  Copy([i \in 1..Len(text) |-> IF text[i] = ">" /\ InTag(text, i) THEN "sp" ELSE text[i]],
       Unindented(text))

\* strip_tags: every > leaves a space, even one that ends no tag.
StripTags(text) ==
  Copy([i \in 1..Len(text) |-> IF text[i] = ">" THEN "sp" ELSE text[i]], Unindented(text))

\* strip_urls: a URL ends at the next space.
InUrl(text, i) == \E j \in 1..i : text[j] = "url" /\ \A k \in j..i : text[k] # "sp"
StripUrls(text) == Copy(text, {i \in 1..Len(text) : ~InUrl(text, i)})

\* strip_chars without keep, on digits, punctuation and currency.
WithoutMarks(text) == Without(text, {"1"})

\* #strip_chars(letters, alphabet, true): bytes that begin no character of
\* utf8_char_len are kept, in the alphabet or not.
ByteLen(text) == Len(text) + Cardinality({i \in 1..Len(text) : text[i] \in {"r", "o"}})
Kept(letters, alphabet) == ByteLen(Without(letters, Symbol \ (alphabet \union {"ctl"})))

\* collapse_whitespace with edge spaces, before it trims: one space in front,
\* and none after a space.
Collapsed(text) ==
  <<"sp">> \o Copy(text, {i \in 1..Len(text) : text[i] # "sp" \/ (i > 1 /\ text[i - 1] # "sp")})

\* Where trimming ends: the last character that is no space, or 0, which is
\* before the buffer.
TrimmedTo(dst) == SelectLastInSeq(dst, LAMBDA c : c # "sp")

Spaces(text) == {i \in 1..Len(text) : text[i] = "sp"}

Least(m, n) == IF m <= n THEN m ELSE n

\* split_2grams counts a pair of words for every third space on.
GramCount(text) ==
  LET spaces == Cardinality(Spaces(text))
  IN IF spaces < 3 THEN 0 ELSE Least(SplitLimit, spaces - 2)

GramsIn(text) ==
  {SubSeq(text, Nth(Spaces(text), i), Nth(Spaces(text), i + 2)) : i \in 1..GramCount(text)}

\* find_2grams
FoundIn(dictionary) == Least(FindLimit, Cardinality(grams \cap dictionary))

----------------------------------------------------------------------------
(* The detector, call by call *)

Clean ==
  /\ stage = "clean"
  /\ target' = StripTags(target)
  /\ stage' = "normalize"
  /\ UNCHANGED <<content, isLatin, lowest, words, grams, count, language>>

\* normalize folds case; of a text that is not UTF-8 it makes nil, on which
\* strip_urls raises.
Normalize ==
  /\ stage = "normalize"
  /\ target' = [i \in 1..Len(target) |-> IF target[i] = "E" THEN "e" ELSE target[i]]
  /\ stage' = IF "bad" \in ToSet(target) THEN "raised" ELSE "strip"
  /\ UNCHANGED <<content, isLatin, lowest, words, grams, count, language>>

Strip ==
  /\ stage = "strip"
  /\ target' = WithoutMarks(StripUrls(target))
  /\ stage' = "classify"
  /\ UNCHANGED <<content, isLatin, lowest, words, grams, count, language>>

\* Mutant of Classify: half of the letters are enough.
ClassifyHalf ==
  /\ stage = "classify"
  /\ LET letters == Without(target, {"sp"})
         isCyr == 2 * Kept(letters, {"r"}) >= ByteLen(letters)
     IN /\ isLatin' = (2 * Kept(letters, {"e"}) >= ByteLen(letters))
        /\ stage' = IF isLatin' \/ isCyr THEN "collapse" ELSE "done"
  /\ UNCHANGED <<content, target, lowest, words, grams, count, language>>

\* More than half of the bytes of the letters, else there is no language.
Classify ==
  /\ stage = "classify"
  /\ LET letters == Without(target, {"sp"})
         isCyr == 2 * Kept(letters, {"r"}) > ByteLen(letters)
     IN /\ isLatin' = (2 * Kept(letters, {"e"}) > ByteLen(letters))
        /\ stage' = IF isLatin' \/ isCyr THEN "collapse" ELSE "done"
  /\ UNCHANGED <<content, target, lowest, words, grams, count, language>>

\* collapse_whitespace; a space is added at the end that was trimmed.
Collapse ==
  /\ stage = "collapse"
  /\ LET dst == Collapsed(target)
     IN /\ lowest' = TrimmedTo(dst)
        /\ words' = Append(SubSeq(dst, 1, TrimmedTo(dst)), "sp")
  /\ stage' = IF lowest' = 0 THEN "undefined" ELSE "split"
  /\ UNCHANGED <<content, target, isLatin, grams, count, language>>

\* Mutant of Split: the window moves on by two words.
SplitApart ==
  /\ stage = "split"
  /\ grams' = {SubSeq(words, Nth(Spaces(words), i), Nth(Spaces(words), i + 2)) :
                 i \in {j \in 1..GramCount(words) : j % 2 = 1}}
  /\ count' = Cardinality(grams')
  /\ stage' = "find"
  /\ UNCHANGED <<content, target, isLatin, lowest, words, language>>

Split ==
  /\ stage = "split"
  /\ grams' = GramsIn(words)
  /\ count' = GramCount(words)
  /\ stage' = "find"
  /\ UNCHANGED <<content, target, isLatin, lowest, words, language>>

\* A text without pairs has the score 0 / 0, which is at least nothing.
Find ==
  /\ stage = "find"
  /\ LET found == FoundIn(IF isLatin THEN EnGrams ELSE RuGrams)
     IN language' =
          IF found >= Enough \/ (count > 0 /\ found * ScoreUnit >= count)
          THEN IF isLatin THEN "en" ELSE "ru"
          ELSE "none"
  /\ stage' = "done"
  /\ UNCHANGED <<content, target, isLatin, lowest, words, grams, count>>

Next == Clean \/ Normalize \/ Strip \/ Classify \/ Collapse \/ Split \/ Find

Spec == Init /\ [][Next]_vars

----------------------------------------------------------------------------
(* Properties *)

\* collapse_whitespace trims backwards without a lower bound; that the detector
\* asks for more than half of the letters first keeps it inside its buffer, for
\* no text it is called with is empty or all spaces.
ReadsInside == lowest >= 1

\* The words of a text, defined by where they begin and end.
Begins(text) == {i \in 1..Len(text) : text[i] # "sp" /\ (i = 1 \/ text[i - 1] = "sp")}
WordEnd(text, i) ==
  CHOOSE j \in i..Len(text) :
    /\ \A k \in i..j : text[k] # "sp"
    /\ j = Len(text) \/ text[j + 1] = "sp"
WordsOf(text) ==
  LET begins == Begins(text)
  IN [n \in 1..Cardinality(begins) |->
        SubSeq(text, Nth(begins, n), WordEnd(text, Nth(begins, n)))]

\* What is looked up are exactly the first neighbouring words of the text, each
\* pair with one space before, between and after it, and as many are counted as
\* there are neighbours, equal pairs too, up to the limit: the pass over spaces
\* in split_2grams agrees with the words that collapse_whitespace has delimited,
\* at both ends of the text and wherever tags, URLs and marks were cut out.
GramsOfTheText ==
  stage = "find" =>
    LET ws == WordsOf(target)
    IN /\ count = Least(SplitLimit, Len(ws) - 1)
       /\ grams = {<<"sp">> \o ws[i] \o <<"sp">> \o ws[i + 1] \o <<"sp">> : i \in 1..count}
=============================================================================
