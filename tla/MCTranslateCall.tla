--------------------------- MODULE MCTranslateCall ---------------------------
EXTENDS TranslateCall

\* One unit of two sentences, which begins with a tag that looks like the
\* placeholder of the formula behind it, and one of a word.
MCSources == << <<"m2", "fa", "word", "fc">>, <<"word">> >>
MCMathNames == <<"m1", "m2", "m3">>
MCTagNames == <<"t1", "t2", "t3">>

\* Two units with the same words, whose formulas begin alike.
MCAlike == << <<"word", "fa">>, <<"word", "fb">> >>
==============================================================================
