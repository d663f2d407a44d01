--------------------------- MODULE MCExpressions ----------------------------
EXTENDS Expressions

\* The levels of docs/dev/language.md:235 and docs/dev/grammar.md:101.
DocumentedLevels == <<{"or"}, {"and"}, {"=="}, {"<"}, {".."}, {"minus"}, {"*"}>>
=============================================================================
