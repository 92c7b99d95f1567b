\* Text fields of 5 bytes and 4 units, which characters of up to 4 bytes and 2
\* units overrun in every way.
CONSTANTS
  NameCap = 5
  TextCap = 4
  Names <- MCNames
  Titles <- MCTitles
  Lengths <- MCLengths
SPECIFICATION Spec
INVARIANTS SentIsReadable LayersKeptApart PayloadsJoin TextSurvives
CHECK_DEADLOCK FALSE
