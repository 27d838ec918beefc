SPECIFICATION TFSpec
CONSTANTS
  TextLines <- SomeTextLines
  MaxLines = 4
  MinSentences = 3
  Scores = {0, 1, 2}
  Thresholds = {2}
  SmallSaving = 1
INVARIANT
  ShareIsReturned
