CONSTANTS
  MaxWord = 2
  MaxReads = 2
  Phoneme = {0, 1, 2}
  Script <- MCScript
  Narration <- MCNarration
SPECIFICATION Spec
INVARIANT SpeechInv
PROPERTIES SaysWhenReady ImplementsTalk KeepsTalking
