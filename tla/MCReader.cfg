CONSTANTS
  None = None
  Texts <- AllTexts
  Volumes = {0, 100}
  Rates = {200}
  Voices = {"default"}
  MaxItems = 3
  MaxGen = 6
SPECIFICATION MCSpec
VIEW NoEffects
INVARIANTS TypeOK ReaderInv ShownInv
PROPERTIES ImplementsPlayer
