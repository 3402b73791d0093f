SPECIFICATION Spec
CONSTANTS
  Keys = {"porch", "hall"}
  ModeNames = {"HOLD", "ROTATE"}
  Boxes = {"http://a", "http://a/", "http://b", "nowhere"}
  Saved = "http://a"
  Addresses = {"a", "b"}
  AddressOf <- MCAddressOf
  Slots <- MCSlots
  Described <- MCDescribed
  TypedKeys <- MCTypedKeys
  TypedTexts <- MCTypedTexts
  MaxSends = 2
  MaxEdits = 2
CHECK_DEADLOCK FALSE
INVARIANTS
  AddressesAreAccountedFor
  FormsHoldWhatWasMeant
  NothingIsLostFromTheChain
PROPERTIES
  LoadAllEnds
