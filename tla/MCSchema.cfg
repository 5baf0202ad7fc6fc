SPECIFICATION SchemaWorkSpec
CONSTANTS
  Keys = {k1, k2}
  Fields <- TwoFields
  Entries = {e1}
  Admins = {a1, a2}
  Writers = {w1}
  MaxVersion = 3
  NoField = NoField
  Nobody = Nobody
  TypeKeys <- TwoKeys
  Rows = {e1}
  Artifacts <- MCArtifacts
  Proposals = {p1}
  Prunes = {TRUE}
  Reviews = {a1, a2}
  NotDefined = NotDefined
  NoType = NoType
  Direct = Direct
CHECK_DEADLOCK FALSE
SYMMETRY Symmetry
INVARIANTS SchemaSound ProposalsSound
PROPERTIES OnlyWhatThePatchNames NoEntryGoesUnseen OnlyWhatWasReviewed AppliedInFull
CONSTRAINT Shallow
