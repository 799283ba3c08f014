SPECIFICATION Spec
CONSTANTS
  Fields <- MCFields
  AutoField = "id"
  ConflictKeys <- AnyOrder
  MemberLists <- Lists
  Values = {0, 1}
  NewIds = {1, 2}
  NoField = NoField
  Null = Null
  MaxRows = 2
INVARIANT TypeOK
INVARIANT DoesAsAsked
