SPECIFICATION Spec
CONSTANTS
  None = None
  Width = 2
  Resources = {"buckets"}
INVARIANTS
  FieldsOwn
