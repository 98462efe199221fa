\* Forms of both kinds, cut into reads anywhere.
SPECIFICATION Spec
CONSTANTS
  Names = {"a", "b"}
  Types = {"t"}
  Letters = {"x"}
  HeaderMax = 2
  FileMax = 2
  PayloadMax = 22
  FixedSize = 6
  LineMax = 11
  Forms <- AllForms
INVARIANTS Consistent FormReadBack
CHECK_DEADLOCK FALSE
