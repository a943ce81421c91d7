SPECIFICATION Spec
CONSTANTS
  Loaders = {l1, l2}
  NoLoader = NoLoader
INVARIANTS
  LoaderIsThere
PROPERTIES
  LoadersEnd
