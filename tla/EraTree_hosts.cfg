\* Hierarchical tree: binary trees on three hosts and between them.
CONSTANTS
  NP = 7
  TreeFn = "binary"
  Host <- ThreeHosts
  MaxAgreed = 1
SPECIFICATION Spec
INVARIANTS WellFormed ParentFound ChildrenMet
