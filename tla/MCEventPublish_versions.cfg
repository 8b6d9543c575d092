CONSTANTS
  NameOrder <- MCNameOrder
  Authors = {e1, e2}
  Definitions <- MCDefinitions
  Drafts <- SomeDrafts
  Posts <- SomePosts
  MaxVersions = 3
SYMMETRY AuthorSymmetry
SPECIFICATION PublishSpec
INVARIANTS
  SuggestionLeast
  PropsAccounted
  
CHECK_DEADLOCK FALSE
