\* Three requests over a nested menu and a small tree of categories.
SPECIFICATION NavigationSpec
CONSTANTS
  r1 = r1
  r2 = r2
  r3 = r3
  Top = Top
  Nothing = Nothing
  Gone = Gone
  Edits = {r1, r2, r3}
  Pages = {"p1", "p2", "p3"}
  Slugs = {"about", "other", "third"}
  Entries = {"first", "second", "leaf", "spare"}
  Categories = {"a", "b", "c", "spare"}
  Products = {"x"}
  FirstPages <- TwoPages
  FirstMenu <- NestedMenu
  FirstCategories <- TwoRoots
  FirstTags <- OneTag
  MaxCategoryDepth = 2
INVARIANTS CategoriesAcyclic
PROPERTIES DeletionSparesMenus
SYMMETRY Symmetry
CHECK_DEADLOCK FALSE
