CONSTANTS
  prop_test = prop_test
  info_datadesc_accessor = info_datadesc_accessor
  Classes <- Linked
  Objects = {o1, o2, o3}
  VtSize <- Sizes
  VtLen <- Lens
  Overridden <- Overrides
  PluginVt <- Compiled
  StubVt <- Stubs
  ServerVt <- Servers
  NULL = NULL
SPECIFICATION Spec
INVARIANTS
  TypeOK
  TablesComplete
  ServerDestructsItsOwn
CHECK_DEADLOCK FALSE
