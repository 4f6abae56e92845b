\* Dockerfile: nothing writes runbooks at runtime, so a start may overwrite them.
SPECIFICATION RunbooksSpec
CONSTANTS
  Titles = {"Pods", "PODS", " pods ", "a: ---", "x---y", "long"}
  Clipped = {"x---y"}
  Unreadable = {"a: ---"}
  Blanked = {" pods "}
  Shipped = {"Pods"}
  SlugOf <- MCSlugOf
  Reslug <- MCReslug
  MaxSaves = 3
  MaxContainers = 2
INVARIANT
  StartsUndoNothing
CHECK_DEADLOCK FALSE
