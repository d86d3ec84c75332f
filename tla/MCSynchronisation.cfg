\* Locks and conditions, synchronised lists, philosophers, linked lists.
SPECIFICATION Spec
INVARIANTS
  SignalsKept
  NoStrandedItem
  NeighboursApart
PROPERTIES
  ImplementsMonitor
  ImplementsFifo
  ItemsAreTaken
  AllGetTheirMeals
  ImplementsSequence
