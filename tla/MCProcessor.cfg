\* The simulated processor.
SPECIFICATION Spec
INVARIANTS
  
  ProductExact
PROPERTIES
  ImplementsIsa
