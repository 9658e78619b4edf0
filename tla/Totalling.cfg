CONSTANTS
  Configurations <- MCConfigurations
  Baskets <- MCBaskets
SPECIFICATION Spec
INVARIANTS PaymentTotalled MainStays
PROPERTIES CustomerHeld NothingSkipped
