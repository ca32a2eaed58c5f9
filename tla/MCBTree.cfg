CONSTANTS
  Order = 4
  Keys = {1, 2, 3, 4, 5, 6, 7, 8, 9, 10, 11}
  None = None
  MaxMisses = 1
  MaxDepth = 3
SPECIFICATION Spec
INVARIANTS ScanIsContent SearchFinds Balanced
