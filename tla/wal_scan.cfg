SPECIFICATION Spec
CONSTANTS
    MaxWrites = 5
    MaxCycles = 2
INVARIANTS ScanSound ScanAtomic
