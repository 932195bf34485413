SPECIFICATION Spec
CONSTANTS
    Kinds = {"local", "s3"}
    Layout <- MCLayout
    Gens = 2
    PageLen = 1
    Races = {}
INVARIANTS RestoreSound NoPartialObject
