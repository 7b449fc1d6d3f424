SPECIFICATION Spec
CONSTANT
    Samples <- AllSamples
INVARIANTS
    ChartsAreDrawable
    DonutsAddUp
    SeveritiesAgree
