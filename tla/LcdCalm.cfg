SPECIFICATION FairSpec
CONSTANTS
    Modes = {m1}
    Freqs = {f1, f2}
    None = none
    Preemptible = TRUE
    Rapid = FALSE
    EarlyClock = FALSE
    WithPM = FALSE
INVARIANTS
    AsAsked
    LitWithBacklight
PROPERTIES
    BlankTakesEffect
    UnblankTakesEffect
