SPECIFICATION Spec
CONSTANTS
    Setups <- MCOptions
    MaxTracers = 2
PROPERTY
    RefusedOptionsNotApplied
