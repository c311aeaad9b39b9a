SPECIFICATION Spec
CONSTANTS
    Upload = {u1, u2}
    Torn = Torn
SYMMETRY Symmetry
\* Every upload ends: then nothing is left to do.
CHECK_DEADLOCK FALSE
INVARIANT BundleIsUploaded
