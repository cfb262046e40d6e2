SPECIFICATION Spec
INVARIANTS LowerPageIsGone
PROPERTIES LoaderNeverFaults KmainIsReached
