SPECIFICATION Spec
INVARIANTS UnmappingIsHarmless
