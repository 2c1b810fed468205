\* Every URL built from the parts of UrlParse's Inputs.
SPECIFICATION Spec
INVARIANTS
    ParsesWellFormed
