SPECIFICATION Spec
INVARIANTS OverTheTarget
