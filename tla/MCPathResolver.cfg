CONSTANT MaxCount = 31
INIT Init
NEXT Resolve
INVARIANT PathMatchesReference
