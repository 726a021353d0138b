SPECIFICATION Spec
INVARIANTS
    AcceptsJSON
    MemoryBalances
    StaysInBuffers
    TextsKeepMeaning
    SizesSuffice
    ComparesMeaning
PROPERTY
    CallsEnd
CHECK_DEADLOCK FALSE
