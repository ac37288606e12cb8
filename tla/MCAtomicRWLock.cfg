SPECIFICATION FairSpec
CONSTANTS
  Threads = {t1, t2, t3}
  WriteFirst = TRUE
  WeakCas = FALSE
PROPERTIES
  ImplementsRWLocks
  WriterGetsIn
