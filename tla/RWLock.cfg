CONSTANT Thread = {t1, t2, t3}
SPECIFICATION FairSpec
INVARIANT Exclusion
PROPERTY WriterGetsIn
