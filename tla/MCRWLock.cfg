CONSTANTS
    INT_MIN <- MCIntMin
    INT_MAX = 5
    Thread = {t1, t2, t3, t4}
SPECIFICATION RWSpec
INVARIANT WriterExclusion
INVARIANT ReadersCounted
PROPERTY NoReaderOvertakes
PROPERTY WriterGetsIn
