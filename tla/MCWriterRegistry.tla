------------------------- MODULE MCWriterRegistry -------------------------
EXTENDS WriterRegistry

\* One value of every class a caller may pass: ASCII and non-ASCII text,
\* an int, a float, bytes, bytearray, byte and word memoryviews, and two
\* classes encode refuses (bool, a subclass of int, and None).
MCArgs ==
    {PyValue("str", "a"), PyValue("str", Accented), PyValue("int", "7"),
     PyValue("float", "1.5"), PyValue("bytes", "b"), PyValue("bytearray", "b"),
     PyValue("memoryview", "B"), PyValue("memoryview", "I"),
     PyValue("bool", "True"), PyValue("NoneType", "None")}
=============================================================================
