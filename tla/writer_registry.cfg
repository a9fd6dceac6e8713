\* Two Writers of any configuration (encoding None, utf-8 or latin-1;
\* encoding_errors None or strict) packing a SET with up to two arguments
\* of every class.
CONSTANTS
    NoVal = NoVal
    Encodings = {NoVal, "utf-8", "latin-1"}
    ErrorModes = {NoVal, "strict"}
    Args <- MCArgs
    MaxArgs = 2
    MaxWriters = 2
SPECIFICATION Spec
INVARIANT ArgumentsRoundTrip
