\* Every buffer of up to 5 bytes over terminators, label lengths 1-3, a
\* reserved-prefix length (64), a letter and a pointer prefix (192), from
\* every start offset, including pointer cycles through labels.  Pointer
\* low bytes 0-3 hit the buffer, 64 and 97 miss it.
CONSTANTS
    MaxLen = 5
    Bytes = {0, 1, 2, 3, 64, 97, 192}
    None = None
SPECIFICATION Spec
CONSTRAINT LabelBound
INVARIANT TypeOK
INVARIANT DecodesAsReference
PROPERTY Terminates
