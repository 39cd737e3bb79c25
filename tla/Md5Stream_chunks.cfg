CONSTANTS
    Block = 8
    LenBytes = 4
    ByteBits = 2
    MaxChunk = 20
    MaxMessage = 36
    Digests <- MCDigests
SPECIFICATION MCSpec
INVARIANTS Md5TypeOK DigestOfWhole TextTellsDigests DigestOfRfc
