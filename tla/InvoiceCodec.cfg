\* 3-bit bytes in 2-bit groups, 2-byte words and a 9-bit coder.
SPECIFICATION Spec
CONSTANTS
    ByteBits = 3
    GroupBits = 2
    Precision = 9
    MaxData = 36
    Accuracy = 16
    WordLength = 2
    TimeLength = 1
    HashLength = 1
    Points <- Keys
    HashTypes = {0, 1}
    DigestBlock = 3
    Currencies = {"fibb", "fibt"}
    Signed <- SomeInvoices
    Forger <- Another
    OtherAmounts <- SomeAmounts
CHECK_DEADLOCK FALSE
INVARIANTS ValueInRange GenuineIsRead OneString ReadIsSigned
