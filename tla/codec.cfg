\* Every format with fields of every length up to one and a half words, and
\* every directory of two names with directories in it.
SPECIFICATION MCSpec
CONSTANTS
    Radix = 8
    Word = 2
    AddressSize = 1
    MaxSafeInteger = 50
    Selector <- MCSelector
    Portal <- MCPortal
    Numbers <- MCNumbers
    Addresses <- MCAddresses
    ByteStrings <- MCByteStrings
    Lists <- MCLists
    Junk <- MCJunk
    BlockSize = 2
    NameSize = 4
    Depth = 2
    Entries <- MCEntries
    Width <- MCWidth
    Contents <- MCContents
    Listings <- Snapshots
INVARIANTS RoundTrip PathsAgree LengthMistakes SnapshotsSurvive
\* Data is damaged once.
CHECK_DEADLOCK FALSE
