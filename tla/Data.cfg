\* Three keys on three nodes, replies of up to four elements, integers of three and four
\* bits, two clients and one name for the subscriber; connections break, slots move.
CONSTANTS
    Keys <- MCKeys
    KeySlot <- MCKeySlot
    ClientSlot = 2
    OtherSlot = 3
    Nodes = {"a", "b", "c"}
    Tables <- MCTables
    Items <- MCItems
    MaxU32 = 7
    MaxU64 = 15
    CacheUpdateDelay = 1
    Loops = 3
    Policies <- MCPolicies
    Subscribers = {"u1", "u2"}
    Names = {"x"}
    SubscriberTries = 2
    SubscriberBreaks = 2

SPECIFICATION MCSpec
INVARIANT RoutedToOwner
INVARIANT KeysWhereExpected
INVARIANT HeldBackAlone
INVARIANT ProtocolsAgree
INVARIANT MessagesDelivered
INVARIANT SubscriptionsInSync
INVARIANT TriesBounded
PROPERTY BacksOff
\* A reply is read once, and a policy gives up.
CHECK_DEADLOCK FALSE
