----------------------------- MODULE MCMetadata -----------------------------
EXTENDS MetadataStore, TLC

CONSTANTS b1, b2

\* The live brokers a proposer may see, in the order in which it lists them.
Lists == {<<>>, <<b1>>, <<b2>>, <<b1, b2>>, <<b2, b1>>}

\* No run names a broker, a topic or a name: each may be renamed.
Symmetric == Permutations(TopicID) \cup Permutations(Name) \cup Permutations(Broker)

=============================================================================
