--------------------------- MODULE MC_MemoryGraph ---------------------------
EXTENDS MemoryGraph

\* A shared memory, other content under its title, and another agent's private
\* memory with the content of the first, as it is and with the scope left out.
SomeDrafts == {[hash |-> 1, title |-> 1, owner |-> 1, shared |-> TRUE],
               [hash |-> 2, title |-> 1, owner |-> 1, shared |-> TRUE],
               [hash |-> 1, title |-> 2, owner |-> 2, shared |-> FALSE],
               [hash |-> 1, title |-> 2, owner |-> 2, shared |-> TRUE]}

\* Stored in this order none of them is refused (the last under an explicit id).
SomeSeeds == <<[hash |-> 1, title |-> 2, owner |-> 2, shared |-> FALSE],
               [hash |-> 1, title |-> 1, owner |-> 1, shared |-> TRUE],
               [hash |-> 2, title |-> 1, owner |-> 1, shared |-> TRUE]>>

Alike == Permutations(Callers)
============================================================================
