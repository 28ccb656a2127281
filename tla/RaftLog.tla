------------------------------- MODULE RaftLog -------------------------------
(***************************************************************************)
(* The replicated log of src/src/internal/raft/log.go.  The Go slice holds *)
(* a sentinel entry of term 0 at index 0; here a log is the sequence of    *)
(* the entries after it, so that entry i has position i in both.           *)
(***************************************************************************)
EXTENDS Integers, Sequences

lastIndex(l) == Len(l)

\* The term of entry(i): the sentinel and an index past the end (the zero
\* LogEntry) both have term 0.
termAt(l, i) == IF i \in 1..Len(l) THEN l[i].term ELSE 0

lastTerm(l) == termAt(l, Len(l))

\* The boolean result of entry(i).
hasEntry(l, i) == i <= Len(l)

entriesFrom(l, i) == IF hasEntry(l, i) THEN SubSeq(l, i, Len(l)) ELSE <<>>

appendKeepsSuffix(l, prev, es) == l \o es   \* mutant

\* append(prevIndex, entries): everything after prevIndex is dropped first,
\* whether or not it conflicts with what is added.
append(l, prev, es) == SubSeq(l, 1, prev) \o es

appendOne(l, e) == Append(l, e)
=============================================================================
