------------------------------ MODULE VtStream ------------------------------
(* The scanner while bytes arrive: a read of a pipe ends anywhere.          *)
EXTENDS VtScan

CONSTANTS Bytes    \* bytes that arrive

VARIABLE scanner

\* The state without what the next bytes cannot tell apart.
InUse(sc) == [sc EXCEPT !.need = IF sc.st \in {"utf8", "escutf8"} THEN @ ELSE 0,
                        !.params = IF sc.st = "csi" THEN @ ELSE NoParams,
                        !.inter = IF sc.st = "inter" THEN @ ELSE 0,
                        !.body = IF sc.st \in {"ground", "esc"} THEN <<>> ELSE @]

ScanInit == scanner \in {NewScanner(mode) : mode \in {"output", "input"}}
Arrive(b) == scanner' = InUse(Scan(scanner, <<b>>).sc)
\* No byte came for a while: an ESC alone is a key.
Quiet == scanner.mode = "input" /\ scanner' = InUse(Flush(scanner).sc)
ScanNext == Quiet \/ \E b \in Bytes : Arrive(b)

-----------------------------------------------------------------------------
ByteByByte(sc, in) ==
  FoldLeft(LAMBDA x, b : Feed(x.sc, <<b>>, x.out), [sc |-> sc, out |-> <<>>], in)
\* Text in several pieces is one text.
Joined(items) ==
  LET add(acc, item) ==
        IF acc # <<>> /\ Last(acc).k = "text" /\ item.k = "text"
          THEN [acc EXCEPT ![Len(acc)].s = @ \o item.s] ELSE Append(acc, item)
  IN  FoldLeft(add, <<>>, items)
Chunks == {<<a, b>> : a, b \in Bytes} \cup {<<a, b, c>> : a, b, c \in Bytes}

\* In whatever state the scanner is, some bytes read at once yield the items they
\* yield one by one and leave it in the same state (test chunking_invariant).
ChunkingInvariant ==
  \A chunk \in Chunks :
    LET same(once, each) == Joined(once.out) = Joined(each.out) /\ InUse(once.sc) = InUse(each.sc)
    IN  same(Scan(scanner, chunk), ByteByByte(scanner, chunk))
=============================================================================
