------------------------------ MODULE RcBlock -------------------------------
(***************************************************************************)
(* The PATH block that install-relay.mjs puts at the end of an rc file and  *)
(* takes out of it: findMark, findBlocks, applyBlock and removeBlock, as    *)
(* they work on the characters of the file.  A file is a sequence of "x" (a *)
(* character of the user's), "n" (a newline), "B" and "E" (the texts of the *)
(* two markers, which may stand anywhere).                                  *)
(***************************************************************************)
EXTENDS Naturals, Sequences, SequencesExt

CONSTANTS
    MaxLen,   \* bound: length of the file the user has
    Bad       \* the shape is ambiguous: the file is left alone

VARIABLE file

Chars == {"x", "n", "B", "E"}

Block == <<"B", "n", "p", "n", "E">>

Init == file = <<>>

(* The user types; the file at every length is one to install into.         *)
Type(c) == Len(file) < MaxLen /\ file' = Append(file, c)

Next == \E c \in Chars : Type(c)

-----------------------------------------------------------------------------
(* A marker counts only as a line of its own.                               *)
IsMark(rc, i, mark) ==
    /\ rc[i] = mark
    /\ i = 1 \/ rc[i - 1] = "n"
    /\ i = Len(rc) \/ rc[i + 1] = "n"

(* The first such place from a position on, or 0.                           *)
FindMark(rc, mark, from) ==
    LET at == {i \in from .. Len(rc) : IsMark(rc, i, mark)}
    IN  IF at = {} THEN 0 ELSE CHOOSE i \in at : \A j \in at : i <= j

(* The blocks of the file from a position on, or Bad if a marker is without *)
(* its pair or one block is inside another.                                 *)
RECURSIVE FindBlocks(_, _)
FindBlocks(rc, from) ==
    LET b == FindMark(rc, "B", from)
        e == FindMark(rc, "E", from)
        nested == FindMark(rc, "B", b + 1)
    IN  IF b = 0 /\ e = 0 THEN <<>>
        ELSE IF b = 0 \/ e = 0 \/ e < b \/ (nested # 0 /\ nested < e) THEN Bad
        ELSE LET rest == FindBlocks(rc, e + 1)
             IN  IF rest = Bad THEN Bad ELSE <<[start |-> b, end |-> e]>> \o rest

\* A fault: every newline before the block goes.
BeforeFault(s) == SubSeq(s, 1, Len(s) - Len(SelectSeq(s, LAMBDA c : c = "n")))

(* What stays before a block: without the blank line that was added.        *)
Before(s) ==
    IF (\A i \in DOMAIN s : s[i] = "n") \/ IsSuffix(<<"n", "n">>, s)
    THEN SubSeq(s, 1, Len(s) - 1)
    ELSE s

(* Every block is taken out, with one newline after it.                     *)
RECURSIVE RemoveBlock(_)
RemoveBlock(rc) ==
    LET spans == FindBlocks(rc, 1)
    IN  IF spans = Bad THEN Bad
        ELSE IF spans = <<>> THEN rc
        ELSE LET before == SubSeq(rc, 1, spans[1].start - 1)
                 after  == SubSeq(rc, spans[1].end + 1, Len(rc))
             IN  RemoveBlock(Before(before) \o
                    (IF after # <<>> /\ Head(after) = "n" THEN Tail(after) ELSE after))

(* One block is replaced where it is; several are taken out, and one is put *)
(* at the end, after a blank line.                                          *)
RECURSIVE ApplyBlock(_)
ApplyBlock(rc) ==
    LET spans == FindBlocks(rc, 1)
    IN  IF spans = Bad THEN Bad
        ELSE IF Len(spans) > 1 THEN ApplyBlock(RemoveBlock(rc))
        ELSE IF Len(spans) = 1
             THEN SubSeq(rc, 1, spans[1].start - 1) \o Block
                  \o SubSeq(rc, spans[1].end + 1, Len(rc))
        ELSE rc \o (IF rc = <<>> \/ Last(rc) = "n" THEN <<>> ELSE <<"n">>)
             \o <<"n">> \o Block \o <<"n">>

-----------------------------------------------------------------------------
(* The reference works on lines.                                            *)
RECURSIVE LinesOf(_)
LinesOf(rc) ==
    LET at == {i \in DOMAIN rc : rc[i] = "n"}
        i  == CHOOSE k \in at : \A j \in at : k <= j
    IN  IF at = {} THEN <<rc>>
        ELSE <<SubSeq(rc, 1, i - 1)>> \o LinesOf(SubSeq(rc, i + 1, Len(rc)))

(* The user's lines: those outside the blocks that are not blank.           *)
Kept(rc) ==
    LET ls == LinesOf(rc)
        inside(k) == \E b \in 1 .. k, e \in k .. Len(ls) :
                        /\ ls[b] = <<"B">> /\ ls[e] = <<"E">>
                        /\ \A m \in b + 1 .. e - 1 : ls[m] # <<"E">>
        outside == [k \in DOMAIN ls |-> IF inside(k) THEN <<>> ELSE ls[k]]
    IN  SelectSeq(outside, LAMBDA l : l # <<>>)

(* Whatever the file, installing leaves one block and removing none, both   *)
(* leave every line of the user's as it was, and removing what was just     *)
(* installed into a file without a block gives back that file - with a      *)
(* newline at its end, if it had none (install-relay.mjs).                  *)
BlockInAndOut ==
    LET in  == ApplyBlock(file)
        out == RemoveBlock(file)
    IN  /\ (in = Bad) = (out = Bad)
        /\ in # Bad =>
             /\ Len(FindBlocks(in, 1)) = 1 /\ FindBlocks(out, 1) = <<>>
             /\ Kept(in) = Kept(file) /\ Kept(out) = Kept(file)
             /\ ApplyBlock(in) = in
             /\ out = file =>
                  RemoveBlock(in) = IF file = <<>> \/ Last(file) = "n" THEN file
                                    ELSE Append(file, "n")
=============================================================================
