------------------------------- MODULE Frames -------------------------------
(***************************************************************************)
(* The byte stream between the sender DLL (JokeAssist) and the receiver    *)
(* dialog (JokeDSE), as FileHeader.h lays it out.                          *)
(*                                                                         *)
(* A stream is a sequence of cells.  One cell stands for a fixed number of *)
(* bytes; HeadCells cells make sizeof(FilebufHeader), NameCells cells make *)
(* nNameSize, and every other cell is file content.  A cell knows which    *)
(* part it is of what goes with which header, so that a reader that has    *)
(* lost its place sees what the program sees: bytes that are no header.    *)
(* Assumed: file content never looks like a header with a valid CRC.       *)
(***************************************************************************)
EXTENDS Integers, Sequences

CONSTANTS HeadCells,      \* sizeof(FilebufHeader)
          NameCells       \* nNameSize, the path that follows the header

ASSUME FrameAssumption == HeadCells \in Nat \ {0} /\ NameCells \in Nat

Part == {"head", "name", "body"}

\* The counters a header carries and the dialog shows.
Counter == {"Found", "Filter", "Decrypt"}

(***************************************************************************)
(* What FilebufHeader tells of a file: which it is, the size announced     *)
(* (read from GetLength before anything is sent) and the three counters.   *)
(***************************************************************************)
Header == [file : Nat, nFileSize : Nat, counts : [Counter -> Nat]]

(***************************************************************************)
(* What SendFile puts on the connection for one file: the header, and how  *)
(* many cells of header and content really went out.  They are fewer when  *)
(* a Send fails or a Read throws, more when the file grew.                 *)
(***************************************************************************)
Frame == [file : Nat, nFileSize : Nat, sent : Nat \ {0}, counts : [Counter -> Nat]]

HeaderOf(f) == [file |-> f.file, nFileSize |-> f.nFileSize, counts |-> f.counts]

Cell(part, f, k) == [part |-> part, frame |-> HeaderOf(f), idx |-> k]

Cells == [part : Part, frame : Header, idx : Nat]

\* FilebufHeader::HeaderSize
HeaderSize == HeadCells + NameCells

HeadOf(f) == [k \in 1..HeaderSize |->
                 IF k <= HeadCells THEN Cell("head", f, k)
                                   ELSE Cell("name", f, k - HeadCells)]

BodyOf(f, n) == [k \in 1..n |-> Cell("body", f, k)]

\* The k-th cell of a frame, and those that went out.
CellOf(f, k) == IF k <= HeaderSize THEN HeadOf(f)[k] ELSE Cell("body", f, k - HeaderSize)

FrameCells(f) == [k \in 1..f.sent |-> CellOf(f, k)]

\* As much went out as was announced.
IsWhole(f) == f.sent = HeaderSize + f.nFileSize

\* What the destination file has to hold.
Content(f) == BodyOf(f, f.nFileSize)

(***************************************************************************)
(* CheckPreFix() && CheckCRC() on the sizeof(FilebufHeader) bytes at       *)
(* offset o: they are the fixed part of one header, from its first byte.   *)
(* The CRC does not cover the name.                                        *)
(***************************************************************************)
ValidHeader(buf, o) ==
    \A k \in 1..HeadCells : buf[o + k] = Cell("head", buf[o + 1].frame, k)

Smaller(a, b) == IF a <= b THEN a ELSE b
=============================================================================
