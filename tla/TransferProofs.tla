--------------------------- MODULE TransferProofs ---------------------------
(***************************************************************************)
(* Proofs about Transfer: what the threads of SendPool put on their        *)
(* connections is what the dialog of Session shows and saves.              *)
(*                                                                         *)
(* Session's theorems are about scripts that are fixed before the first    *)
(* byte is sent.  Here a script is written while it is read, and its last  *)
(* frame is only partly out.  They are used all the same, with the script  *)
(* that the sender means to send: each entry of out as it went out, and    *)
(* the last one as it goes out if no Send fails any more (Sending).        *)
(***************************************************************************)
EXTENDS Transfer, SendPoolProofs, SequenceLemmas, FiniteSetTheorems

\* More has gone out than was announced, because the file grew.
Over(h) == h.head = "whole" /\ h.sent > h.nFileSize

\* The frame that becomes of the last entry of out.
Aim(h) == IF Over(h) THEN FrameOf(h)
          ELSE [FrameOf(h) EXCEPT !.sent = HeadCells + NameCells + h.nFileSize]

Aims(o) == [i \in DOMAIN o |-> IF i = Len(o) THEN Aim(o[i]) ELSE FrameOf(o[i])]

Sending == [t \in Threads |-> Aims(out[t])]

P == INSTANCE SessionProofs WITH
    Conns <- Threads, Scripts <- [Threads -> Seq(Receiver!Frame)],
    MaxFaults <- 0, MaxResets <- 0, MaxBadAccepts <- 0,
    script <- Sending, toSend <- [t \in Threads |-> <<>>]

LEMMA SameFlatten == \A s : FlattenSeq(s) = P!FlattenSeq(s) /\ Receiver!FlattenSeq(s) = P!FlattenSeq(s)
BY DEF Receiver!FlattenSeq, P!FlattenSeq, FlattenSeq

LEMMA SameCardinality == \A S : Receiver!Cardinality(S) = P!Cardinality(S) /\ Cardinality(S) = P!Cardinality(S)
BY DEF Receiver!Cardinality, P!Cardinality, Cardinality

LEMMA SameFrameCells == \A f : Receiver!FrameCells(f) = P!FrameCells(f)
BY DEF Receiver!FrameCells, Receiver!CellOf, Receiver!HeadOf, Receiver!HeaderSize, Receiver!Cell,
       Receiver!HeaderOf, P!FrameCells, P!CellOf, P!HeadOf, P!HeaderSize, P!Cell, P!HeaderOf

-----------------------------------------------------------------------------
(* The frames. *)

\* What Session and Frames assume of their constants.
LEMMA PAssumption == P!SessionAssumption /\ P!FrameAssumption
<1>1. P!Frame = Receiver!Frame
  BY DEF P!Frame, Receiver!Frame, P!Counter, Receiver!Counter
<1>2. P!SessionAssumption
  <2>1. IsFiniteSet(Threads) /\ MaxRead \in Nat \ {0} /\ 0 \in Nat
    BY SendPoolAssumption, TransferAssumption
  <2>2. [Threads -> Seq(Receiver!Frame)] \subseteq [Threads -> Seq(P!Frame)]
    BY <1>1
  <2> QED BY <2>1, <2>2 DEF P!SessionAssumption, IsFiniteSet, P!IsFiniteSet
<1>3. P!FrameAssumption
  BY TransferAssumption DEF P!FrameAssumption
<1> QED BY <1>2, <1>3

\* What is not out yet of the last entry.
Lacking(h) == P!Cut(FrameOf(h), FrameOf(h).sent, Aim(h).sent)

Missing(o) == IF o = <<>> THEN <<>> ELSE Lacking(o[Len(o)])

LEMMA FramesAre ==
    ASSUME NEW h \in Header
    PROVE  /\ FrameOf(h) \in P!Frame /\ Aim(h) \in P!Frame
           /\ P!HeaderOf(Aim(h)) = P!HeaderOf(FrameOf(h))
           /\ FrameOf(h).nFileSize = h.nFileSize /\ Aim(h).nFileSize = h.nFileSize
           /\ h.nFileSize \in Nat /\ h.sent \in Nat
           /\ FrameOf(h).sent = IF h.head = "part" THEN PartCells ELSE P!HeaderSize + h.sent
           /\ Aim(h).sent = IF Over(h) THEN FrameOf(h).sent ELSE P!HeaderSize + h.nFileSize
           /\ FrameOf(h).sent <= Aim(h).sent
           /\ P!IsWhole(Aim(h)) <=> ~Over(h)
           /\ h.head = "whole" /\ h.sent = h.nFileSize => P!IsWhole(FrameOf(h))
<1>1. /\ h.file \in Nat /\ h.nFileSize \in Nat /\ h.count \in Nat /\ h.sent \in Nat
      /\ h.head \in {"whole", "part"}
  BY SendPoolAssumption DEF Header, Files
<1>2. /\ P!HeaderSize = HeadCells + NameCells /\ P!HeaderSize \in Nat \ {0}
      /\ PartCells \in Nat \ {0} /\ PartCells <= P!HeaderSize
  BY TransferAssumption DEF P!HeaderSize
<1> DEFINE s == IF h.head = "part" THEN PartCells ELSE P!HeaderSize + h.sent
<1>3. FrameOf(h).sent = s /\ FrameOf(h).nFileSize = h.nFileSize /\ s \in Nat \ {0}
  BY <1>1, <1>2 DEF FrameOf
<1>4. FrameOf(h) \in P!Frame
  <2>1. NFiles \in Nat
    BY SendPoolAssumption
  <2>2. FrameOf(h).counts \in [P!Counter -> Nat]
    BY <1>1, <2>1 DEF FrameOf, P!Counter
  <2> QED BY <1>1, <1>3, <2>2 DEF FrameOf, P!Frame
<1>5. Over(h) => s > P!HeaderSize + h.nFileSize
  BY <1>1, <1>2 DEF Over
<1>6. ~Over(h) => s <= P!HeaderSize + h.nFileSize
  BY <1>1, <1>2 DEF Over
<1> HIDE DEF s
<1>7. ~Over(h) => /\ Aim(h) = [FrameOf(h) EXCEPT !.sent = P!HeaderSize + h.nFileSize]
                  /\ Aim(h) \in P!Frame /\ Aim(h).sent = P!HeaderSize + h.nFileSize
                  /\ Aim(h).nFileSize = h.nFileSize
                  /\ P!HeaderOf(Aim(h)) = P!HeaderOf(FrameOf(h))
  <2>1. P!HeaderSize + h.nFileSize \in Nat \ {0}
    BY <1>1, <1>2
  <2>2. ~Over(h) => Aim(h) = [FrameOf(h) EXCEPT !.sent = P!HeaderSize + h.nFileSize]
    BY <1>2 DEF Aim
  <2> QED BY <1>3, <1>4, <2>1, <2>2 DEF P!Frame, P!HeaderOf
<1>8. Over(h) => Aim(h) = FrameOf(h)
  BY DEF Aim
<1>9. P!IsWhole(Aim(h)) <=> ~Over(h)
  BY <1>1, <1>2, <1>3, <1>5, <1>7, <1>8 DEF P!IsWhole
<1>10. h.head = "whole" /\ h.sent = h.nFileSize => P!IsWhole(FrameOf(h))
  BY <1>3 DEF P!IsWhole, s
<1> QED BY <1>1, <1>2, <1>3, <1>4, <1>5, <1>6, <1>7, <1>8, <1>9, <1>10 DEF s

LEMMA AimIs ==
    ASSUME NEW h \in Header
    PROVE  /\ P!FrameCells(FrameOf(h)) \in Seq(P!Cells) /\ Lacking(h) \in Seq(P!Cells)
           /\ P!FrameCells(Aim(h)) = P!FrameCells(FrameOf(h)) \o Lacking(h)
           /\ FrameOf(h).sent = Aim(h).sent => Lacking(h) = <<>>
<1> DEFINE f == FrameOf(h)
           g == Aim(h)
<1>1. /\ f \in P!Frame /\ g \in P!Frame /\ P!HeaderOf(g) = P!HeaderOf(f) /\ f.sent <= g.sent
  BY FramesAre
<1> HIDE DEF f, g
<1>2. /\ P!FrameCells(f) = P!Cut(f, 0, f.sent) /\ f.sent \in Nat
      /\ P!FrameCells(g) = P!Cut(g, 0, g.sent) /\ g.sent \in Nat
  BY <1>1, PAssumption, P!FrameIsCut
<1>3. P!Cut(g, 0, g.sent) = P!Cut(f, 0, g.sent)
  BY <1>1, PAssumption, P!SameByHeader
<1>4. 0 \in Nat /\ 0 <= f.sent
  BY <1>2
<1>5. /\ P!Cut(f, 0, f.sent) \in Seq(P!Cells) /\ P!Cut(f, f.sent, g.sent) \in Seq(P!Cells)
      /\ P!Cut(f, 0, f.sent) \o P!Cut(f, f.sent, g.sent) = P!Cut(f, 0, g.sent)
  <2>1. P!Cut(f, 0, f.sent) \in Seq(P!Cells)
    BY <1>1, <1>2, <1>4, PAssumption, P!CutType
  <2>2. P!Cut(f, f.sent, g.sent) \in Seq(P!Cells)
    BY <1>1, <1>2, <1>4, PAssumption, P!CutType
  <2>3. P!Cut(f, 0, f.sent) \o P!Cut(f, f.sent, g.sent) = P!Cut(f, 0, g.sent)
    <3>1. \A a, b, d \in Nat : a <= b /\ b <= d => P!Cut(f, a, b) \o P!Cut(f, b, d) = P!Cut(f, a, d)
      BY <1>1, PAssumption, P!CutConcat
    <3> QED BY <1>1, <1>2, <1>4, <3>1
  <2> QED BY <2>1, <2>2, <2>3
<1>6. f.sent = g.sent => P!Cut(f, f.sent, g.sent) = <<>>
  BY <1>2, PAssumption, P!CutEmpty
<1> QED BY <1>2, <1>3, <1>5, <1>6 DEF f, g, Lacking
-----------------------------------------------------------------------------
(* The scripts. *)

\* The frames that went out.
Actual(o) == [i \in DOMAIN o |-> FrameOf(o[i])]

LEMMA ScriptsAre ==
    ASSUME NEW o \in Seq(Header)
    PROVE  /\ Actual(o) \in Seq(P!Frame) /\ Len(Actual(o)) = Len(o)
           /\ Aims(o) \in Seq(P!Frame) /\ Len(Aims(o)) = Len(o) /\ Len(o) \in Nat
           /\ \A i \in 1..Len(o) : /\ o[i] \in Header /\ Actual(o)[i] = FrameOf(o[i])
                                   /\ Aims(o)[i] = IF i = Len(o) THEN Aim(o[i]) ELSE FrameOf(o[i])
<1>1. Len(o) \in Nat /\ DOMAIN o = 1..Len(o)
  BY LenProperties
<1>2. \A i \in 1..Len(o) : o[i] \in Header
  BY ElementOfSeq
<1>3. \A i \in 1..Len(o) : FrameOf(o[i]) \in P!Frame /\ Aim(o[i]) \in P!Frame
  BY <1>2, FramesAre
<1>4. Actual(o) \in [1..Len(o) -> P!Frame] /\ Aims(o) \in [1..Len(o) -> P!Frame]
  BY <1>1, <1>3 DEF Actual, Aims
<1>5. /\ Actual(o) \in Seq(P!Frame) /\ Len(Actual(o)) = Len(o)
      /\ Aims(o) \in Seq(P!Frame) /\ Len(Aims(o)) = Len(o)
  BY <1>1, <1>4, FunctionIsSeq
<1> QED BY <1>1, <1>2, <1>5 DEF Actual, Aims

LEMMA ScriptsGrow ==
    ASSUME NEW o \in Seq(Header), NEW h \in Header
    PROVE  /\ Actual(Append(o, h)) = Append(Actual(o), FrameOf(h))
           /\ Aims(Append(o, h)) = Append(Actual(o), Aim(h))
<1> DEFINE p == Append(o, h)
           n == Len(o)
<1>1. /\ p \in Seq(Header) /\ Len(p) = n + 1 /\ n \in Nat /\ p[n + 1] = h
      /\ \A i \in 1..n : p[i] = o[i]
  BY AppendProperties, LenProperties
<1> HIDE DEF p
<1>2. /\ Actual(p) \in Seq(P!Frame) /\ Len(Actual(p)) = n + 1
      /\ Aims(p) \in Seq(P!Frame) /\ Len(Aims(p)) = n + 1
      /\ \A i \in 1..(n + 1) :
            /\ Actual(p)[i] = FrameOf(p[i])
            /\ Aims(p)[i] = IF i = n + 1 THEN Aim(p[i]) ELSE FrameOf(p[i])
  BY <1>1, ScriptsAre
<1>3. /\ Actual(o) \in Seq(P!Frame) /\ Len(Actual(o)) = n
      /\ \A i \in 1..n : Actual(o)[i] = FrameOf(o[i])
      /\ FrameOf(h) \in P!Frame /\ Aim(h) \in P!Frame
  BY ScriptsAre, FramesAre
<1>4. /\ Append(Actual(o), FrameOf(h)) \in Seq(P!Frame)
      /\ Len(Append(Actual(o), FrameOf(h))) = n + 1
      /\ \A i \in 1..(n + 1) : Append(Actual(o), FrameOf(h))[i] = Actual(p)[i]
  <2>1. \A i \in 1..(n + 1) : i \in 1..n \/ (i = n + 1 /\ i \notin 1..n)
    BY <1>1
  <2> QED BY <1>1, <1>2, <1>3, <2>1, AppendProperties
<1>5. /\ Append(Actual(o), Aim(h)) \in Seq(P!Frame)
      /\ Len(Append(Actual(o), Aim(h))) = n + 1
      /\ \A i \in 1..(n + 1) : Append(Actual(o), Aim(h))[i] = Aims(p)[i]
  <2>1. \A i \in 1..(n + 1) : (i \in 1..n /\ i # n + 1) \/ (i = n + 1 /\ i \notin 1..n)
    BY <1>1
  <2> QED BY <1>1, <1>2, <1>3, <2>1, AppendProperties
<1> QED BY <1>2, <1>4, <1>5, SeqEqual DEF p

LEMMA LastOf ==
    ASSUME NEW o \in Seq(Header), o # <<>>
    PROVE  \E f \in Seq(Header), h \in Header :
              o = Append(f, h) /\ h = o[Len(o)] /\ Len(o) = Len(f) + 1 /\ Len(f) \in Nat
<1> DEFINE f == SubSeq(o, 1, Len(o) - 1)
<1>1. Len(o) \in Nat \ {0} /\ o[Len(o)] \in Header
  BY LenProperties, EmptySeq, ElementOfSeq
<1>2. Len(o) - 1 \in 0..Len(o)
  BY <1>1
<1>3. /\ f \in Seq(Header) /\ Len(f) = Len(o) - 1
      /\ \A i \in 1..(Len(o) - 1) : f[i] = o[i]
  BY <1>2, CutSeq
<1> HIDE DEF f
<1>4. /\ Append(f, o[Len(o)]) \in Seq(Header) /\ Len(Append(f, o[Len(o)])) = Len(o)
      /\ \A i \in 1..Len(o) : Append(f, o[Len(o)])[i] = o[i]
  <2>1. \A i \in 1..Len(o) : i \in 1..Len(f) \/ i = Len(f) + 1
    BY <1>1, <1>3
  <2>2. Len(o) = Len(f) + 1
    BY <1>1, <1>3
  <2> QED BY <1>1, <1>3, <2>1, <2>2, AppendProperties
<1>5. o = Append(f, o[Len(o)])
  BY <1>4, SeqEqual
<1> QED BY <1>1, <1>3, <1>5

\* What is on the wire and what was.
LEMMA StreamIs == ASSUME NEW o \in Seq(Header) PROVE Stream(o) = P!Flow(Actual(o)) /\ Stream(o) \in Seq(P!Cells)
<1>1. DOMAIN Actual(o) = DOMAIN o /\ \A i \in DOMAIN o : Actual(o)[i] = FrameOf(o[i])
  BY DEF Actual
<1>2. [i \in DOMAIN o |-> Receiver!FrameCells(FrameOf(o[i]))]
         = [i \in DOMAIN Actual(o) |-> P!FrameCells(Actual(o)[i])]
  BY <1>1, SameFrameCells
<1>3. Stream(o) = P!Flow(Actual(o))
  BY <1>2, SameFlatten DEF Stream, P!Flow
<1> QED BY <1>3, ScriptsAre, PAssumption, P!FlowType

LEMMA StreamGrows ==
    ASSUME NEW o \in Seq(Header), NEW h \in Header
    PROVE  Stream(Append(o, h)) = Stream(o) \o P!FrameCells(FrameOf(h))
<1>1. Actual(o) \in Seq(P!Frame) /\ FrameOf(h) \in P!Frame /\ Append(o, h) \in Seq(Header)
  BY ScriptsAre, FramesAre, AppendProperties
<1>2. P!Flow(Append(Actual(o), FrameOf(h))) = P!Flow(Actual(o)) \o P!FrameCells(FrameOf(h))
  BY <1>1, PAssumption, P!FlowLast
<1> QED BY <1>1, <1>2, StreamIs, ScriptsGrow

LEMMA AddedIs ==
    ASSUME NEW t \in Threads, NEW z \in Seq(P!Cells), out[t] \in Seq(Header),
           Stream(out'[t]) = Stream(out[t]) \o z
    PROVE  Added(t) = z
<1> DEFINE s == Stream(out[t])
<1>1. s \in Seq(P!Cells) /\ Len(s) \in Nat /\ Len(z) \in Nat
  BY StreamIs, LenProperties
<1>2. Added(t) = SubSeq(s \o z, Len(s) + 1, Len(s \o z))
  BY DEF Added
<1> HIDE DEF s
<1>3. SubSeq(s \o z, Len(s) + 1, Len(s \o z)) = z
  <2>1. /\ s \o z \in Seq(P!Cells) /\ Len(s \o z) = Len(s) + Len(z)
        /\ \A i \in 1..Len(s) : (s \o z)[i] = s[i]
        /\ \A i \in 1..Len(z) : (s \o z)[Len(s) + i] = z[i]
    BY <1>1, ConcatProperties
  <2>2. PICK w \in Seq(P!Cells) : w = s \o z
    BY <2>1
  <2>3. Len(s) \in 0..Len(w)
    BY <1>1, <2>1, <2>2
  <2>4. /\ SubSeq(w, Len(s) + 1, Len(w)) \in Seq(P!Cells)
        /\ Len(SubSeq(w, Len(s) + 1, Len(w))) = Len(w) - Len(s)
        /\ \A i \in 1..(Len(w) - Len(s)) : SubSeq(w, Len(s) + 1, Len(w))[i] = w[Len(s) + i]
    BY <2>3, CutSeq
  <2>5. Len(w) - Len(s) = Len(z)
    BY <1>1, <2>1, <2>2
  <2>6. SubSeq(w, Len(s) + 1, Len(w)) = z
    BY <2>1, <2>2, <2>4, <2>5, SeqEqual
  <2> QED BY <2>2, <2>6
<1> QED BY <1>2, <1>3

-----------------------------------------------------------------------------
(* What a Send does to the frames that are still to come of a connection   *)
(* of which k frames are done with.                                        *)

\* The frame that more of a file makes.
Longer(h) == [h EXCEPT !.sent = @ + 1]

More(h) == P!Cut(FrameOf(h), FrameOf(h).sent, FrameOf(h).sent + 1)

LEMMA LongerIs ==
    ASSUME NEW h \in Header, h.head = "whole"
    PROVE  /\ Longer(h) \in Header /\ More(h) \in Seq(P!Cells)
           /\ P!FrameCells(FrameOf(Longer(h))) = P!FrameCells(FrameOf(h)) \o More(h)
           /\ Over(h) => Over(Longer(h))
           /\ ~Over(Longer(h)) => Lacking(h) = More(h) \o Lacking(Longer(h))
<1> DEFINE g == Longer(h)
           fh == FrameOf(h)
           fg == FrameOf(g)
           n == fh.sent
<1>1. /\ g \in Header /\ g.head = "whole" /\ g.nFileSize = h.nFileSize /\ g.sent = h.sent + 1
      /\ g.file = h.file /\ g.count = h.count
  BY DEF Longer, Header
<1> HIDE DEF g
<1>2. /\ fh \in P!Frame /\ fg \in P!Frame /\ n = P!HeaderSize + h.sent /\ fg.sent = P!HeaderSize + g.sent
      /\ h.sent \in Nat /\ h.nFileSize \in Nat /\ P!HeaderSize \in Nat
      /\ Aim(g).sent = IF Over(g) THEN fg.sent ELSE P!HeaderSize + g.nFileSize
      /\ Aim(h).sent = IF Over(h) THEN fh.sent ELSE P!HeaderSize + h.nFileSize
  <2>1. P!HeaderSize \in Nat
    BY TransferAssumption DEF P!HeaderSize
  <2> QED BY <1>1, <2>1, FramesAre
<1>3. P!HeaderOf(fg) = P!HeaderOf(fh)
  BY <1>1 DEF FrameOf, P!HeaderOf
<1> HIDE DEF fh, fg
<1>4. fg.sent = n + 1 /\ n \in Nat /\ n + 1 \in Nat /\ n <= n + 1 /\ 0 \in Nat /\ 0 <= n
  BY <1>1, <1>2
<1>5. /\ P!FrameCells(fh) = P!Cut(fh, 0, n) /\ P!FrameCells(fg) = P!Cut(fg, 0, n + 1)
  BY <1>2, <1>4, PAssumption, P!FrameIsCut
<1>6. \A a, b : P!Cut(fg, a, b) = P!Cut(fh, a, b)
  BY <1>3, PAssumption, P!SameByHeader
<1>7. \A a, b, d \in Nat : a <= b /\ b <= d => P!Cut(fh, a, b) \o P!Cut(fh, b, d) = P!Cut(fh, a, d)
  BY <1>2, PAssumption, P!CutConcat
<1>8. More(h) = P!Cut(fh, n, n + 1)
  BY DEF More, fh
<1>9. More(h) \in Seq(P!Cells)
  <2>1. \A a, b \in Nat : a <= b => P!Cut(fh, a, b) \in Seq(P!Cells)
    BY <1>2, PAssumption, P!CutType
  <2> QED BY <1>4, <1>8, <2>1
<1>10. P!FrameCells(fg) = P!FrameCells(fh) \o More(h)
  BY <1>4, <1>5, <1>6, <1>7, <1>8
<1>11. Over(h) => Over(g)
  BY <1>1, <1>2 DEF Over
<1>12. ASSUME ~Over(g) PROVE Lacking(h) = More(h) \o Lacking(g)
  <2>1. /\ ~Over(h) /\ Aim(g).sent = P!HeaderSize + h.nFileSize
        /\ Aim(h).sent = P!HeaderSize + h.nFileSize
    BY <1>1, <1>2, <1>11, <1>12
  <2>2. n + 1 <= P!HeaderSize + h.nFileSize /\ P!HeaderSize + h.nFileSize \in Nat
    BY <1>1, <1>2, <1>12 DEF Over
  <2>3. /\ Lacking(h) = P!Cut(fh, n, P!HeaderSize + h.nFileSize)
        /\ Lacking(g) = P!Cut(fh, n + 1, P!HeaderSize + h.nFileSize)
    BY <1>4, <1>6, <2>1 DEF Lacking, fh, fg
  <2>4. P!Cut(fh, n, n + 1) \o P!Cut(fh, n + 1, P!HeaderSize + h.nFileSize)
           = P!Cut(fh, n, P!HeaderSize + h.nFileSize)
    BY <1>4, <1>7, <2>2
  <2> QED BY <1>8, <2>3, <2>4
<1> QED BY <1>1, <1>9, <1>10, <1>11, <1>12 DEF g, fh, fg

LEMMA PacketTunes ==
    ASSUME NEW f \in Seq(Header), NEW h \in Header, h.head = "whole",
           NEW k \in 0..(Len(f) + 1), k = Len(f) + 1 => ~Over(Longer(h))
    PROVE  P!Continues(P!Cells, P!Left(Aims(Append(f, h)), k), P!Left(Aims(Append(f, Longer(h))), k),
                       Lacking(h), More(h), Lacking(Longer(h)))
<1> DEFINE s == Actual(f)
           g == Longer(h)
           fh == FrameOf(h)
           fg == FrameOf(g)
<1>1. /\ s \in Seq(P!Frame) /\ Len(s) = Len(f) /\ Len(f) \in Nat
      /\ Aims(Append(f, h)) = Append(s, Aim(h)) /\ Aims(Append(f, g)) = Append(s, Aim(g))
      /\ Aim(h) \in P!Frame /\ Aim(g) \in P!Frame /\ g \in Header
  BY ScriptsAre, ScriptsGrow, FramesAre, LongerIs
<1>2. /\ P!FrameCells(fh) \in Seq(P!Cells) /\ Lacking(h) \in Seq(P!Cells)
      /\ P!FrameCells(Aim(h)) = P!FrameCells(fh) \o Lacking(h)
      /\ P!FrameCells(fg) \in Seq(P!Cells) /\ Lacking(g) \in Seq(P!Cells)
      /\ P!FrameCells(Aim(g)) = P!FrameCells(fg) \o Lacking(g)
      /\ P!FrameCells(fg) = P!FrameCells(fh) \o More(h) /\ More(h) \in Seq(P!Cells)
  BY <1>1, AimIs, LongerIs
<1> HIDE DEF s, g, fh, fg
<1>3. CASE k <= Len(f)
  <2> DEFINE l == P!Left(s, k)
             p == l \o P!FrameCells(fh)
  <2>0. k \in 0..Len(s)
    BY <1>1, <1>3
  <2>1. /\ P!Left(Append(s, Aim(h)), k) = l \o P!FrameCells(Aim(h))
        /\ P!Left(Append(s, Aim(g)), k) = l \o P!FrameCells(Aim(g))
    BY <1>1, <2>0, PAssumption, P!LeftLast
  <2>2. l \in Seq(P!Cells)
    BY <1>1, <2>0, PAssumption, P!LeftType
  <2> HIDE DEF l
  <2>3. p \in Seq(P!Cells)
    BY <1>2, <2>2, JoinType
  <2>4. l \o P!FrameCells(Aim(h)) = p \o Lacking(h)
    <3>1. Regroups(l, P!FrameCells(fh), Lacking(h))
      BY <1>2, <2>2, RegroupsAlways
    <3> QED BY <1>2, <3>1 DEF Regroups
  <2>5. l \o P!FrameCells(Aim(g)) = p \o (More(h) \o Lacking(g))
    <3>1. Regroups(l, P!FrameCells(fg), Lacking(g)) /\ Regroups(l, P!FrameCells(fh), More(h))
      BY <1>2, <2>2, RegroupsAlways
    <3>2. Regroups(p, More(h), Lacking(g))
      BY <1>2, <2>3, RegroupsAlways
    <3> QED BY <1>2, <3>1, <3>2 DEF Regroups
  <2> HIDE DEF p
  <2>6. P!Left(Append(s, Aim(h)), k) = p \o Lacking(h) /\ P!Left(Append(s, Aim(g)), k) = p \o (More(h) \o Lacking(g))
    BY <2>1, <2>4, <2>5
  <2> QED BY <1>1, <2>3, <2>6 DEF P!Continues, g
<1>4. CASE k = Len(f) + 1
  <2>1. /\ Append(s, Aim(h)) \in Seq(P!Frame) /\ Len(Append(s, Aim(h))) = k
        /\ Append(s, Aim(g)) \in Seq(P!Frame) /\ Len(Append(s, Aim(g))) = k
    BY <1>1, <1>4, AppendProperties
  <2>2. P!Left(Append(s, Aim(h)), k) = <<>> /\ P!Left(Append(s, Aim(g)), k) = <<>>
    BY <2>1, PAssumption, P!NothingLeft
  <2>3. Lacking(h) = More(h) \o Lacking(g)
    BY <1>4, LongerIs DEF g
  <2> QED BY <1>1, <2>2, <2>3 DEF P!Continues, g
<1> QED BY <1>1, <1>3, <1>4

LEMMA HeaderTunes ==
    ASSUME NEW o \in Seq(Header), NEW g \in Header, NEW k \in 0..Len(o),
           k = Len(o) /\ o # <<>> => P!IsWhole(FrameOf(o[Len(o)]))
    PROVE  P!Continues(P!Cells, P!Left(Aims(o), k), P!Left(Aims(Append(o, g)), k),
                       Missing(o), P!FrameCells(FrameOf(g)), Lacking(g))
<1> DEFINE s == Actual(o)
           z == P!FrameCells(FrameOf(g))
           n == Lacking(g)
           p == P!Left(s, k)
<1>1. /\ s \in Seq(P!Frame) /\ Len(s) = Len(o) /\ Len(o) \in Nat
      /\ Aims(Append(o, g)) = Append(s, Aim(g)) /\ Aim(g) \in P!Frame
      /\ z \in Seq(P!Cells) /\ n \in Seq(P!Cells) /\ P!FrameCells(Aim(g)) = z \o n
  BY ScriptsAre, ScriptsGrow, FramesAre, AimIs
<1> HIDE DEF z, n
<1>2. P!Left(Append(s, Aim(g)), k) = p \o (z \o n)
  BY <1>1, PAssumption, P!LeftLast
<1>3. p \in Seq(P!Cells)
  BY <1>1, PAssumption, P!LeftType
<1>4. P!Left(Aims(o), k) = p \o Missing(o)
  <2>1. CASE o = <<>>
    <3>1. s = Aims(o) /\ p \o <<>> = p
      <4>1. Len(Aims(o)) = 0 /\ Aims(o) \in Seq(P!Frame) /\ Len(s) = 0
        BY <1>1, <2>1, ScriptsAre, EmptySeq
      <4> QED BY <1>1, <1>3, <4>1, SeqEqual, ConcatEmptySeq
    <3> QED BY <2>1, <3>1 DEF Missing
  <2>2. CASE o # <<>>
    <3>1. PICK f \in Seq(Header), h \in Header :
             o = Append(f, h) /\ h = o[Len(o)] /\ Len(o) = Len(f) + 1 /\ Len(f) \in Nat
      BY <2>2, LastOf
    <3> DEFINE e == Actual(f)
               l == P!Left(e, k)
    <3>2. /\ e \in Seq(P!Frame) /\ Len(e) = Len(f) /\ Aims(o) = Append(e, Aim(h))
          /\ s = Append(e, FrameOf(h)) /\ Aim(h) \in P!Frame /\ FrameOf(h) \in P!Frame
          /\ P!FrameCells(FrameOf(h)) \in Seq(P!Cells) /\ Lacking(h) \in Seq(P!Cells)
          /\ P!FrameCells(Aim(h)) = P!FrameCells(FrameOf(h)) \o Lacking(h)
          /\ Missing(o) = Lacking(h)
      BY <2>2, <3>1, ScriptsAre, ScriptsGrow, FramesAre, AimIs DEF Missing
    <3> HIDE DEF e, s
    <3>3. CASE k <= Len(f)
      <4>0. k \in 0..Len(e)
        BY <3>1, <3>2, <3>3
      <4>1. /\ P!Left(Append(e, Aim(h)), k) = l \o P!FrameCells(Aim(h))
            /\ P!Left(Append(e, FrameOf(h)), k) = l \o P!FrameCells(FrameOf(h))
        BY <3>2, <4>0, PAssumption, P!LeftLast
      <4>2. l \in Seq(P!Cells)
        BY <3>2, <4>0, PAssumption, P!LeftType
      <4>3. Regroups(l, P!FrameCells(FrameOf(h)), Lacking(h))
        BY <3>2, <4>2, RegroupsAlways
      <4> HIDE DEF l
      <4> QED BY <3>2, <4>1, <4>3 DEF Regroups
    <3>4. CASE k = Len(f) + 1
      <4>1. k = Len(o) /\ P!IsWhole(FrameOf(h))
        BY <2>2, <3>1, <3>4
      <4>2. Lacking(h) = <<>>
        <5>1. FrameOf(h).sent = P!HeaderSize + h.nFileSize
          BY <4>1, FramesAre DEF P!IsWhole
        <5>2. FrameOf(h).sent = Aim(h).sent
          BY <5>1, FramesAre
        <5> QED BY <5>2, AimIs
      <4>3. P!Left(Aims(o), k) = <<>> /\ p = <<>>
        <5>1. Len(Aims(o)) = k /\ Aims(o) \in Seq(P!Frame) /\ Len(s) = k
          BY <1>1, <4>1, ScriptsAre
        <5> QED BY <1>1, <5>1, PAssumption, P!NothingLeft
      <4>4. p \o <<>> = p
        BY <1>3, ConcatEmptySeq
      <4> QED BY <3>2, <4>2, <4>3, <4>4
    <3> QED BY <1>1, <3>1, <3>3, <3>4
  <2> QED BY <2>1, <2>2
<1> HIDE DEF p, s
<1> QED BY <1>1, <1>2, <1>3, <1>4 DEF P!Continues, z, n

-----------------------------------------------------------------------------
(* The receiver's steps are steps of Session with the script Sending. *)

LEMMA SameScripts ==
    ASSUME out' = out
    PROVE  /\ Sending' = Sending
           /\ [t \in Threads |-> <<>>]' = [t \in Threads |-> <<>>]
BY DEF Sending, Aims, Aim, FrameOf, Over

LEMMA CompletionIsP == ASSUME UNCHANGED vars, Completion PROVE P!Completion
<1>1. Sending' = Sending
  BY SameScripts DEF vars
<1>2. ASSUME NEW t \in Threads, Receiver!Accept(t) PROVE P!Accept(t)
  BY <1>1, <1>2 DEF Receiver!Accept, P!Accept, Receiver!OneMoreClient, P!OneMoreClient, Receiver!sessVars,
     P!sessVars, Receiver!ioVars, P!ioVars, Receiver!fileVars, P!fileVars, Receiver!listVars,
     P!listVars, Receiver!history, P!history
<1>3. ASSUME NEW t \in Threads, Receiver!Read(t) PROVE P!Read(t)
  BY <1>1, <1>3 DEF Receiver!Read, P!Read, Receiver!Smaller, P!Smaller, Receiver!fileVars, P!fileVars,
     Receiver!listVars, P!listVars, Receiver!dlgVars, P!dlgVars, Receiver!history, P!history
<1>4. ASSUME NEW t \in Threads, Receiver!ReadEnd(t) PROVE P!ReadEnd(t)
  BY <1>1, <1>4 DEF Receiver!ReadEnd, P!ReadEnd, Receiver!netVars, P!netVars, Receiver!sessVars, P!sessVars,
     Receiver!fileVars, P!fileVars, Receiver!listVars, P!listVars, Receiver!dlgVars, P!dlgVars,
     Receiver!history, P!history
<1> QED BY <1>2, <1>3, <1>4 DEF Completion, P!Completion

LEMMA HandlerIsP == ASSUME UNCHANGED vars, Receiver!Handler PROVE P!Handler
<1>1. Sending' = Sending
  BY SameScripts DEF vars
<1>2. Receiver!ParserContinue => P!ParserContinue
  BY <1>1 DEF Receiver!ParserContinue, P!ParserContinue, Receiver!Inside, P!Inside, Receiver!Write,
     P!Write, Receiver!NextPart, P!NextPart, Receiver!nDataLength, P!nDataLength,
     Receiver!Smaller, P!Smaller, Receiver!netVars, P!netVars, Receiver!sessVars, P!sessVars,
     Receiver!fileVars, P!fileVars, Receiver!listVars, P!listVars, Receiver!dlgVars, P!dlgVars,
     Receiver!history, P!history
<1>3. Receiver!ParserThrows => P!ParserThrows
  BY <1>1, SameCardinality DEF Receiver!ParserThrows, P!ParserThrows, Receiver!Inside, P!Inside, Receiver!WriteThrows,
     P!WriteThrows, Receiver!NextPart, P!NextPart, Receiver!nDataLength, P!nDataLength,
     Receiver!Smaller, P!Smaller, Receiver!DiskMayFail, P!DiskMayFail, Receiver!DiskFails,
     P!DiskFails, Receiver!netVars, P!netVars, Receiver!sessVars, P!sessVars, Receiver!fileVars,
     P!fileVars, Receiver!listVars, P!listVars, Receiver!dlgVars, P!dlgVars, Receiver!history,
     P!history
<1>4. Receiver!ParserFresh => P!ParserFresh
  BY <1>1 DEF Receiver!ParserFresh, P!ParserFresh, Receiver!Inside, P!Inside, Receiver!netVars, P!netVars,
     Receiver!sessVars, P!sessVars, Receiver!fileVars, P!fileVars, Receiver!listVars, P!listVars,
     Receiver!dlgVars, P!dlgVars, Receiver!history, P!history
<1>5. Receiver!CloseFile => P!CloseFile
  BY <1>1 DEF Receiver!CloseFile, P!CloseFile, Receiver!Inside, P!Inside, Receiver!ForgetFile,
     P!ForgetFile, Receiver!netVars, P!netVars, Receiver!sessVars, P!sessVars, Receiver!fileVars,
     P!fileVars, Receiver!listVars, P!listVars, Receiver!dlgVars, P!dlgVars, Receiver!history,
     P!history
<1>6. Receiver!CloseThrows => P!CloseThrows
  BY <1>1, SameCardinality DEF Receiver!CloseThrows, P!CloseThrows, Receiver!Inside, P!Inside, Receiver!ForgetFile,
     P!ForgetFile, Receiver!DiskMayFail, P!DiskMayFail, Receiver!DiskFails, P!DiskFails,
     Receiver!netVars, P!netVars, Receiver!sessVars, P!sessVars, Receiver!fileVars, P!fileVars,
     Receiver!listVars, P!listVars, Receiver!dlgVars, P!dlgVars, Receiver!history, P!history
<1>7. Receiver!GetFileHeader => P!GetFileHeader
  BY <1>1 DEF Receiver!GetFileHeader, P!GetFileHeader, Receiver!Inside, P!Inside, Receiver!HeaderReady,
     P!HeaderReady, Receiver!RaisedCounts, P!RaisedCounts, Receiver!ValidHeader, P!ValidHeader,
     Receiver!nDataLength, P!nDataLength, Receiver!HeaderSize, P!HeaderSize, Receiver!Cell,
     P!Cell, Receiver!HeaderOf, P!HeaderOf, Receiver!Counter, P!Counter, Receiver!netVars,
     P!netVars, Receiver!sessVars, P!sessVars, Receiver!fileVars, P!fileVars, Receiver!listVars,
     P!listVars, Receiver!dlgVars, P!dlgVars, Receiver!history, P!history
<1>8. Receiver!OpenFile => P!OpenFile
  BY <1>1, SameCardinality DEF Receiver!OpenFile, P!OpenFile, Receiver!Inside, P!Inside, Receiver!DiskMayFail,
     P!DiskMayFail, Receiver!DiskFails, P!DiskFails, Receiver!netVars, P!netVars,
     Receiver!sessVars, P!sessVars, Receiver!fileVars, P!fileVars, Receiver!listVars, P!listVars,
     Receiver!dlgVars, P!dlgVars, Receiver!history, P!history
<1>9. Receiver!GetFileStore => P!GetFileStore
  BY <1>1 DEF Receiver!GetFileStore, P!GetFileStore, Receiver!Inside, P!Inside, Receiver!Write, P!Write,
     Receiver!FirstPart, P!FirstPart, Receiver!nDataLength, P!nDataLength, Receiver!Smaller,
     P!Smaller, Receiver!HeaderSize, P!HeaderSize, Receiver!netVars, P!netVars,
     Receiver!sessVars, P!sessVars, Receiver!fileVars, P!fileVars, Receiver!listVars, P!listVars,
     Receiver!dlgVars, P!dlgVars, Receiver!history, P!history
<1>10. Receiver!GetFileThrows => P!GetFileThrows
  BY <1>1, SameCardinality DEF Receiver!GetFileThrows, P!GetFileThrows, Receiver!Inside, P!Inside, Receiver!WriteThrows,
     P!WriteThrows, Receiver!FirstPart, P!FirstPart, Receiver!nDataLength, P!nDataLength,
     Receiver!Smaller, P!Smaller, Receiver!HeaderSize, P!HeaderSize, Receiver!DiskMayFail,
     P!DiskMayFail, Receiver!DiskFails, P!DiskFails, Receiver!netVars, P!netVars,
     Receiver!sessVars, P!sessVars, Receiver!fileVars, P!fileVars, Receiver!listVars, P!listVars,
     Receiver!dlgVars, P!dlgVars, Receiver!history, P!history
<1>11. Receiver!GetFileDone => P!GetFileDone
  BY <1>1 DEF Receiver!GetFileDone, P!GetFileDone, Receiver!Inside, P!Inside, Receiver!HeaderReady,
     P!HeaderReady, Receiver!ValidHeader, P!ValidHeader, Receiver!nDataLength, P!nDataLength,
     Receiver!HeaderSize, P!HeaderSize, Receiver!Cell, P!Cell, Receiver!HeaderOf, P!HeaderOf,
     Receiver!netVars, P!netVars, Receiver!sessVars, P!sessVars, Receiver!fileVars, P!fileVars,
     Receiver!listVars, P!listVars, Receiver!dlgVars, P!dlgVars, Receiver!history, P!history
<1>12. Receiver!Compact => P!Compact
  BY <1>1 DEF Receiver!Compact, P!Compact, Receiver!Inside, P!Inside, Receiver!Rest, P!Rest,
     Receiver!nDataLength, P!nDataLength, Receiver!netVars, P!netVars, Receiver!sessVars,
     P!sessVars, Receiver!fileVars, P!fileVars, Receiver!listVars, P!listVars, Receiver!dlgVars,
     P!dlgVars, Receiver!history, P!history
<1>13. Receiver!Catch => P!Catch
  BY <1>1 DEF Receiver!Catch, P!Catch, Receiver!Inside, P!Inside, Receiver!netVars, P!netVars,
     Receiver!sessVars, P!sessVars, Receiver!fileVars, P!fileVars, Receiver!listVars, P!listVars,
     Receiver!dlgVars, P!dlgVars, Receiver!history, P!history
<1>14. Receiver!ReadAgain => P!ReadAgain
  BY <1>1 DEF Receiver!ReadAgain, P!ReadAgain, Receiver!Inside, P!Inside, Receiver!netVars, P!netVars,
     Receiver!sessVars, P!sessVars, Receiver!fileVars, P!fileVars, Receiver!listVars, P!listVars,
     Receiver!dlgVars, P!dlgVars, Receiver!history, P!history
<1>15. Receiver!SessionGone => P!SessionGone
  BY <1>1 DEF Receiver!SessionGone, P!SessionGone, Receiver!OneClientLess, P!OneClientLess,
     Receiver!netVars, P!netVars, Receiver!sessVars, P!sessVars, Receiver!fileVars, P!fileVars,
     Receiver!listVars, P!listVars, Receiver!dlgVars, P!dlgVars, Receiver!history, P!history
<1> QED BY <1>2, <1>3, <1>4, <1>5, <1>6, <1>7, <1>8, <1>9, <1>10, <1>11, <1>12, <1>13, <1>14, <1>15 DEF Receiver!Handler, P!Handler

LEMMA OnTimerIsP == ASSUME UNCHANGED vars, Receiver!OnTimer PROVE P!OnTimer
<1>1. Sending' = Sending
  BY SameScripts DEF vars
<1> QED BY <1>1 DEF Receiver!OnTimer, P!OnTimer, Receiver!NoneWaiting, P!NoneWaiting, Receiver!netVars,
     P!netVars, Receiver!sessVars, P!sessVars, Receiver!ioVars, P!ioVars, Receiver!fileVars,
     P!fileVars, Receiver!dlgVars, P!dlgVars, Receiver!history, P!history

LEMMA StartIsP == ASSUME TransferInit PROVE P!Init
<1>1. \A t \in Threads : out[t] = <<>>
  BY DEF TransferInit, Init
<1>2. Sending = [t \in Threads |-> <<>>]
  <2>1. Aims(<<>>) = <<>>
    <3>1. <<>> \in Seq(Header) /\ Len(<<>>) = 0
      BY EmptySeq
    <3>2. Aims(<<>>) \in Seq(P!Frame) /\ Len(Aims(<<>>)) = 0
      BY <3>1, ScriptsAre
    <3> QED BY <3>2, EmptySeq
  <2> QED BY <1>1, <2>1 DEF Sending
<1>3. Sending \in [Threads -> Seq(Receiver!Frame)]
  BY <1>2, EmptySeq
<1>4. (CHOOSE t \in Threads : TRUE) \in Threads
  BY SendPoolAssumption
<1> QED BY <1>2, <1>3, <1>4 DEF TransferInit, P!Init, P!Counter, Receiver!Counter

-----------------------------------------------------------------------------
(* The invariant.  A connection is on its track, what is missing of it     *)
(* being what the sender has not put on it; or one of its entries did not  *)
(* go out as announced and its row is made: then the rows up to that one   *)
(* are right.                                                              *)

OnTrack(t) == P!Healthy(t) /\ P!Expected(t) = P!ToCome(t) \o Missing(out[t])

AstrayAt(t, k) ==
    /\ k <= Len(out[t]) /\ ~P!IsWhole(Sending[t][k])
    /\ \A j \in 1..k : P!Rows(t)[j].frame = P!HeaderOf(Sending[t][j])
    /\ \A j \in 1..(k - 1) : /\ P!IsWhole(Sending[t][j]) /\ P!Rows(t)[j].nStatus
                             /\ P!CopiesOf(t)[j] = P!Content(Sending[t][j])

Astray(t) == \E k \in 1..P!Made(t) : AstrayAt(t, k)

Carried ==
    /\ Delivered /\ P!Copying /\ P!FileThere
    /\ \A t \in Threads : OnTrack(t) \/ Astray(t)

LEMMA CarriedTypes ==
    ASSUME Carried
    PROVE  /\ TypeOK /\ P!TypeOK /\ P!Owned /\ P!Listed /\ P!Placed /\ P!FileThere
           /\ \A t \in Threads :
                 /\ out[t] \in Seq(Header) /\ Len(out[t]) \in Nat
                 /\ Sending[t] = Aims(out[t]) /\ Sending[t] \in Seq(P!Frame)
                 /\ Len(Sending[t]) = Len(out[t])
                 /\ P!Made(t) \in Nat
                 /\ Missing(out[t]) \in Seq(P!Cells)
<1>1. TypeOK /\ P!TypeOK /\ P!Owned /\ P!Listed /\ P!Placed /\ P!FileThere
  BY DEF Carried, Delivered, Owned, P!Copying, P!Owned, P!Counted
<1>2. ASSUME NEW t \in Threads
      PROVE  /\ out[t] \in Seq(Header) /\ Len(out[t]) \in Nat
             /\ Sending[t] = Aims(out[t]) /\ Sending[t] \in Seq(P!Frame)
             /\ Len(Sending[t]) = Len(out[t])
             /\ P!Made(t) \in Nat
             /\ Missing(out[t]) \in Seq(P!Cells)
  <2>1. out[t] \in Seq(Header) /\ Sending[t] = Aims(out[t])
    BY <1>1 DEF TypeOK, Sending
  <2>2. P!RowsIn(t) \in Seq(Nat)
    BY <1>1 DEF P!Listed
  <2>3. out[t] # <<>> => out[t][Len(out[t])] \in Header
    BY <2>1, EmptySeq, LenProperties, ElementOfSeq
  <2>4. Missing(out[t]) \in Seq(P!Cells)
    BY <2>3, AimIs, EmptySeq DEF Missing
  <2> QED BY <2>1, <2>2, <2>4, ScriptsAre, LenProperties DEF P!Made
<1> QED BY <1>1, <1>2

\* Rows stay right while the headers of their frames stay.
LEMMA StaysAstray ==
    ASSUME NEW t \in Threads, NEW k \in 1..P!Made(t), AstrayAt(t, k),
           P!Made(t) \in Nat, P!Made(t)' \in Nat, P!Made(t) <= P!Made(t)',
           \A j \in 1..P!Made(t) :
              /\ P!Rows(t)'[j].frame = P!Rows(t)[j].frame
              /\ P!Rows(t)[j].nStatus => P!Rows(t)'[j].nStatus /\ P!CopiesOf(t)'[j] = P!CopiesOf(t)[j],
           Len(out[t]) \in Nat, Len(out'[t]) \in Nat, Len(out[t]) <= Len(out'[t]),
           \A j \in 1..Len(out[t]) :
              /\ P!HeaderOf(Sending'[t][j]) = P!HeaderOf(Sending[t][j])
              /\ ~P!IsWhole(Sending[t][j]) => ~P!IsWhole(Sending'[t][j])
              /\ j < Len(out[t]) => Sending'[t][j] = Sending[t][j]
    PROVE  Astray(t)'
<1>1. /\ k \in 1..Len(out[t]) /\ k <= Len(out'[t]) /\ k \in 1..P!Made(t)' /\ k \in Nat
      /\ \A j \in 1..k : j \in 1..P!Made(t) /\ j \in 1..Len(out[t])
      /\ \A j \in 1..(k - 1) : j \in 1..k /\ j < Len(out[t])
  BY DEF AstrayAt
<1>2. ~P!IsWhole(Sending'[t][k])
  BY <1>1 DEF AstrayAt
<1>3. \A j \in 1..k : P!Rows(t)'[j].frame = P!HeaderOf(Sending'[t][j])
  BY <1>1 DEF AstrayAt
<1>4. ASSUME NEW j \in 1..(k - 1)
      PROVE  /\ P!IsWhole(Sending'[t][j]) /\ P!Rows(t)'[j].nStatus
             /\ P!CopiesOf(t)'[j] = P!Content(Sending'[t][j])
  <2>1. Sending'[t][j] = Sending[t][j] /\ j \in 1..P!Made(t)
    BY <1>1
  <2> QED BY <2>1 DEF AstrayAt
<1>5. AstrayAt(t, k)'
  BY <1>1, <1>2, <1>3, <1>4 DEF AstrayAt
<1> QED BY <1>1, <1>5 DEF Astray

LEMMA SoundIs == P!TypeOK => \A t \in Threads : P!Healthy(t) <=> P!Sound(t)
BY PAssumption, P!HealthyIs

LEMMA SoundIsNext == P!TypeOK' => \A t \in Threads : P!Healthy(t)' <=> P!Sound(t)'
<1>1. (P!TypeOK => \A t \in Threads : P!Healthy(t) <=> P!Sound(t))'
  BY SoundIs, PTL
<1> QED BY <1>1

LEMMA ReceiveCarries ==
    ASSUME Carried, UNCHANGED vars, P!Completion \/ P!Handler \/ P!OnTimer
    PROVE  Carried'
<1>1. out' = out /\ Sending' = Sending /\ Delivered'
  <2>1. Delivered'
    BY DeliveredStep DEF Carried
  <2> QED BY <2>1, SameScripts DEF vars
<1>2. [P!Next]_(P!vars)
  BY DEF P!Next
<1>3. P!Copying' /\ P!FileThere'
  BY <1>2, PAssumption, CarriedTypes, P!CopyingStep, P!FileThereStep DEF Carried
<1>4. ASSUME NEW t \in Threads PROVE OnTrack(t)' \/ Astray(t)'
  <2>1. P!RowsGrow(t)
    BY <1>2, PAssumption, CarriedTypes, P!RowsGrowStep
  <2>2. P!Made(t) \in Nat /\ P!Made(t)' \in Nat /\ P!Made(t) <= P!Made(t)'
    BY <2>1, CarriedTypes DEF P!RowsGrow
  <2>3. CASE Astray(t)
    <3>1. PICK k \in 1..P!Made(t) : AstrayAt(t, k)
      BY <2>3 DEF Astray
    <3>2. \A j \in 1..P!Made(t) :
              /\ P!Rows(t)'[j].frame = P!Rows(t)[j].frame
              /\ P!Rows(t)[j].nStatus => P!Rows(t)'[j].nStatus /\ P!CopiesOf(t)'[j] = P!CopiesOf(t)[j]
      BY <2>1 DEF P!RowsGrow
    <3>3. Len(out[t]) \in Nat
      BY CarriedTypes
    <3> QED BY <1>1, <2>2, <3>1, <3>2, <3>3, StaysAstray
  <2>4. CASE OnTrack(t) /\ P!Healthy(t)'
    <3>1. P!Kept(t)
      BY <2>4, PAssumption, P!KeptStep DEF Carried
    <3>2. P!Expected(t)' = P!ToCome(t)' \o Missing(out[t])
      BY <2>4, <3>1, CarriedTypes DEF OnTrack, P!Kept
    <3> QED BY <1>1, <2>4, <3>2 DEF OnTrack
  <2>5. CASE OnTrack(t) /\ ~P!Healthy(t)'
    <3>1. P!Sound(t) /\ P!Healthy(t)
      BY <2>5, SoundIs, CarriedTypes DEF OnTrack
    <3>2. ~P!Sound(t)'
      BY <1>3, <2>5, SoundIsNext DEF P!Copying, P!Owned, P!Counted
    <3>3. P!Made(t)' # P!Made(t)
      BY <1>1, <1>3, <3>1, <3>2 DEF P!Sound, P!FileThere
    <3>4. /\ P!GetFileHeader /\ t = cur /\ P!Made(t)' = P!Made(t) + 1
          /\ P!Rows(t)'[P!Made(t) + 1].frame = pBuffer[cur][nOffset + 1].frame
          /\ pc = "getfile" /\ P!HeaderReady
      BY <2>1, <3>3 DEF P!RowsGrow, P!GetFileHeader, P!Inside
    <3> DEFINE m == P!Made(t)
    <3>5. /\ ~P!Filling(t) /\ m < Len(Sending[t])
          /\ pBuffer[cur][nOffset + 1].frame = P!HeaderOf(Sending[t][m + 1])
      BY <3>1, <3>4, PAssumption, P!NextFrame DEF Carried
    <3>6. P!RowsRight(t)
      BY <3>1 DEF Carried, P!Copying, P!InOrder, P!Core
    <3>7. /\ \A j \in 1..m : P!IsWhole(Sending[t][j])
          /\ ~P!IsWhole(Sending[t][m + 1])
      <4>1. \A j \in 1..(m + 1) : j \in 1..m \/ j = m + 1
        BY <2>2
      <4>2. Len(Sending[t]) \in Nat /\ m + 1 <= Len(Sending[t])
        BY <2>2, <3>5, CarriedTypes
      <4> QED BY <1>1, <1>3, <3>1, <3>2, <3>4, <4>1, <4>2 DEF P!Sound, P!FileThere
    <3>8. ASSUME NEW j \in 1..m
          PROVE  /\ P!Rows(t)'[j].frame = P!HeaderOf(Sending[t][j]) /\ P!Rows(t)'[j].nStatus
                 /\ P!CopiesOf(t)'[j] = P!Content(Sending[t][j])
      BY <2>1, <3>5, <3>6 DEF P!RowsRight, P!RowsGrow
    <3>9. /\ \A j \in 1..(m + 1) : j \in 1..m \/ j = m + 1
          /\ (m + 1) - 1 = m /\ m + 1 \in 1..P!Made(t)' /\ m + 1 <= Len(out[t])
      BY <2>2, <3>4, <3>5, CarriedTypes
    <3> HIDE DEF m
    <3>10. PICK k \in Nat : k = m + 1
      BY <2>2 DEF m
    <3>11. \A j \in 1..k : P!Rows(t)'[j].frame = P!HeaderOf(Sending'[t][j])
      BY <1>1, <3>4, <3>5, <3>8, <3>9, <3>10 DEF m
    <3>12. k <= Len(out'[t]) /\ ~P!IsWhole(Sending'[t][k]) /\ k \in 1..P!Made(t)' /\ k - 1 = m
      BY <1>1, <3>7, <3>9, <3>10
    <3>13. \A j \in 1..(k - 1) : /\ P!IsWhole(Sending'[t][j]) /\ P!Rows(t)'[j].nStatus
                                 /\ P!CopiesOf(t)'[j] = P!Content(Sending'[t][j])
      BY <1>1, <3>7, <3>8, <3>12
    <3>14. AstrayAt(t, k)'
      BY <3>11, <3>12, <3>13 DEF AstrayAt
    <3> QED BY <3>12, <3>14 DEF Astray
  <2> QED BY <2>3, <2>4, <2>5 DEF Carried
<1> QED BY <1>1, <1>3, <1>4 DEF Carried

-----------------------------------------------------------------------------
(* The sender's steps. *)

\* What a step of a thread whose entries are o makes of them, p, and puts on its
\* connection, z.
SendsOn(o, p, z) ==
    /\ p \in Seq(Header) /\ Len(o) <= Len(p) /\ z \in Seq(P!Cells)
    /\ \A j \in 1..Len(o) :
          /\ P!HeaderOf(Aims(p)[j]) = P!HeaderOf(Aims(o)[j])
          /\ ~P!IsWhole(Aims(o)[j]) => ~P!IsWhole(Aims(p)[j])
          /\ j < Len(o) => Aims(p)[j] = Aims(o)[j]
    /\ \A k \in 0..Len(o) :
          (k = Len(o) /\ o # <<>> => P!IsWhole(Aims(p)[k])) =>
              P!Continues(P!Cells, P!Left(Aims(o), k), P!Left(Aims(p), k), Missing(o), z, Missing(p))

LEMMA MissingIs ==
    ASSUME NEW f \in Seq(Header), NEW h \in Header
    PROVE  Missing(Append(f, h)) = Lacking(h)
<1>1. /\ Append(f, h) \in Seq(Header) /\ Len(Append(f, h)) = Len(f) + 1 /\ Len(f) \in Nat
      /\ Append(f, h)[Len(f) + 1] = h
  BY AppendProperties, LenProperties
<1>2. Append(f, h) # <<>>
  BY <1>1, EmptySeq
<1> QED BY <1>1, <1>2 DEF Missing

LEMMA NothingSent == ASSUME NEW o \in Seq(Header), Missing(o) \in Seq(P!Cells) PROVE SendsOn(o, o, <<>>)
<1>1. <<>> \in Seq(P!Cells) /\ Missing(o) = <<>> \o Missing(o) /\ Len(o) \in Nat
  BY EmptySeq, ConcatEmptySeq, LenProperties
<1> QED BY <1>1 DEF SendsOn, P!Continues

LEMMA PacketSendsOn ==
    ASSUME NEW f \in Seq(Header), NEW h \in Header, h.head = "whole"
    PROVE  SendsOn(Append(f, h), Append(f, Longer(h)), More(h))
<1> DEFINE o == Append(f, h)
           g == Longer(h)
           p == Append(f, g)
           n == Len(f) + 1
<1>1. g \in Header /\ More(h) \in Seq(P!Cells) /\ (Over(h) => Over(g))
  BY LongerIs
<1>2. /\ o \in Seq(Header) /\ Len(o) = n /\ p \in Seq(Header) /\ Len(p) = n /\ n \in Nat /\ n > 0
      /\ \A i \in 1..Len(f) : o[i] = f[i] /\ p[i] = f[i]
      /\ o[n] = h /\ p[n] = g
  BY <1>1, AppendProperties, LenProperties
<1>3. /\ \A i \in 1..n : Aims(o)[i] = IF i = n THEN Aim(h) ELSE FrameOf(f[i])
      /\ \A i \in 1..n : Aims(p)[i] = IF i = n THEN Aim(g) ELSE FrameOf(f[i])
  <2>1. \A i \in 1..n : i = n \/ i \in 1..Len(f)
    BY <1>2
  <2>2. \A i \in 1..n : Aims(o)[i] = IF i = n THEN Aim(o[i]) ELSE FrameOf(o[i])
    BY <1>2, ScriptsAre
  <2>3. \A i \in 1..n : Aims(p)[i] = IF i = n THEN Aim(p[i]) ELSE FrameOf(p[i])
    <3> HIDE DEF p
    <3> QED BY <1>2, ScriptsAre
  <2> HIDE DEF o, p, g
  <2> QED BY <1>2, <2>1, <2>2, <2>3
<1>4. /\ P!HeaderOf(Aim(g)) = P!HeaderOf(Aim(h))
      /\ P!IsWhole(Aim(g)) <=> ~Over(g)
      /\ P!IsWhole(Aim(h)) <=> ~Over(h)
  <2>1. P!HeaderOf(FrameOf(g)) = P!HeaderOf(FrameOf(h))
    BY DEF Longer, FrameOf, P!HeaderOf, Header
  <2> QED BY <1>1, <2>1, FramesAre
<1>5. Missing(o) = Lacking(h) /\ Missing(p) = Lacking(g)
  BY <1>1, MissingIs
<1>6. ASSUME NEW k \in 0..n, k = n => P!IsWhole(Aims(p)[k])
      PROVE  P!Continues(P!Cells, P!Left(Aims(o), k), P!Left(Aims(p), k), Missing(o), More(h), Missing(p))
  <2>1. k = n => ~Over(g)
    BY <1>2, <1>3, <1>4, <1>6
  <2> QED BY <1>5, <2>1, PacketTunes
<1>7. o # <<>>
  BY <1>2, EmptySeq
<1> HIDE DEF o, p, g
<1>8. \A j \in 1..n :
          /\ P!HeaderOf(Aims(p)[j]) = P!HeaderOf(Aims(o)[j])
          /\ ~P!IsWhole(Aims(o)[j]) => ~P!IsWhole(Aims(p)[j])
          /\ j < n => Aims(p)[j] = Aims(o)[j]
  BY <1>1, <1>3, <1>4
<1>9. SendsOn(o, p, More(h))
  BY <1>1, <1>2, <1>6, <1>7, <1>8 DEF SendsOn
<1> QED BY <1>9 DEF o, p, g

LEMMA HeaderSendsOn ==
    ASSUME NEW o \in Seq(Header), NEW g \in Header
    PROVE  SendsOn(o, Append(o, g), P!FrameCells(FrameOf(g)))
<1> DEFINE p == Append(o, g)
           n == Len(o)
           z == P!FrameCells(FrameOf(g))
<1>1. /\ p \in Seq(Header) /\ Len(p) = n + 1 /\ n \in Nat /\ z \in Seq(P!Cells)
      /\ \A i \in 1..n : p[i] = o[i]
  BY AppendProperties, LenProperties, AimIs
<1>2. /\ \A i \in 1..n : o[i] \in Header /\ Aims(o)[i] = IF i = n THEN Aim(o[i]) ELSE FrameOf(o[i])
      /\ \A i \in 1..n : Aims(p)[i] = FrameOf(o[i])
  <2>1. \A i \in 1..n : i \in 1..Len(p) /\ i # Len(p)
    BY <1>1
  <2> QED BY <1>1, <2>1, ScriptsAre
<1>3. Missing(p) = Lacking(g)
  BY MissingIs
<1> HIDE DEF p, z
<1>4. ASSUME NEW j \in 1..n
      PROVE  /\ P!HeaderOf(Aims(p)[j]) = P!HeaderOf(Aims(o)[j])
             /\ ~P!IsWhole(Aims(o)[j]) => ~P!IsWhole(Aims(p)[j])
             /\ j < n => Aims(p)[j] = Aims(o)[j]
  <2>1. /\ P!HeaderOf(Aim(o[j])) = P!HeaderOf(FrameOf(o[j]))
        /\ P!IsWhole(Aim(o[j])) <=> ~Over(o[j])
        /\ Over(o[j]) => Aim(o[j]) = FrameOf(o[j])
    BY <1>2, FramesAre DEF Aim
  <2> QED BY <1>1, <1>2, <2>1
<1>5. ASSUME NEW k \in 0..n, k = n /\ o # <<>> => P!IsWhole(Aims(p)[k])
      PROVE  P!Continues(P!Cells, P!Left(Aims(o), k), P!Left(Aims(p), k), Missing(o), z, Missing(p))
  <2>1. k = n /\ o # <<>> => P!IsWhole(FrameOf(o[n]))
    <3>1. o # <<>> => n \in 1..n
      BY <1>1, EmptySeq
    <3> QED BY <1>2, <1>5, <3>1
  <2> QED BY <1>3, <2>1, HeaderTunes DEF p, z
<1>6. SendsOn(o, p, z)
  BY <1>1, <1>4, <1>5 DEF SendsOn
<1> QED BY <1>6 DEF p, z

\* The steps that change out.
LEMMA OutSteps ==
    ASSUME Delivered, [Next]_vars, NEW t \in Threads
    PROVE  \/ out'[t] = out[t]
           \/ \E f \in Seq(Header), h \in Header :
                 out[t] = Append(f, h) /\ h.head = "whole" /\ out'[t] = Append(f, Longer(h))
           \/ \E g \in Header : out'[t] = Append(out[t], g)
<1>0. TypeOK /\ AtWork /\ out[t] \in Seq(Header)
  BY DEF Delivered, Owned, TypeOK
<1>1. CASE UNCHANGED out
  BY <1>1
<1>2. ASSUME NEW u \in Threads, u # t, SendThread(u) PROVE out'[t] = out[t]
  BY <1>0, <1>2, OtherThread
<1>3. ASSUME SendHeader(t) \/ (SendHeaderFails(t) /\ out' # out)
      PROVE  \E g \in Header : out'[t] = Append(out[t], g)
  <2>1. PICK head \in {"whole", "part"} : out' = [out EXCEPT ![t] = Append(@, NewHeader(t, head))]
    BY <1>3 DEF SendHeader, SendHeaderFails, NewHeader
  <2>2. NewHeader(t, head) \in Header
    BY <1>0, <1>3, NewHeaderType DEF SendHeader, SendHeaderFails, Goto
  <2> QED BY <1>0, <2>1, <2>2 DEF TypeOK
<1>4. ASSUME SendPacket(t)
      PROVE  \E f \in Seq(Header), h \in Header :
                 out[t] = Append(f, h) /\ h.head = "whole" /\ out'[t] = Append(f, Longer(h))
  <2>1. tpc[t] = "send" /\ out[t] # <<>> /\ out[t][Len(out[t])].head = "whole"
    BY <1>0, <1>4 DEF SendPacket, Goto, AtWork, Delivered, AllAccountedFor, Follows
  <2>2. PICK f \in Seq(Header), h \in Header :
           out[t] = Append(f, h) /\ h = out[t][Len(out[t])] /\ Len(out[t]) = Len(f) + 1 /\ Len(f) \in Nat
    BY <1>0, <2>1, LastOf
  <2>3. out'[t] = [out[t] EXCEPT ![Len(out[t])] = Longer(h)]
    BY <1>0, <1>4, <2>2 DEF SendPacket, TypeOK, Longer
  <2>4. Longer(h) \in Header
    BY <2>1, <2>2, LongerIs
  <2>5. /\ Append(f, h) \in Seq(Header) /\ Append(f, Longer(h)) \in Seq(Header)
        /\ Len(Append(f, h)) = Len(f) + 1 /\ Len(Append(f, Longer(h))) = Len(f) + 1
        /\ \A i \in 1..Len(f) : Append(f, h)[i] = f[i] /\ Append(f, Longer(h))[i] = f[i]
        /\ Append(f, Longer(h))[Len(f) + 1] = Longer(h)
    BY <2>4, AppendProperties
  <2>6. out'[t] \in Seq(Header) /\ Len(out'[t]) = Len(f) + 1
    BY <1>0, <2>2, <2>3, <2>4
  <2>7. \A i \in 1..(Len(f) + 1) : out'[t][i] = Append(f, Longer(h))[i]
    <3>1. DOMAIN out[t] = 1..(Len(f) + 1)
      BY <1>0, <2>2, LenProperties
    <3>2. \A i \in 1..(Len(f) + 1) : i = Len(f) + 1 \/ (i \in 1..Len(f) /\ i # Len(f) + 1)
      BY <2>2
    <3> QED BY <2>2, <2>3, <2>5, <3>1, <3>2
  <2>8. out'[t] = Append(f, Longer(h))
    BY <2>5, <2>6, <2>7, SeqEqual
  <2> QED BY <2>1, <2>2, <2>8
<1>5. ASSUME SendThread(t), ~SendHeader(t), ~SendPacket(t), ~(SendHeaderFails(t) /\ out' # out)
      PROVE  UNCHANGED out
  BY <1>5 DEF SendThread, Connect, TryLock, TakeFront, PopFront, Unlock, OpenFails, OpenFile, CountFile,
     BuildHeader, SendHeaderFails, ReadBlock, ReadThrows, EndOfFile, SendPacketFails
<1>6. FindFiles \/ UNCHANGED vars => UNCHANGED out
  BY DEF FindFiles, LookAtList, AllSpawned, WaitReturns, SetFinished, Spawn, vars
<1> QED BY <1>1, <1>2, <1>3, <1>4, <1>5, <1>6 DEF Next

\* A step that is Send's, or none at all.
Sends ==
    /\ [Next]_vars
    /\ wire' = [t \in Threads |-> IF out'[t] = out[t] THEN wire[t] ELSE wire[t] \o Added(t)]
    /\ UNCHANGED receiverVars

LEMMA WireStep ==
    ASSUME Carried, Sends, NEW t \in Threads
    PROVE  \E z : SendsOn(out[t], out'[t], z) /\ wire'[t] = wire[t] \o z
<1>1. /\ out[t] \in Seq(Header) /\ Missing(out[t]) \in Seq(P!Cells) /\ wire[t] \in Seq(P!Cells)
      /\ Delivered /\ [Next]_vars
  BY CarriedTypes DEF Carried, Sends, P!TypeOK
<1>2. wire'[t] = IF out'[t] = out[t] THEN wire[t] ELSE wire[t] \o Added(t)
  BY DEF Sends
<1>3. CASE out'[t] = out[t]
  <2>1. wire'[t] = wire[t] \o <<>>
    BY <1>1, <1>2, <1>3, ConcatEmptySeq
  <2> QED BY <1>1, <1>3, <2>1, NothingSent
<1>4. CASE out'[t] # out[t]
  <2>1. CASE \E f \in Seq(Header), h \in Header :
                out[t] = Append(f, h) /\ h.head = "whole" /\ out'[t] = Append(f, Longer(h))
    <3>1. PICK f \in Seq(Header), h \in Header :
             out[t] = Append(f, h) /\ h.head = "whole" /\ out'[t] = Append(f, Longer(h))
      BY <2>1
    <3>2. /\ Longer(h) \in Header /\ More(h) \in Seq(P!Cells)
          /\ P!FrameCells(FrameOf(Longer(h))) = P!FrameCells(FrameOf(h)) \o More(h)
      BY <3>1, LongerIs
    <3>3. Stream(out'[t]) = Stream(out[t]) \o More(h)
      <4>1. /\ Stream(out[t]) = Stream(f) \o P!FrameCells(FrameOf(h))
            /\ Stream(out'[t]) = Stream(f) \o P!FrameCells(FrameOf(Longer(h)))
        BY <3>1, <3>2, StreamGrows
      <4>2. Regroups(Stream(f), P!FrameCells(FrameOf(h)), More(h))
        BY <3>2, StreamIs, AimIs, RegroupsAlways
      <4> QED BY <3>2, <4>1, <4>2 DEF Regroups
    <3>4. Added(t) = More(h)
      BY <1>1, <3>2, <3>3, AddedIs
    <3>5. SendsOn(out[t], out'[t], More(h))
      BY <3>1, PacketSendsOn
    <3> QED BY <1>2, <1>4, <3>4, <3>5
  <2>2. CASE \E g \in Header : out'[t] = Append(out[t], g)
    <3>1. PICK g \in Header : out'[t] = Append(out[t], g)
      BY <2>2
    <3>2. Stream(out'[t]) = Stream(out[t]) \o P!FrameCells(FrameOf(g)) /\ P!FrameCells(FrameOf(g)) \in Seq(P!Cells)
      BY <1>1, <3>1, StreamGrows, AimIs
    <3>3. Added(t) = P!FrameCells(FrameOf(g))
      BY <1>1, <3>2, AddedIs
    <3>4. SendsOn(out[t], out'[t], P!FrameCells(FrameOf(g)))
      BY <1>1, <3>1, HeaderSendsOn
    <3> QED BY <1>2, <1>4, <3>3, <3>4
  <2> QED BY <1>1, <1>4, <2>1, <2>2, OutSteps
<1> QED BY <1>3, <1>4

\* What has gone wrong on a connection stays wrong, whatever is sent behind it.
LEMMA SendStaysAstray == ASSUME Carried, Sends, NEW t \in Threads, Astray(t) PROVE Astray(t)'
<1>1. PICK z : SendsOn(out[t], out'[t], z) /\ wire'[t] = wire[t] \o z
  BY WireStep
<1>2. /\ out[t] \in Seq(Header) /\ Len(out[t]) \in Nat /\ Sending[t] = Aims(out[t]) /\ P!Made(t) \in Nat
      /\ out'[t] \in Seq(Header) /\ Len(out'[t]) \in Nat /\ Sending'[t] = Aims(out'[t])
      /\ Len(out[t]) <= Len(out'[t])
  BY <1>1, CarriedTypes, LenProperties DEF SendsOn, Sending
<1>3. \A j \in 1..Len(out[t]) :
         /\ P!HeaderOf(Sending'[t][j]) = P!HeaderOf(Sending[t][j])
         /\ ~P!IsWhole(Sending[t][j]) => ~P!IsWhole(Sending'[t][j])
         /\ j < Len(out[t]) => Sending'[t][j] = Sending[t][j]
  BY <1>1, <1>2 DEF SendsOn
<1>4. /\ P!Made(t)' = P!Made(t)
      /\ \A j \in 1..P!Made(t) : P!Rows(t)'[j] = P!Rows(t)[j] /\ P!CopiesOf(t)'[j] = P!CopiesOf(t)[j]
  BY PAssumption, P!SameRowsIfUnchanged DEF P!SameRows, P!Made, Sends, receiverVars
<1>5. PICK k \in 1..P!Made(t) : AstrayAt(t, k)
  BY DEF Astray
<1> QED BY <1>2, <1>3, <1>4, <1>5, StaysAstray

LEMMA SendCarries == ASSUME Carried, Sends PROVE Carried'
<1>1. /\ Delivered' /\ \A t \in Threads : out'[t] \in Seq(Header)
  <2>1. Delivered'
    BY DeliveredStep DEF Carried, Sends
  <2> QED BY <2>1 DEF Delivered, Owned, TypeOK
<1>2. P!SenderOnly /\ UNCHANGED <<items, disk, faulted, link>>
  BY DEF Sends, receiverVars, P!SenderOnly, P!sessVars, P!ioVars, P!fileVars, P!listVars, P!dlgVars,
     P!history
<1>3. \A t \in Threads : /\ Sending'[t] = Aims(out'[t]) /\ Sending'[t] \in Seq(P!Frame)
                         /\ Len(Sending'[t]) = Len(out'[t]) /\ Len(out'[t]) \in Nat
  BY <1>1, ScriptsAre DEF Sending
<1>4. P!Owned' /\ P!Listed' /\ P!Placed'
  <2>1. Sending' \in [Threads -> Seq(Receiver!Frame)]
    <3>1. P!Frame = Receiver!Frame
      BY DEF P!Frame, Receiver!Frame, P!Counter, Receiver!Counter
    <3>2. Sending' = [t \in Threads |-> Aims(out'[t])]
      BY DEF Sending
    <3> QED BY <1>3, <3>1, <3>2
  <2>2. wire' \in [Threads -> Seq(P!Cells)]
    <3>1. ASSUME NEW t \in Threads PROVE wire'[t] \in Seq(P!Cells)
      <4>1. wire[t] \in Seq(P!Cells)
        BY CarriedTypes DEF P!TypeOK
      <4>2. PICK z : SendsOn(out[t], out'[t], z) /\ wire'[t] = wire[t] \o z
        BY WireStep
      <4>3. z \in Seq(P!Cells)
        BY <4>2 DEF SendsOn
      <4> QED BY <4>1, <4>2, <4>3, JoinType
    <3>2. wire' = [t \in Threads |-> wire'[t]]
      BY DEF Sends
    <3> QED BY <3>1, <3>2
  <2> QED BY <1>2, <2>1, <2>2, PAssumption, CarriedTypes, P!SenderOwned
<1>5. P!TypeOK'
  BY <1>4 DEF P!Owned, P!Counted
<1>6. P!FileThere'
  BY <1>2 DEF Carried, P!FileThere, P!SenderOnly, P!sessVars, P!ioVars
<1>7. ASSUME NEW t \in Threads
      PROVE  \/ OnTrack(t)' /\ P!Core(t)' /\ P!Drained(t)'
             \/ Astray(t)' /\ ~P!Healthy(t)'
  <2>1. PICK z : SendsOn(out[t], out'[t], z) /\ wire'[t] = wire[t] \o z
    BY WireStep
  <2> DEFINE o == out[t]
             p == out'[t]
             m == P!Made(t)
  <2>2. /\ o \in Seq(Header) /\ Len(o) \in Nat /\ m \in Nat /\ Len(p) \in Nat /\ Len(o) <= Len(p)
        /\ Sending[t] = Aims(o) /\ Sending[t] \in Seq(P!Frame) /\ Len(Sending[t]) = Len(o)
        /\ Sending'[t] = Aims(p) /\ Sending'[t] \in Seq(P!Frame) /\ Len(Sending'[t]) = Len(p)
        /\ Missing(o) \in Seq(P!Cells) /\ z \in Seq(P!Cells)
    BY <1>3, <2>1, CarriedTypes DEF SendsOn
  <2>3. \A j \in 1..Len(o) :
           /\ P!HeaderOf(Sending'[t][j]) = P!HeaderOf(Sending[t][j])
           /\ ~P!IsWhole(Sending[t][j]) => ~P!IsWhole(Sending'[t][j])
           /\ j < Len(o) => Sending'[t][j] = Sending[t][j]
    BY <2>1, <2>2 DEF SendsOn
  <2>4. P!SameRows(t) /\ P!Made(t)' = m
    BY <1>2, PAssumption, P!SameRowsIfUnchanged DEF P!SameRows, P!Made
  <2>5. P!Healthy(t)' <=> P!Sound(t)'
    BY <1>5, SoundIsNext
  <2>6. ASSUME Astray(t)' PROVE ~P!Healthy(t)'
    <3>1. PICK k \in 1..P!Made(t)' : AstrayAt(t, k)'
      BY <2>6 DEF Astray
    <3> QED BY <2>5, <3>1 DEF AstrayAt, P!Sound
  <2>7. CASE Astray(t)
    BY <2>6, <2>7, SendStaysAstray
  <2>8. CASE OnTrack(t)
    <3>1. P!Healthy(t) /\ P!Sound(t) /\ P!Core(t) /\ P!Drained(t) /\ P!TypeOK
      BY <2>8, SoundIs, CarriedTypes DEF OnTrack, Carried, P!Copying, P!InOrder
    <3>2. P!Turn(t) \in 0..m /\ m <= Len(o)
      BY <2>2, <3>1, PAssumption, P!ExpectedIs
    <3>3. CASE \A j \in 1..m : P!IsWhole(Sending'[t][j])
      <4>1. Missing(p) \in Seq(P!Cells)
        <5>1. p # <<>> => p[Len(p)] \in Header
          BY <1>1, EmptySeq, LenProperties, ElementOfSeq
        <5> QED BY <5>1, AimIs, EmptySeq DEF Missing
      <4>2. PICK k \in Nat : k = P!Turn(t)
        BY <2>2, <3>2
      <4>3. k = Len(o) /\ o # <<>> => P!IsWhole(Aims(p)[k])
        <5>1. ASSUME k = Len(o), o # <<>> PROVE k \in 1..m
          BY <2>2, <3>2, <4>2, <5>1, EmptySeq
        <5> QED BY <2>2, <3>3, <5>1
      <4>4. k \in 0..Len(o)
        BY <2>2, <3>2, <4>2
      <4>5. P!Continues(P!Cells, P!Left(Sending[t], P!Turn(t)), P!Left(Sending'[t], P!Turn(t)),
                        Missing(o), z, Missing(p))
        BY <2>1, <2>2, <4>2, <4>3, <4>4 DEF SendsOn
      <4>6. P!Rewritten(t)
        BY <2>2, <2>3 DEF P!Rewritten
      <4>7. P!Expected(t) = P!ToCome(t) \o Missing(o) /\ [u \in Threads |-> <<>>][t] = <<>>
        BY <2>8 DEF OnTrack
      <4>8. PICK d, e : d = Missing(o) /\ e = Missing(p)
        OBVIOUS
      <4>9. P!Core(t)' /\ P!Drained(t)' /\ P!Expected(t)' = P!ToCome(t)' \o e
        <5>1. /\ d \in Seq(P!Cells) /\ e \in Seq(P!Cells) /\ P!Expected(t) = P!ToCome(t) \o d
              /\ P!Continues(P!Cells, P!Left(Sending[t], P!Turn(t)), P!Left(Sending'[t], P!Turn(t)), d, z, e)
          BY <2>2, <4>1, <4>5, <4>7, <4>8
        <5> QED BY <1>2, <2>1, <2>2, <3>1, <4>6, <4>7, <5>1, PAssumption, P!StillTuned
      <4>10. P!Healthy(t)'
        <5>1. m <= Len(Sending'[t])
          BY <2>2, <3>2
        <5> QED BY <1>2, <2>4, <2>5, <3>1, <3>3, <5>1 DEF P!Sound
      <4> QED BY <4>8, <4>9, <4>10 DEF OnTrack
    <3>4. CASE ~ \A j \in 1..m : P!IsWhole(Sending'[t][j])
      <4>1. PICK j \in 1..m : ~P!IsWhole(Sending'[t][j])
        BY <3>4
      <4>2. j = m /\ j = Len(o)
        BY <2>2, <2>3, <3>1, <3>2, <4>1 DEF P!Sound
      <4>3. P!RowsRight(t)
        BY <3>1 DEF P!Core
      <4>4. ASSUME NEW i \in 1..j
            PROVE  P!Rows(t)'[i].frame = P!HeaderOf(Sending'[t][i])
        BY <2>2, <2>3, <2>4, <4>2, <4>3 DEF P!RowsRight, P!SameRows
      <4>5. ASSUME NEW i \in 1..(j - 1)
            PROVE  /\ P!IsWhole(Sending'[t][i]) /\ P!Rows(t)'[i].nStatus
                   /\ P!CopiesOf(t)'[i] = P!Content(Sending'[t][i])
        <5>1. i \in 1..m /\ i < m /\ i \in 1..Len(o) /\ i < Len(o)
          BY <2>2, <4>2
        <5> QED BY <2>3, <2>4, <3>1, <4>3, <5>1 DEF P!RowsRight, P!SameRows, P!Sound
      <4>6. j <= Len(p) /\ j \in 1..P!Made(t)'
        BY <2>2, <2>4, <4>2
      <4>7. AstrayAt(t, j)'
        BY <4>1, <4>4, <4>5, <4>6 DEF AstrayAt
      <4>8. Astray(t)'
        BY <4>6, <4>7 DEF Astray
      <4> QED BY <2>6, <4>8
    <3> QED BY <3>3, <3>4
  <2> QED BY <2>7, <2>8 DEF Carried
<1>8. P!InOrder'
  BY <1>7 DEF P!InOrder
<1> QED BY <1>1, <1>4, <1>6, <1>7, <1>8 DEF Carried, P!Copying

\* A step is one of the sender's, or one of the receiver's, or none.
LEMMA StepsAre ==
    ASSUME Carried, [TransferNext]_allVars
    PROVE  Sends \/ (UNCHANGED vars /\ (Completion \/ Receiver!Handler \/ Receiver!OnTimer))
<1>1. CASE UNCHANGED allVars
  <2>1. UNCHANGED <<vars, out, wire, receiverVars>>
    BY <1>1 DEF allVars, vars
  <2>2. wire = [t \in Threads |-> wire[t]]
    BY CarriedTypes DEF P!TypeOK
  <2> QED BY <2>1, <2>2 DEF Sends
<1> QED BY <1>1 DEF TransferNext, Send, Receive, Shows, Sends

LEMMA ReceivesAre ==
    ASSUME UNCHANGED vars, Completion \/ Receiver!Handler \/ Receiver!OnTimer
    PROVE  P!Completion \/ P!Handler \/ P!OnTimer
BY CompletionIsP, HandlerIsP, OnTimerIsP

LEMMA CarriedStep == ASSUME Carried, [TransferNext]_allVars PROVE Carried'
BY StepsAre, ReceivesAre, SendCarries, ReceiveCarries

LEMMA CarriedStart == TransferInit => Carried
<1> SUFFICES ASSUME TransferInit PROVE Carried
  OBVIOUS
<1>1. P!Init /\ Delivered
  BY StartIsP, InitDelivered DEF TransferInit
<1>2. P!Copying
  BY <1>1, PAssumption, P!CopyingStart
<1>3. P!FileThere
  BY DEF TransferInit, P!FileThere
<1>4. ASSUME NEW t \in Threads PROVE OnTrack(t)
  <2>1. out[t] = <<>> /\ t \notin faulted /\ DOMAIN items = {}
    BY DEF TransferInit, Init
  <2>2. P!TypeOK /\ P!Stage(t) = "idle" /\ nFileSize[t] = 0
    BY <1>2 DEF P!Copying, P!Owned, P!Counted, TransferInit, P!Stage
  <2>3. Sending[t] \in Seq(P!Frame) /\ Len(Sending[t]) = 0
    <3>1. Len(<<>>) = 0 /\ <<>> \in Seq(Header)
      BY EmptySeq
    <3>2. Aims(<<>>) \in Seq(P!Frame) /\ Len(Aims(<<>>)) = 0
      BY <3>1, ScriptsAre
    <3> QED BY <2>1, <3>2 DEF Sending
  <2>4. P!Made(t) = 0
    <3>1. P!Marks(t) = <<>>
      BY <2>1 DEF P!Marks
    <3>2. P!RowsIn(t) = <<>>
      BY <3>1, SameFlatten, FlattenEmpty DEF P!RowsIn, P!Marks
    <3> QED BY <3>2, EmptySeq DEF P!Made
  <2>5. P!Healthy(t) /\ P!Core(t)
    <3>1. P!Sound(t)
      BY <2>1, <2>3, <2>4 DEF P!Sound
    <3> QED BY <1>2, <2>2, <3>1, SoundIs DEF P!Copying, P!InOrder
  <2>6. P!Expected(t) = <<>>
    <3>1. P!Turn(t) = 0 /\ P!Begun(t) = <<>>
      BY <2>2, <2>4 DEF P!Turn, P!Begun, P!Filling, P!Busy
    <3>2. P!Left(Sending[t], 0) = <<>>
      BY <2>3, PAssumption, P!NothingLeft
    <3>3. P!Expected(t) = <<>> \o <<>>
      BY <2>2, <2>5, <3>1, <3>2, PAssumption, P!ExpectedIs
    <3> QED BY <3>3, EmptySeq, ConcatEmptySeq
  <2>7. P!ToCome(t) = <<>>
    <3>1. PICK rest \in Seq(P!Cells) : P!Expected(t) = P!ToCome(t) \o rest
      BY <2>5 DEF P!Core, P!InStep
    <3>2. P!ToCome(t) \in Seq(P!Cells)
      BY <2>2, PAssumption, P!AheadType
    <3>3. Len(P!ToCome(t)) + Len(rest) = 0 /\ Len(P!ToCome(t)) \in Nat /\ Len(rest) \in Nat
      BY <2>6, <3>1, <3>2, ConcatProperties, LenProperties, EmptySeq
    <3>4. Len(P!ToCome(t)) = 0
      BY <3>3
    <3> QED BY <3>2, <3>4, EmptySeq
  <2>8. <<>> = <<>> \o <<>>
    BY EmptySeq, ConcatEmptySeq
  <2> QED BY <2>1, <2>5, <2>6, <2>7, <2>8 DEF OnTrack, Missing
<1> QED BY <1>1, <1>2, <1>3, <1>4 DEF Carried

-----------------------------------------------------------------------------
(* From the invariant to the rows. *)

LEMMA EntryIs ==
    ASSUME NEW o \in Seq(Header), NEW j \in 1..Len(o)
    PROVE  /\ o[j] \in Header
           /\ P!HeaderOf(Aims(o)[j]) = P!HeaderOf(FrameOf(o[j]))
           /\ P!Content(Aims(o)[j]) = P!Content(FrameOf(o[j]))
           /\ o[j].head = "whole" /\ o[j].sent = o[j].nFileSize => P!IsWhole(Aims(o)[j])
           /\ o[j].head = "whole" /\ o[j].sent <= o[j].nFileSize /\ j = Len(o) => P!IsWhole(Aims(o)[j])
<1>1. o[j] \in Header /\ Aims(o)[j] = IF j = Len(o) THEN Aim(o[j]) ELSE FrameOf(o[j])
  BY ScriptsAre
<1>2. P!HeaderOf(Aims(o)[j]) = P!HeaderOf(FrameOf(o[j]))
  BY <1>1, FramesAre
<1>3. P!Content(Aims(o)[j]) = P!Content(FrameOf(o[j]))
  BY <1>2, PAssumption, P!SameByHeader
<1>4. o[j].sent \in Nat /\ o[j].nFileSize \in Nat
  BY <1>1, FramesAre
<1>5. o[j].sent <= o[j].nFileSize => ~Over(o[j])
  BY <1>4 DEF Over
<1>6. P!IsWhole(Aim(o[j])) <=> ~Over(o[j])
  BY <1>1, FramesAre
<1>7. o[j].head = "whole" /\ o[j].sent = o[j].nFileSize => P!IsWhole(FrameOf(o[j]))
  BY <1>1, FramesAre
<1> QED BY <1>1, <1>2, <1>3, <1>4, <1>5, <1>6, <1>7

\* A row of the dialog in Transfer's words and in Session's.
LEMMA RowIs ==
    ASSUME Carried, NEW t \in Threads
    PROVE  /\ RowsOf(t) = P!RowsIn(t) /\ Len(RowsOf(t)) = P!Made(t)
           /\ DOMAIN RowsOf(t) = 1..P!Made(t)
           /\ \A i \in 1..P!Made(t) : /\ P!Rows(t)[i] = items[RowsOf(t)[i]]
                                      /\ P!CopiesOf(t)[i] = disk[RowsOf(t)[i]]
           /\ \A i \in 1..Len(out[t]) :
                 /\ P!HeaderOf(Sending[t][i]) = Receiver!HeaderOf(FrameOf(out[t][i]))
                 /\ P!Content(Sending[t][i]) = Receiver!Content(FrameOf(out[t][i]))
<1>1. RowsOf(t) = P!RowsIn(t)
  BY SameFlatten DEF RowsOf, Receiver!RowsIn, P!RowsIn
<1>2. /\ DOMAIN P!RowsIn(t) = 1..P!Made(t) /\ Len(P!RowsIn(t)) = P!Made(t)
      /\ \A i \in 1..P!Made(t) : /\ P!Rows(t)[i] = items[P!RowsIn(t)[i]]
                                 /\ P!CopiesOf(t)[i] = disk[P!RowsIn(t)[i]]
  BY CarriedTypes, PAssumption, P!RowsAre DEF P!Made
<1>3. \A f : /\ Receiver!HeaderOf(f) = P!HeaderOf(f) /\ Receiver!Content(f) = P!Content(f)
  BY DEF Receiver!HeaderOf, P!HeaderOf, Receiver!Content, P!Content, Receiver!BodyOf, P!BodyOf,
         Receiver!Cell, P!Cell
<1>4. \A i \in 1..Len(out[t]) :
         /\ P!HeaderOf(Sending[t][i]) = P!HeaderOf(FrameOf(out[t][i]))
         /\ P!Content(Sending[t][i]) = P!Content(FrameOf(out[t][i]))
  BY CarriedTypes, EntryIs
<1> QED BY <1>1, <1>2, <1>3, <1>4

\* A row that is true on a connection that is on its track is a file received whole.
LEMMA TrueRow ==
    ASSUME Carried, NEW t \in Threads, OnTrack(t), NEW i \in 1..P!Made(t)
    PROVE  /\ i \in 1..Len(out[t]) /\ P!Made(t) <= Len(out[t])
           /\ items[RowsOf(t)[i]].frame = Receiver!HeaderOf(FrameOf(out[t][i]))
           /\ items[RowsOf(t)[i]].nStatus => Saved(t, i) /\ (i < P!Made(t) \/ ~P!Filling(t))
<1>1. P!Core(t) /\ P!Made(t) \in Nat /\ Len(Sending[t]) = Len(out[t])
  BY CarriedTypes DEF Carried, P!Copying, P!InOrder, OnTrack
<1>2. i \in 1..Len(out[t]) /\ P!Made(t) <= Len(out[t])
  BY <1>1, CarriedTypes DEF P!Core, P!RowsRight
<1>3. P!Rows(t)[i].frame = P!HeaderOf(Sending[t][i])
  BY <1>1 DEF P!Core, P!RowsRight
<1>4. ASSUME P!Rows(t)[i].nStatus
      PROVE  (i < P!Made(t) \/ ~P!Filling(t)) /\ P!CopiesOf(t)[i] = P!Content(Sending[t][i])
  <2>1. i < P!Made(t) \/ ~P!Filling(t)
    BY <1>1, <1>4 DEF P!Core, P!Current, P!UnderWay
  <2> QED BY <1>1, <2>1 DEF P!Core, P!RowsRight
<1> QED BY <1>1, <1>2, <1>3, <1>4, RowIs DEF Saved

\* The entries of a connection without a failure went out as announced, but for
\* the last, which is at most under way.
LEMMA UndamagedIs ==
    ASSUME Carried, NEW t \in Threads, Undamaged(t), NEW i \in 1..Len(out[t])
    PROVE  /\ out[t][i].head = "whole" /\ out[t][i].sent <= out[t][i].nFileSize
           /\ i < Len(out[t]) => out[t][i].sent = out[t][i].nFileSize
           /\ P!IsWhole(Sending[t][i])
<1> DEFINE h == out[t][i]
<1>1. /\ Delivered /\ TypeOK /\ OneOwner /\ AtWork
      /\ out[t] \in Seq(Header) /\ Len(out[t]) \in Nat /\ DOMAIN out[t] = 1..Len(out[t])
      /\ Sending[t] = Aims(out[t])
  BY CarriedTypes, LenProperties DEF Carried, Delivered, Owned
<1>2. h \in Header /\ h.file \in Files /\ h.sent \in Nat /\ h.nFileSize \in Nat
  BY <1>1, EntryIs, FramesAre, HeaderFacts
<1>3. fate[h.file] # "failed" /\ h.file \notin MayChange
  BY <1>1 DEF Undamaged
<1>4. fate[h.file] \in {"taken", "sent"}
  BY <1>1, <1>2, <1>3 DEF TypeOK, Delivered, NotOutBefore
<1>5. ASSUME fate[h.file] = "sent" PROVE h.head = "whole" /\ h.sent = h.nFileSize
  <2>1. PICK u \in Threads :
           \E j \in DOMAIN out[u] : out[u][j].file = h.file /\ Complete(out[u][j])
    BY <1>1, <1>2, <1>5 DEF Delivered, SentIsOut
  <2>2. PICK j \in DOMAIN out[u] : out[u][j].file = h.file /\ Complete(out[u][j])
    BY <2>1
  <2>3. u = t /\ j = i
    BY <1>1, <2>2 DEF Delivered, OneHeader
  <2> QED BY <1>3, <2>2, <2>3 DEF Complete
<1>6. ASSUME fate[h.file] = "taken" PROVE i = Len(out[t]) /\ h.head = "whole" /\ h.sent <= h.nFileSize
  <2>1. pFile[t] = h.file /\ i = Len(out[t])
    BY <1>1, <1>6 DEF Delivered, TakenIsLast
  <2>2. PICK u \in Threads : pFile[u] = h.file /\ tpc[u] # "pop"
    BY <1>1, <1>2, <1>6 DEF OneOwner
  <2>3. pFile[t] # 0
    BY <1>1, <1>2, <2>1, HeaderFacts
  <2>4. u = t
    BY <1>1, <2>1, <2>2, <2>3 DEF OneOwner
  <2>5. tpc[t] \notin Idle
    BY <1>1, <2>3 DEF AtWork
  <2>6. tpc[t] \notin Before
    BY <1>1, <2>1, <2>3 DEF Delivered, NotOutBefore, OutOn
  <2>7. tpc[t] \in {"read", "send"}
    BY <1>1, <2>2, <2>4, <2>5, <2>6 DEF TypeOK, ThreadPC, Idle, Before
  <2>8. Follows(t, h)
    BY <1>1, <2>1, <2>7 DEF Delivered, AllAccountedFor
  <2>9. toRead[t] \in Nat /\ inBuffer[t] \in Nat
    BY <1>1 DEF TypeOK
  <2> HIDE DEF h
  <2>10. h.head = "whole" /\ h.sent + toRead[t] + inBuffer[t] = h.nFileSize
    BY <1>3, <2>1, <2>8 DEF Follows
  <2> QED BY <1>2, <2>1, <2>9, <2>10
<1>7. /\ h.head = "whole" /\ h.sent <= h.nFileSize
      /\ i < Len(out[t]) => h.sent = h.nFileSize
      /\ h.sent = h.nFileSize \/ i = Len(out[t])
  BY <1>1, <1>2, <1>4, <1>5, <1>6
<1>8. P!IsWhole(Sending[t][i])
  BY <1>1, <1>7, EntryIs
<1> QED BY <1>7, <1>8

LEMMA CarriedSaves == ASSUME Carried PROVE RowsAreSent
<1> SUFFICES ASSUME NEW t \in Threads, NEW i \in DOMAIN RowsOf(t)
             PROVE  /\ i <= Len(out[t]) /\ Intact(t, i - 1) =>
                          /\ items[RowsOf(t)[i]].frame = Receiver!HeaderOf(FrameOf(out[t][i]))
                          /\ items[RowsOf(t)[i]].nStatus /\ Intact(t, i) => Saved(t, i)
                    /\ Undamaged(t) /\ items[RowsOf(t)[i]].nStatus => Intact(t, i) /\ Saved(t, i)
  BY DEF RowsAreSent
<1>1. /\ i \in 1..P!Made(t) /\ P!Made(t) \in Nat /\ i \in Nat
      /\ out[t] \in Seq(Header) /\ Len(out[t]) \in Nat /\ Sending[t] = Aims(out[t])
      /\ Sending[t] \in Seq(P!Frame) /\ Len(Sending[t]) = Len(out[t])
  BY RowIs, CarriedTypes
<1>2. CASE OnTrack(t)
  <2>1. /\ i \in 1..Len(out[t]) /\ P!Made(t) <= Len(out[t])
        /\ items[RowsOf(t)[i]].frame = Receiver!HeaderOf(FrameOf(out[t][i]))
        /\ items[RowsOf(t)[i]].nStatus => Saved(t, i) /\ (i < P!Made(t) \/ ~P!Filling(t))
    BY <1>1, <1>2, TrueRow
  <2>2. ASSUME Undamaged(t), items[RowsOf(t)[i]].nStatus PROVE Intact(t, i)
    <3>1. \A j \in 1..Len(out[t]) :
             /\ out[t][j].head = "whole" /\ out[t][j].sent <= out[t][j].nFileSize
             /\ j < Len(out[t]) => out[t][j].sent = out[t][j].nFileSize
      BY <2>2, UndamagedIs
    <3>2. CASE i < Len(out[t])
      BY <1>1, <3>1, <3>2 DEF Intact
    <3>3. CASE i = Len(out[t])
      <4> DEFINE h == out[t][i]
      <4>1. P!Made(t) = Len(out[t]) /\ ~P!Filling(t) /\ i = P!Made(t)
        BY <1>1, <2>1, <2>2, <3>3
      <4>2. P!Core(t) /\ P!TypeOK
        BY <1>2, CarriedTypes DEF Carried, P!Copying, P!InOrder, OnTrack
      <4>3. P!Expected(t) = <<>>
        <5>1. P!Turn(t) = P!Made(t) /\ P!Begun(t) = <<>>
          BY <4>1 DEF P!Turn, P!Begun, P!Filling, P!Busy
        <5>2. P!Left(Sending[t], P!Turn(t)) = <<>>
          BY <1>1, <4>1, <5>1, PAssumption, P!NothingLeft
        <5>3. P!Expected(t) = <<>> \o <<>>
          BY <4>2, <5>1, <5>2, PAssumption, P!ExpectedIs
        <5> QED BY <5>3, EmptySeq, ConcatEmptySeq
      <4>4. Len(Missing(out[t])) = 0
        <5>1. P!ToCome(t) \in Seq(P!Cells) /\ Missing(out[t]) \in Seq(P!Cells)
          BY <4>2, PAssumption, P!AheadType, CarriedTypes
        <5>2. <<>> = P!ToCome(t) \o Missing(out[t])
          BY <1>2, <4>3 DEF OnTrack
        <5>3. Len(P!ToCome(t)) + Len(Missing(out[t])) = 0
          BY <5>1, <5>2, ConcatProperties, EmptySeq
        <5>4. Len(P!ToCome(t)) \in Nat /\ Len(Missing(out[t])) \in Nat
          BY <5>1, LenProperties
        <5> QED BY <5>3, <5>4
      <4>5. Missing(out[t]) = Lacking(h)
        <5>1. out[t] # <<>>
          BY <1>1, <3>3, EmptySeq
        <5> QED BY <3>3, <5>1 DEF Missing
      <4>6. h \in Header /\ h.head = "whole" /\ h.sent <= h.nFileSize
        BY <1>1, <2>1, <3>1, EntryIs
      <4> HIDE DEF h
      <4>7. /\ FrameOf(h) \in P!Frame /\ h.sent \in Nat /\ h.nFileSize \in Nat
            /\ FrameOf(h).sent = P!HeaderSize + h.sent /\ Aim(h).sent = P!HeaderSize + h.nFileSize
            /\ FrameOf(h).sent \in Nat /\ Aim(h).sent \in Nat /\ P!HeaderSize \in Nat
            /\ FrameOf(h).sent <= Aim(h).sent
        <5>1. P!HeaderSize \in Nat
          BY PAssumption, P!HeaderSizeIs
        <5>2. ~Over(h)
          BY <4>6, FramesAre DEF Over
        <5> QED BY <4>6, <5>1, <5>2, FramesAre
      <4>8. Len(Lacking(h)) = Aim(h).sent - FrameOf(h).sent
        <5>1. \A a, b \in Nat : a <= b => Len(P!Cut(FrameOf(h), a, b)) = b - a
          BY <4>7, PAssumption, P!CutType
        <5> QED BY <4>7, <5>1 DEF Lacking
      <4>9. h.sent = h.nFileSize
        <5>1. Aim(h).sent - FrameOf(h).sent = 0
          BY <4>4, <4>5, <4>8
        <5>2. \A a, b, z \in Nat : (z + a) - (z + b) = 0 => a = b
          OBVIOUS
        <5>3. (P!HeaderSize + h.nFileSize) - (P!HeaderSize + h.sent) = 0
          BY <4>7, <5>1
        <5> QED BY <4>7, <5>2, <5>3
      <4> QED BY <1>1, <3>1, <3>3, <4>6, <4>9 DEF Intact, h
    <3> QED BY <1>1, <2>1, <3>2, <3>3
  <2> QED BY <2>1, <2>2
<1>3. CASE Astray(t)
  <2>1. PICK k \in 1..P!Made(t) : AstrayAt(t, k)
    BY <1>3 DEF Astray
  <2>2. k \in 1..Len(out[t]) /\ ~P!IsWhole(Sending[t][k])
    BY <1>1, <2>1 DEF AstrayAt
  <2>3. ~Undamaged(t)
    BY <2>2, UndamagedIs
  <2>4. \A j \in Nat : Intact(t, j) => k > j
    <3>1. ASSUME NEW j \in Nat, Intact(t, j), k <= j PROVE FALSE
      <4>1. out[t][k].head = "whole" /\ out[t][k].sent = out[t][k].nFileSize
        BY <2>2, <3>1 DEF Intact
      <4> QED BY <1>1, <2>2, <4>1, EntryIs
    <3> QED BY <2>2, <3>1
  <2>5. ASSUME i <= Len(out[t]), Intact(t, i - 1)
        PROVE  items[RowsOf(t)[i]].frame = Receiver!HeaderOf(FrameOf(out[t][i]))
    <3>1. i \in 1..k
      <4>1. i - 1 \in Nat
        BY <1>1
      <4> QED BY <1>1, <2>2, <2>4, <2>5, <4>1
    <3>2. P!Rows(t)[i].frame = P!HeaderOf(Sending[t][i])
      BY <2>1, <3>1 DEF AstrayAt
    <3> QED BY <1>1, <2>5, <3>2, RowIs
  <2>6. ASSUME i <= Len(out[t]), items[RowsOf(t)[i]].nStatus, Intact(t, i) PROVE Saved(t, i)
    <3>1. i \in 1..(k - 1)
      BY <1>1, <2>2, <2>4, <2>6
    <3>2. P!CopiesOf(t)[i] = P!Content(Sending[t][i])
      BY <2>1, <3>1 DEF AstrayAt
    <3> QED BY <1>1, <2>6, <3>2, RowIs DEF Saved
  <2> QED BY <2>3, <2>5, <2>6
<1> QED BY <1>2, <1>3 DEF Carried

-----------------------------------------------------------------------------
(* The end of a connection, which Carried says nothing of: a session ends  *)
(* behind the last byte, and only some headers are taken before.           *)

\* A thread that has ended sends nothing more.
LEMMA EndedStays ==
    ASSUME TypeOK, [Next]_vars, NEW t \in Threads, tpc[t] = "ended"
    PROVE  tpc'[t] = "ended" /\ out'[t] = out[t]
<1>1. ASSUME NEW u \in Threads, SendThread(u) \/ Spawn(u) PROVE u # t
  BY <1>1 DEF SendThread, Spawn, Goto, Connect, TryLock, TakeFront, PopFront, Unlock, OpenFails, OpenFile,
     CountFile, BuildHeader, SendHeader, SendHeaderFails, ReadBlock, ReadThrows, EndOfFile,
     SendPacket, SendPacketFails
<1>2. LookAtList \/ AllSpawned \/ WaitReturns \/ SetFinished \/ UNCHANGED vars => UNCHANGED <<tpc, out>>
  BY DEF LookAtList, AllSpawned, WaitReturns, SetFinished, vars
<1> QED BY <1>1, <1>2, OtherThread DEF Next, FindFiles

\* A session ends when its thread has, and everything is read.
EndSeen ==
    /\ \A t \in Threads : link[t] = "closed" => wire[t] = <<>> /\ tpc[t] = "ended"
    /\ ec => wire[cur] = <<>> /\ tpc[cur] = "ended"

LEMMA SendKeepsEnds == ASSUME Carried, EndSeen, Sends PROVE EndSeen'
<1>1. TypeOK /\ [Next]_vars /\ UNCHANGED <<link, cur, ec>> /\ cur \in Threads
  BY CarriedTypes DEF Sends, receiverVars, P!TypeOK
<1>2. ASSUME NEW t \in Threads, tpc[t] = "ended", wire[t] = <<>>
      PROVE  tpc'[t] = "ended" /\ wire'[t] = <<>>
  <2>1. tpc'[t] = "ended" /\ out'[t] = out[t]
    BY <1>1, <1>2, EndedStays
  <2> QED BY <1>2, <2>1 DEF Sends
<1> QED BY <1>1, <1>2 DEF EndSeen

LEMMA ReceiveKeepsEnds ==
    ASSUME Carried, EndSeen, UNCHANGED vars, Completion \/ Receiver!Handler \/ Receiver!OnTimer
    PROVE  EndSeen'
<1>1. P!TypeOK /\ tpc' = tpc
  BY CarriedTypes DEF vars
<1>2. CASE Receiver!OnTimer
  BY <1>1, <1>2 DEF EndSeen, Receiver!OnTimer, Receiver!netVars, Receiver!ioVars
<1>3. ASSUME NEW t \in Threads, Receiver!Accept(t) PROVE EndSeen'
  BY <1>1, <1>3 DEF EndSeen, Receiver!Accept, Receiver!ioVars, P!TypeOK
<1>4. ASSUME NEW t \in Threads, Receiver!Read(t) PROVE EndSeen'
  BY <1>1, <1>4 DEF EndSeen, Receiver!Read, P!TypeOK
<1>5. ASSUME NEW t \in Threads, Receiver!ReadEnd(t) PROVE EndSeen'
  <2>1. tpc[t] = "ended"
    <3>1. Still(t) = <<>>
      BY <1>5 DEF Receiver!ReadEnd
    <3>2. <<"more">> # <<>>
      OBVIOUS
    <3> QED BY <3>1, <3>2 DEF Still
  <2> QED BY <1>1, <1>5, <2>1 DEF EndSeen, Receiver!ReadEnd, Receiver!netVars
<1>6. CASE Receiver!Handler /\ ~Receiver!SessionGone
  <2>1. UNCHANGED <<wire, link, cur, ec>>
    BY <1>6 DEF Receiver!Handler, Receiver!ParserContinue, Receiver!ParserThrows, Receiver!ParserFresh,
       Receiver!CloseFile, Receiver!CloseThrows, Receiver!GetFileHeader, Receiver!OpenFile,
       Receiver!GetFileStore, Receiver!GetFileThrows, Receiver!GetFileDone, Receiver!Compact,
       Receiver!Catch, Receiver!ReadAgain, Receiver!Inside, Receiver!netVars
  <2> QED BY <1>1, <2>1 DEF EndSeen
<1>7. CASE Receiver!SessionGone
  BY <1>1, <1>7 DEF EndSeen, Receiver!SessionGone, P!TypeOK
<1> QED BY <1>2, <1>3, <1>4, <1>5, <1>6, <1>7 DEF Completion

\* More of a file does not make the frame shorter that it is to be.
LEMMA AimGrows ==
    ASSUME NEW h \in Header, h.head = "whole"
    PROVE  Aim(Longer(h)).sent >= Aim(h).sent
<1> DEFINE g == Longer(h)
<1>1. g \in Header /\ g.head = "whole" /\ g.nFileSize = h.nFileSize /\ g.sent = h.sent + 1
  BY DEF Longer, Header
<1> HIDE DEF g
<1>2. /\ h.sent \in Nat /\ h.nFileSize \in Nat /\ P!HeaderSize \in Nat
      /\ Aim(g).sent = IF Over(g) THEN P!HeaderSize + g.sent ELSE P!HeaderSize + g.nFileSize
      /\ Aim(h).sent = IF Over(h) THEN P!HeaderSize + h.sent ELSE P!HeaderSize + h.nFileSize
  <2>1. P!HeaderSize \in Nat
    BY PAssumption, P!HeaderSizeIs
  <2> QED BY <1>1, <2>1, FramesAre
<1>3. Aim(g).sent >= Aim(h).sent
  BY <1>1, <1>2 DEF Over
<1> QED BY <1>3 DEF g

\* What has gone wrong on a connection stays wrong, whatever is received.
LEMMA ReceiveStaysAstray ==
    ASSUME Carried, UNCHANGED vars, P!Completion \/ P!Handler \/ P!OnTimer,
           NEW t \in Threads, Astray(t)
    PROVE  Astray(t)'
<1>1. P!RowsGrow(t)
  <2>1. [P!Next]_(P!vars)
    BY DEF P!Next
  <2> QED BY <2>1, PAssumption, CarriedTypes, P!RowsGrowStep
<1>2. P!Made(t) \in Nat /\ P!Made(t)' \in Nat /\ P!Made(t) <= P!Made(t)'
  BY <1>1, CarriedTypes DEF P!RowsGrow
<1>3. PICK k \in 1..P!Made(t) : AstrayAt(t, k)
  BY DEF Astray
<1>4. \A j \in 1..P!Made(t) :
          /\ P!Rows(t)'[j].frame = P!Rows(t)[j].frame
          /\ P!Rows(t)[j].nStatus => P!Rows(t)'[j].nStatus /\ P!CopiesOf(t)'[j] = P!CopiesOf(t)[j]
  BY <1>1 DEF P!RowsGrow
<1>5. Len(out[t]) \in Nat /\ out' = out /\ Sending' = Sending
  BY CarriedTypes, SameScripts DEF vars
<1> QED BY <1>2, <1>3, <1>4, <1>5, StaysAstray

\* GetFile takes a header only when more than the header is there, so the row of
\* the last entry is made only if something follows its header.
LastFollowed(t) ==
    P!Made(t) = Len(out[t]) /\ out[t] # <<>> => Sending[t][Len(out[t])].sent > P!HeaderSize

Followed == \A t \in Threads : Astray(t) \/ LastFollowed(t)

LEMMA SendFollows == ASSUME Carried, Followed, Sends PROVE Followed'
<1> SUFFICES ASSUME NEW t \in Threads, ~Astray(t) PROVE LastFollowed(t)'
  BY SendStaysAstray DEF Followed
<1>1. /\ OnTrack(t) /\ LastFollowed(t) /\ P!Core(t)
      /\ Delivered /\ [Next]_vars
  BY DEF Carried, Followed, OnTrack, P!Copying, P!InOrder, Sends
<1>2. /\ out[t] \in Seq(Header) /\ Len(out[t]) \in Nat /\ Sending[t] = Aims(out[t]) /\ P!Made(t) \in Nat
      /\ Sending'[t] = Aims(out'[t]) /\ P!Made(t) <= Len(out[t]) /\ P!HeaderSize \in Nat
  BY <1>1, PAssumption, P!HeaderSizeIs, CarriedTypes DEF Sending, P!Core, P!RowsRight
<1>3. P!Made(t)' = P!Made(t) /\ P!HeaderSize' = P!HeaderSize
  BY PAssumption, P!SameRowsIfUnchanged DEF P!SameRows, P!Made, Sends, receiverVars, P!HeaderSize
<1>4. CASE out'[t] = out[t]
  BY <1>1, <1>2, <1>3, <1>4 DEF LastFollowed
<1>5. CASE \E f \in Seq(Header), h \in Header :
              out[t] = Append(f, h) /\ h.head = "whole" /\ out'[t] = Append(f, Longer(h))
  <2>1. PICK f \in Seq(Header), h \in Header :
           out[t] = Append(f, h) /\ h.head = "whole" /\ out'[t] = Append(f, Longer(h))
    BY <1>5
  <2> DEFINE n == Len(f) + 1
  <2>2. /\ Longer(h) \in Header /\ n \in Nat \ {0} /\ Len(out[t]) = n /\ Len(out'[t]) = n
        /\ out[t][n] = h /\ out'[t][n] = Longer(h) /\ out'[t] \in Seq(Header) /\ out[t] # <<>>
    BY <1>2, <2>1, LongerIs, AppendProperties, LenProperties, EmptySeq
  <2>3. Sending[t][n] = Aim(h) /\ Sending'[t][n] = Aim(Longer(h))
    BY <1>2, <2>2, ScriptsAre
  <2>4. Aim(h).sent \in Nat /\ Aim(Longer(h)).sent \in Nat /\ Aim(Longer(h)).sent >= Aim(h).sent
    <3>1. Aim(h) \in P!Frame /\ Aim(Longer(h)) \in P!Frame
      BY <2>2, FramesAre
    <3> QED BY <2>1, <3>1, AimGrows DEF P!Frame
  <2> HIDE DEF n
  <2> QED BY <1>1, <1>2, <1>3, <2>2, <2>3, <2>4 DEF LastFollowed
<1>6. CASE \E g \in Header : out'[t] = Append(out[t], g)
  <2>1. Len(out'[t]) = Len(out[t]) + 1
    BY <1>2, <1>6, AppendProperties
  <2> QED BY <1>2, <1>3, <2>1 DEF LastFollowed
<1> QED BY <1>1, <1>4, <1>5, <1>6, OutSteps

LEMMA ReceiveFollows ==
    ASSUME Carried, Followed, UNCHANGED vars, P!Completion \/ P!Handler \/ P!OnTimer
    PROVE  Followed'
<1> SUFFICES ASSUME NEW t \in Threads, ~Astray(t) PROVE LastFollowed(t)'
  BY ReceiveStaysAstray DEF Followed
<1>1. OnTrack(t) /\ P!Healthy(t) /\ LastFollowed(t)
  BY DEF Carried, Followed, OnTrack
<1>2. /\ out' = out /\ Sending' = Sending /\ P!HeaderSize' = P!HeaderSize
      /\ Len(Sending[t]) = Len(out[t]) /\ Len(out[t]) \in Nat /\ P!Made(t) \in Nat
  BY SameScripts, CarriedTypes DEF vars, P!HeaderSize
<1>3. P!RowsGrow(t)
  <2>1. [P!Next]_(P!vars)
    BY DEF P!Next
  <2> QED BY <2>1, PAssumption, CarriedTypes, P!RowsGrowStep
<1>4. CASE P!Made(t)' = P!Made(t)
  BY <1>1, <1>2, <1>4 DEF LastFollowed
<1>5. CASE P!GetFileHeader /\ t = cur /\ P!Made(t)' = P!Made(t) + 1
  <2>1. P!Made(t)' = Len(out[t]) => Sending[t][P!Made(t) + 1].sent > P!HeaderSize
    <3>1. pc = "getfile" /\ P!HeaderReady /\ P!Copying /\ P!Healthy(cur)
      BY <1>1, <1>5 DEF P!GetFileHeader, P!Inside, Carried
    <3> QED BY <1>2, <1>5, <3>1, PAssumption, P!NextFrameIsLonger
  <2> QED BY <1>2, <1>5, <2>1 DEF LastFollowed
<1> QED BY <1>3, <1>4, <1>5 DEF P!RowsGrow

\* When the connection is empty, what is to come has been read.
LEMMA NothingOnTheWay ==
    ASSUME Carried, NEW t \in Threads, wire[t] = <<>>
    PROVE  P!ToCome(t) = P!Ahead(t)
<1>1. P!Flow(<<>>) = <<>> /\ [u \in Threads |-> <<>>][t] = <<>>
  BY PAssumption, P!FlowEmpty
<1>2. P!Ahead(t) \in Seq(P!Cells)
  BY CarriedTypes, PAssumption, P!AheadType
<1>3. <<>> \o <<>> = <<>>
  BY EmptySeq, ConcatEmptySeq
<1>4. P!ToCome(t) = P!Ahead(t) \o <<>>
  BY <1>1, <1>3 DEF P!ToCome
<1> QED BY <1>2, <1>4, ConcatEmptySeq

\* What a connection has shown that is served to its end without a failure: all
\* its files, but for an empty one at its end.
LEMMA ServedWhole ==
    ASSUME Carried, EndSeen, Followed, NEW t \in Threads, link[t] = "closed",
           Intact(t, Len(out[t]))
    PROVE  /\ P!Made(t) = IF t \in LastEmpty THEN Len(out[t]) - 1 ELSE Len(out[t])
           /\ \A j \in 1..P!Made(t) :
                 /\ j \in 1..Len(out[t]) /\ items[RowsOf(t)[j]].nStatus
                 /\ items[RowsOf(t)[j]].frame = Receiver!HeaderOf(FrameOf(out[t][j]))
<1> DEFINE n == Len(out[t])
<1>1. /\ out[t] \in Seq(Header) /\ n \in Nat /\ Sending[t] = Aims(out[t]) /\ P!Made(t) \in Nat
      /\ Sending[t] \in Seq(P!Frame) /\ Len(Sending[t]) = n /\ P!TypeOK /\ P!Placed /\ P!Owned
  BY CarriedTypes
<1>2. \A j \in 1..n : out[t][j].head = "whole" /\ out[t][j].sent = out[t][j].nFileSize
  BY DEF Intact
<1>3. \A j \in 1..n : P!IsWhole(Sending[t][j])
  BY <1>1, <1>2, EntryIs
<1>4. ~Astray(t)
  <2>1. ASSUME NEW k \in 1..P!Made(t), AstrayAt(t, k) PROVE FALSE
    BY <1>1, <1>3, <2>1 DEF AstrayAt
  <2> QED BY <2>1 DEF Astray
<1>5. OnTrack(t) /\ LastFollowed(t) /\ P!Core(t) /\ P!Drained(t)
  BY <1>4 DEF Carried, Followed, OnTrack, P!Copying, P!InOrder
<1>6. P!Stage(t) = "idle"
  BY <1>1 DEF P!Owned, P!Counted, P!Serving, P!Stage
<1>7. P!Expected(t) = P!Ahead(t)
  <2>1. P!ToCome(t) = P!Ahead(t)
    BY NothingOnTheWay DEF EndSeen
  <2>2. Missing(out[t]) = <<>>
    <3>1. CASE out[t] = <<>>
      BY <3>1 DEF Missing
    <3>2. CASE out[t] # <<>>
      <4>1. n \in 1..n /\ out[t][n] \in Header
        BY <1>1, <3>2, EmptySeq, ElementOfSeq
      <4>2. PICK h \in Header : h = out[t][n]
        BY <4>1
      <4>3. h.head = "whole" /\ h.sent = h.nFileSize /\ ~Over(h)
        BY <1>2, <4>1, <4>2, FramesAre DEF Over
      <4>4. FrameOf(h).sent = Aim(h).sent
        BY <4>3, FramesAre
      <4> QED BY <3>2, <4>2, <4>4, AimIs DEF Missing
    <3> QED BY <3>1, <3>2
  <2>3. P!Ahead(t) \in Seq(P!Cells)
    BY <1>1, PAssumption, P!AheadType
  <2> QED BY <1>5, <2>1, <2>2, <2>3, ConcatEmptySeq DEF OnTrack
<1>8. /\ ~P!Filling(t)
      /\ P!Made(t) # n => P!Made(t) + 1 = n /\ Sending[t][n].nFileSize = 0
  BY <1>1, <1>3, <1>5, <1>6, <1>7, PAssumption, P!ServedToTheEnd
<1>9. out[t] # <<>> => /\ n \in 1..n /\ Last(out[t]) = out[t][n]
                       /\ Sending[t][n].nFileSize = out[t][n].nFileSize
  <2>1. ASSUME out[t] # <<>> PROVE n \in 1..n
    BY <1>1, <2>1, EmptySeq
  <2>2. ASSUME out[t] # <<>> PROVE Sending[t][n] = Aim(out[t][n]) /\ out[t][n] \in Header
    BY <1>1, <2>1, <2>2, ScriptsAre
  <2> QED BY <2>1, <2>2, FramesAre DEF Last
<1>10. P!Made(t) # n => t \in LastEmpty
  <2>1. P!Made(t) # n => out[t] # <<>>
    BY <1>1, <1>8, EmptySeq
  <2> QED BY <1>8, <1>9, <2>1 DEF LastEmpty
<1>11. P!Made(t) = n => t \notin LastEmpty
  <2>1. ASSUME P!Made(t) = n, t \in LastEmpty PROVE FALSE
    <3>1. out[t] # <<>> /\ Sending[t][n].nFileSize = 0
      BY <1>9, <2>1 DEF LastEmpty
    <3>2. Sending[t][n].sent > P!HeaderSize
      BY <1>5, <2>1, <3>1 DEF LastFollowed
    <3>3. Sending[t][n].sent = P!HeaderSize + 0 /\ P!HeaderSize \in Nat
      BY <1>3, <1>9, <3>1, PAssumption, P!HeaderSizeIs DEF P!IsWhole
    <3> QED BY <3>2, <3>3
  <2> QED BY <2>1
<1>12. P!Made(t) = IF t \in LastEmpty THEN n - 1 ELSE n
  <2>1. CASE P!Made(t) = n
    BY <1>11, <2>1
  <2>2. CASE P!Made(t) # n
    <3>1. \A a, b \in Nat : a + 1 = b => a = b - 1
      OBVIOUS
    <3>2. P!Made(t) = n - 1
      BY <1>1, <1>8, <2>2, <3>1
    <3> QED BY <1>10, <2>2, <3>2
  <2> QED BY <2>1, <2>2
<1>13. ASSUME NEW j \in 1..P!Made(t)
       PROVE  /\ j \in 1..n /\ items[RowsOf(t)[j]].nStatus
              /\ items[RowsOf(t)[j]].frame = Receiver!HeaderOf(FrameOf(out[t][j]))
  <2>1. P!Rows(t)[j].nStatus
    BY <1>5, <1>8 DEF P!Core, P!RowsRight
  <2> QED BY <1>5, <2>1, TrueRow, RowIs
<1> QED BY <1>12, <1>13

\* When all that was sent on a connection has been read, what SendFile answered true
\* for is saved.
LEMMA ServedSaves == ASSUME Carried PROVE SentIsSaved
<1> SUFFICES ASSUME NEW t \in Threads, wire[t] = <<>>, pc = "idle", NEW i \in DOMAIN out[t], Sent(t, i)
             PROVE  Saved(t, i)
  BY DEF SentIsSaved
<1> DEFINE n == Len(out[t])
           m == Missing(out[t])
<1>1. /\ out[t] \in Seq(Header) /\ n \in Nat /\ i \in 1..n /\ i \in Nat
      /\ Sending[t] = Aims(out[t]) /\ Sending[t] \in Seq(P!Frame) /\ Len(Sending[t]) = n
      /\ P!Made(t) \in Nat /\ P!TypeOK /\ P!Owned
  BY CarriedTypes, LenProperties
<1>2. Intact(t, i) /\ (out[t][i].nFileSize > 0 \/ i < n)
  BY DEF Sent
<1>3. \A j \in 1..i : j \in 1..n /\ P!IsWhole(Sending[t][j])
  <2>1. ASSUME NEW j \in 1..i PROVE j \in 1..n
    BY <1>1
  <2> QED BY <1>1, <1>2, <2>1, EntryIs DEF Intact
<1>4. ASSUME i <= P!Made(t), P!Rows(t)[i].nStatus PROVE Saved(t, i)
  <2>1. i \in 1..P!Made(t) /\ i \in DOMAIN RowsOf(t) /\ items[RowsOf(t)[i]].nStatus
    BY <1>1, <1>4, RowIs
  <2>2. Intact(t, i - 1)
    BY <1>1, <1>2 DEF Intact
  <2>3. i <= Len(out[t])
    BY <1>1
  <2> QED BY <1>2, <2>1, <2>2, <2>3, CarriedSaves DEF RowsAreSent
<1>5. CASE Astray(t)
  <2>1. PICK k \in 1..P!Made(t) : AstrayAt(t, k)
    BY <1>5 DEF Astray
  <2>2. i \in 1..(k - 1) /\ i <= P!Made(t)
    <3>1. ~(k <= i)
      BY <1>3, <2>1 DEF AstrayAt
    <3> QED BY <1>1, <2>1, <3>1
  <2> QED BY <1>4, <2>1, <2>2 DEF AstrayAt
<1>6. CASE OnTrack(t)
  <2>1. P!Core(t) /\ P!Drained(t) /\ P!Stage(t) = "idle"
    BY <1>6 DEF OnTrack, Carried, P!Copying, P!InOrder, P!Stage
  <2>2. P!Expected(t) = P!Ahead(t) \o m
    BY <1>6, NothingOnTheWay DEF OnTrack
  <2>3. n \in 1..n /\ out[t] # <<>> /\ out[t][n] \in Header
    BY <1>1, EmptySeq, ElementOfSeq
  <2>4. PICK h \in Header : h = out[t][n]
    BY <2>3
  <2>5. m = Lacking(h) /\ m \in Seq(P!Cells) /\ Sending[t][n] = Aim(h)
    BY <1>1, <2>3, <2>4, AimIs, ScriptsAre DEF Missing
  <2>6. Len(m) < Sending[t][n].sent
    <3>1. /\ FrameOf(h).sent \in Nat \ {0} /\ Aim(h).sent \in Nat /\ FrameOf(h).sent <= Aim(h).sent
          /\ FrameOf(h) \in P!Frame
      <4>1. FrameOf(h) \in P!Frame /\ Aim(h) \in P!Frame /\ FrameOf(h).sent <= Aim(h).sent
        BY FramesAre
      <4>2. FrameOf(h).sent \in Nat \ {0} /\ Aim(h).sent \in Nat \ {0}
        BY <4>1, PAssumption, P!FrameLength, EmptySeq
      <4> QED BY <4>1, <4>2
    <3>2. Len(P!Cut(FrameOf(h), FrameOf(h).sent, Aim(h).sent)) = Aim(h).sent - FrameOf(h).sent
      <4>1. \A a, b \in Nat : a <= b => Len(P!Cut(FrameOf(h), a, b)) = b - a
        BY <3>1, PAssumption, P!CutType
      <4> QED BY <3>1, <4>1
    <3>3. Len(m) = Aim(h).sent - FrameOf(h).sent
      BY <2>5, <3>2 DEF Lacking
    <3> HIDE DEF m
    <3> QED BY <2>5, <3>1, <3>3
  <2>7. ASSUME i = n PROVE m = <<>> /\ Sending[t][i].nFileSize > 0
    <3>1. h.head = "whole" /\ h.sent = h.nFileSize /\ h.nFileSize > 0 /\ h.nFileSize \in Nat
      BY <1>1, <1>2, <2>4, <2>7, FramesAre DEF Intact
    <3>2. ~Over(h)
      BY <3>1 DEF Over
    <3>3. FrameOf(h).sent = Aim(h).sent /\ Aim(h).nFileSize = h.nFileSize
      BY <3>1, <3>2, FramesAre
    <3> QED BY <2>5, <2>7, <3>1, <3>3, AimIs
  <2>8. /\ Len(m) < Len(P!FilesLeft(t, n - 1))
        /\ i = n => Len(m) <= Len(P!FilesLeft(t, n)) /\ Sending[t][i].nFileSize > 0
    <3>1. n - 1 \in 0..(n - 1) /\ (n - 1) + 1 = n
      BY <1>1
    <3>2. /\ Sending[t][n] \in P!Frame /\ P!FilesLeft(t, n) = <<>>
          /\ P!FilesLeft(t, n - 1) = P!FrameCells(Sending[t][n]) \o P!FilesLeft(t, n)
      BY <1>1, <3>1, PAssumption, P!FilesLeftAre
    <3>3. /\ Len(P!FrameCells(Sending[t][n]) \o <<>>) = Sending[t][n].sent + Len(<<>>)
      BY <3>2, PAssumption, P!FrameLength, EmptySeq
    <3>4. Len(<<>>) = 0 /\ Sending[t][n].sent \in Nat
      BY <3>2 DEF P!Frame
    <3> HIDE DEF m
    <3> QED BY <2>6, <2>7, <3>2, <3>3, <3>4
  <2> HIDE DEF m
  <2>9. i <= P!Made(t) /\ (i = P!Made(t) => ~P!Filling(t))
    BY <1>1, <1>3, <2>1, <2>2, <2>3, <2>5, <2>8, PAssumption, P!ServedSoFar
  <2>10. P!Rows(t)[i].nStatus
    <3>1. i \in 1..P!Made(t) /\ (i < P!Made(t) \/ ~P!Filling(t))
      BY <1>1, <2>9
    <3> QED BY <2>1, <3>1 DEF P!Core, P!RowsRight
  <2> QED BY <1>4, <2>9, <2>10
<1> QED BY <1>5, <1>6 DEF Carried

\* All connections are served, and nothing failed on them.
AllServed == \A t \in Threads : link[t] = "closed" /\ Intact(t, Len(out[t]))

\* A row when all is served, and the entry it was made for.
IsRowOf(i, t, j) ==
    /\ j \in 1..P!Made(t) /\ j \in 1..Len(out[t])
    /\ i \in DOMAIN items /\ RowsOf(t)[j] = i
    /\ items[i].nStatus
    /\ items[i].frame.file = out[t][j].file /\ items[i].frame.counts["Decrypt"] = out[t][j].count

LEMMA EntryHasRow ==
    ASSUME Carried, EndSeen, Followed, AllServed, NEW t \in Threads, NEW j \in 1..P!Made(t)
    PROVE  IsRowOf(RowsOf(t)[j], t, j)
<1>1. /\ j \in 1..Len(out[t]) /\ items[RowsOf(t)[j]].nStatus
      /\ items[RowsOf(t)[j]].frame = Receiver!HeaderOf(FrameOf(out[t][j]))
  BY ServedWhole DEF AllServed
<1>2. RowsOf(t)[j] \in DOMAIN items
  <2>1. RowsOf(t) = P!RowsIn(t)
    BY RowIs
  <2>2. P!RowsIn(t)[j] \in 1..Len(items)
    BY CarriedTypes DEF P!Listed, P!Made
  <2> QED BY <2>1, <2>2, CarriedTypes, PAssumption, P!RowIndexes
<1>3. \A h : /\ Receiver!HeaderOf(FrameOf(h)).file = h.file
             /\ Receiver!HeaderOf(FrameOf(h)).counts["Decrypt"] = h.count
  BY DEF Receiver!HeaderOf, FrameOf
<1> QED BY <1>1, <1>2, <1>3 DEF IsRowOf

LEMMA RowHasEntry ==
    ASSUME Carried, EndSeen, Followed, AllServed, NEW i \in DOMAIN items
    PROVE  \E t \in Threads : \E j \in 1..Len(out[t]) : IsRowOf(i, t, j)
<1> DEFINE t == items[i].conn
<1>1. t \in Threads
  <2>1. items[i] \in P!FileItem
    BY CarriedTypes, PAssumption, P!RowIndexes
  <2> QED BY <2>1 DEF P!FileItem
<1>2. PICK j \in 1..P!Made(t) : P!RowsIn(t)[j] = i
  BY CarriedTypes, PAssumption, P!EveryRowListed
<1> HIDE DEF t
<1>3. IsRowOf(i, t, j)
  BY <1>1, <1>2, EntryHasRow, RowIs
<1> QED BY <1>1, <1>3 DEF IsRowOf

\* The empty files that came last on their connections.
EmptyEnds == {Last(out[t]).file : t \in LastEmpty}

LEMMA LastEmptyIs ==
    ASSUME Carried, NEW t \in LastEmpty
    PROVE  t \in Threads /\ Len(out[t]) \in 1..Len(out[t]) /\ Last(out[t]) = out[t][Len(out[t])]
<1>1. t \in Threads /\ out[t] # <<>>
  BY DEF LastEmpty
<1> QED BY <1>1, CarriedTypes, EmptySeq DEF Last

\* A file has one entry.
LEMMA OneEntry ==
    ASSUME Carried, NEW t \in Threads, NEW j \in 1..Len(out[t]),
           NEW u \in Threads, NEW k \in 1..Len(out[u])
    PROVE  /\ out[t][j].file \in Files
           /\ out[t][j].file = out[u][k].file => t = u /\ j = k
<1>1. /\ DOMAIN out[t] = 1..Len(out[t]) /\ DOMAIN out[u] = 1..Len(out[u])
      /\ OneHeader /\ TypeOK
  BY CarriedTypes, LenProperties DEF Carried, Delivered
<1> QED BY <1>1, HeaderFacts DEF OneHeader

LEMMA EmptyEndsCount ==
    ASSUME Carried
    PROVE  IsFiniteSet(EmptyEnds) /\ Cardinality(EmptyEnds) = Cardinality(LastEmpty) /\ EmptyEnds \subseteq Files
<1> DEFINE h == [t \in LastEmpty |-> Last(out[t]).file]
<1>1. IsFiniteSet(LastEmpty)
  BY SendPoolAssumption, FS_Subset DEF LastEmpty
<1>2. h \in [LastEmpty -> EmptyEnds] /\ \A f \in EmptyEnds : \E t \in LastEmpty : h[t] = f
  BY DEF EmptyEnds
<1>3. \A t, u \in LastEmpty : h[t] = h[u] => t = u
  BY LastEmptyIs, OneEntry
<1>4. h \in Bijection(LastEmpty, EmptyEnds)
  <2> HIDE DEF h
  <2> QED BY <1>2, <1>3 DEF Bijection, Injection, Surjection, IsInjective
<1>5. ExistsBijection(LastEmpty, EmptyEnds)
  BY <1>4 DEF ExistsBijection
<1>6. EmptyEnds \subseteq Files
  <2>1. \A t \in LastEmpty : Last(out[t]).file \in Files
    BY LastEmptyIs, OneEntry
  <2> QED BY <2>1 DEF EmptyEnds
<1> QED BY <1>1, <1>5, <1>6, FS_Bijection

LEMMA RowsAreFiles ==
    ASSUME Carried, EndSeen, Followed, AllServed, \A f \in Files : fate[f] = "sent"
    PROVE  ExistsBijection(DOMAIN items, Files \ EmptyEnds)
<1> DEFINE g == [i \in DOMAIN items |-> items[i].frame.file]
<1>1. ASSUME NEW i \in DOMAIN items PROVE g[i] \in Files \ EmptyEnds
  <2>1. PICK t \in Threads : \E j \in 1..Len(out[t]) : IsRowOf(i, t, j)
    BY RowHasEntry
  <2>2. PICK j \in 1..Len(out[t]) : IsRowOf(i, t, j)
    BY <2>1
  <2>3. g[i] = out[t][j].file /\ g[i] \in Files
    BY <2>2, OneEntry DEF IsRowOf
  <2>4. ASSUME NEW u \in LastEmpty, Last(out[u]).file = out[t][j].file PROVE FALSE
    <3>1. u = t /\ j = Len(out[t])
      BY <2>4, LastEmptyIs, OneEntry
    <3>2. P!Made(t) = Len(out[t]) - 1
      BY <2>4, <3>1, ServedWhole DEF AllServed
    <3> QED BY <2>2, <3>1, <3>2, CarriedTypes DEF IsRowOf
  <2> QED BY <2>3, <2>4 DEF EmptyEnds
<1>2. ASSUME NEW i \in DOMAIN items, NEW k \in DOMAIN items, g[i] = g[k] PROVE i = k
  <2>1. PICK t \in Threads : \E j \in 1..Len(out[t]) : IsRowOf(i, t, j)
    BY RowHasEntry
  <2>2. PICK j \in 1..Len(out[t]) : IsRowOf(i, t, j)
    BY <2>1
  <2>3. PICK u \in Threads : \E l \in 1..Len(out[u]) : IsRowOf(k, u, l)
    BY RowHasEntry
  <2>4. PICK l \in 1..Len(out[u]) : IsRowOf(k, u, l)
    BY <2>3
  <2>5. t = u /\ j = l
    BY <1>2, <2>2, <2>4, OneEntry DEF IsRowOf
  <2> QED BY <2>2, <2>4, <2>5 DEF IsRowOf
<1>3. ASSUME NEW f \in Files \ EmptyEnds PROVE \E i \in DOMAIN items : g[i] = f
  <2>1. PICK t \in Threads : \E j \in DOMAIN out[t] : out[t][j].file = f
    BY DEF Carried, Delivered, SentIsOut
  <2>2. PICK j \in 1..Len(out[t]) : out[t][j].file = f
    BY <2>1, CarriedTypes, LenProperties
  <2>3. t \in LastEmpty => j # Len(out[t])
    BY <1>3, <2>2, LastEmptyIs DEF EmptyEnds
  <2>4. j \in 1..P!Made(t)
    BY <2>3, CarriedTypes, ServedWhole DEF AllServed
  <2>5. IsRowOf(RowsOf(t)[j], t, j)
    BY <2>4, EntryHasRow
  <2> QED BY <2>2, <2>5 DEF IsRowOf
<1>4. g \in [DOMAIN items -> Files \ EmptyEnds]
  BY <1>1
<1>5. g \in Bijection(DOMAIN items, Files \ EmptyEnds)
  <2> HIDE DEF g
  <2> QED BY <1>2, <1>3, <1>4 DEF Bijection, Injection, Surjection, IsInjective
<1> QED BY <1>5 DEF ExistsBijection

LEMMA SavedNumber ==
    ASSUME Carried, EndSeen, Followed, AllServed, P!SavedCount, \A f \in Files : fate[f] = "sent"
    PROVE  m_nSavedFiles = NFiles - Cardinality(LastEmpty)
<1>1. /\ DOMAIN items = 1..Len(items) /\ Len(items) \in Nat /\ IsFiniteSet(1..Len(items))
      /\ Files = 1..NFiles /\ NFiles \in Nat /\ IsFiniteSet(Files) /\ Cardinality(Files) = NFiles
  <2>1. DOMAIN items = 1..Len(items) /\ Len(items) \in Nat
    BY CarriedTypes, PAssumption, P!RowIndexes
  <2>2. \A n \in Nat : IsFiniteSet(1..n) /\ Cardinality(1..n) = n
    <3>1. ASSUME NEW n \in Nat PROVE IsFiniteSet(1..n) /\ Cardinality(1..n) = n
      <4>1. IsFiniteSet(1..n) /\ Cardinality(1..n) = IF 1 > n THEN 0 ELSE n - 1 + 1
        BY FS_Interval
      <4> QED BY <4>1
    <3> QED BY <3>1
  <2> QED BY <2>1, <2>2, SendPoolAssumption DEF Files
<1>2. {i \in DOMAIN items : items[i].nStatus} = DOMAIN items
  BY RowHasEntry DEF IsRowOf
<1>3. m_nSavedFiles = Cardinality(DOMAIN items)
  BY <1>2, SameCardinality DEF P!SavedCount
<1>4. Cardinality(Files \ EmptyEnds) = Cardinality(DOMAIN items)
  BY <1>1, RowsAreFiles, FS_Bijection
<1>5. Files \cap EmptyEnds = EmptyEnds
  BY EmptyEndsCount
<1>6. Cardinality(Files \ EmptyEnds) = NFiles - Cardinality(LastEmpty)
  <2>1. Cardinality(Files \ EmptyEnds) = Cardinality(Files) - Cardinality(Files \cap EmptyEnds)
    BY <1>1, FS_Difference
  <2> QED BY <1>1, <1>5, <2>1, EmptyEndsCount
<1> QED BY <1>3, <1>4, <1>6

LEMMA DecryptNumber ==
    ASSUME Carried, EndSeen, Followed, AllServed, P!Largest, CountsIncrease, CountAhead, CountReaches,
           \A f \in Files : fate[f] = "sent", LastEmpty = {}
    PROVE  m_nCounts["Decrypt"] = m_nSendFiles
<1>1. /\ TypeOK /\ Owned /\ m_nSendFiles \in Nat /\ "Decrypt" \in P!Counter
      /\ m_nCounts["Decrypt"] \in Nat
  BY CarriedTypes DEF Carried, Delivered, TypeOK, P!TypeOK, P!Counter
<1>2. /\ m_nCounts["Decrypt"] = 0
         \/ \E i \in DOMAIN items : items[i].frame.counts["Decrypt"] = m_nCounts["Decrypt"]
      /\ \A i \in DOMAIN items : items[i].frame.counts["Decrypt"] <= m_nCounts["Decrypt"]
  BY <1>1 DEF P!Largest, P!IsLargest
<1>3. ASSUME NEW i \in DOMAIN items PROVE items[i].frame.counts["Decrypt"] <= m_nSendFiles
  <2>1. PICK t \in Threads : \E j \in 1..Len(out[t]) : IsRowOf(i, t, j)
    BY RowHasEntry
  <2>2. PICK j \in 1..Len(out[t]) : IsRowOf(i, t, j)
    BY <2>1
  <2>3. DOMAIN out[t] = 1..Len(out[t])
    BY CarriedTypes, LenProperties
  <2> QED BY <2>2, <2>3 DEF IsRowOf, CountsIncrease
<1>4. m_nCounts["Decrypt"] <= m_nSendFiles
  BY <1>1, <1>2, <1>3
<1>5. ASSUME m_nSendFiles > 0 PROVE m_nSendFiles <= m_nCounts["Decrypt"]
  <2>1. CountArrived
    BY <1>1, <1>5, AllSentCount DEF Counted, Owned
  <2>2. PICK t \in Threads : \E j \in DOMAIN out[t] : out[t][j].count = m_nSendFiles
    BY <2>1 DEF CountArrived
  <2>3. PICK j \in 1..Len(out[t]) : out[t][j].count = m_nSendFiles
    BY <2>2, CarriedTypes, LenProperties
  <2>4. P!Made(t) = Len(out[t])
    BY ServedWhole DEF AllServed
  <2>5. IsRowOf(RowsOf(t)[j], t, j)
    BY <2>4, EntryHasRow
  <2> QED BY <1>2, <2>3, <2>5 DEF IsRowOf
<1> QED BY <1>1, <1>4, <1>5

-----------------------------------------------------------------------------
(* The invariant of NumbersAgree.  That of SavedAsSent is its first part,  *)
(* and those of the counts hold of every step of the two programs on their *)
(* own.                                                                    *)

Agreeing ==
    /\ Carried /\ EndSeen /\ Followed
    /\ P!SavedCount /\ P!Largest
    /\ CountsIncrease /\ CountAhead /\ CountReaches

LEMMA AgreeingStart == TransferInit => Agreeing
<1> SUFFICES ASSUME TransferInit PROVE Agreeing
  OBVIOUS
<1>1. Carried
  BY CarriedStart
<1>2. EndSeen /\ Followed
  <2>1. \A t \in Threads : out[t] = <<>> /\ link[t] = "pending"
    BY DEF TransferInit, Init
  <2> QED BY <2>1 DEF EndSeen, Followed, LastFollowed, TransferInit
<1>3. P!SavedCount /\ P!Largest
  <2>1. /\ items = <<>> /\ DOMAIN items = {} /\ m_nSavedFiles = 0
        /\ m_nCounts = [k \in P!Counter |-> 0]
    BY DEF TransferInit, P!Counter, Receiver!Counter
  <2>2. {i \in DOMAIN items : items[i].nStatus} = {}
    BY <2>1
  <2>3. P!SavedCount
    BY <2>1, <2>2, SameCardinality, FS_EmptySet DEF P!SavedCount
  <2> QED BY <2>1, <2>3 DEF P!Largest, P!IsLargest
<1>4. CountsIncrease /\ CountAhead /\ CountReaches
  BY DEF TransferInit, Init, CountsIncrease, CountAhead, CountReaches
<1> QED BY <1>1, <1>2, <1>3, <1>4 DEF Agreeing

LEMMA AgreeingStep == ASSUME Agreeing, [TransferNext]_allVars PROVE Agreeing'
<1>1. Carried /\ Carried' /\ Owned /\ Counted /\ P!Owned
  BY CarriedStep, CarriedTypes DEF Agreeing, Carried, Delivered, Owned, Counted
<1>2. /\ [Next]_vars
      /\ Sends \/ (UNCHANGED vars /\ (Completion \/ Receiver!Handler \/ Receiver!OnTimer))
  BY <1>1, StepsAre DEF Sends
<1>3. CountsIncrease' /\ CountAhead' /\ CountReaches'
  BY <1>1, <1>2, CountsStep, CountAheadStep, CountReachesStep DEF Agreeing, Counted
<1>4. CASE Sends
  <2>1. EndSeen' /\ Followed'
    BY <1>4, SendKeepsEnds, SendFollows DEF Agreeing
  <2>2. UNCHANGED <<items, m_nSavedFiles, m_nCounts>> /\ P!SavedCount /\ P!Largest
    BY <1>4 DEF Sends, receiverVars, Agreeing
  <2>3. P!SavedCount' /\ P!Largest'
    BY <2>2 DEF P!SavedCount, P!Largest, P!IsLargest
  <2> QED BY <1>1, <1>3, <2>1, <2>3 DEF Agreeing
<1>5. CASE UNCHANGED vars /\ (Completion \/ Receiver!Handler \/ Receiver!OnTimer)
  <2>1. P!Completion \/ P!Handler \/ P!OnTimer
    BY <1>5, ReceivesAre
  <2>2. EndSeen' /\ Followed'
    BY <1>5, <2>1, ReceiveKeepsEnds, ReceiveFollows DEF Agreeing
  <2>3. [P!Next]_(P!vars)
    BY <2>1 DEF P!Next
  <2>4. P!SavedCount' /\ P!Largest'
    BY <1>1, <2>3, PAssumption, P!SavedCountStep, P!LargestStep DEF Agreeing, P!Owned, P!Counted
  <2> QED BY <1>1, <1>3, <2>2, <2>4 DEF Agreeing
<1> QED BY <1>2, <1>4, <1>5

\* SavedAsSent holds of the whole copy: any number of threads and files, of any
\* size, whatever the reads return and whichever Sends and Reads fail.
THEOREM SavedAsSentAlways == TransferSpec => []SavedAsSent
<1>1. Carried => SavedAsSent
  BY CarriedSaves, ServedSaves DEF SavedAsSent
<1> QED BY <1>1, CarriedStart, CarriedStep, PTL DEF TransferSpec

\* NumbersAgree holds of the whole copy: any number of threads and files, of any
\* size, however the files are shared out and the reads cut the streams.
THEOREM NumbersAgreeAlways == TransferSpec => []NumbersAgree
<1>1. Agreeing => NumbersAgree
  BY SavedNumber, DecryptNumber DEF Agreeing, NumbersAgree, AllServed
<1> QED BY <1>1, AgreeingStart, AgreeingStep, PTL DEF TransferSpec
=============================================================================
