-------------------------- MODULE DataBufferProofs --------------------------
(***************************************************************************)
(* DataBuffer implements TarArchive, for all sizes of chunks, buffers and  *)
(* blocks and whatever fails of the temporary file: BufferInv is an        *)
(* inductive invariant, and under it every step is a step of TarArchive or *)
(* changes nothing that TarArchive knows of.                               *)
(***************************************************************************)
EXTENDS DataBuffer, Integers, Sequences, FiniteSetsExt, Functions, SequenceTheorems, FiniteSetTheorems, TLAPS

-----------------------------------------------------------------------------
(* Sets, numbers and sequences.                                            *)

\* Adding at the end of a list: one more
\* element, and no duplicate if it is new.
LEMMA AppendFacts ==
  ASSUME NEW S, NEW s \in Seq(S), NEW e \in S
  PROVE  /\ Append(s, e) \in Seq(S)
         /\ Range(Append(s, e)) = Range(s) \cup {e}
         /\ IsInjective(s) /\ e \notin Range(s) => IsInjective(Append(s, e))
<1>1. /\ Len(s) \in Nat /\ DOMAIN s = 1..Len(s)
      /\ Append(s, e) \in Seq(S)
      /\ DOMAIN Append(s, e) = 1..(Len(s) + 1)
      /\ \A i \in 1..Len(s) : Append(s, e)[i] = s[i]
      /\ Append(s, e)[Len(s) + 1] = e
  OBVIOUS
<1>2. \A i \in 1..(Len(s) + 1) : i \in 1..Len(s) \/ i = Len(s) + 1
  BY <1>1
<1>3. 1..Len(s) \subseteq 1..(Len(s) + 1) /\ Len(s) + 1 \in 1..(Len(s) + 1)
  BY <1>1
<1>4. Range(Append(s, e)) = Range(s) \cup {e}
  BY <1>1, <1>2, <1>3 DEF Range
<1>5. ASSUME IsInjective(s), e \notin Range(s)
      PROVE  IsInjective(Append(s, e))
  BY <1>1, <1>2, <1>5 DEF Range, IsInjective
<1> QED
  BY <1>1, <1>4, <1>5

\* A prefix of a sequence is a sequence.
LEMMA PrefixFacts ==
  ASSUME NEW S, NEW s \in Seq(S), NEW n \in 0..Len(s)
  PROVE  /\ SubSeq(s, 1, n) \in Seq(S)
         /\ Len(SubSeq(s, 1, n)) = n
         /\ \A i \in 1..n : SubSeq(s, 1, n)[i] = s[i]
<1>1. \A i \in 1..n : s[i] \in S
  OBVIOUS
<1> QED
  BY <1>1, SubSeqProperties

\* The first part of a concatenation is the first sequence.
LEMMA PrefixOfConcat ==
  ASSUME NEW S, NEW r \in Seq(S), NEW s \in Seq(S)
  PROVE  SubSeq(r \o s, 1, Len(r)) = r
<1>1. /\ r \o s \in Seq(S) /\ Len(r \o s) = Len(r) + Len(s)
      /\ \A i \in 1..Len(r) : (r \o s)[i] = r[i]
  BY ConcatProperties
<1>2. Len(r) \in 0..Len(r \o s)
  BY <1>1
<1>3. /\ SubSeq(r \o s, 1, Len(r)) \in Seq(S)
      /\ Len(SubSeq(r \o s, 1, Len(r))) = Len(r)
      /\ \A i \in 1..Len(r) : SubSeq(r \o s, 1, Len(r))[i] = r[i]
  BY <1>1, <1>2, PrefixFacts
<1> QED
  BY <1>3, SeqEqual

\* Cutting the second of two sequences cuts their concatenation.
LEMMA CutConcat ==
  ASSUME NEW S, NEW r \in Seq(S), NEW s \in Seq(S), NEW n \in 0..Len(s)
  PROVE  r \o SubSeq(s, 1, n) = SubSeq(r \o s, 1, Len(r) + n)
<1> DEFINE h == SubSeq(s, 1, n)
           t == SubSeq(s, n + 1, Len(s))
<1>1. h \in Seq(S) /\ Len(h) = n
  BY PrefixFacts
<1>2. t \in Seq(S)
  <2>1. \A i \in n + 1 .. Len(s) : s[i] \in S
    OBVIOUS
  <2> QED
    BY <2>1, SubSeqProperties
<1>3. h \o t = s
  <2>1. /\ 1 \in 1 .. Len(s) + 1 /\ n \in 1 - 1 .. Len(s)
        /\ Len(s) \in n .. Len(s)
    OBVIOUS
  <2>2. h \o t = SubSeq(s, 1, Len(s))
    BY <2>1, ConcatAdjacentSubSeq, Zenon
  <2> QED
    BY <2>2, SubSeqFull
<1> HIDE DEF h, t
<1>4. (r \o h) \o t = r \o s
  <2>1. (r \o h) \o t = r \o (h \o t)
    BY <1>1, <1>2
  <2> QED
    BY <1>3, <2>1
<1>5. r \o h \in Seq(S) /\ Len(r \o h) = Len(r) + n
  BY <1>1, ConcatProperties
<1>6. SubSeq((r \o h) \o t, 1, Len(r \o h)) = r \o h
  BY <1>2, <1>5, PrefixOfConcat
<1> QED
  BY <1>4, <1>5, <1>6 DEF h

-----------------------------------------------------------------------------
(* The operators of the model.                                             *)

\* The bytes of a file form a sequence; read() continues it, and a limit cuts
\* it.
LEMMA BytesFacts ==
  ASSUME NEW k \in Nat, NEW n \in Nat
  PROVE  /\ Archive!Bytes(k, n) \in Seq(Byte)
         /\ Len(Archive!Bytes(k, n)) = n
<1>1. \A i \in 1..n : <<k, i>> \in Byte
  BY DEF Byte
<1> QED
  BY <1>1 DEF Archive!Bytes

LEMMA InputFacts ==
  ASSUME NEW n \in Nat, TypeOK
  PROVE  /\ Input(n) \in Seq(Byte)
         /\ Len(Input(n)) = n
         /\ Archive!Bytes(Current, delivered) \o Input(n)
              = Archive!Bytes(Current, delivered + n)
<1>1. delivered \in Nat /\ Current \in Nat
  BY DEF TypeOK, Current
<1>2. \A i \in 1..n : <<Current, delivered + i>> \in Byte
  BY <1>1 DEF Byte
<1>3. Input(n) \in Seq(Byte) /\ Len(Input(n)) = n
  BY <1>2 DEF Input
<1> DEFINE l == Archive!Bytes(Current, delivered) \o Input(n)
           r == Archive!Bytes(Current, delivered + n)
<1> HIDE DEF l, r
<1>4. l \in Seq(Byte) /\ Len(l) = delivered + n
  BY <1>1, <1>3, BytesFacts DEF l
<1>5. r \in Seq(Byte) /\ Len(r) = delivered + n
  BY <1>1, BytesFacts DEF r
<1>6. ASSUME NEW i \in 1..(delivered + n)
      PROVE  l[i] = r[i]
  <2>1. r[i] = <<Current, i>>
    BY <1>1 DEF Archive!Bytes, r
  <2>2. CASE i <= delivered
    <3>1. l[i] = Archive!Bytes(Current, delivered)[i]
      BY <1>1, <1>3, <2>2, BytesFacts DEF l
    <3> QED
      BY <1>1, <2>1, <2>2, <3>1 DEF Archive!Bytes
  <2>3. CASE i > delivered
    <3>1. i - delivered \in 1..n /\ delivered + (i - delivered) = i
      BY <1>1, <2>3
    <3>2. l[i] = Input(n)[i - delivered]
      <4>1. /\ Archive!Bytes(Current, delivered) \in Seq(Byte)
            /\ Len(Archive!Bytes(Current, delivered)) = delivered
        BY <1>1, BytesFacts
      <4> QED
        BY <1>1, <1>3, <2>3, <3>1, <4>1, ConcatProperties DEF l
    <3>3. Input(n)[i - delivered] = <<Current, delivered + (i - delivered)>>
      BY <3>1 DEF Input
    <3> QED
      BY <2>1, <3>1, <3>2, <3>3
  <2>4. i <= delivered \/ i > delivered
    BY <1>1
  <2> QED
    BY <2>2, <2>3, <2>4
<1>7. l = r
  BY <1>1, <1>4, <1>5, <1>6, SeqEqual
<1> QED
  BY <1>3, <1>7 DEF l, r

LEMMA BytesCut ==
  ASSUME NEW k \in Nat, NEW n \in Nat, NEW m \in 0..n
  PROVE  SubSeq(Archive!Bytes(k, n), 1, m) = Archive!Bytes(k, m)
<1> DEFINE l == SubSeq(Archive!Bytes(k, n), 1, m)
           r == Archive!Bytes(k, m)
<1>1. Archive!Bytes(k, n) \in Seq(Byte) /\ Len(Archive!Bytes(k, n)) = n
  BY BytesFacts
<1>2. /\ l \in Seq(Byte) /\ Len(l) = m
      /\ \A i \in 1..m : l[i] = Archive!Bytes(k, n)[i]
  BY <1>1, PrefixFacts
<1>3. r \in Seq(Byte) /\ Len(r) = m
  BY BytesFacts
<1>4. \A i \in 1..m : l[i] = r[i]
  BY <1>2 DEF Archive!Bytes
<1> QED
  BY <1>2, <1>3, <1>4, SeqEqual

\* misc_write_data at a position inside the file: the file then starts with
\* what was before the position, followed by what was written.
LEMMA WriteFacts ==
  ASSUME NEW f \in Seq(Byte), NEW p \in 0..Len(f), NEW s \in Seq(Byte)
  PROVE  /\ WriteAt(f, p, s) \in Seq(Byte)
         /\ p + Len(s) \in 0..Len(WriteAt(f, p, s))
         /\ SubSeq(WriteAt(f, p, s), 1, p + Len(s)) = SubSeq(f, 1, p) \o s
<1> DEFINE h == SubSeq(f, 1, p)
           t == SubSeq(f, p + Len(s) + 1, Len(f))
<1>1. h \in Seq(Byte) /\ Len(h) = p
  BY PrefixFacts
<1>2. t \in Seq(Byte)
  <2>1. \A i \in p + Len(s) + 1 .. Len(f) : f[i] \in Byte
    OBVIOUS
  <2> QED
    BY <2>1, SubSeqProperties
<1>3. h \o s \in Seq(Byte) /\ Len(h \o s) = p + Len(s)
  BY <1>1, ConcatProperties
<1>4. /\ (h \o s) \o t \in Seq(Byte)
      /\ Len((h \o s) \o t) = p + Len(s) + Len(t)
  BY <1>2, <1>3, ConcatProperties
<1>5. SubSeq((h \o s) \o t, 1, Len(h \o s)) = h \o s
  BY <1>2, <1>3, PrefixOfConcat
<1>6. Len(t) \in Nat /\ Len(s) \in Nat
  BY <1>2
<1> HIDE DEF h, t
<1>7. WriteAt(f, p, s) = (h \o s) \o t
  BY DEF WriteAt, h, t
<1> QED
  BY <1>3, <1>4, <1>5, <1>6, <1>7 DEF h

\* What the buffer holds is total bytes, as long as it is being filled.
LEMMA HeldLength ==
  ASSUME BufferInv, ~damaged, pc \in {"idle", "room", "read", "head"}
  PROVE  /\ SubSeq(file, 1, pos) \in Seq(Byte)
         /\ Len(SubSeq(file, 1, pos)) = pos
         /\ total = pos + Len(mem)
<1>1. /\ file \in Seq(Byte) /\ mem \in Seq(Byte) /\ pos \in 0..Len(file)
      /\ total \in Nat /\ Current \in Nat
  BY DEF BufferInv, TypeOK, Current
<1>2. SubSeq(file, 1, pos) \in Seq(Byte) /\ Len(SubSeq(file, 1, pos)) = pos
  BY <1>1, PrefixFacts
<1>3. SubSeq(file, 1, pos) \o mem = Archive!Bytes(Current, total)
  BY DEF BufferInv, ContentsInv, Held
<1>4. Len(SubSeq(file, 1, pos) \o mem) = pos + Len(mem)
  BY <1>1, <1>2, ConcatProperties
<1>5. Len(Archive!Bytes(Current, total)) = total
  BY <1>1, BytesFacts
<1> QED
  BY <1>2, <1>3, <1>4, <1>5

\* read_fd stops as soon as the limit is reached, so that buffer_truncate cuts
\* no more than what was read last, which is still in memory.
LEMMA TruncateFacts ==
  ASSUME BufferInv, pc = "read", NEW n \in 1..room, AtLimit(n),
         Truncated(mem \o Input(n))
  PROVE  LET m == mem \o Input(n)
             d == total + n - FileMax
         IN  /\ m \in Seq(Byte) /\ Len(m) = Len(mem) + n
             /\ d \in 0..(n - 1) /\ FileMax > 0 /\ total < FileMax
             /\ total' = FileMax /\ file' = file /\ pos' = pos
             /\ mem' = SubSeq(m, 1, Len(m) - d)
             /\ mem' \in Seq(Byte) /\ Len(mem') = Len(m) - d
<1> DEFINE m == mem \o Input(n)
           d == total + n - FileMax
<1>1. /\ TypeOK /\ n \in Nat \ {0} /\ FileMax \in Nat /\ total \in Nat
      /\ mem \in Seq(Byte)
  BY SizesAssumption DEF BufferInv, TypeOK
<1>2. Input(n) \in Seq(Byte) /\ Len(Input(n)) = n
  BY <1>1, InputFacts
<1>3. m \in Seq(Byte) /\ Len(m) = Len(mem) + n
  BY <1>1, <1>2, ConcatProperties
<1>4. FileMax > 0 /\ total < FileMax /\ d \in 0..(n - 1)
  BY <1>1 DEF BufferInv, PhaseInv, AtLimit
<1>5. Len(m) \in Nat /\ Len(mem) \in Nat
  BY <1>1, <1>3
<1>6. total + Len(m) - Len(mem) - FileMax = d /\ ~(d > Len(m))
  BY <1>1, <1>3, <1>4, <1>5
<1> HIDE DEF m, d
<1>7. /\ total' = FileMax /\ file' = file /\ pos' = pos
      /\ mem' = SubSeq(m, 1, Len(m) - d)
  BY <1>6 DEF Truncated, m
<1>8. Len(m) - d \in 0..Len(m)
  BY <1>1, <1>3, <1>4, <1>5
<1>9. mem' \in Seq(Byte) /\ Len(mem') = Len(m) - d
  BY <1>3, <1>7, <1>8, PrefixFacts
<1> QED
  BY <1>3, <1>4, <1>7, <1>9 DEF m, d

\* The numbers Copy works with: it stays inside the file, and does not emit
\* more than what was announced.
LEMMA CopyFacts ==
  ASSUME BufferInv, pc = "copy"
  PROVE  LET r == Smaller(size, Len(file) - pos)
             n == Emitted(r)
         IN  /\ r \in 0..(Len(file) - pos) /\ n \in 0..r
             /\ Len(sent) + n <= total
             /\ pos < Len(file) /\ size > 0 => r > 0 /\ n > 0
             /\ n # r => Len(sent) + n = total
             /\ SubSeq(file, pos + 1, pos + n) \in Seq(Byte)
             /\ Len(SubSeq(file, pos + 1, pos + n)) = n
<1> DEFINE r == Smaller(size, Len(file) - pos)
           n == Emitted(r)
<1>1. /\ file \in Seq(Byte) /\ pos \in 0..Len(file) /\ size \in Nat
      /\ total \in Nat /\ Len(sent) \in Nat /\ Len(sent) < total
      /\ Len(file) \in Nat
  BY DEF BufferInv, TypeOK, PhaseInv
<1>2. r \in 0..(Len(file) - pos) /\ (pos < Len(file) /\ size > 0 => r > 0)
  BY <1>1 DEF Smaller
<1>3. /\ n \in 0..r /\ Len(sent) + n <= total /\ (r > 0 => n > 0)
      /\ n # r => Len(sent) + n = total
  BY <1>1, <1>2 DEF Smaller, Emitted
<1> HIDE DEF r, n
<1>4. \A i \in pos + 1 .. pos + n : file[i] \in Byte
  BY <1>1, <1>2, <1>3
<1>5. /\ SubSeq(file, pos + 1, pos + n) \in Seq(Byte)
      /\ Len(SubSeq(file, pos + 1, pos + n)) = n
  BY <1>1, <1>2, <1>3, <1>4, SubSeqProperties
<1> QED
  BY <1>2, <1>3, <1>5 DEF r, n

-----------------------------------------------------------------------------
(* The invariant.                                                          *)

\* No step changes the type of a variable.
LEMMA TypeStep == BufferInv /\ [Next]_vars => TypeOK'
<1> SUFFICES ASSUME BufferInv, [Next]_vars
             PROVE  TypeOK'
  OBVIOUS
<1>t. TypeOK /\ RoomInv /\ PhaseInv
  BY DEF BufferInv
<1>1. CASE Start
  BY <1>t, <1>1, SizesAssumption DEF Start, TypeOK, bufVars, FirstRequest
<1>l. CASE ReadLink
  <2>1. size' \in Nat
    <3>1. PICK k \in 0..LinkMemory : size' = FirstRequest + k * Chunk
      BY <1>l DEF ReadLink
    <3>2. k * Chunk \in Nat
      BY SizesAssumption
    <3>3. FirstRequest \in Nat
      BY <1>t, SizesAssumption DEF TypeOK, FirstRequest
    <3> DEFINE more == k * Chunk
    <3> HIDE DEF more
    <3>4. more \in Nat /\ size' = FirstRequest + more
      BY <3>1, <3>2 DEF more
    <3> QED
      BY <3>3, <3>4
  <2> QED
    BY <1>t, <1>l, <2>1 DEF ReadLink, TypeOK
<1>2. CASE HasRoom
  BY <1>t, <1>2, SizesAssumption DEF HasRoom, TypeOK, bufVars, Wanted, Smaller
<1>3. CASE Enlarge
  BY <1>t, <1>3, SizesAssumption DEF Enlarge, TypeOK, Needed, Wanted, Smaller
<1>4. CASE Spill
  <2>1. /\ WriteAt(file, pos, mem) \in Seq(Byte)
        /\ pos + Len(mem) \in 0..Len(WriteAt(file, pos, mem))
    BY <1>t, WriteFacts DEF TypeOK
  <2>2. Wanted \in Nat
    BY <1>t, SizesAssumption DEF TypeOK, Wanted, Smaller
  <2> QED
    BY <1>t, <1>4, <2>1, <2>2 DEF Spill, TypeOK
<1>5. CASE SpillFails
  <2>1. PICK w \in 0..Len(mem) - 1 :
          /\ file' = WriteAt(file, pos, SubSeq(mem, 1, w)) /\ pos' = pos + w
          /\ fdOpen' \in (IF w = 0 THEN {fdOpen, TRUE} ELSE {TRUE})
    BY <1>5 DEF SpillFails
  <2>2. SubSeq(mem, 1, w) \in Seq(Byte) /\ Len(SubSeq(mem, 1, w)) = w
    BY <1>t, PrefixFacts DEF TypeOK
  <2>3. file' \in Seq(Byte) /\ pos' \in 0..Len(file')
    BY <1>t, <2>1, <2>2, WriteFacts DEF TypeOK
  <2> QED
    BY <1>t, <1>5, <2>1, <2>3 DEF SpillFails, TypeOK
<1>6. CASE SpillCanceled
  BY <1>t, <1>6 DEF SpillCanceled, TypeOK
<1>7. CASE ReadSome
  <2>1. PICK n \in 1..room :
          /\ mem' = mem \o Input(n)
          /\ total' = total + n /\ delivered' = delivered + n
          /\ c' = NextRequest(Len(mem) + n)
    BY <1>7 DEF ReadSome
  <2>2. n \in Nat
    BY <1>t DEF TypeOK
  <2>3. mem' \in Seq(Byte)
    BY <1>t, <2>1, <2>2, InputFacts, ConcatProperties DEF TypeOK
  <2>4. c' \in Nat
    BY <1>t, <2>1, <2>2, SizesAssumption DEF NextRequest, TypeOK
  <2> QED
    BY <1>t, <1>7, <2>1, <2>2, <2>3, <2>4 DEF ReadSome, TypeOK
<1>8. CASE ReadLimit
  <2>1. PICK n \in 1..room :
          AtLimit(n) /\ Truncated(mem \o Input(n)) /\ delivered' = delivered + n
    BY <1>8 DEF ReadLimit
  <2>2. pc = "read"
    BY <1>8 DEF ReadLimit
  <2>3. mem' \in Seq(Byte) /\ total' \in Nat /\ file' = file /\ pos' = pos
    BY <2>1, <2>2, TruncateFacts, SizesAssumption
  <2>4. delivered' \in Nat
    BY <1>t, <2>1 DEF TypeOK
  <2> QED
    BY <1>t, <1>8, <2>3, <2>4 DEF ReadLimit, TypeOK
<1>9. CASE ReadEnds \/ ReadAborted
  BY <1>t, <1>9 DEF ReadEnds, ReadAborted, TypeOK, bufVars
<1>10. CASE EmitNothing
  BY <1>t, <1>10 DEF EmitNothing, TypeOK, bufVars
<1>11. CASE EmitMemory
  <2>1. Smaller(Len(mem), total) \in 0..Len(mem)
    BY <1>t DEF TypeOK, Smaller
  <2>2. sent' \in Seq(Byte)
    BY <1>t, <1>11, <2>1, PrefixFacts DEF EmitMemory, TypeOK
  <2> QED
    BY <1>t, <1>11, <2>2 DEF EmitMemory, TypeOK, bufVars
<1>12. CASE Rewind
  <2>1. WriteAt(file, pos, mem) \in Seq(Byte)
    BY <1>t, WriteFacts DEF TypeOK
  <2> QED
    BY <1>t, <1>12, <2>1 DEF Rewind, TypeOK
<1>13. CASE RewindFails
  <2>1. PICK w \in 0..Len(mem) - 1 :
          file' = WriteAt(file, pos, SubSeq(mem, 1, w)) /\ pos' = pos + w
    BY <1>13 DEF RewindFails
  <2>2. SubSeq(mem, 1, w) \in Seq(Byte) /\ Len(SubSeq(mem, 1, w)) = w
    BY <1>t, PrefixFacts DEF TypeOK
  <2>3. file' \in Seq(Byte) /\ pos' \in 0..Len(file')
    BY <1>t, <2>1, <2>2, WriteFacts DEF TypeOK
  <2> QED
    BY <1>t, <1>13, <2>3 DEF RewindFails, TypeOK
<1>14. CASE Copy
  <2> DEFINE r == Smaller(size, Len(file) - pos)
             n == Emitted(r)
  <2>1. /\ r \in 0..(Len(file) - pos)
        /\ SubSeq(file, pos + 1, pos + n) \in Seq(Byte)
    BY <1>14, CopyFacts DEF Copy
  <2> HIDE DEF r, n
  <2>2. /\ sent' = sent \o SubSeq(file, pos + 1, pos + n) /\ pos' = pos + r
        /\ pc' \in {"pad", "copy"}
    BY <1>14 DEF Copy, r, n
  <2>3. sent' \in Seq(Byte) /\ pos' \in 0..Len(file)
    BY <1>t, <2>1, <2>2, ConcatProperties DEF TypeOK
  <2> QED
    BY <1>t, <1>14, <2>2, <2>3 DEF Copy, TypeOK
<1>15. CASE Finish
  <2>1. Padding(total) \in Nat
    BY <1>t, SizesAssumption DEF Padding, TypeOK
  <2>2. [size |-> total, data |-> sent, pad |-> Padding(total)]
          \in [size : Nat, data : Seq(Byte), pad : Nat]
    BY <1>t, <2>1 DEF TypeOK
  <2>3. archive' \in Seq([size : Nat, data : Seq(Byte), pad : Nat])
    BY <1>t, <1>15, <2>2, AppendFacts DEF Finish, TypeOK
  <2>4. << >> \in Seq(Byte)
    OBVIOUS
  <2>5. file' \in Seq(Byte)
    <3>1. file' = << >> \/ file' = file
      BY <1>15, Zenon DEF Finish
    <3> QED
      BY <1>t, <2>4, <3>1 DEF TypeOK
  <2>6. /\ pos' = 0 /\ mem' = << >> /\ sent' = << >> /\ total' = 0
        /\ delivered' = 0 /\ damaged' = FALSE /\ pc' = "idle"
        /\ UNCHANGED <<size, fdOpen, c, room>>
    BY <1>15, Zenon DEF Finish, RewoundPosition
  <2>7. pos' \in 0..Len(file')
    BY <2>5, <2>6
  <2> QED
    BY <1>t, <2>3, <2>4, <2>5, <2>6, <2>7 DEF TypeOK
<1>16. CASE Done \/ UNCHANGED vars
  BY <1>t, <1>16 DEF Done, TypeOK, vars, bufVars
<1> QED
  BY <1>1, <1>l, <1>2, <1>3, <1>4, <1>5, <1>6, <1>7, <1>8, <1>9, <1>10, <1>11,
     <1>12, <1>13, <1>14, <1>15, <1>16 DEF Next

\* What read() is asked for always fits.
LEMMA RoomStep == BufferInv /\ [Next]_vars => RoomInv'
<1> SUFFICES ASSUME BufferInv, [Next]_vars
             PROVE  RoomInv'
  OBVIOUS
<1>t. TypeOK /\ RoomInv /\ PhaseInv
  BY DEF BufferInv
<1>n. /\ size \in Nat /\ c \in Nat /\ room \in Nat /\ Len(mem) \in Nat
      /\ Chunk \in Nat \ {0} /\ MaxBuffer \in Nat \ {0}
      /\ LinkMemory \in Nat /\ mem \in Seq(Byte) /\ Len(mem) <= size
      /\ size <= MaxBuffer \/ size <= LinkMemory
  BY <1>t, SizesAssumption DEF TypeOK, RoomInv
<1>w. pc = "room" => Wanted \in 1..MaxBuffer
  BY <1>t, <1>n DEF RoomInv, Wanted, Smaller
<1>e. Len(<< >>) = 0
  OBVIOUS
<1>1. CASE Start
  BY <1>n, <1>1 DEF Start, RoomInv, bufVars, FirstRequest
<1>l. CASE ReadLink
  <2>1. size' >= size
    BY <1>n, <1>l DEF ReadLink, FirstRequest
  <2>2. mem' = mem /\ pc' = "idle" /\ size' <= LinkMemory
    BY <1>l DEF ReadLink
  <2>3. size' \in Nat
    BY <1>n, <1>l DEF ReadLink, FirstRequest
  <2> QED
    BY <1>n, <2>1, <2>2, <2>3 DEF RoomInv
<1>2. CASE HasRoom
  BY <1>n, <1>w, <1>2 DEF HasRoom, RoomInv, bufVars, Needed
<1>3. CASE Enlarge
  BY <1>n, <1>w, <1>3 DEF Enlarge, RoomInv, Needed
<1>4. CASE Spill
  BY <1>n, <1>w, <1>e, <1>4 DEF Spill, RoomInv
<1>5. CASE SpillFails
  BY <1>n, <1>5 DEF SpillFails, RoomInv
<1>6. CASE SpillCanceled
  BY <1>n, <1>6 DEF SpillCanceled, RoomInv
<1>7. CASE ReadSome
  <2>1. PICK n \in 1..room :
          mem' = mem \o Input(n) /\ c' = NextRequest(Len(mem) + n)
    BY <1>7 DEF ReadSome
  <2>2. n \in Nat
    BY <1>n
  <2>3. Len(mem') = Len(mem) + n
    <3>1. Input(n) \in Seq(Byte) /\ Len(Input(n)) = n
      BY <1>t, <2>2, InputFacts
    <3> QED
      BY <1>n, <2>1, <3>1, ConcatProperties
  <2>4. c' > 0
    BY <1>n, <2>1, <2>2 DEF NextRequest
  <2>5. Len(mem') <= size
    BY <1>t, <1>n, <1>7, <2>3 DEF ReadSome, RoomInv
  <2> QED
    BY <1>n, <1>7, <2>4, <2>5 DEF ReadSome, RoomInv
<1>8. CASE ReadLimit
  <2>1. PICK n \in 1..room : AtLimit(n) /\ Truncated(mem \o Input(n))
    BY <1>8 DEF ReadLimit
  <2>2. pc = "read" /\ n \in Nat
    BY <1>n, <1>8 DEF ReadLimit
  <2>3. \E d \in 0..(n - 1) : Len(mem') = Len(mem) + n - d
    <3>1. /\ Len(mem \o Input(n)) = Len(mem) + n
          /\ total + n - FileMax \in 0..(n - 1)
          /\ Len(mem') = Len(mem \o Input(n)) - (total + n - FileMax)
      BY <2>1, <2>2, TruncateFacts
    <3> QED
      BY <3>1
  <2>4. Len(mem') <= size
    BY <1>t, <1>n, <2>2, <2>3 DEF RoomInv
  <2> QED
    BY <1>n, <1>8, <2>4 DEF ReadLimit, RoomInv
<1>9. CASE ReadEnds \/ ReadAborted \/ EmitNothing \/ EmitMemory
  BY <1>n, <1>9 DEF ReadEnds, ReadAborted, EmitNothing, EmitMemory, RoomInv,
     bufVars
<1>10. CASE Rewind
  BY <1>n, <1>e, <1>10 DEF Rewind, RoomInv
<1>11. CASE RewindFails
  BY <1>n, <1>11 DEF RewindFails, RoomInv
<1>12. CASE Copy
  <2>1. pc' \in {"pad", "copy"} /\ UNCHANGED <<size, mem>>
    BY <1>12 DEF Copy
  <2> QED
    BY <1>n, <2>1 DEF RoomInv
<1>13. CASE Finish
  <2>1. pc' = "idle" /\ mem' = << >> /\ size' = size
    BY <1>13, Zenon DEF Finish
  <2> QED
    BY <1>n, <1>e, <2>1 DEF RoomInv
<1>14. CASE Done \/ UNCHANGED vars
  BY <1>t, <1>14 DEF Done, RoomInv, vars, bufVars
<1> QED
  BY <1>1, <1>l, <1>2, <1>3, <1>4, <1>5, <1>6, <1>7, <1>8, <1>9, <1>10, <1>11,
     <1>12, <1>13, <1>14 DEF Next

\* What is known of the buffer at each point of the code.
LEMMA PhaseStep == BufferInv /\ [Next]_vars => PhaseInv'
<1> SUFFICES ASSUME BufferInv, [Next]_vars
             PROVE  PhaseInv'
  OBVIOUS
<1>t. TypeOK /\ RoomInv /\ PhaseInv
  BY DEF BufferInv
<1>n. /\ size \in Nat /\ total \in Nat /\ delivered \in Nat
      /\ c \in Nat /\ room \in Nat /\ Len(mem) \in Nat
      /\ FileMax \in Nat /\ MaxBuffer \in Nat \ {0}
      /\ mem \in Seq(Byte) /\ Len(mem) <= size
  BY <1>t, SizesAssumption DEF TypeOK, RoomInv
<1>k. pc \in {"room", "read"} => Archive!Kept(delivered) = total
  BY <1>t, <1>n DEF PhaseInv, Archive!Kept
<1>s. Spill \/ SpillFails \/ SpillCanceled => size > 0
  <2>1. Wanted <= MaxBuffer
    BY <1>n DEF Wanted, Smaller
  <2>2. Needed > MaxBuffer => Len(mem) > 0
    BY <1>n, <2>1 DEF Needed, Wanted, Smaller
  <2> QED
    <3>1. Spill \/ SpillFails \/ SpillCanceled => Needed > MaxBuffer
      BY Zenon DEF Spill, SpillFails, SpillCanceled
    <3> QED
      BY <1>n, <2>2, <3>1
<1>1. CASE Start
  BY <1>t, <1>n, <1>1 DEF Start, PhaseInv, bufVars
<1>l. CASE ReadLink
  <2>1. size' \in Nat /\ size' >= size
    BY <1>n, <1>l, SizesAssumption DEF ReadLink, FirstRequest
  <2> QED
    BY <1>t, <1>n, <1>l, <2>1 DEF ReadLink, PhaseInv
<1>2. CASE HasRoom
  BY <1>t, <1>2 DEF HasRoom, PhaseInv, bufVars
<1>3. CASE Enlarge
  <2>1. size' >= size /\ size' \in Nat
    BY <1>n, <1>3 DEF Enlarge, Needed, Wanted, Smaller
  <2> QED
    BY <1>t, <1>n, <1>3, <2>1 DEF Enlarge, PhaseInv
<1>4. CASE Spill
  <2>1. size' > 0
    BY <1>n, <1>s, <1>4 DEF Spill, Wanted, Smaller
  <2> QED
    BY <1>t, <1>4, <2>1 DEF Spill, PhaseInv
<1>5. CASE SpillFails
  <2>1. PICK w \in 0..Len(mem) - 1 :
          /\ file' = WriteAt(file, pos, SubSeq(mem, 1, w)) /\ pos' = pos + w
          /\ fdOpen' \in (IF w = 0 THEN {fdOpen, TRUE} ELSE {TRUE})
    BY <1>5 DEF SpillFails
  <2>2. ~fdOpen' => file' = << >>
    <3> SUFFICES ASSUME ~fdOpen'
                 PROVE  file' = << >>
      OBVIOUS
    <3>1. w = 0 /\ ~fdOpen
      BY <1>t, <2>1 DEF TypeOK
    <3>2. file = << >> /\ pos = 0
      BY <1>t, <3>1 DEF PhaseInv, TypeOK
    <3>3. file' = WriteAt(<< >>, 0, SubSeq(mem, 1, 0))
      BY <2>1, <3>1, <3>2
    <3> QED
      BY <1>n, <3>3 DEF WriteAt
  <2>3. /\ pc' = "head" /\ pc = "room" /\ sent' = sent /\ size' = size
        /\ total' = total /\ delivered' = delivered
    BY <1>5 DEF SpillFails
  <2> QED
    BY <1>t, <1>k, <1>s, <1>5, <2>2, <2>3 DEF PhaseInv, Archive!Kept
<1>6. CASE SpillCanceled
  <2>1. /\ pc' = "head" /\ pc = "room" /\ sent' = sent /\ size' = size
        /\ total' = total /\ delivered' = delivered /\ file' = file
        /\ fdOpen' = fdOpen \/ fdOpen' = TRUE
    BY <1>6, Zenon DEF SpillCanceled
  <2>2. IF fdOpen' THEN size' > 0 ELSE file' = << >>
    BY <1>t, <1>s, <1>6, <2>1 DEF PhaseInv
  <2> QED
    BY <1>t, <1>k, <2>1, <2>2 DEF PhaseInv, Archive!Kept
<1>7. CASE ReadSome
  <2>1. PICK n \in 1..room :
          /\ ~AtLimit(n)
          /\ total' = total + n /\ delivered' = delivered + n
    BY <1>7 DEF ReadSome
  <2>2. total' = delivered' /\ (FileMax > 0 => total' < FileMax)
    BY <1>t, <1>n, <1>7, <2>1 DEF ReadSome, AtLimit, PhaseInv
  <2> QED
    BY <1>t, <1>7, <2>2 DEF ReadSome, PhaseInv
<1>8. CASE ReadLimit
  <2>1. PICK n \in 1..room :
          AtLimit(n) /\ Truncated(mem \o Input(n)) /\ delivered' = delivered + n
    BY <1>8 DEF ReadLimit
  <2>2. pc = "read" /\ n \in Nat
    BY <1>n, <1>8 DEF ReadLimit
  <2>3. total' = FileMax /\ file' = file /\ FileMax > 0
    BY <2>1, <2>2, TruncateFacts
  <2>4. delivered + n >= FileMax
    BY <1>t, <1>n, <2>1, <2>2 DEF AtLimit, PhaseInv
  <2>5. Archive!Kept(delivered') = total'
    BY <1>n, <2>1, <2>2, <2>3, <2>4 DEF Archive!Kept
  <2> QED
    BY <1>t, <1>8, <2>3, <2>5 DEF ReadLimit, PhaseInv, Archive!Kept
<1>9. CASE ReadEnds \/ ReadAborted
  BY <1>t, <1>k, <1>9 DEF ReadEnds, ReadAborted, PhaseInv, bufVars, Archive!Kept
<1>10. CASE EmitNothing \/ EmitMemory
  BY <1>t, <1>10 DEF EmitNothing, EmitMemory, PhaseInv, bufVars, Archive!Kept
<1>11. CASE Rewind
  <2>1. Len(<< >>) = 0
    OBVIOUS
  <2> QED
    BY <1>t, <1>n, <1>11, <2>1 DEF Rewind, PhaseInv, Archive!Kept
<1>12. CASE RewindFails
  BY <1>t, <1>12 DEF RewindFails, PhaseInv, Archive!Kept
<1>13. CASE Copy
  <2> DEFINE r == Smaller(size, Len(file) - pos)
             n == Emitted(r)
  <2>1. /\ n \in Nat /\ Len(sent) + n <= total
        /\ SubSeq(file, pos + 1, pos + n) \in Seq(Byte)
        /\ Len(SubSeq(file, pos + 1, pos + n)) = n
    <3>1. /\ r \in 0..(Len(file) - pos) /\ n \in 0..r
          /\ Len(sent) + n <= total
          /\ SubSeq(file, pos + 1, pos + n) \in Seq(Byte)
          /\ Len(SubSeq(file, pos + 1, pos + n)) = n
      BY <1>13, CopyFacts DEF Copy
    <3> HIDE DEF r, n
    <3> QED
      BY <3>1
  <2> HIDE DEF r, n
  <2>2. /\ sent' = sent \o SubSeq(file, pos + 1, pos + n)
        /\ pc' = IF r = 0 \/ Len(sent) + n = total THEN "pad" ELSE "copy"
        /\ pc = "copy"
        /\ size' = size /\ total' = total /\ fdOpen' = fdOpen
        /\ file' = file /\ delivered' = delivered
    BY <1>13 DEF Copy, r, n
  <2>3. Len(sent') = Len(sent) + n /\ Len(sent) \in Nat
    BY <1>t, <2>1, <2>2, ConcatProperties DEF TypeOK
  <2>4. pc' = "copy" => Len(sent') < total'
    <3>1. pc' = "copy" => Len(sent) + n # total
      BY <2>2
    <3>2. Len(sent) + n # total => Len(sent) + n < total
      <4>1. n \in Nat /\ Len(sent) \in Nat /\ total \in Nat
            /\ Len(sent) + n <= total
        BY <1>n, <2>1, <2>3, Zenon
      <4> QED
        BY <4>1
    <3>3. total' = total
      BY <2>2, Zenon
    <3> QED
      BY <2>3, <3>1, <3>2, <3>3, Zenon
  <2>5. pc' \in {"pad", "copy"}
    BY <2>2
  <2> QED
    BY <1>t, <2>2, <2>4, <2>5 DEF PhaseInv, Archive!Kept
<1>14. CASE Finish
  <2>1. /\ pos' = 0 /\ mem' = << >> /\ sent' = << >> /\ total' = 0
        /\ delivered' = 0 /\ damaged' = FALSE /\ pc' = "idle"
        /\ size' = size /\ fdOpen' = fdOpen
    BY <1>14, Zenon DEF Finish, RewoundPosition
  <2>2. file' = << >> \/ file' = file
    BY <1>14, Zenon DEF Finish
  <2> QED
    BY <1>t, <2>1, <2>2 DEF PhaseInv
<1>15. CASE Done \/ UNCHANGED vars
  BY <1>t, <1>15 DEF Done, PhaseInv, vars, bufVars, Archive!Kept
<1> QED
  BY <1>1, <1>l, <1>2, <1>3, <1>4, <1>5, <1>6, <1>7, <1>8, <1>9, <1>10, <1>11,
     <1>12, <1>13, <1>14, <1>15 DEF Next

\* No bytes at all.
LEMMA NoBytes ==
  ASSUME NEW f \in Seq(Byte), NEW k
  PROVE  /\ SubSeq(f, 1, 0) = << >> /\ SubSeq(f, 1, 0) \o << >> = << >>
         /\ Archive!Bytes(k, 0) = << >>
<1>1. SubSeq(f, 1, 0) = << >>
  OBVIOUS
<1>2. << >> \o << >> = << >>
  OBVIOUS
<1>3. Archive!Bytes(k, 0) = << >>
  BY DEF Archive!Bytes
<1> QED
  BY <1>1, <1>2, <1>3

\* The buffer keeps what read() has delivered, and emits that.
LEMMA ContentsStep == BufferInv /\ [Next]_vars => ContentsInv'
<1> SUFFICES ASSUME BufferInv, [Next]_vars
             PROVE  ContentsInv'
  OBVIOUS
<1>t. TypeOK /\ RoomInv /\ PhaseInv /\ ContentsInv
  BY DEF BufferInv
<1>n. /\ size \in Nat /\ total \in Nat /\ delivered \in Nat /\ room \in Nat
      /\ mem \in Seq(Byte) /\ Len(mem) \in Nat /\ sent \in Seq(Byte)
      /\ file \in Seq(Byte) /\ Len(file) \in Nat /\ pos \in 0..Len(file)
      /\ FileMax \in Nat /\ Current \in Nat
  BY <1>t, SizesAssumption DEF TypeOK, Current
<1>1. CASE \/ Start \/ ReadLink \/ HasRoom \/ Enlarge \/ SpillCanceled
           \/ ReadAborted \/ ReadEnds
  <2>1. /\ file' = file /\ pos' = pos /\ mem' = mem /\ total' = total
        /\ damaged' = damaged /\ archive' = archive
        /\ pc \in {"idle", "room", "read"}
        /\ pc' \in {"idle", "room", "read", "head"}
    BY <1>1 DEF Start, ReadLink, HasRoom, Enlarge, SpillCanceled, ReadAborted,
       ReadEnds, bufVars
  <2>2. Held' = Held /\ Current' = Current
    BY <2>1 DEF Held, Current
  <2> QED
    BY <1>t, <2>1, <2>2 DEF ContentsInv, Archive!Bytes
<1>2. CASE Spill
  <2>1. /\ file' = WriteAt(file, pos, mem) /\ pos' = pos + Len(mem)
        /\ mem' = << >> /\ total' = total /\ damaged' = damaged
        /\ archive' = archive /\ pc = "room" /\ pc' = "read"
    BY <1>2 DEF Spill
  <2>2. SubSeq(file', 1, pos') = SubSeq(file, 1, pos) \o mem
    BY <1>n, <2>1, WriteFacts
  <2>3. SubSeq(file, 1, pos) \o mem \in Seq(Byte)
    BY <1>n, PrefixFacts, ConcatProperties
  <2>4. Held' = Held /\ Current' = Current
    <3>1. SubSeq(file', 1, pos') \o << >> = SubSeq(file', 1, pos')
      BY <2>2, <2>3
    <3> QED
      BY <2>1, <2>2, <3>1 DEF Held, Current
  <2> QED
    BY <1>t, <2>1, <2>4 DEF ContentsInv, Archive!Bytes
<1>3. CASE SpillFails \/ RewindFails
  BY <1>3 DEF SpillFails, RewindFails, ContentsInv
<1>4. CASE ReadSome
  <2>1. PICK n \in 1..room :
          /\ mem' = mem \o Input(n)
          /\ total' = total + n /\ delivered' = delivered + n
    BY <1>4 DEF ReadSome
  <2>2. /\ file' = file /\ pos' = pos /\ damaged' = damaged
        /\ archive' = archive /\ pc = "read" /\ pc' = "room"
    BY <1>4 DEF ReadSome
  <2>3. n \in Nat /\ total = delivered /\ ~damaged
    BY <1>t, <1>n, <2>2 DEF PhaseInv
  <2> DEFINE h == SubSeq(file, 1, pos)
             i == Input(n)
  <2>4. h \in Seq(Byte) /\ h \o mem = Archive!Bytes(Current, delivered)
    BY <1>t, <1>n, <2>2, <2>3, PrefixFacts DEF ContentsInv, Held
  <2>5. /\ i \in Seq(Byte)
        /\ Archive!Bytes(Current, delivered) \o i
             = Archive!Bytes(Current, delivered + n)
    BY <1>t, <2>3, InputFacts
  <2> HIDE DEF h, i
  <2>6. h \o (mem \o i) = (h \o mem) \o i
    <3>1. h \in Seq(Byte) /\ mem \in Seq(Byte) /\ i \in Seq(Byte)
      BY <1>n, <2>4, <2>5, Zenon
    <3> QED
      BY <3>1
  <2>7. Held' = h \o (mem \o i) /\ Current' = Current
    BY <2>1, <2>2 DEF Held, Current, h, i
  <2>8. Held' = Archive!Bytes(Current, total')
    BY <2>1, <2>3, <2>4, <2>5, <2>6, <2>7
  <2> QED
    BY <2>2, <2>7, <2>8 DEF ContentsInv, Archive!Bytes
<1>5. CASE ReadLimit
  <2>1. PICK n \in 1..room : AtLimit(n) /\ Truncated(mem \o Input(n))
    BY <1>5 DEF ReadLimit
  <2>2. /\ damaged' = damaged /\ archive' = archive
        /\ pc = "read" /\ pc' = "head"
    BY <1>5 DEF ReadLimit
  <2>3. n \in Nat /\ total = delivered /\ ~damaged
    BY <1>t, <1>n, <2>2 DEF PhaseInv
  <2> DEFINE h == SubSeq(file, 1, pos)
             i == Input(n)
             k == Len(mem) + n - (total + n - FileMax)
  <2>4. /\ h \in Seq(Byte) /\ Len(h) = pos /\ total = pos + Len(mem)
        /\ h \o mem = Archive!Bytes(Current, delivered)
    BY <1>t, <2>2, <2>3, HeldLength DEF ContentsInv, Held
  <2>5. /\ i \in Seq(Byte)
        /\ Archive!Bytes(Current, delivered) \o i
             = Archive!Bytes(Current, delivered + n)
    BY <1>t, <2>3, InputFacts
  <2>6. /\ mem \o i \in Seq(Byte) /\ Len(mem \o i) = Len(mem) + n
        /\ total + n - FileMax \in 0..(n - 1)
        /\ total' = FileMax /\ file' = file /\ pos' = pos
        /\ mem' = SubSeq(mem \o i, 1, Len(mem \o i) - (total + n - FileMax))
    BY <2>1, <2>2, TruncateFacts
  <2>7. mem' = SubSeq(mem \o i, 1, k)
    BY <2>6
  <2>8. k \in 0..Len(mem \o i) /\ pos + k = FileMax
    BY <1>n, <2>3, <2>4, <2>6
  <2>h. Held' = SubSeq(file', 1, pos') \o mem' /\ Current' = Current
    BY <2>2 DEF Held, Current
  <2> HIDE DEF i, k
  <2>9. Held' = h \o SubSeq(mem \o i, 1, k)
    BY <2>6, <2>7, <2>h
  <2> HIDE DEF h
  <2>10. h \o (mem \o i) = Archive!Bytes(Current, delivered + n)
    <3>1. h \in Seq(Byte) /\ mem \in Seq(Byte) /\ i \in Seq(Byte)
      BY <1>n, <2>4, <2>5, Zenon
    <3>2. h \o (mem \o i) = (h \o mem) \o i
      BY <3>1
    <3> QED
      BY <2>4, <2>5, <3>2
  <2>11. Held' = SubSeq(h \o (mem \o i), 1, Len(h) + k)
    BY <2>4, <2>6, <2>8, <2>9, CutConcat
  <2>12. FileMax \in 0..(delivered + n) /\ delivered + n \in Nat
    BY <1>n, <2>3, <2>6
  <2>13. Held' = Archive!Bytes(Current, FileMax)
    <3>1. Held' = SubSeq(Archive!Bytes(Current, delivered + n), 1, FileMax)
      BY <2>4, <2>8, <2>10, <2>11
    <3> QED
      BY <1>n, <2>12, <3>1, BytesCut
  <2> QED
    BY <2>2, <2>6, <2>h, <2>13 DEF ContentsInv, Archive!Bytes
<1>6. CASE EmitNothing
  <2>1. /\ sent' = << >> /\ total' = 0 /\ pc' = "pad"
    BY <1>t, <1>6 DEF EmitNothing, PhaseInv, bufVars
  <2>2. Archive!Bytes(Current', 0) = << >>
    BY <1>n, NoBytes
  <2> QED
    BY <2>1, <2>2 DEF ContentsInv, Archive!Bytes
<1>7. CASE EmitMemory
  <2>1. /\ sent' = SubSeq(mem, 1, Smaller(Len(mem), total)) /\ total' = total
        /\ damaged' = damaged /\ archive' = archive
        /\ pc = "head" /\ pc' = "pad" /\ ~fdOpen
    BY <1>7 DEF EmitMemory, bufVars
  <2> SUFFICES ASSUME ~damaged
               PROVE  ContentsInv'
    BY <2>1 DEF ContentsInv
  <2>2. file = << >> /\ pos = 0
    BY <1>t, <1>n, <2>1 DEF PhaseInv
  <2>3. Held = mem
    <3>1. SubSeq(file, 1, pos) = << >>
      BY <1>n, <2>2, NoBytes
    <3> QED
      BY <1>n, <3>1 DEF Held
  <2>4. mem = Archive!Bytes(Current, total)
    BY <1>t, <2>1, <2>3 DEF ContentsInv
  <2>5. Len(mem) = total
    BY <2>1, <2>2, HeldLength
  <2>6. sent' = mem
    <3>1. sent' = SubSeq(mem, 1, Len(mem))
      BY <1>n, <2>1, <2>5 DEF Smaller
    <3> QED
      BY <1>n, <3>1, SubSeqFull
  <2>7. Current' = Current
    BY <2>1 DEF Current
  <2> QED
    BY <2>1, <2>4, <2>6, <2>7 DEF ContentsInv, Archive!Bytes
<1>8. CASE Rewind
  <2>1. /\ file' = WriteAt(file, pos, mem) /\ pos' = 0 /\ total' = total
        /\ damaged' = damaged /\ archive' = archive /\ sent' = sent
        /\ pc = "head" /\ pc' = "copy" /\ total > 0
    BY <1>8 DEF Rewind
  <2> SUFFICES ASSUME ~damaged
               PROVE  ContentsInv'
    BY <2>1 DEF ContentsInv
  <2>2. total = pos + Len(mem)
    BY <2>1, HeldLength
  <2>3. /\ file' \in Seq(Byte) /\ total \in 0..Len(file')
        /\ SubSeq(file', 1, total) = Held
    BY <1>n, <2>1, <2>2, WriteFacts DEF Held
  <2>4. Held = Archive!Bytes(Current, total) /\ sent = << >>
    BY <1>t, <2>1 DEF ContentsInv, PhaseInv
  <2>5. SubSeq(file', 1, 0) = << >>
    BY <2>3, NoBytes
  <2>6. Current' = Current
    BY <2>1 DEF Current
  <2>7. /\ SubSeq(file', 1, total') = Archive!Bytes(Current', total')
        /\ total' <= Len(file') /\ pos' < total'
        /\ sent' = SubSeq(file', 1, pos')
    BY <1>n, <2>1, <2>3, <2>4, <2>5, <2>6
  <2> QED
    BY <2>1, <2>7 DEF ContentsInv, Archive!Bytes
<1>9. CASE Copy
  <2> DEFINE r == Smaller(size, Len(file) - pos)
             n == Emitted(r)
  <2>1. /\ sent' = sent \o SubSeq(file, pos + 1, pos + n) /\ pos' = pos + r
        /\ pc' = IF r = 0 \/ Len(sent) + n = total THEN "pad" ELSE "copy"
        /\ pc = "copy" /\ total' = total /\ file' = file
        /\ damaged' = damaged /\ archive' = archive
    BY <1>9 DEF Copy
  <2> SUFFICES ASSUME ~damaged
               PROVE  ContentsInv'
    BY <2>1 DEF ContentsInv
  <2>2. /\ SubSeq(file, 1, total) = Archive!Bytes(Current, total)
        /\ total <= Len(file) /\ pos < total /\ sent = SubSeq(file, 1, pos)
    BY <1>t, <2>1 DEF ContentsInv
  <2>3. pos < Len(file) /\ size > 0
    <3>1. pos < Len(file)
      BY <1>n, <2>2
    <3>2. file # << >>
      BY <1>n, <3>1
    <3> QED
      BY <1>t, <3>1, <3>2 DEF PhaseInv
  <2>4. /\ r \in 0..(Len(file) - pos) /\ n \in 0..r /\ r > 0
        /\ Len(sent) + n <= total /\ (n # r => Len(sent) + n = total)
    BY <2>1, <2>3, CopyFacts
  <2> HIDE DEF r, n
  <2>5. Len(sent) = pos
    BY <1>n, <2>2, PrefixFacts
  <2>6. sent' = SubSeq(file, 1, pos + n)
    <3>1. /\ 1 \in 1 .. Len(file) + 1 /\ pos \in 1 - 1 .. Len(file)
          /\ pos + n \in pos .. Len(file)
      BY <1>n, <2>4
    <3>2. SubSeq(file, 1, pos) \o SubSeq(file, pos + 1, pos + n)
            = SubSeq(file, 1, pos + n)
      BY <1>n, <3>1, ConcatAdjacentSubSeq, Zenon
    <3> QED
      BY <2>1, <2>2, <3>2
  <2>7. Current' = Current
    BY <2>1 DEF Current
  <2>8. CASE pos + n = total
    <3>1. pc' = "pad"
      BY <2>1, <2>5, <2>8
    <3>2. sent' = Archive!Bytes(Current', total')
      BY <2>1, <2>2, <2>6, <2>7, <2>8
    <3> QED
      BY <3>1, <3>2 DEF ContentsInv, Archive!Bytes
  <2>9. CASE pos + n # total
    <3>1. pc' = "copy"
      BY <2>1, <2>4, <2>5, <2>9
    <3>2. pos' = pos + n /\ pos' < total
      BY <1>n, <2>1, <2>4, <2>5, <2>9
    <3>3. /\ SubSeq(file', 1, total') = Archive!Bytes(Current', total')
          /\ total' <= Len(file') /\ pos' < total'
          /\ sent' = SubSeq(file', 1, pos')
      BY <2>1, <2>2, <2>6, <2>7, <3>2
    <3> QED
      BY <3>1, <3>3 DEF ContentsInv, Archive!Bytes
  <2> QED
    BY <2>8, <2>9
<1>10. CASE Finish
  <2>1. pos' = 0 /\ mem' = << >> /\ total' = 0 /\ pc' = "idle"
    BY <1>10, Zenon DEF Finish, RewoundPosition
  <2>2. file' \in Seq(Byte)
    BY TypeStep DEF TypeOK
  <2>3. /\ SubSeq(file', 1, 0) \o << >> = << >>
        /\ Archive!Bytes(Current', 0) = << >>
    BY <2>2, NoBytes
  <2> QED
    BY <2>1, <2>3 DEF ContentsInv, Held, Archive!Bytes
<1>11. CASE Done \/ UNCHANGED vars
  <2>1. /\ file' = file /\ pos' = pos /\ mem' = mem /\ total' = total
        /\ damaged' = damaged /\ archive' = archive /\ pc' = pc /\ sent' = sent
    BY <1>11 DEF Done, vars, bufVars
  <2>2. Held' = Held /\ Current' = Current
    BY <2>1 DEF Held, Current
  <2> QED
    BY <1>t, <2>1, <2>2 DEF ContentsInv, Archive!Bytes
<1> QED
  BY <1>1, <1>2, <1>3, <1>4, <1>5, <1>6, <1>7, <1>8, <1>9, <1>10, <1>11 DEF Next

LEMMA InitBufferInv == Init => BufferInv
<1> SUFFICES ASSUME Init
             PROVE  BufferInv
  OBVIOUS
<1>1. << >> \in Seq(Byte) /\ Len(<< >>) = 0
      /\ << >> \in Seq([size : Nat, data : Seq(Byte), pad : Nat])
  OBVIOUS
<1>2. TypeOK
  <2>1. mem \in Seq(Byte) /\ file \in Seq(Byte) /\ sent \in Seq(Byte)
        /\ archive \in Seq([size : Nat, data : Seq(Byte), pad : Nat])
    BY <1>1, Zenon DEF Init
  <2>2. pos \in 0..Len(file)
    BY <1>1 DEF Init
  <2> QED
    BY <2>1, <2>2 DEF Init, TypeOK
<1>3. RoomInv
  BY <1>1, SizesAssumption DEF Init, RoomInv
<1>4. PhaseInv
  BY DEF Init, PhaseInv
<1>5. ContentsInv
  <2>1. /\ SubSeq(<< >>, 1, 0) \o << >> = << >>
        /\ Archive!Bytes(Current, 0) = << >>
    BY <1>1, NoBytes
  <2> QED
    BY <2>1 DEF Init, ContentsInv, Held
<1> QED
  BY <1>2, <1>3, <1>4, <1>5 DEF BufferInv

\* The buffer of a worker holds exactly the bytes that read() has delivered of
\* the current file, split between memory and temporary file, and what read()
\* is asked for always fits in memory.
THEOREM BufferInvariant == Spec => []BufferInv
<1>1. BufferInv /\ [Next]_vars => BufferInv'
  BY TypeStep, RoomStep, PhaseStep, ContentsStep DEF BufferInv
<1> QED
  BY InitBufferInv, <1>1, PTL DEF Spec

\* buffer_make_room never lets the memory grow beyond max_buffer_size, and never
\* leads to a read() of zero bytes, which read_fd would take for end of file.
THEOREM RoomAlways == Spec => []RoomInv
<1>1. BufferInv => RoomInv
  BY DEF BufferInv
<1> QED
  BY BufferInvariant, <1>1, PTL

-----------------------------------------------------------------------------
(* The refinement.                                                         *)

\* Every step of the worker is one of TarArchive or leaves its variables alone.
LEMMA ArchiveStep ==
  BufferInv /\ [Next]_vars => [Archive!Next]_(Archive!vars)
<1> SUFFICES ASSUME BufferInv, [Next]_vars
             PROVE  Archive!Next \/ UNCHANGED <<delivered, damaged, archive>>
  BY DEF Archive!vars
<1>t. TypeOK /\ PhaseInv /\ ContentsInv
  BY DEF BufferInv
<1>1. CASE \/ Start \/ ReadLink \/ HasRoom \/ Enlarge \/ Spill \/ SpillCanceled
           \/ ReadAborted \/ ReadEnds \/ EmitNothing \/ EmitMemory
           \/ Rewind \/ Copy
  BY <1>1, Zenon DEF Start, ReadLink, HasRoom, Enlarge, Spill, SpillCanceled,
     ReadAborted, ReadEnds, EmitNothing, EmitMemory, Rewind, Copy
<1>2. CASE SpillFails \/ RewindFails
  BY <1>2, Zenon DEF SpillFails, RewindFails, Archive!Next, Archive!Hit
<1>3. CASE ReadSome \/ ReadLimit
  <2>1. PICK n \in 1..room : delivered' = delivered + n
    BY <1>3 DEF ReadSome, ReadLimit
  <2>2. pc = "read" /\ damaged' = damaged /\ archive' = archive
    BY <1>3 DEF ReadSome, ReadLimit
  <2>3. delivered' \in Nat /\ delivered' > delivered
    BY <1>t, <2>1 DEF TypeOK
  <2>4. FileMax = 0 \/ delivered < FileMax
    BY <1>t, <2>2, SizesAssumption DEF PhaseInv
  <2> QED
    BY <2>2, <2>3, <2>4 DEF Archive!Next, Archive!Deliver
<1>4. CASE Finish
  <2> DEFINE e == [size |-> total, data |-> sent, pad |-> Padding(total)]
             T == [size : Nat, data : Seq(Byte), pad : Nat]
  <2>1. /\ archive' = Append(archive, e)
        /\ delivered' = 0 /\ damaged' = FALSE /\ pc = "pad"
    BY <1>4, Zenon DEF Finish
  <2>2. archive \in Seq(T)
    BY <1>t DEF TypeOK
  <2>3. e \in T
    <3>1. Padding(total) \in Nat
      BY <1>t, SizesAssumption DEF Padding, TypeOK
    <3> QED
      BY <1>t, <3>1 DEF TypeOK
  <2>4. ~damaged => e = Archive!Entry(Current, Archive!Kept(delivered))
    <3> SUFFICES ASSUME ~damaged
                 PROVE  e = Archive!Entry(Current, Archive!Kept(delivered))
      OBVIOUS
    <3>1. sent = Archive!Bytes(Current, total)
      BY <1>t, <2>1 DEF ContentsInv
    <3>2. total = Archive!Kept(delivered)
      BY <1>t, <2>1 DEF PhaseInv
    <3>3. Padding(total) = Archive!Padding(total)
      BY DEF Padding, Archive!Padding
    <3>4. e = Archive!Entry(Current, total)
      BY <3>1, <3>3 DEF Archive!Entry
    <3> QED
      BY <3>2, <3>4
  <2> HIDE DEF e, T
  <2>5. Len(archive') = Len(archive) + 1 /\ archive'[Len(archive')] = e
    BY <2>1, <2>2, <2>3, AppendProperties
  <2>6. Len(archive') = Current
    BY <2>5 DEF Current
  <2>7. /\ archive' = Append(archive, archive'[Len(archive')])
        /\ damaged \/ archive'[Len(archive')]
                         = Archive!Entry(Len(archive'), Archive!Kept(delivered))
    BY <2>1, <2>4, <2>5, <2>6
  <2>8. Archive!Add
    BY <2>1, <2>5, <2>7, Zenon DEF Archive!Add
  <2> QED
    BY <2>8 DEF Archive!Next
<1>5. CASE Done \/ UNCHANGED vars
  BY <1>5 DEF Done, vars
<1> QED
  BY <1>1, <1>2, <1>3, <1>4, <1>5, Zenon DEF Next

\* The worker implements TarArchive: an entry that no error of the temporary
\* file has hit announces and holds exactly what read() has delivered, up to
\* --file-max-size, padded to whole blocks.
THEOREM Implementation == Spec => ImplementsArchive
<1>1. Init => Archive!Init
  BY DEF Init, Archive!Init
<1> QED
  BY BufferInvariant, ArchiveStep, <1>1, PTL
     DEF Spec, ImplementsArchive, Archive!Spec
=============================================================================
