------------------------------ MODULE OtaProofs ------------------------------
(***************************************************************************)
(* The upgrade is safe for files, blocks and headers of any size: OtaInv is *)
(* inductive, and what the runs check of it follows.                        *)
(***************************************************************************)
EXTENDS Ota, SequenceTheorems, TLAPS

\* A run of units, and what is left of it when its start is cut off.
LEMMA UnitsPiece ==
    ASSUME NEW m \in Images, NEW a \in Nat, NEW n \in Nat
    PROVE  /\ Units(m, a, n) \in Seq(AnyUnit) /\ Len(Units(m, a, n)) = n
           /\ \A i \in 1 .. n : Units(m, a, n)[i] = Unit(m, a + i - 1)
  <1>1. \A k \in 1 .. n : Unit(m, a + k - 1) \in AnyUnit
    BY DEF Unit, AnyUnit
  <1>2. Units(m, a, n) \in [1 .. n -> AnyUnit]
    BY <1>1 DEF Units
  <1>3. Units(m, a, n) \in Seq(AnyUnit)
    BY <1>2, SeqDef
  <1>4. DOMAIN Units(m, a, n) = 1 .. n
    BY DEF Units
  <1>5. Len(Units(m, a, n)) = n
    <2>1. /\ Len(Units(m, a, n)) \in Nat
          /\ 1 .. Len(Units(m, a, n)) = 1 .. n
      BY <1>3, <1>4, LenProperties
    <2> QED BY <2>1
  <1> QED
    BY <1>3, <1>5 DEF Units

\* Two runs, one after the other, are one run.
LEMMA UnitsConcat ==
    ASSUME NEW m \in Images, NEW a \in Nat, NEW n \in Nat, NEW k \in Nat
    PROVE  Units(m, a, n) \o Units(m, a + n, k) = Units(m, a, n + k)
  <1> DEFINE l == Units(m, a, n)
             r == Units(m, a + n, k)
             w == Units(m, a, n + k)
  <1>0. a + n \in Nat /\ n + k \in Nat
    OBVIOUS
  <1>1. /\ l \in Seq(AnyUnit) /\ Len(l) = n
        /\ \A i \in 1 .. n : l[i] = Unit(m, a + i - 1)
    BY UnitsPiece
  <1>2. /\ r \in Seq(AnyUnit) /\ Len(r) = k
        /\ \A i \in 1 .. k : r[i] = Unit(m, a + n + i - 1)
    BY <1>0, UnitsPiece
  <1>3. /\ w \in Seq(AnyUnit) /\ Len(w) = n + k
        /\ \A i \in 1 .. n + k : w[i] = Unit(m, a + i - 1)
    BY <1>0, UnitsPiece
  <1> HIDE DEF l, r, w
  <1>4. /\ l \o r \in Seq(AnyUnit) /\ Len(l \o r) = n + k
        /\ \A i \in 1 .. n + k : (l \o r)[i] = IF i <= n THEN l[i] ELSE r[i - n]
    BY <1>1, <1>2, ConcatProperties
  <1>5. ASSUME NEW i \in 1 .. n + k
        PROVE  (l \o r)[i] = w[i]
    <2>1. CASE i <= n
      BY <2>1, <1>1, <1>3, <1>4
    <2>2. CASE i > n
      <3>1. i - n \in 1 .. k /\ a + n + (i - n) - 1 = a + i - 1
        BY <2>2
      <3>2. (l \o r)[i] = r[i - n]
        BY <2>2, <1>4
      <3>3. r[i - n] = Unit(m, a + n + (i - n) - 1)
        BY <3>1, <1>2
      <3>4. w[i] = Unit(m, a + i - 1)
        BY <1>3
      <3> QED BY <3>1, <3>2, <3>3, <3>4
    <2>3. i \in Int /\ n \in Int
      OBVIOUS
    <2>4. i <= n \/ i > n
      BY <2>3
    <2> QED BY <2>1, <2>2, <2>4
  <1>6. l \o r = w
    BY <1>3, <1>4, <1>5, SeqEqual
  <1> QED BY <1>6 DEF l, r, w

\* A run from some unit on is a run.
LEMMA UnitsSub ==
    ASSUME NEW m \in Images, NEW a \in Nat, NEW n \in Nat, NEW p \in 0 .. n
    PROVE  SubSeq(Units(m, a, n), p + 1, n) = Units(m, a + p, n - p)
  <1> DEFINE s == Units(m, a, n)
             r == Units(m, a + p, n - p)
             t == SubSeq(s, p + 1, n)
  <1>0. a + p \in Nat /\ n - p \in Nat
    OBVIOUS
  <1>1. /\ s \in Seq(AnyUnit) /\ Len(s) = n
        /\ \A i \in 1 .. n : s[i] = Unit(m, a + i - 1)
    BY UnitsPiece
  <1>2. /\ r \in Seq(AnyUnit) /\ Len(r) = n - p
        /\ \A i \in 1 .. n - p : r[i] = Unit(m, a + p + i - 1)
    BY <1>0, UnitsPiece
  <1> HIDE DEF s, r
  <1>3. \A i \in p + 1 .. n : s[i] \in AnyUnit
    BY <1>1, ElementOfSeq
  <1>4. /\ t \in Seq(AnyUnit)
        /\ Len(t) = IF p + 1 <= n THEN n - (p + 1) + 1 ELSE 0
        /\ \A i \in 1 .. n - (p + 1) + 1 : t[i] = s[(p + 1) + i - 1]
    BY <1>3, SubSeqProperties
  <1> HIDE DEF t
  <1>5. Len(t) = n - p
    BY <1>4
  <1>6. ASSUME NEW i \in 1 .. n - p
        PROVE  t[i] = r[i]
    <2>1. /\ p + i \in 1 .. n /\ (p + 1) + i - 1 = p + i
          /\ n - (p + 1) + 1 = n - p /\ a + (p + i) - 1 = a + p + i - 1
      OBVIOUS
    <2>2. t[i] = s[p + i]
      BY <2>1, <1>4
    <2> QED BY <2>1, <2>2, <1>1, <1>2
  <1>7. t = r
    BY <1>2, <1>4, <1>5, <1>6, SeqEqual
  <1> QED BY <1>7 DEF s, r, t

\* The start and the rest of a piece are pieces.
LEMMA SubPiece ==
    ASSUME NEW s \in Piece, NEW a \in Nat \ {0}, NEW b \in 0 .. Len(s)
    PROVE  /\ SubSeq(s, a, b) \in Piece
           /\ Len(SubSeq(s, a, b)) = IF a <= b THEN b - a + 1 ELSE 0
  <1>1. Len(s) \in Nat
    BY LenProperties DEF Piece
  <1>2. \A i \in a .. b : s[i] \in AnyUnit
    BY <1>1, ElementOfSeq DEF Piece
  <1> QED BY <1>1, <1>2, SubSeqProperties DEF Piece

LEMMA ModBound ==
    ASSUME NEW a \in Nat, NEW b \in Nat \ {0}
    PROVE  a % b \in Nat /\ a % b <= a /\ (a < b => a % b = a)
  OBVIOUS

-----------------------------------------------------------------------------
\* Every outcome of a write is of the right type.
LEMMA WriteType ==
    ASSUME NEW c \in Ctx,
           NEW f \in Piece, NEW d \in Piece, NEW w \in Write(c, f, d),
           patch \in Piece
    PROVE  /\ w.ok \in BOOLEAN /\ w.patch \in Piece /\ w.flash \in Piece
           /\ w.ctx \in Ctx
  <1> USE OtaAssumption DEF Ctx
  <1> DEFINE O == [ok : BOOLEAN, ctx : Ctx, patch : Piece, flash : Piece]
  <1>0. <<>> \in Piece /\ \A x, y \in Piece : x \o y \in Piece /\ Len(x) \in Nat
    BY EmptySeq, ConcatProperties, LenProperties DEF Piece
  <1>1. ASSUME NEW x \in Ctx, NEW p \in Piece, NEW g \in Piece, NEW o \in Piece
        PROVE  FlashWrite(x, p, g, o) \subseteq O
    BY <1>0, <1>1 DEF FlashWrite, Outcome
  <1>2. ASSUME NEW x \in Ctx, NEW g \in Piece, NEW o \in Piece
        PROVE  WriteCb(x, g, o) \subseteq O
    <2>1. x.hdr \o o \in Piece /\ [x EXCEPT !.hdr = @ \o o] \in Ctx
      BY <1>0
    <2>2. [x EXCEPT !.chip = TRUE] \in Ctx
      OBVIOUS
    <2>3. CASE x.chip
      BY <2>3, <1>0, <1>1 DEF WriteCb
    <2>4. CASE ~x.chip /\ Len(x.hdr) + Len(o) <= ImageHdr
      BY <2>4, <2>1, <1>0 DEF WriteCb, Outcome
    <2>5. CASE ~x.chip /\ ~(Len(x.hdr) + Len(o) <= ImageHdr) /\ image.chip
      <3>1. WriteCb(x, g, o)
              = FlashWrite([x EXCEPT !.chip = TRUE], <<>>, g, x.hdr \o o)
        BY <2>5 DEF WriteCb
      <3> QED BY <3>1, <2>1, <2>2, <1>0, <1>1
    <2>6. CASE ~x.chip /\ ~(Len(x.hdr) + Len(o) <= ImageHdr) /\ ~image.chip
      BY <2>6, <1>0 DEF WriteCb, Outcome
    <2> QED BY <2>3, <2>4, <2>5, <2>6
  <1> HIDE DEF O
  <1> SUFFICES w \in O
    BY DEF O
  <1>3. CASE ~image.delta
    <2>1. Write(c, f, d) \subseteq O
      BY <1>3, <1>1 DEF Write
    <2> QED BY <2>1
  <1>4. CASE image.delta /\ c.verified
    <2>1. Write(c, f, d) \subseteq O
      BY <1>4, <1>2 DEF Write, DeltaWrite
    <2> QED BY <2>1
  <1>5. CASE image.delta /\ ~c.verified
    <2> DEFINE len == (Len(patch) + Len(d)) % PatchMod
               buf == SubSeq(patch \o d, 1, len)
               out == SubSeq(buf, PatchHdr + 1, len)
    <2>1. len \in Nat /\ len <= Len(patch) + Len(d)
      BY <1>0, ModBound
    <2>2. patch \o d \in Piece /\ Len(patch \o d) = Len(patch) + Len(d)
      BY ConcatProperties DEF Piece
    <2>3. buf \in Piece /\ Len(buf) = len
      <3> HIDE DEF len
      <3>1. len \in 0 .. Len(patch \o d) /\ 1 \in Nat \ {0}
        BY <2>1, <2>2
      <3>2. buf \in Piece /\ Len(buf) = IF 1 <= len THEN len - 1 + 1 ELSE 0
        BY <3>1, <2>2, SubPiece
      <3> QED BY <2>1, <3>2
    <2>4. out \in Piece
      <3> HIDE DEF len, buf
      <3>1. len \in 0 .. Len(buf) /\ PatchHdr + 1 \in Nat \ {0}
        BY <2>1, <2>3
      <3> QED BY <3>1, <2>3, SubPiece
    <2>5. [c EXCEPT !.verified = TRUE] \in Ctx
      OBVIOUS
    <2>6. Write(c, f, d) = IF len <= PatchHdr THEN {Outcome(TRUE, c, buf, f)}
                           ELSE IF HeaderOk(buf)
                             THEN WriteCb([c EXCEPT !.verified = TRUE], f, out)
                             ELSE {Outcome(FALSE, c, <<>>, f)}
      BY <1>5 DEF Write, DeltaWrite
    <2> HIDE DEF len, buf, out
    <2>7. CASE len <= PatchHdr
      <3>1. w = Outcome(TRUE, c, buf, f)
        BY <2>6, <2>7
      <3> QED BY <3>1, <2>3 DEF Outcome, O
    <2>8. CASE ~(len <= PatchHdr) /\ HeaderOk(buf)
      <3>1. WriteCb([c EXCEPT !.verified = TRUE], f, out) \subseteq O
        BY <2>4, <2>5, <1>2
      <3>2. w \in WriteCb([c EXCEPT !.verified = TRUE], f, out)
        BY <2>1, <2>6, <2>8
      <3> QED BY <3>1, <3>2
    <2>9. CASE ~(len <= PatchHdr) /\ ~HeaderOk(buf)
      <3>1. w = Outcome(FALSE, c, <<>>, f)
        BY <2>1, <2>6, <2>9
      <3> QED BY <3>1, <1>0 DEF Outcome, O
    <2> QED BY <2>1, <2>7, <2>8, <2>9
  <1> QED BY <1>3, <1>4, <1>5

-----------------------------------------------------------------------------
\* Once the patch header is verified, what the decoder passes on is appended to
\* the image header or to the partition.
LEMMA WriteCbOrder ==
    ASSUME image \in Images, image.delta,
           NEW c \in Ctx, NEW f \in Piece, c.verified,
           NEW s \in Nat, s >= Skip(image), NEW k \in Nat \ {0},
           IF c.chip THEN f = Units(image, Skip(image), s - Skip(image))
             ELSE f = <<>> /\ c.hdr = Units(image, Skip(image), s - Skip(image)),
           NEW w \in WriteCb(c, f, Units(image, s, k)), w.ok
    PROVE  OrderAt(image, s + k, w.ctx, w.patch, w.flash)
  <1> DEFINE d == Units(image, s, k)
             done == Units(image, Skip(image), s - Skip(image))
             next == Units(image, Skip(image), s + k - Skip(image))
  <1>1. Skip(image) \in Nat /\ ImageHdr \in Nat
    BY OtaAssumption DEF Skip
  <1>2. s - Skip(image) \in Nat /\ Skip(image) + (s - Skip(image)) = s /\ (s - Skip(image)) + k = s + k - Skip(image)
    BY <1>1
  <1>3. done \o d = next
    <2>1. Units(image, Skip(image), s - Skip(image)) \o Units(image, Skip(image) + (s - Skip(image)), k)
            = Units(image, Skip(image), (s - Skip(image)) + k)
      <3>1. Skip(image) \in Nat /\ s - Skip(image) \in Nat /\ k \in Nat
        BY <1>1, <1>2
      <3> HIDE DEF done, d, next
      <3> QED BY <3>1, UnitsConcat
    <2> QED BY <2>1, <1>2
  <1>4. Len(done) = s - Skip(image) /\ Len(d) = k /\ done \in Seq(AnyUnit) /\ d \in Seq(AnyUnit)
    BY <1>1, <1>2, UnitsPiece
  <1>5. s + k > Skip(image) /\ s + k - Skip(image) = Len(done) + Len(d)
    BY <1>1, <1>2, <1>4
  <1>6. ASSUME w.ctx.verified, s + k > Skip(image), w.patch = <<>>,
               w.ctx.chip => w.flash = next,
               ~w.ctx.chip => w.flash = <<>> /\ w.ctx.hdr = next
                              /\ s + k - Skip(image) <= ImageHdr
        PROVE  OrderAt(image, s + k, w.ctx, w.patch, w.flash)
    <2>1. BodyAt(image, s + k, w.ctx, w.patch, w.flash)
      BY <1>1, <1>6 DEF BodyAt
    <2> QED BY <1>6, <2>1 DEF OrderAt
  <1> HIDE DEF d, done, next
  <1>7. /\ w \in WriteCb(c, f, d)
        /\ IF c.chip THEN f = done ELSE f = <<>> /\ c.hdr = done
    BY DEF d, done
  <1>8. CASE c.chip
    <2>1. w.ctx = c /\ w.patch = <<>> /\ w.flash = f \o d
      BY <1>7, <1>8 DEF WriteCb, FlashWrite, Outcome
    <2> QED BY <2>1, <1>3, <1>5, <1>6, <1>7, <1>8
  <1>9. CASE ~c.chip /\ Len(c.hdr) + Len(d) <= ImageHdr
    <2>1. /\ w.ctx = [c EXCEPT !.hdr = @ \o d] /\ w.patch = <<>> /\ w.flash = f
      BY <1>7, <1>9 DEF WriteCb, Outcome
    <2>2. w.ctx.verified /\ ~w.ctx.chip /\ w.ctx.hdr = c.hdr \o d
      BY <2>1, <1>9 DEF Ctx
    <2>3. s + k - Skip(image) <= ImageHdr
      BY <1>5, <1>7, <1>9
    <2> QED BY <2>1, <2>2, <2>3, <1>3, <1>5, <1>6, <1>7, <1>9
  <1>10. CASE ~c.chip /\ ~(Len(c.hdr) + Len(d) <= ImageHdr)
    <2>1. /\ w.ctx = [c EXCEPT !.chip = TRUE] /\ w.patch = <<>>
          /\ w.flash = f \o (c.hdr \o d)
      <3>0. WriteCb(c, f, d)
              = IF image.chip
                  THEN FlashWrite([c EXCEPT !.chip = TRUE], <<>>, f, c.hdr \o d)
                  ELSE {Outcome(FALSE, c, <<>>, f)}
        BY <1>10, Zenon DEF WriteCb
      <3>1. image.chip
        <4>1. SUFFICES ASSUME ~image.chip PROVE FALSE
          OBVIOUS
        <4>2. w = Outcome(FALSE, c, <<>>, f)
          BY <4>1, <3>0, <1>7
        <4> QED BY <4>2 DEF Outcome
      <3>2. w \in FlashWrite([c EXCEPT !.chip = TRUE], <<>>, f, c.hdr \o d)
        BY <1>7, <3>0, <3>1
      <3>3. w = Outcome(TRUE, [c EXCEPT !.chip = TRUE], <<>>, f \o (c.hdr \o d))
        <4>1. w \in {Outcome(TRUE, [c EXCEPT !.chip = TRUE], <<>>, f \o (c.hdr \o d)),
                      Outcome(FALSE, [c EXCEPT !.chip = TRUE], <<>>, f)}
          BY <3>2 DEF FlashWrite
        <4>2. w # Outcome(FALSE, [c EXCEPT !.chip = TRUE], <<>>, f)
          BY DEF Outcome
        <4> QED BY <4>1, <4>2
      <3> QED BY <3>3 DEF Outcome
    <2>2. w.ctx.verified /\ w.ctx.chip
      BY <2>1 DEF Ctx
    <2>3. w.flash = c.hdr \o d
      <3>1. c.hdr \o d \in Seq(AnyUnit) /\ f = <<>>
        BY <1>4, <1>7, <1>10, ConcatProperties
      <3> QED BY <2>1, <3>1, ConcatEmptySeq
    <2> QED BY <2>1, <2>2, <2>3, <1>3, <1>5, <1>6, <1>7, <1>10
  <1> QED BY <1>8, <1>9, <1>10

\* A block that follows what is in order is put in order, if it is written
\* without an error and patch_len holds its length.
LEMMA WriteOrder ==
    ASSUME image \in Images, patch \in Piece,
           NEW c \in Ctx, NEW f \in Piece,
           NEW s \in Nat, s >= ElemHdr, NEW k \in Nat \ {0},
           OrderAt(image, s, c, patch, f),
           ~Overflows(c, Units(image, s, k)),
           NEW w \in Write(c, f, Units(image, s, k)), w.ok
    PROVE  OrderAt(image, s + k, w.ctx, w.patch, w.flash)
  <1> DEFINE d == Units(image, s, k)
  <1>1. /\ ElemHdr \in Nat /\ PatchHdr \in Nat /\ ImageHdr \in Nat /\ PatchMod \in Nat
        /\ PatchHdr < PatchMod /\ s - ElemHdr \in Nat /\ k \in Nat
        /\ ElemHdr + (s - ElemHdr) = s /\ (s - ElemHdr) + k = s + k - ElemHdr
        /\ s + k - ElemHdr \in Nat
    BY OtaAssumption
  <1>2. d \in Piece /\ Len(d) = k
    BY <1>1, UnitsPiece DEF Piece
  <1>3. Units(image, ElemHdr, s - ElemHdr) \o d = Units(image, ElemHdr, s + k - ElemHdr)
    <2>1. Units(image, ElemHdr, s - ElemHdr) \o Units(image, ElemHdr + (s - ElemHdr), k)
            = Units(image, ElemHdr, (s - ElemHdr) + k)
      <3>1. ElemHdr \in Nat /\ s - ElemHdr \in Nat /\ k \in Nat
        BY <1>1
      <3> QED BY <3>1, UnitsConcat
    <2> QED BY <1>1, <2>1
  <1> HIDE DEF d
  <1>4. CASE ~image.delta
    <2>1. w = Outcome(TRUE, c, patch, f \o d)
      <3>1. w \in {Outcome(TRUE, c, patch, f \o d), Outcome(FALSE, c, patch, f)}
        BY <1>4 DEF Write, FlashWrite, d
      <3> QED BY <3>1 DEF Outcome
    <2>2. f = Units(image, ElemHdr, s - ElemHdr)
      BY <1>4 DEF OrderAt
    <2>3. w.flash = Units(image, ElemHdr, s + k - ElemHdr)
      BY <1>3, <2>1, <2>2 DEF Outcome
    <2> QED BY <1>1, <1>4, <2>3 DEF OrderAt
  <1>5. CASE image.delta /\ c.verified
    <2>1. w \in WriteCb(c, f, Units(image, s, k))
      BY <1>5 DEF Write, DeltaWrite
    <2>2. BodyAt(image, s, c, patch, f)
      BY <1>5 DEF OrderAt
    <2>3. /\ s >= Skip(image)
          /\ IF c.chip THEN f = Units(image, Skip(image), s - Skip(image))
             ELSE f = <<>> /\ c.hdr = Units(image, Skip(image), s - Skip(image))
      BY <2>2, <1>1 DEF BodyAt, Skip
    <2> QED BY <1>5, <2>1, <2>3, WriteCbOrder
  <1>6. CASE image.delta /\ ~c.verified
    <2> DEFINE len == (Len(patch) + Len(d)) % PatchMod
               buf == SubSeq(patch \o d, 1, len)
               e   == s + k - ElemHdr
    <2>1. /\ s <= Skip(image) /\ patch = Units(image, ElemHdr, s - ElemHdr)
          /\ c = NoCtx /\ f = <<>>
      BY <1>6 DEF OrderAt, HeaderAt
    <2>2. Len(patch) = s - ElemHdr /\ Skip(image) = ElemHdr + PatchHdr
      BY <1>1, <1>6, <2>1, UnitsPiece DEF Skip
    <2>3. len = e
      <3>1. Len(patch) + Len(d) = e /\ e < PatchMod
        BY <1>1, <1>2, <1>6, <2>2 DEF Overflows, d
      <3>2. e \in Nat /\ PatchMod \in Nat \ {0}
        BY <1>1
      <3> HIDE DEF e
      <3>3. e % PatchMod = e
        BY <3>1, <3>2, ModBound
      <3> QED BY <3>1, <3>3
    <2>4. patch \o d = Units(image, ElemHdr, e)
      BY <1>3, <2>1
    <2>5. buf = Units(image, ElemHdr, e)
      <3>1. Units(image, ElemHdr, e) \in Seq(AnyUnit) /\ Len(Units(image, ElemHdr, e)) = e
        BY <1>1, UnitsPiece
      <3> QED BY <2>3, <2>4, <3>1, SubSeqFull
    <2>6. Write(c, f, d) = IF len <= PatchHdr THEN {Outcome(TRUE, c, buf, f)}
                           ELSE IF HeaderOk(buf)
                             THEN WriteCb([c EXCEPT !.verified = TRUE], f,
                                          SubSeq(buf, PatchHdr + 1, len))
                             ELSE {Outcome(FALSE, c, <<>>, f)}
      BY <1>6 DEF Write, DeltaWrite
    <2>7. w \in Write(c, f, d)
      BY DEF d
    <2> HIDE DEF len, buf, e
    <2>8. CASE len <= PatchHdr
      <3>1. w = Outcome(TRUE, c, buf, f)
        BY <2>6, <2>7, <2>8
      <3>2. s + k <= Skip(image)
        BY <1>1, <2>2, <2>3, <2>8 DEF e
      <3>3. HeaderAt(image, s + k, c, buf, f)
        BY <1>1, <2>1, <2>5, <3>2 DEF HeaderAt, e
      <3> QED BY <1>6, <3>1, <3>3 DEF OrderAt, Outcome
    <2>9. CASE ~(len <= PatchHdr) /\ HeaderOk(buf)
      <3> DEFINE v == [c EXCEPT !.verified = TRUE]
                 z == Skip(image)
                 n == s + k - z
      <3>1. v \in Ctx /\ v.verified /\ ~v.chip /\ v.hdr = <<>>
        BY <2>1 DEF Ctx, NoCtx
      <3>2. z \in Nat /\ n \in Nat \ {0} /\ e - PatchHdr = n /\ ElemHdr + PatchHdr = z
            /\ z - z = 0 /\ z >= z /\ z + n = s + k
        BY <1>1, <2>2, <2>3, <2>9 DEF e
      <3>3. SubSeq(buf, PatchHdr + 1, len) = Units(image, z, n)
        <4>1. PatchHdr \in 0 .. e /\ e \in Nat
          BY <1>1, <2>3, <2>9 DEF e
        <4>2. SubSeq(Units(image, ElemHdr, e), PatchHdr + 1, e)
                = Units(image, ElemHdr + PatchHdr, e - PatchHdr)
          BY <1>1, <4>1, UnitsSub
        <4> QED BY <2>3, <2>5, <3>2, <4>2
      <3>4. w \in WriteCb(v, f, Units(image, z, n))
        BY <2>6, <2>7, <2>9, <3>3
      <3>5. Units(image, z, z - z) = <<>>
        <4>1. Units(image, z, 0) \in Seq(AnyUnit) /\ Len(Units(image, z, 0)) = 0
          BY <3>2, UnitsPiece
        <4> QED BY <3>2, <4>1, EmptySeq
      <3> HIDE DEF v, n
      <3>6. OrderAt(image, z + n, w.ctx, w.patch, w.flash)
        BY <1>6, <2>1, <3>1, <3>2, <3>4, <3>5, WriteCbOrder
      <3> QED BY <3>2, <3>6
    <2>10. CASE ~(len <= PatchHdr) /\ ~HeaderOk(buf)
      <3>1. w = Outcome(FALSE, c, <<>>, f)
        BY <2>6, <2>7, <2>10
      <3> QED BY <3>1 DEF Outcome
    <2> QED BY <2>8, <2>9, <2>10
  <1> QED BY <1>4, <1>5, <1>6

-----------------------------------------------------------------------------
\* What OtaAssumption says of a file.
LEMMA ImageFacts ==
    ASSUME NEW m \in Images
    PROVE  /\ m.size \in Nat /\ Skip(m) \in Nat /\ ElemHdr \in Nat \ {0}
           /\ ElemHdr <= Skip(m) /\ Skip(m) < m.size /\ ImageHdr \in Nat
           /\ m.size - Skip(m) > ImageHdr
           /\ m.delta \in BOOLEAN /\ m.tag \in {"image", "other"}
           /\ ~m.delta => Skip(m) = ElemHdr
  BY OtaAssumption DEF Skip

\* A file of which all was put in order is in the partition.
LEMMA AllInOrder ==
    ASSUME image \in Images, OrderAt(image, image.size, ctx, patch, flash)
    PROVE  flash = Body(image)
  <1>1. CASE ~image.delta
    BY <1>1, ImageFacts DEF OrderAt, Body
  <1>2. CASE image.delta /\ ctx.verified
    <2>1. BodyAt(image, image.size, ctx, patch, flash)
      BY <1>2 DEF OrderAt
    <2> QED BY <2>1, ImageFacts DEF BodyAt, Body
  <1>3. CASE image.delta /\ ~ctx.verified
    <2>1. HeaderAt(image, image.size, ctx, patch, flash)
      BY <1>3 DEF OrderAt
    <2> QED BY <2>1, ImageFacts DEF HeaderAt
  <1> QED BY <1>1, <1>2, <1>3

LEMMA BegunType ==
    ASSUME TypeOK
    PROVE  BegunCtx \in Ctx /\ BegunFlash \in Piece /\ NoCtx \in Ctx /\ <<>> \in Piece
  <1>1. <<>> \in Piece
    BY EmptySeq DEF Piece
  <1> QED BY <1>1 DEF BegunCtx, BegunFlash, NoCtx, Ctx, TypeOK

LEMMA OtaInvInit ==
    ASSUME Init
    PROVE  OtaInv
  <1>1. <<>> \in Piece
    BY EmptySeq DEF Piece
  <1>2. NoCtx \in Ctx
    BY <1>1 DEF NoCtx, Ctx
  <1>3. image.size \in Nat
    BY ImageFacts DEF Init
  <1>4. TypeOK
    <2>1. /\ image \in Images /\ sent \in 0 .. image.size /\ total \in Nat
          /\ offset \in Nat /\ handles \in Nat /\ handle \in 0 .. handles
          /\ open \subseteq 1 .. handles
      BY <1>3 DEF Init
    <2>2. ctx \in Ctx /\ patch \in Piece /\ flash \in Piece
      BY <1>1, <1>2 DEF Init
    <2>3. /\ phase \in {"idle", "receive", "apply", "finish", "restart"}
          /\ otaStarted \in BOOLEAN /\ tagSeen \in BOOLEAN /\ tag \in {"image", "other"}
          /\ bootNew \in BOOLEAN /\ clean \in BOOLEAN /\ spoilt \in BOOLEAN
      BY DEF Init
    <2> QED BY <2>1, <2>2, <2>3 DEF TypeOK
  <1>5. CounterInv /\ CleanInv /\ OrderInv
    BY DEF Init, CounterInv, CleanInv, OrderInv, Receiving
  <1>6. HandleInv
    BY DEF Init, HandleInv, Receiving
  <1> QED BY <1>4, <1>5, <1>6 DEF OtaInv

\* RECEIVE keeps the types.
LEMMA ReceiveType ==
    ASSUME TypeOK, NEW n \in Blocks, Receive(n)
    PROVE  TypeOK'
  <1>1. /\ image \in Images /\ image' = image /\ image.size \in Nat /\ n \in Nat \ {0}
        /\ sent \in Nat /\ ElemHdr \in Nat
    BY ImageFacts, OtaAssumption DEF Receive, TypeOK
  <1>2. /\ phase' \in {"idle", "receive", "apply", "finish", "restart"}
        /\ image' \in Images /\ sent' \in 0 .. image'.size
        /\ total' \in Nat /\ offset' \in Nat /\ otaStarted' \in BOOLEAN
        /\ bootNew' \in BOOLEAN
    BY <1>1 DEF Receive, TypeOK, GiveUp
  <1>3. tagSeen' \in BOOLEAN /\ tag' \in {"image", "other"}
    BY <1>1, ImageFacts, OtaAssumption DEF Receive, TypeOK, Fits, ElementOk, ElementTag
  <1>4. handles' \in Nat /\ handle' \in 0 .. handles' /\ open' \subseteq 1 .. handles'
    <2>1. handles \in Nat /\ handle \in 0 .. handles /\ open \subseteq 1 .. handles
      BY DEF TypeOK
    <2>2. CASE otaStarted
      BY <2>1, <2>2 DEF Receive, Begun
    <2>3. CASE ~otaStarted
      <3>1. handles' = handles + 1 /\ handle' = handles' /\ open' = open \cup {handle'}
        BY <2>3 DEF Receive, Begun
      <3>2. 1 .. handles \subseteq 1 .. handles' /\ handles' \in 1 .. handles'
        BY <2>1, <3>1
      <3> QED BY <2>1, <3>1, <3>2
    <2> QED BY <2>2, <2>3
  <1>5. clean' \in BOOLEAN
    BY DEF Receive, TypeOK, GiveUp
  <1>6. CASE ~(ElementOk(n) /\ ElementTag = "image")
    <2>1. ctx' \in Ctx /\ flash' \in Piece /\ patch' \in Piece /\ spoilt' \in BOOLEAN
      BY <1>6, BegunType DEF Receive, TypeOK
    <2> QED BY <1>2, <1>3, <1>4, <1>5, <2>1 DEF TypeOK
  <1>7. CASE ElementOk(n) /\ ElementTag = "image"
    <2>1. PICK w \in Write(BegunCtx, BegunFlash, Element(n)) :
                /\ ctx' = w.ctx /\ patch' = w.patch /\ flash' = w.flash
      BY <1>7 DEF Receive
    <2>2. Element(n) \in Piece
      <3>1. CASE tagSeen
        BY <1>1, <3>1, UnitsPiece DEF Element, Piece
      <3>2. CASE ~tagSeen
        <4>1. n - ElemHdr \in Nat /\ sent + ElemHdr \in Nat
          BY <1>1, <1>7, <3>2 DEF ElementOk, Fits
        <4> QED BY <1>1, <3>2, <4>1, UnitsPiece DEF Element, Piece
      <3> QED BY <3>1, <3>2
    <2>3. ctx' \in Ctx /\ flash' \in Piece /\ patch' \in Piece
      <3>1. patch \in Piece /\ BegunCtx \in Ctx /\ BegunFlash \in Piece
        BY BegunType DEF TypeOK
      <3> QED BY <2>1, <2>2, <3>1, WriteType
    <2>4. spoilt' \in BOOLEAN
      BY <1>7 DEF Receive
    <2> QED BY <1>2, <1>3, <1>4, <1>5, <2>3, <2>4 DEF TypeOK
  <1> QED BY <1>6, <1>7

\* A RECEIVE after which the transfer goes on.
LEMMA ReceiveGoesOn ==
    ASSUME TypeOK, NEW n \in Blocks, Receive(n), phase' = "receive"
    PROVE  /\ ElementOk(n) /\ ElementTag = "image" /\ Fits(n)
           /\ UNCHANGED clean
           /\ spoilt' = (spoilt \/ Overflows(BegunCtx, Element(n)))
           /\ \E w \in Write(BegunCtx, BegunFlash, Element(n)) :
                 w.ok /\ ctx' = w.ctx /\ patch' = w.patch /\ flash' = w.flash
  <1>1. ElementOk(n) /\ ElementTag = "image"
    BY DEF Receive, GiveUp
  <1>2. PICK w \in Write(BegunCtx, BegunFlash, Element(n)) :
            /\ ctx' = w.ctx /\ patch' = w.patch /\ flash' = w.flash
            /\ IF w.ok THEN UNCHANGED <<phase, clean>> ELSE GiveUp(offset + n)
            /\ spoilt' = (spoilt \/ Overflows(BegunCtx, Element(n)))
    BY <1>1 DEF Receive
  <1>3. w.ok
    BY <1>2 DEF GiveUp
  <1> QED BY <1>1, <1>2, <1>3 DEF ElementOk

\* The block puts the file in order up to its end.
LEMMA ReceiveOrder ==
    ASSUME OtaInv, NEW n \in Blocks, Receive(n), phase' = "receive",
           offset' = sent', ~spoilt'
    PROVE  sent' > ElemHdr /\ OrderAt(image', sent', ctx', patch', flash')
  <1>1. /\ image \in Images /\ image' = image /\ n \in Nat \ {0} /\ sent \in Nat
        /\ ElemHdr \in Nat \ {0} /\ patch \in Piece /\ offset \in Nat
        /\ sent' = sent + n /\ offset' = offset + n
    BY OtaAssumption DEF OtaInv, TypeOK, Receive
  <1>2. /\ ElementOk(n) /\ Fits(n) /\ ~spoilt /\ ~Overflows(BegunCtx, Element(n))
    BY ReceiveGoesOn DEF OtaInv
  <1>3. PICK w \in Write(BegunCtx, BegunFlash, Element(n)) :
            w.ok /\ ctx' = w.ctx /\ patch' = w.patch /\ flash' = w.flash
    BY ReceiveGoesOn DEF OtaInv
  <1>4. BegunCtx \in Ctx /\ BegunFlash \in Piece
    BY BegunType DEF OtaInv
  <1>5. offset = sent /\ phase = "receive"
    BY <1>1 DEF Receive
  <1>6. CASE otaStarted
    <2>1. tagSeen /\ sent > ElemHdr /\ OrderAt(image, sent, ctx, patch, flash)
      BY <1>2, <1>5, <1>6 DEF OtaInv, CounterInv, OrderInv, Receiving
    <2>2. BegunCtx = ctx /\ BegunFlash = flash /\ Element(n) = Units(image, sent, n)
      BY <1>6, <2>1 DEF BegunCtx, BegunFlash, Element
    <2>3. OrderAt(image, sent + n, w.ctx, w.patch, w.flash)
      <3>1. sent >= ElemHdr
        BY <1>1, <2>1
      <3> QED BY <1>1, <1>2, <1>3, <1>4, <2>1, <2>2, <3>1, WriteOrder
    <2> QED BY <1>1, <1>3, <2>1, <2>3
  <1>7. CASE ~otaStarted
    <2>1. sent = 0 /\ ~tagSeen /\ n > ElemHdr
      BY <1>2, <1>5, <1>7 DEF OtaInv, CounterInv, Fits
    <2>2. Element(n) = Units(image, ElemHdr, n - ElemHdr) /\ n - ElemHdr \in Nat \ {0}
      BY <1>1, <2>1 DEF Element
    <2>3. Units(image, ElemHdr, ElemHdr - ElemHdr) = <<>>
      <3>1. ElemHdr - ElemHdr = 0 /\ 0 \in Nat
        BY <1>1
      <3>2. Units(image, ElemHdr, 0) \in Seq(AnyUnit) /\ Len(Units(image, ElemHdr, 0)) = 0
        BY <1>1, <3>1, UnitsPiece
      <3> QED BY <3>1, <3>2, EmptySeq
    <2>4. BegunFlash = <<>>
      BY <1>7 DEF BegunFlash
    <2>5. OrderAt(image, ElemHdr, BegunCtx, patch, BegunFlash)
      <3>1. CASE ~image.delta
        BY <2>3, <2>4, <3>1 DEF OrderAt
      <3>2. CASE image.delta
        <4>1. BegunCtx = NoCtx /\ patch = <<>> /\ ~NoCtx.verified
          BY <1>2, <1>5, <1>7, <3>2 DEF OtaInv, OrderInv, BegunCtx, NoCtx
        <4>2. HeaderAt(image, ElemHdr, BegunCtx, patch, BegunFlash)
          BY <1>1, <2>3, <2>4, <4>1, ImageFacts DEF HeaderAt
        <4> QED BY <3>2, <4>1, <4>2 DEF OrderAt
      <3> QED BY <3>1, <3>2
    <2>6. OrderAt(image, ElemHdr + (n - ElemHdr), w.ctx, w.patch, w.flash)
      <3>1. ElemHdr \in Nat /\ ElemHdr >= ElemHdr
        BY <1>1
      <3> HIDE DEF OrderAt
      <3> QED BY <1>1, <1>2, <1>3, <1>4, <2>2, <2>5, <3>1, WriteOrder
    <2>7. ElemHdr + (n - ElemHdr) = sent'
      BY <1>1, <2>1
    <2> QED BY <1>1, <1>3, <2>1, <2>6, <2>7
  <1> QED BY <1>6, <1>7

LEMMA ReceiveInv ==
    ASSUME OtaInv, NEW n \in Blocks, Receive(n)
    PROVE  OtaInv'
  <1>1. TypeOK /\ TypeOK'
    BY ReceiveType DEF OtaInv
  <1>2. /\ n \in Nat \ {0} /\ sent \in Nat /\ offset \in Nat /\ image' = image
        /\ sent' = sent + n /\ offset' = offset + n /\ total' = image.size
        /\ otaStarted' = TRUE /\ phase = "receive" /\ phase' \in {"idle", "receive"}
        /\ UNCHANGED bootNew
    BY OtaAssumption DEF OtaInv, TypeOK, Receive, GiveUp
  <1>3. /\ otaStarted => offset >= sent
        /\ ~otaStarted => sent = 0
        /\ clean => offset = sent
    BY <1>2 DEF OtaInv, CounterInv, CleanInv, Receiving
  <1>4. phase' = "receive" => tagSeen' /\ tag' = "image" /\ clean' = clean
    BY <1>1, ReceiveGoesOn DEF Receive
  <1>5. phase' = "idle" => ~clean'
    <2>1. SUFFICES ASSUME phase' = "idle" PROVE ~clean'
      OBVIOUS
    <2>2. GiveUp(offset + n)
      BY <1>2, <2>1 DEF Receive
    <2>3. ~(offset + n = 0)
      BY <1>2
    <2> QED BY <2>2, <2>3, Zenon DEF GiveUp
  <1>6. CounterInv'
    BY <1>1, <1>2, <1>3, <1>4 DEF CounterInv, Receiving
  <1>7. CleanInv'
    BY <1>2, <1>3, <1>4, <1>5 DEF CleanInv, Receiving
  <1>8. OrderInv'
    <2>1. Receiving' /\ offset' = sent' /\ ~spoilt' =>
            sent' > ElemHdr /\ OrderAt(image', sent', ctx', patch', flash')
      BY ReceiveOrder DEF Receiving
    <2>2. ~bootNew'
      BY <1>2 DEF OtaInv, OrderInv
    <2>3. phase' \notin {"apply", "finish", "restart"}
      BY <1>2
    <2>4. otaStarted'
      BY <1>2
    <2> QED BY <2>1, <2>2, <2>3, <2>4 DEF OrderInv
  <1>9. HandleInv'
    <2>1. CASE otaStarted
      BY <1>2, <2>1 DEF OtaInv, HandleInv, Receiving, Receive, Begun
    <2>2. CASE ~otaStarted
      BY <1>2, <2>2 DEF HandleInv, Receive, Begun
    <2> QED BY <2>1, <2>2
  <1> QED BY <1>1, <1>6, <1>7, <1>8, <1>9 DEF OtaInv

\* CHECK lets only a file in order through.
LEMMA CheckInv ==
    ASSUME OtaInv, Check
    PROVE  OtaInv'
  <1>1. TypeOK'
    BY DEF OtaInv, TypeOK, Check, api, writer
  <1>2. /\ Receiving /\ sent = image.size /\ image \in Images
        /\ offset' = 0 /\ tagSeen' = FALSE /\ phase' \in {"apply", "idle"}
        /\ UNCHANGED <<image, flash, bootNew, spoilt>>
    BY DEF OtaInv, TypeOK, Check, Receiving, api
  <1>3. CounterInv' /\ CleanInv'
    BY <1>2 DEF CounterInv, CleanInv, Receiving
  <1>4. phase' = "apply" => offset = sent
    BY <1>2 DEF Check, OtaInv, CounterInv
  <1>5. phase' = "apply" /\ ~spoilt' => flash' = Body(image')
    BY <1>2, <1>4, AllInOrder DEF OtaInv, OrderInv
  <1>6. ~bootNew'
    BY <1>2 DEF OtaInv, OrderInv, Receiving
  <1>7. OrderInv'
    BY <1>2, <1>5, <1>6 DEF OrderInv, Receiving
  <1>8. HandleInv'
    BY <1>2 DEF OtaInv, HandleInv, Check, api
  <1> QED BY <1>1, <1>3, <1>7, <1>8 DEF OtaInv

\* START finds nothing in order, unless a patch header was left over.
LEMMA StartInv ==
    ASSUME OtaInv, NEW m \in Images, Start(m)
    PROVE  OtaInv'
  <1>1. TypeOK'
    <2>1. 0 \in 0 .. m.size
      BY ImageFacts
    <2>2. spoilt' \in BOOLEAN
      BY DEF Start, Leftover
    <2>3. phase' \in {"idle", "receive", "apply", "finish", "restart"}
      BY DEF Start
    <2> QED BY <2>1, <2>2, <2>3 DEF OtaInv, TypeOK, Start, api, writer
  <1>2. /\ phase = "idle" /\ phase' = "receive" /\ ~otaStarted' /\ sent' = 0
        /\ image' = m /\ spoilt' = Leftover(m)
        /\ UNCHANGED <<offset, tagSeen, patch, clean, bootNew>>
    BY DEF Start, writer
  <1>3. CounterInv' /\ CleanInv'
    BY <1>2 DEF OtaInv, CounterInv, CleanInv, Receiving
  <1>4. ~bootNew'
    BY <1>2 DEF OtaInv, OrderInv
  <1>5. OrderInv'
    BY <1>2, <1>4 DEF OrderInv, Receiving, Leftover
  <1>6. HandleInv'
    BY <1>2 DEF HandleInv, Receiving
  <1> QED BY <1>1, <1>3, <1>5, <1>6 DEF OtaInv

\* Power is lost, and nothing was in order.
LEMMA RestartInv ==
    ASSUME OtaInv, Restart
    PROVE  OtaInv'
  <1>1. TypeOK'
    <2>1. <<>> \in Piece /\ NoCtx \in Ctx /\ 0 \in 0 .. image.size
      BY BegunType, ImageFacts DEF OtaInv, TypeOK
    <2>2. ctx' \in Ctx /\ patch' \in Piece /\ flash' \in Piece
      BY <2>1 DEF OtaInv, TypeOK, Restart
    <2>3. /\ image' \in Images /\ sent' \in 0 .. image'.size
          /\ total' \in Nat /\ offset' \in Nat
          /\ handles' \in Nat /\ handle' \in 0 .. handles' /\ open' \subseteq 1 .. handles'
      BY <2>1 DEF OtaInv, TypeOK, Restart
    <2>4. /\ phase' \in {"idle", "receive", "apply", "finish", "restart"}
          /\ otaStarted' \in BOOLEAN /\ tagSeen' \in BOOLEAN
          /\ tag' \in {"image", "other"}
          /\ bootNew' \in BOOLEAN /\ clean' \in BOOLEAN /\ spoilt' \in BOOLEAN
      BY DEF OtaInv, TypeOK, Restart
    <2> QED BY <2>2, <2>3, <2>4 DEF TypeOK
  <1>2. ~bootNew'
    BY DEF OtaInv, OrderInv, Restart
  <1>3. CounterInv' /\ CleanInv' /\ OrderInv' /\ HandleInv'
    BY <1>2 DEF CounterInv, CleanInv, OrderInv, HandleInv, Receiving, Restart
  <1> QED BY <1>1, <1>3 DEF OtaInv

\* The transfer is given up before or after a block.
LEMMA GiveUpInv ==
    ASSUME OtaInv, BeginFails \/ Abandon
    PROVE  OtaInv'
  <1>1. /\ phase = "receive" /\ phase' = "idle" /\ otaStarted' \in BOOLEAN
        /\ clean' = (clean /\ offset = 0)
        /\ UNCHANGED <<image, sent, total, offset, tagSeen, tag, handle, writer, api,
                       bootNew, spoilt>>
    BY DEF BeginFails, Abandon, GiveUp, statics, OtaInv, TypeOK
  <1>2. clean' \in BOOLEAN
    BY <1>1
  <1>3. TypeOK'
    BY <1>1, <1>2 DEF OtaInv, TypeOK, api, writer
  <1>4. ~bootNew'
    BY <1>1 DEF OtaInv, OrderInv
  <1>5. CounterInv' /\ CleanInv' /\ OrderInv' /\ HandleInv'
    BY <1>1, <1>4 DEF OtaInv, CounterInv, CleanInv, OrderInv, HandleInv, Receiving
  <1> QED BY <1>3, <1>5 DEF OtaInv

\* From the check on, the partition stays as it is.
LEMMA FinishInv ==
    ASSUME OtaInv, Apply \/ Finish \/ FinalizeFails \/ EndFails
    PROVE  OtaInv'
  <1>1. /\ phase \in {"apply", "finish"} /\ phase' \in {"idle", "finish", "restart"}
        /\ bootNew' => bootNew \/ phase' = "restart"
        /\ UNCHANGED <<image, sent, statics, patch, flash, handles, clean, spoilt>>
        /\ open' \subseteq open /\ ctx' \in {ctx, NoCtx} /\ bootNew' \in BOOLEAN
    <2>0. bootNew \in BOOLEAN
      BY DEF OtaInv, TypeOK
    <2>1. CASE Apply
      BY <2>0, <2>1 DEF Apply, writer, api
    <2>2. CASE Finish
      BY <2>0, <2>2 DEF Finish
    <2>3. CASE FinalizeFails
      BY <2>0, <2>3 DEF FinalizeFails, api
    <2>4. CASE EndFails
      BY <2>0, <2>4 DEF EndFails
    <2> QED BY <2>1, <2>2, <2>3, <2>4
  <1>2. TypeOK'
    <2>1. ctx' \in Ctx
      BY <1>1, BegunType DEF OtaInv, TypeOK
    <2>2. open' \subseteq 1 .. handles'
      BY <1>1 DEF OtaInv, TypeOK
    <2> QED BY <1>1, <2>1, <2>2 DEF OtaInv, TypeOK, statics
  <1>3. offset' = 0 /\ ~tagSeen' /\ ~bootNew
    BY <1>1 DEF OtaInv, CounterInv, OrderInv, statics
  <1>4. CounterInv' /\ CleanInv'
    BY <1>1, <1>3 DEF CounterInv, CleanInv, Receiving
  <1>5. ~spoilt' => flash' = Body(image')
    BY <1>1 DEF OtaInv, OrderInv
  <1>6. OrderInv'
    BY <1>1, <1>3, <1>5 DEF OrderInv, Receiving
  <1>7. HandleInv'
    BY <1>1 DEF OtaInv, HandleInv, Receiving, Apply, Finish, FinalizeFails, EndFails,
                statics, api
  <1> QED BY <1>2, <1>4, <1>6, <1>7 DEF OtaInv

LEMMA OtaInvNext ==
    ASSUME OtaInv, [Next]_vars
    PROVE  OtaInv'
  <1>1. ASSUME NEW m \in Images, Start(m) PROVE OtaInv'
    BY <1>1, StartInv
  <1>2. CASE BeginFails \/ Abandon
    BY <1>2, GiveUpInv
  <1>3. ASSUME NEW n \in Blocks, Receive(n) PROVE OtaInv'
    BY <1>3, ReceiveInv
  <1>4. CASE Restart
    BY <1>4, RestartInv
  <1>5. CASE Check
    BY <1>5, CheckInv
  <1>6. CASE Apply \/ Finish \/ FinalizeFails \/ EndFails
    BY <1>6, FinishInv
  <1>7. CASE UNCHANGED vars
    <2>1. TypeOK'
      BY <1>7 DEF OtaInv, TypeOK, vars, statics, writer, api
    <2>2. CounterInv' /\ CleanInv' /\ OrderInv' /\ HandleInv'
      BY <1>7 DEF OtaInv, CounterInv, CleanInv, OrderInv, HandleInv, Receiving, vars,
                  statics, writer, api
    <2> QED BY <2>1, <2>2 DEF OtaInv
  <1> QED BY <1>1, <1>2, <1>3, <1>4, <1>5, <1>6, <1>7 DEF Next

-----------------------------------------------------------------------------
\* The counter, the statics, the delta writer and the partition agree as OtaInv
\* says, whatever transfers were given up (handlers.cpp:129-266 with
\* esp_delta_ota_ops.cpp).
THEOREM OtaInvariant == Spec => []OtaInv
  <1>1. Init => OtaInv
    BY OtaInvInit
  <1>2. OtaInv /\ [Next]_vars => OtaInv'
    BY OtaInvNext
  <1> QED BY <1>1, <1>2, PTL DEF Spec

\* The device boots only what is, unit by unit, the body of one file.
THEOREM OnlyCompleteBoots == Spec => []BootOnlyComplete
  <1>1. OtaInv => BootOnlyComplete
    BY DEF OtaInv, OrderInv, BootOnlyComplete
  <1> QED BY <1>1, OtaInvariant, PTL

\* A complete transfer that follows a check passes its own.
THEOREM CleanTransferPasses == Spec => []CleanCheckPasses
  <1>1. OtaInv => CleanCheckPasses
    BY AllInOrder DEF OtaInv, TypeOK, CounterInv, CleanInv, OrderInv, CleanCheckPasses,
                      AllSent, Receiving
  <1> QED BY <1>1, OtaInvariant, PTL

\* A stale unsupported tag is only got rid of by a restart.
THEOREM PoisonStays == Spec => PoisonedForGood
  <1>1. ASSUME OtaInv, [Next]_vars, Poisoned, ~Restart
        PROVE  Poisoned' /\ phase' \notin {"apply", "finish"}
    <2>1. ~Receiving /\ phase \in {"idle", "receive"} /\ tagSeen /\ tag = "other"
      BY <1>1 DEF OtaInv, TypeOK, CounterInv, Poisoned
    <2>2. ASSUME NEW m \in Images, Start(m)
          PROVE  Poisoned' /\ phase' \notin {"apply", "finish"}
      BY <2>1, <2>2 DEF Start, Poisoned
    <2>3. CASE BeginFails \/ Abandon
      BY <2>1, <2>3 DEF BeginFails, Abandon, GiveUp, Poisoned, statics
    <2>4. ASSUME NEW n \in Blocks, Receive(n)
          PROVE  Poisoned' /\ phase' \notin {"apply", "finish"}
      BY <2>1, <2>4 DEF Receive, GiveUp, Fits, ElementOk, ElementTag, Poisoned
    <2>5. CASE Check \/ Apply \/ Finish \/ FinalizeFails \/ EndFails
      BY <2>1, <2>5 DEF Check, Apply, Finish, FinalizeFails, EndFails, Receiving
    <2>6. CASE UNCHANGED vars
      BY <2>1, <2>6 DEF vars, statics, Poisoned
    <2> QED BY <1>1, <2>2, <2>3, <2>4, <2>5, <2>6 DEF Next
  <1>2. OtaInv /\ [Next]_vars
          => [Poisoned => \/ Poisoned' /\ phase' \notin {"apply", "finish"}
                          \/ Restart]_vars
    BY <1>1
  <1> QED BY <1>2, OtaInvariant, PTL DEF Spec, PoisonedForGood

-----------------------------------------------------------------------------
(* When the header's claim of sequential writes is true. *)

\* patch_buf is empty between blocks, and a patch is verified with its first one.
HeaderDone ==
    /\ patch = <<>> /\ ~spoilt
    /\ Receiving => sent > 0 /\ (image.delta => ctx.verified)

LEMMA WriteCbEmpties ==
    ASSUME NEW c \in Ctx, NEW f, NEW o, NEW w \in WriteCb(c, f, o)
    PROVE  w.patch = <<>> /\ w.ctx.verified = c.verified
  <1> DEFINE d == [c EXCEPT !.chip = TRUE]
             h == [c EXCEPT !.hdr = @ \o o]
  <1>1. d.verified = c.verified /\ h.verified = c.verified
    BY DEF Ctx
  <1> HIDE DEF d, h
  <1>2. ASSUME NEW x, NEW g, NEW q \in FlashWrite(x, <<>>, f, g), x.verified = c.verified
        PROVE  q.patch = <<>> /\ q.ctx.verified = c.verified
    BY <1>2 DEF FlashWrite, Outcome
  <1>3. \/ w \in FlashWrite(c, <<>>, f, o)
        \/ w = Outcome(TRUE, h, <<>>, f)
        \/ w \in FlashWrite(d, <<>>, f, c.hdr \o o)
        \/ w = Outcome(FALSE, c, <<>>, f)
    BY DEF WriteCb, d, h
  <1> QED BY <1>1, <1>2, <1>3 DEF Outcome

\* A block brings itself to the writer, without the element header.
LEMMA ElementFits ==
    ASSUME TypeOK, NEW n \in Blocks, Fits(n)
    PROVE  Element(n) \in Piece /\ Len(Element(n)) \in n - ElemHdr .. n
  <1>1. image \in Images /\ n \in Nat \ {0} /\ sent \in Nat /\ ElemHdr \in Nat \ {0}
    BY ImageFacts, OtaAssumption DEF TypeOK
  <1>2. CASE tagSeen
    <2>1. Element(n) = Units(image, sent, n)
      BY <1>2 DEF Element
    <2>2. Element(n) \in Seq(AnyUnit) /\ Len(Element(n)) = n
      BY <1>1, <2>1, UnitsPiece
    <2> QED BY <1>1, <2>2 DEF Piece
  <1>3. CASE ~tagSeen
    <2>1. PICK a \in Nat, k \in 0 .. n : a = sent + ElemHdr /\ k = n - ElemHdr
      BY <1>1, <1>3 DEF Fits
    <2>2. Element(n) = Units(image, a, k)
      BY <1>3, <2>1 DEF Element
    <2>3. Element(n) \in Seq(AnyUnit) /\ Len(Element(n)) = k
      <3>1. k \in Nat
        BY <1>1
      <3> QED BY <1>1, <2>2, <3>1, UnitsPiece
    <2> QED BY <1>1, <2>1, <2>3 DEF Piece
  <1> QED BY <1>2, <1>3

\* A first block with both headers is more than the patch header, and no more
\* than patch_len counts.
LEMMA FirstBlockVerifies ==
    ASSUME NEW c \in Ctx, ~c.verified, NEW f \in Piece, NEW d \in Piece,
           patch = <<>>, image.delta, Len(d) > PatchHdr, Len(d) < PatchMod,
           NEW w \in Write(c, f, d)
    PROVE  w.patch = <<>> /\ (w.ok => w.ctx.verified)
  <1>1. Len(patch) = 0 /\ patch \o d = d /\ Len(d) \in Nat /\ PatchMod \in Nat /\ PatchHdr \in Nat
    BY EmptySeq, ConcatEmptySeq, LenProperties, OtaAssumption DEF Piece
  <1>2. (Len(patch) + Len(d)) % PatchMod = Len(d)
    BY <1>1
  <1> DEFINE buf == SubSeq(patch \o d, 1, Len(d))
             v == [c EXCEPT !.verified = TRUE]
  <1>3. ~(Len(d) <= PatchHdr)
    BY <1>1
  <1>4. w \in IF HeaderOk(buf)
               THEN WriteCb(v, f, SubSeq(buf, PatchHdr + 1, Len(d)))
               ELSE {Outcome(FALSE, c, <<>>, f)}
    BY <1>2, <1>3 DEF Write, DeltaWrite
  <1>5. v \in Ctx /\ v.verified
    BY DEF Ctx
  <1> HIDE DEF buf, v
  <1>6. CASE HeaderOk(buf)
    BY <1>4, <1>5, <1>6, WriteCbEmpties
  <1>7. CASE ~HeaderOk(buf)
    BY <1>4, <1>7 DEF Outcome
  <1> QED BY <1>6, <1>7

LEMMA HeaderStep ==
    ASSUME OtaInv, HeaderDone, BlocksCounted, [Next]_vars,
           [sent = 0 /\ sent' > 0 => sent' > Skip(image)]_vars
    PROVE  HeaderDone'
  <1>1. ASSUME NEW m \in Images, Start(m) PROVE HeaderDone'
    BY <1>1 DEF Start, Leftover, HeaderDone, Receiving, writer
  <1>2. ASSUME NEW n \in Blocks, Receive(n) PROVE HeaderDone'
    <2>0. TypeOK /\ n \in Nat \ {0} /\ sent \in Nat /\ image \in Images
      BY ImageFacts, OtaAssumption DEF OtaInv, TypeOK
    <2>1. sent' = sent + n /\ sent' > 0 /\ image' = image
      BY <1>2, <2>0 DEF Receive
    <2>2. CASE ~(ElementOk(n) /\ ElementTag = "image")
      BY <1>2, <2>2 DEF Receive, GiveUp, HeaderDone, Receiving
    <2>3. CASE ElementOk(n) /\ ElementTag = "image"
      <3>1. PICK w \in Write(BegunCtx, BegunFlash, Element(n)) :
                    /\ ctx' = w.ctx /\ patch' = w.patch
                    /\ IF w.ok THEN UNCHANGED <<phase, clean>> ELSE GiveUp(offset + n)
                    /\ spoilt' = (spoilt \/ Overflows(BegunCtx, Element(n)))
        BY <1>2, <2>3 DEF Receive
      <3>2. /\ BegunCtx \in Ctx /\ BegunFlash \in Piece
            /\ Element(n) \in Piece /\ Len(Element(n)) \in n - ElemHdr .. n
        BY <2>0, <2>3, BegunType, ElementFits DEF ElementOk
      <3>3. Receiving' => w.ok
        BY <3>1 DEF GiveUp, Receiving
      <3>4. CASE ~image.delta
        <4>1. w.patch = patch
          BY <3>4 DEF Write, FlashWrite, Outcome
        <4>2. ~Overflows(BegunCtx, Element(n))
          BY <3>4 DEF Overflows
        <4> QED BY <2>1, <3>1, <3>4, <4>1, <4>2 DEF HeaderDone
      <3>5. CASE image.delta /\ BegunCtx.verified
        <4>1. w \in WriteCb(BegunCtx, BegunFlash, Element(n))
          BY <3>5 DEF Write, DeltaWrite
        <4>2. w.patch = <<>> /\ w.ctx.verified
          BY <3>2, <3>5, <4>1, WriteCbEmpties
        <4>3. ~Overflows(BegunCtx, Element(n))
          BY <3>5 DEF Overflows
        <4> QED BY <2>1, <3>1, <4>2, <4>3 DEF HeaderDone
      <3>6. CASE image.delta /\ ~BegunCtx.verified
        <4>1. ~otaStarted
          BY <1>2, <3>6 DEF BegunCtx, HeaderDone, Receiving, Receive
        <4>2. sent = 0
          BY <1>2, <4>1 DEF OtaInv, CounterInv, Receive
        <4>3. sent' > Skip(image)
          BY <2>0, <2>1, <4>2 DEF vars
        <4>4. n > ElemHdr + PatchHdr /\ n < PatchMod
          BY <2>0, <2>1, <3>6, <4>2, <4>3 DEF Skip, BlocksCounted
        <4>5. /\ Len(Element(n)) \in Int /\ Len(Element(n)) > PatchHdr
              /\ Len(Element(n)) < PatchMod
          BY <2>0, <3>2, <4>4, OtaAssumption
        <4>6. w.patch = <<>> /\ (w.ok => w.ctx.verified)
          BY <3>2, <3>6, <4>5, FirstBlockVerifies DEF HeaderDone
        <4>7. ~Overflows(BegunCtx, Element(n))
          <5>1. Len(patch) = 0 /\ PatchMod \in Nat
            BY EmptySeq, OtaAssumption DEF HeaderDone
          <5> QED BY <4>5, <5>1 DEF Overflows
        <4> QED BY <2>1, <3>1, <3>3, <4>6, <4>7 DEF HeaderDone
      <3> QED BY <3>4, <3>5, <3>6
    <2> QED BY <2>2, <2>3
  <1>3. CASE Restart
    BY <1>3 DEF Restart, HeaderDone, Receiving
  <1>4. CASE BeginFails \/ Abandon \/ Check \/ Apply
    BY <1>4 DEF BeginFails, Abandon, Check, Apply, GiveUp, HeaderDone, Receiving, writer
  <1>5. CASE Finish \/ FinalizeFails \/ EndFails
    BY <1>5 DEF Finish, FinalizeFails, EndFails, HeaderDone, Receiving
  <1>6. CASE UNCHANGED vars
    BY <1>6 DEF vars, statics, writer, HeaderDone, Receiving
  <1> QED BY <1>1, <1>2, <1>3, <1>4, <1>5, <1>6 DEF Next

\* "Data is written sequentially to the partition" (esp_delta_ota_ops.h:55-56),
\* which MCOtaWrap refutes, is true of every transfer that follows a check,
\* whatever transfers were given up before, if a file's first block holds both
\* of its headers and blocks are no longer than patch_len counts.
THEOREM SequentialAfterHeaders ==
    ASSUME BlocksCounted
    PROVE  Spec /\ HeadersFirst => []WrittenSequentially
  <1>1. Init => HeaderDone
    BY DEF Init, HeaderDone, Receiving
  <1>2. OtaInv /\ HeaderDone /\ [Next]_vars
          /\ [sent = 0 /\ sent' > 0 => sent' > Skip(image)]_vars => HeaderDone'
    BY HeaderStep
  <1>3. CleanCheckPasses /\ HeaderDone => WrittenSequentially
    BY DEF CleanCheckPasses, WrittenSequentially, HeaderDone
  <1> QED BY <1>1, <1>2, <1>3, OtaInvariant, CleanTransferPasses, PTL DEF Spec, HeadersFirst

-----------------------------------------------------------------------------
(* The upgrade implements Upgrade *)

LEMMA StateNow ==
    ASSUME TypeOK
    PROVE  /\ ~Counts => State = "none"
           /\ Counts /\ phase = "receive" => State = "coming"
           /\ Counts /\ phase \in {"apply", "finish"} => State = "whole"
           /\ Counts /\ phase = "restart" => State = "booted"
  BY DEF State

LEMMA StateNext ==
    ASSUME TypeOK'
    PROVE  /\ ~Counts' => State' = "none"
           /\ Counts' /\ phase' = "receive" => State' = "coming"
           /\ Counts' /\ phase' \in {"apply", "finish"} => State' = "whole"
           /\ Counts' /\ phase' = "restart" => State' = "booted"
  BY DEF State

\* The first units of a file's firmware.
LEMMA StartsOf ==
    ASSUME NEW m \in Images, NEW k \in 0 .. m.size - Skip(m)
    PROVE  Units(m, Skip(m), k) \in Promise!Starts(m)
  <1> DEFINE n == m.size - Skip(m)
             b == Units(m, Skip(m), n)
             u == Units(m, Skip(m), k)
             t == SubSeq(b, 1, k)
  <1>1. n \in Nat /\ k \in Nat /\ k <= n /\ Skip(m) \in Nat
    BY ImageFacts
  <1>2. /\ b \in Seq(AnyUnit) /\ Len(b) = n
        /\ \A i \in 1 .. n : b[i] = Unit(m, Skip(m) + i - 1)
    BY <1>1, UnitsPiece
  <1>3. /\ u \in Seq(AnyUnit) /\ Len(u) = k
        /\ \A i \in 1 .. k : u[i] = Unit(m, Skip(m) + i - 1)
    BY <1>1, UnitsPiece
  <1> HIDE DEF n, b, u
  <1>4. \A i \in 1 .. k : b[i] \in AnyUnit
    BY <1>1, <1>2, ElementOfSeq
  <1>5. /\ t \in Seq(AnyUnit) /\ Len(t) = IF 1 <= k THEN k - 1 + 1 ELSE 0
        /\ \A i \in 1 .. k - 1 + 1 : t[i] = b[1 + i - 1]
    BY <1>1, <1>4, SubSeqProperties
  <1> HIDE DEF t
  <1>6. Len(t) = k /\ \A i \in 1 .. k : t[i] = u[i]
    BY <1>1, <1>2, <1>3, <1>5
  <1>7. t = u
    BY <1>3, <1>5, <1>6, SeqEqual
  <1>8. Body(m) = b
    BY DEF Body, b, n
  <1> QED BY <1>1, <1>2, <1>7, <1>8 DEF Promise!Starts, t, u

\* What counts is a start of the firmware.
LEMMA WrittenIsStart ==
    ASSUME OtaInv, Counts
    PROVE  flash \in Promise!Starts(image)
  <1>1. /\ image \in Images /\ sent \in 0 .. image.size /\ image.size \in Nat
        /\ Skip(image) \in Nat /\ Skip(image) < image.size /\ ElemHdr \in Nat
        /\ ~image.delta => Skip(image) = ElemHdr
        /\ 0 \in 0 .. image.size - Skip(image)
    BY ImageFacts DEF OtaInv, TypeOK
  <1>2. Units(image, Skip(image), 0) = <<>>
    BY <1>1, UnitsPiece, EmptySeq
  <1>3. CASE Receiving /\ offset = sent
    <2>1. sent > ElemHdr /\ OrderAt(image, sent, ctx, patch, flash)
      BY <1>3 DEF OtaInv, OrderInv, Counts
    <2>2. CASE ~image.delta
      <3>1. sent - Skip(image) \in 0 .. image.size - Skip(image)
        BY <1>1, <2>1, <2>2
      <3>2. flash = Units(image, Skip(image), sent - Skip(image))
        BY <1>1, <2>1, <2>2 DEF OrderAt
      <3> QED BY <1>1, <3>1, <3>2, StartsOf
    <2>3. CASE image.delta /\ ctx.verified /\ ctx.chip
      <3>1. /\ sent > Skip(image)
            /\ flash = Units(image, Skip(image), sent - Skip(image))
        BY <2>1, <2>3 DEF OrderAt, BodyAt
      <3>2. sent - Skip(image) \in 0 .. image.size - Skip(image)
        BY <1>1, <3>1
      <3> QED BY <1>1, <3>1, <3>2, StartsOf
    <2>4. CASE image.delta /\ ~(ctx.verified /\ ctx.chip)
      <3>1. flash = <<>>
        BY <2>1, <2>4 DEF OrderAt, BodyAt, HeaderAt
      <3> QED BY <1>1, <1>2, <3>1, StartsOf
    <2> QED BY <2>2, <2>3, <2>4
  <1>4. CASE phase \in {"apply", "finish", "restart"}
    <2>1. flash = Units(image, Skip(image), image.size - Skip(image))
      BY <1>4 DEF OtaInv, OrderInv, Counts, Body
    <2>2. image.size - Skip(image) \in 0 .. image.size - Skip(image)
      BY <1>1
    <2> QED BY <1>1, <2>1, <2>2, StartsOf
  <1> QED BY <1>3, <1>4 DEF Counts

\* A write takes nothing back.
LEMMA WriteGrows ==
    ASSUME NEW c \in Ctx, NEW f \in Piece, NEW d \in Piece, patch \in Piece,
           NEW w \in Write(c, f, d)
    PROVE  Len(f) <= Len(w.flash)
  <1> USE DEF Ctx
  <1>0. \A x, y \in Piece : x \o y \in Piece /\ Len(x) \in Nat /\ Len(x \o y) = Len(x) + Len(y)
    BY ConcatProperties, LenProperties DEF Piece
  <1>1. ASSUME NEW x, NEW q, NEW o \in Piece, NEW v \in FlashWrite(x, q, f, o)
        PROVE  Len(f) <= Len(v.flash)
    <2>1. v.flash \in {f \o o, f}
      BY <1>1 DEF FlashWrite, Outcome
    <2> QED BY <1>0, <2>1
  <1>2. ASSUME NEW x \in Ctx, NEW o \in Piece, NEW v \in WriteCb(x, f, o)
        PROVE  Len(f) <= Len(v.flash)
    <2>1. CASE x.chip
      BY <1>1, <1>2, <2>1 DEF WriteCb
    <2>2. CASE ~x.chip /\ ~(Len(x.hdr) + Len(o) <= ImageHdr) /\ image.chip
      <3>1. x.hdr \o o \in Piece
        BY <1>0
      <3>2. v \in FlashWrite([x EXCEPT !.chip = TRUE], <<>>, f, x.hdr \o o)
        BY <1>2, <2>2 DEF WriteCb
      <3> QED BY <1>1, <3>1, <3>2
    <2>3. CASE ~x.chip /\ (Len(x.hdr) + Len(o) <= ImageHdr \/ ~image.chip)
      <3>1. v.flash = f
        BY <1>2, <2>3 DEF WriteCb, Outcome
      <3> QED BY <1>0, <3>1
    <2> QED BY <2>1, <2>2, <2>3
  <1>3. CASE ~image.delta
    BY <1>1, <1>3 DEF Write
  <1>4. CASE image.delta /\ c.verified
    BY <1>2, <1>4 DEF Write, DeltaWrite
  <1>5. CASE image.delta /\ ~c.verified
    <2> DEFINE len == (Len(patch) + Len(d)) % PatchMod
               buf == SubSeq(patch \o d, 1, len)
               out == SubSeq(buf, PatchHdr + 1, len)
    <2>1. out \in Piece
      <3>1. len \in Nat /\ len <= Len(patch) + Len(d)
        BY <1>0, OtaAssumption, ModBound
      <3>2. patch \o d \in Piece /\ len \in 0 .. Len(patch \o d) /\ 1 \in Nat \ {0}
        BY <1>0, <3>1
      <3> HIDE DEF len
      <3>3. buf \in Piece /\ Len(buf) = len
        <4>1. buf \in Piece /\ Len(buf) = IF 1 <= len THEN len - 1 + 1 ELSE 0
          BY <3>2, SubPiece
        <4> QED BY <3>1, <4>1
      <3> HIDE DEF buf
      <3>4. len \in 0 .. Len(buf) /\ PatchHdr + 1 \in Nat \ {0}
        BY <3>1, <3>3, OtaAssumption
      <3> QED BY <3>3, <3>4, SubPiece
    <2>2. Write(c, f, d) = IF len <= PatchHdr THEN {Outcome(TRUE, c, buf, f)}
                           ELSE IF HeaderOk(buf)
                             THEN WriteCb([c EXCEPT !.verified = TRUE], f, out)
                             ELSE {Outcome(FALSE, c, <<>>, f)}
      BY <1>5 DEF Write, DeltaWrite
    <2> HIDE DEF len, buf, out
    <2>3. CASE len <= PatchHdr \/ ~HeaderOk(buf)
      <3>1. w.flash = f
        BY <2>2, <2>3 DEF Outcome
      <3> QED BY <1>0, <3>1
    <2>4. CASE ~(len <= PatchHdr \/ ~HeaderOk(buf))
      <3>1. w \in WriteCb([c EXCEPT !.verified = TRUE], f, out)
        BY <2>2, <2>4
      <3>2. [c EXCEPT !.verified = TRUE] \in Ctx
        OBVIOUS
      <3> QED BY <1>2, <2>1, <3>1, <3>2
    <2> QED BY <2>3, <2>4
  <1> QED BY <1>3, <1>4, <1>5

LEMMA InitUpgrade == Init => Promise!Init
  <1> SUFFICES ASSUME Init PROVE Promise!Init
    OBVIOUS
  <1>1. ~Counts
    BY DEF Init, Counts, Receiving
  <1>2. State = "none"
    BY <1>1, StateNow, OtaInvInit DEF OtaInv
  <1> QED BY <1>1, <1>2 DEF Init, Promise!Init

\* A transfer that does not count any longer is dropped, and one that never did
\* is not seen.
LEMMA DropUpgrade ==
    ASSUME OtaInv, TypeOK', ~Counts', UNCHANGED image, phase # "restart"
    PROVE  Promise!Next \/ UNCHANGED Promise!uvars
  <1>1. State' = "none"
    BY StateNext
  <1>2. CASE Counts
    <2>1. State \in {"coming", "whole"}
      BY <1>2, StateNow DEF OtaInv, Counts, Receiving
    <2> QED BY <1>1, <1>2, <2>1 DEF Promise!Next, Promise!Drop
  <1>3. CASE ~Counts
    <2>1. State = "none"
      BY <1>3, StateNow DEF OtaInv
    <2> QED BY <1>1, <1>3, <2>1 DEF Promise!uvars
  <1> QED BY <1>2, <1>3

LEMMA ReceiveUpgrade ==
    ASSUME OtaInv, OtaInv', NEW n \in Blocks, Receive(n)
    PROVE  Promise!Next \/ UNCHANGED Promise!uvars
  <1>1. TypeOK /\ TypeOK' /\ phase = "receive" /\ image' = image
    BY DEF OtaInv, Receive
  <1>2. CASE ~Counts'
    BY <1>1, <1>2, DropUpgrade
  <1>3. CASE Counts'
    <2>1. phase' = "receive" /\ offset' = sent' /\ ~spoilt'
      <3>1. phase' \in {"receive", "idle"}
        BY <1>1 DEF Receive, GiveUp
      <3> QED BY <1>3, <3>1 DEF Counts, Receiving
    <2>2. State' = "coming" /\ flash' \in Promise!Starts(image)
      <3>1. flash' \in Promise!Starts(image')
        <4>1. OtaInv' /\ Counts'
          BY <1>3
        <4>2. (OtaInv /\ Counts => flash \in Promise!Starts(image))'
          BY WrittenIsStart, PTL
        <4> QED BY <4>1, <4>2
      <3> QED BY <1>1, <1>3, <2>1, <3>1, StateNext
    <2>3. ~spoilt /\ offset = sent
      <3>1. n \in Nat /\ sent \in Nat /\ offset \in Nat
        BY <1>1, OtaAssumption DEF TypeOK
      <3>2. sent' = sent + n /\ offset' = offset + n
        BY DEF Receive
      <3>3. ~spoilt
        BY <1>1, <2>1, ReceiveGoesOn
      <3> QED BY <2>1, <3>1, <3>2, <3>3
    <2>4. CASE otaStarted
      <3>1. Counts /\ State = "coming"
        BY <1>1, <2>3, <2>4, StateNow DEF Counts, Receiving
      <3>2. Len(flash) <= Len(flash')
        <4>1. PICK w \in Write(BegunCtx, BegunFlash, Element(n)) : flash' = w.flash
          BY <1>1, <2>1, ReceiveGoesOn
        <4>2. BegunCtx \in Ctx /\ BegunFlash = flash /\ flash \in Piece /\ patch \in Piece
          BY <1>1, <2>4, BegunType DEF BegunFlash, TypeOK
        <4>3. Element(n) \in Piece
          <5>1. tagSeen /\ image \in Images /\ sent \in Nat /\ n \in Nat
            BY <1>1, <2>4, OtaAssumption DEF OtaInv, CounterInv, Receiving, TypeOK
          <5> QED BY <5>1, UnitsPiece DEF Element, Piece
        <4> QED BY <4>1, <4>2, <4>3, WriteGrows
      <3> QED BY <1>1, <1>3, <2>2, <3>1, <3>2 DEF Promise!Next, Promise!Grow
    <2>5. CASE ~otaStarted
      <3>1. ~Counts /\ State = "none"
        BY <1>1, <2>5, StateNow DEF Counts, Receiving
      <3> QED BY <1>1, <1>3, <2>2, <3>1 DEF Promise!Next, Promise!Begin
    <2> QED BY <2>4, <2>5
  <1> QED BY <1>2, <1>3

LEMMA CheckUpgrade ==
    ASSUME OtaInv, OtaInv', Check
    PROVE  Promise!Next \/ UNCHANGED Promise!uvars
  <1>1. /\ TypeOK /\ TypeOK' /\ phase = "receive" /\ Receiving /\ sent = image.size
        /\ phase' = IF offset = total THEN "apply" ELSE "idle"
        /\ UNCHANGED <<image, flash, spoilt>>
    BY DEF OtaInv, Check, Receiving, api
  <1>2. total = image.size
    BY <1>1 DEF OtaInv, CounterInv
  <1>3. CASE Counts /\ phase' = "apply"
    <2>1. Counts' /\ State = "coming" /\ State' = "whole"
      BY <1>1, <1>3, StateNow, StateNext DEF Counts
    <2>2. flash = Body(image) /\ image \in Images
      BY <1>1, <1>3 DEF OtaInv, OrderInv, Counts, TypeOK
    <2> QED BY <1>1, <1>3, <2>1, <2>2 DEF Promise!Next, Promise!Accept
  <1>4. CASE ~Counts'
    BY <1>1, <1>4, DropUpgrade
  <1>5. Counts' => phase' = "apply" /\ Counts
    BY <1>1, <1>2 DEF Counts, Receiving
  <1> QED BY <1>3, <1>4, <1>5

LEMMA StepUpgrade == OtaInv /\ OtaInv' /\ [Next]_vars => [Promise!Next]_Promise!uvars
  <1> SUFFICES ASSUME OtaInv, OtaInv', [Next]_vars
               PROVE  Promise!Next \/ UNCHANGED Promise!uvars
    OBVIOUS
  <1>0. TypeOK /\ TypeOK'
    BY DEF OtaInv
  <1>1. ASSUME NEW m \in Images, Start(m)
        PROVE  Promise!Next \/ UNCHANGED Promise!uvars
    <2>1. ~Counts /\ ~Counts' /\ image' = m
      BY <1>1 DEF Start, Counts, Receiving
    <2>2. State = "none" /\ State' = "none"
      BY <1>0, <2>1, StateNow, StateNext
    <2> QED BY <2>1, <2>2 DEF Promise!Next, Promise!Offer
  <1>2. CASE BeginFails \/ Abandon \/ FinalizeFails \/ EndFails
    <2>1. phase' = "idle" /\ phase # "restart" /\ UNCHANGED image
      BY <1>2 DEF BeginFails, Abandon, GiveUp, FinalizeFails, EndFails
    <2>2. ~Counts'
      BY <2>1 DEF Counts, Receiving
    <2> QED BY <1>0, <2>1, <2>2, DropUpgrade
  <1>3. ASSUME NEW n \in Blocks, Receive(n)
        PROVE  Promise!Next \/ UNCHANGED Promise!uvars
    BY <1>3, ReceiveUpgrade
  <1>4. CASE Restart
    <2>1. ~Counts' /\ phase # "restart" /\ UNCHANGED image
      BY <1>4 DEF Restart, Counts, Receiving
    <2> QED BY <1>0, <2>1, DropUpgrade
  <1>5. CASE Check
    BY <1>5, CheckUpgrade
  <1>6. CASE Apply
    <2>1. /\ phase = "apply" /\ phase' = "finish"
          /\ UNCHANGED <<image, flash, spoilt>>
      BY <1>6 DEF Apply, api
    <2>2. /\ Counts <=> ~spoilt
          /\ Counts' <=> ~spoilt
      BY <2>1 DEF Counts
    <2>3. State' = State
      BY <1>0, <2>1, <2>2, StateNow, StateNext
    <2> QED BY <2>1, <2>2, <2>3 DEF Promise!uvars
  <1>7. CASE Finish
    <2>1. /\ phase = "finish" /\ phase' = "restart"
          /\ UNCHANGED <<image, flash, spoilt>>
      BY <1>7 DEF Finish
    <2>2. /\ Counts <=> ~spoilt
          /\ Counts' <=> ~spoilt
      BY <2>1 DEF Counts
    <2>3. CASE spoilt
      <3>1. State = "none" /\ State' = "none"
        BY <1>0, <2>2, <2>3, StateNow, StateNext
      <3> QED BY <2>1, <2>2, <2>3, <3>1 DEF Promise!uvars
    <2>4. CASE ~spoilt
      <3>1. State = "whole" /\ State' = "booted"
        BY <1>0, <2>1, <2>2, <2>4, StateNow, StateNext
      <3> QED BY <2>1, <2>2, <2>4, <3>1 DEF Promise!Next, Promise!Boot
    <2> QED BY <2>3, <2>4
  <1>8. CASE UNCHANGED vars
    BY <1>8 DEF vars, statics, writer, api, Promise!uvars, State, Counts, Receiving
  <1> QED BY <1>1, <1>2, <1>3, <1>4, <1>5, <1>6, <1>7, <1>8 DEF Next

\* The upgrade keeps its promise for files, blocks and headers of any size: a
\* transfer that can still be accepted is written in order, grows only, and is
\* booted only when whole.
THEOREM OtaKeepsPromise == Spec => KeepsUpgrade
  <1> QED BY InitUpgrade, StepUpgrade, OtaInvariant, PTL
          DEF Spec, KeepsUpgrade, Promise!Spec
=============================================================================
