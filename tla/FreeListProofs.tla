--------------------------- MODULE FreeListProofs ---------------------------
(***************************************************************************)
(* For every width of a size_t, every size of a pointer and all layouts:   *)
(* the memory that jfs_mlg_memory_init hands out is sound exactly if its   *)
(* size does not wrap, and a free list in one of its components keeps      *)
(* every object once, as the stack of FreeStack, whatever clients write.   *)
(*                                                                         *)
(* MemInv is about the layout: while the exact sum fits, each part lies    *)
(* behind the one before, and once it does not, one of the parts has       *)
(* wrapped. PoolInv adds the list: while it is made it runs downwards, and *)
(* then there is a chain of links through exactly the objects the client   *)
(* does not have.                                                          *)
(*                                                                         *)
(* The last section is about sa_config_init, which computes with the same  *)
(* arithmetic: SlabInv says where its doubling loop is.                    *)
(***************************************************************************)
EXTENDS FreeList, SlabConfig, SequenceTheorems, FiniteSetTheorems, WellFoundedInduction, TLAPS

-----------------------------------------------------------------------------
(* The arithmetic of the layout *)

\* Division with remainder, which SMT knows.
LEMMA DivMod ==
    ASSUME NEW x \in Int, NEW a \in Nat \ {0}
    PROVE  /\ x \div a \in Int /\ x % a \in 0 .. a - 1
           /\ x = (a * (x \div a)) + (x % a)
OBVIOUS

\* There is one quotient and one remainder.
LEMMA ModUnique ==
    ASSUME NEW a \in Nat \ {0}, NEW q \in Int, NEW r \in 0 .. a - 1
    PROVE  ((a * q) + r) % a = r /\ ((a * q) + r) \div a = q
OBVIOUS

\* A multiple leaves no remainder.
LEMMA Multiple ==
    ASSUME NEW a \in Nat \ {0}, NEW q \in Int
    PROVE  (a * q) % a = 0
OBVIOUS

\* What leaves no remainder is a multiple.
LEMMA Factor ==
    ASSUME NEW a \in Nat \ {0}, NEW x \in Int, x % a = 0
    PROVE  x \div a \in Int /\ x = a * (x \div a)
BY DivMod

\* Sums and differences of multiples are multiples.
LEMMA SumDivides ==
    ASSUME NEW a \in Nat \ {0}, NEW x \in Int, NEW y \in Int, x % a = 0, y % a = 0
    PROVE  (x + y) % a = 0 /\ (x - y) % a = 0
<1> DEFINE p == x \div a
           q == y \div a
<1>1. p \in Int /\ q \in Int /\ x = a * p /\ y = a * q
  BY Factor
<1> HIDE DEF p, q
<1>2. x + y = a * (p + q) /\ x - y = a * (p - q)
  BY <1>1
<1>3. QED
  BY <1>1, <1>2, Multiple

\* Two multiples that differ do so by as much as they are multiples of.
LEMMA MultiplesApart ==
    ASSUME NEW a \in Nat \ {0}, NEW u \in Int, NEW v \in Int, u % a = 0, v % a = 0, u < v
    PROVE  u + a <= v
<1> DEFINE p == u \div a
           q == v \div a
<1>1. p \in Int /\ q \in Int /\ u = a * p /\ v = a * q
  BY Factor
<1> HIDE DEF p, q
<1>2. p < q
  BY <1>1
<1>3. a * (p + 1) <= a * q
  BY <1>1, <1>2
<1>4. a * (p + 1) = (a * p) + a
  BY <1>1
<1>5. QED
  BY <1>1, <1>3, <1>4

\* A multiple of a multiple is a multiple.
LEMMA DividesTrans ==
    ASSUME NEW a \in Nat \ {0}, NEW b \in Nat \ {0}, NEW x \in Int, b % a = 0, x % b = 0
    PROVE  x % a = 0
<1> DEFINE p == b \div a
           q == x \div b
<1>1. p \in Int /\ q \in Int /\ b = a * p /\ x = b * q
  BY Factor
<1> HIDE DEF p, q
<1>2. x = a * (p * q)
  BY <1>1
<1>3. QED
  BY <1>1, <1>2, Multiple

\* Every set of natural numbers that is not empty has a least element: what stands in for
\* induction.
LEMMA LeastNat ==
    ASSUME NEW T, T \subseteq Nat, T # {}
    PROVE  \E m \in T : \A k \in T : ~(k < m)
<1> DEFINE R == OpToRel(<, Nat)
<1>1. IsWellFoundedOn(R, Nat)
  BY NatLessThanWellFounded, Zenon
<1>2. \A x, y \in Nat : <<x, y>> \in R <=> x < y
  BY DEF OpToRel
<1> HIDE DEF R
<1>3. PICK m \in T : \A k \in T : ~(<<k, m>> \in R)
  BY <1>1, WFMin, Zenon
<1>4. QED
  BY <1>2, <1>3

\* Powers of two are positive and grow, and each divides the larger ones: at the least
\* exponent at which this were wrong, the power is twice the one before.
LEMMA Powers ==
    \A k \in 0 .. Width :
        /\ 2^k \in Nat \ {0}
        /\ \A j \in 0 .. k : 2^k % 2^j = 0 /\ (j < k => 2^j < 2^k)
<1> DEFINE P(k) == /\ 2^k \in Nat \ {0}
                   /\ \A j \in 0 .. k : 2^k % 2^j = 0 /\ (j < k => 2^j < 2^k)
           T == {k \in 0 .. Width : ~P(k)}
<1>1. SUFFICES ASSUME T # {} PROVE FALSE
  OBVIOUS
<1>2. T \subseteq Nat
  BY WidthAssumption
<1>3. PICK m \in T : \A k \in T : ~(k < m)
  <2> HIDE DEF T
  <2> QED
    BY <1>1, <1>2, LeastNat
<1>4. m \in 0 .. Width /\ ~P(m) /\ m \in Nat /\ Width \in Nat
  BY WidthAssumption
<1>5. P(0)
  <2>1. 2^0 = 1
    BY PowersAssumption
  <2>2. 1 % 1 = 0 /\ 0 .. 0 = {0}
    OBVIOUS
  <2>3. QED
    BY <2>1, <2>2
<1>6. m - 1 \in 0 .. Width - 1 /\ (m - 1) + 1 = m
  <2>1. m # 0
    <3> HIDE DEF P
    <3> QED
      BY <1>4, <1>5
  <2>2. QED
    BY <1>4, <2>1
<1>7. P(m - 1)
  BY <1>3, <1>4, <1>6
<1> DEFINE q == 2^(m - 1)
<1>8. q \in Nat \ {0} /\ 2^m = 2 * q
  <2>1. 2^((m - 1) + 1) = 2 * 2^(m - 1)
    BY <1>6, PowersAssumption
  <2>2. QED
    BY <1>6, <1>7, <2>1
<1>9. ASSUME NEW j \in 0 .. m PROVE 2^m % 2^j = 0 /\ (j < m => 2^j < 2^m)
  <2>1. CASE j = m
    <3>1. 2^m \in Nat \ {0}
      BY <1>8
    <3>2. (2^m * 1) % 2^m = 0
      BY <3>1, Multiple
    <3>3. QED
      BY <1>4, <2>1, <3>1, <3>2
  <2>2. CASE j # m
    <3>1. j \in 0 .. m - 1 /\ j \in 0 .. Width /\ (j < m - 1 \/ j = m - 1)
      BY <1>4, <2>2
    <3>2. q % 2^j = 0 /\ (j < m - 1 => 2^j < q)
      BY <1>7, <3>1
    <3>3. 2^j \in Nat \ {0}
      BY <1>3, <1>4, <3>1
    <3>4. (q + q) % 2^j = 0
      BY <1>8, <3>2, <3>3, SumDivides
    <3>5. q + q = 2 * q /\ q < 2 * q
      BY <1>8
    <3>6. 2^j < 2 * q
      <4>1. CASE j < m - 1
        BY <1>8, <3>2, <3>3, <4>1
      <4>2. CASE j = m - 1
        BY <3>5, <4>2
      <4>3. QED
        BY <3>1, <4>1, <4>2
    <3>7. QED
      BY <1>8, <3>4, <3>5, <3>6
  <2>3. QED
    BY <2>1, <2>2
<1>10. QED
  BY <1>4, <1>8, <1>9

\* There are more than four addresses.
LEMMA WordNat == Word \in Nat /\ Word > 4
<1>1. Word \in Nat \ {0}
  BY WidthAssumption, Powers DEF Word
<1>2. PtrSize \in Nat \ {0}
  BY WidthAssumption, Powers, PtrAssumption
<1>3. QED
  BY <1>1, <1>2, PtrAssumption

\* Wrapping gives a size_t, and subtracts at most one word from a sum of two.
LEMMA WrapSize ==
    ASSUME NEW x \in Int
    PROVE  /\ Wrap(x) \in Size /\ Wrap(x) \in Nat
           /\ x \in Size => Wrap(x) = x
           /\ x \in Word .. 2 * Word - 1 => Wrap(x) = x - Word
<1>1. Word \in Nat \ {0}
  BY WordNat
<1>2. Wrap(x) \in 0 .. Word - 1
  BY <1>1, DivMod DEF Wrap
<1>3. ASSUME x \in Size PROVE Wrap(x) = x
  <2>1. ((Word * 0) + x) % Word = x
    BY <1>1, <1>3, ModUnique DEF Size
  <2>2. (Word * 0) + x = x
    BY <1>1, <1>3 DEF Size
  <2>3. QED
    BY <2>1, <2>2 DEF Wrap
<1>4. ASSUME x \in Word .. 2 * Word - 1 PROVE Wrap(x) = x - Word
  <2>1. x - Word \in 0 .. Word - 1
    BY <1>1, <1>4
  <2>2. ((Word * 1) + (x - Word)) % Word = x - Word
    BY <1>1, <2>1, ModUnique
  <2>3. (Word * 1) + (x - Word) = x
    BY <1>1
  <2>4. QED
    BY <2>2, <2>3 DEF Wrap
<1>5. QED
  BY <1>1, <1>2, <1>3, <1>4 DEF Size

\* What an alignment is: a power of two below Word.
LEMMA ValidAlign ==
    ASSUME NEW a, jfs_mlg_valid_align(a)
    PROVE  a \in Nat \ {0} /\ a \in Size /\ Word % a = 0
<1>1. PICK k \in 0 .. Width - 1 : a = 2^k
  BY DEF jfs_mlg_valid_align
<1>2. k \in 0 .. Width /\ Width \in 0 .. Width /\ k \in 0 .. Width /\ Width \in Nat
  BY WidthAssumption
<1>3. a \in Nat \ {0} /\ Word % a = 0
  BY <1>1, <1>2, Powers DEF Word
<1>4. a < Word
  BY <1>1, <1>2, Powers DEF Word
<1>5. QED
  BY <1>3, <1>4, WordNat DEF Size

\* A pointer has an alignment that jfs_mlg_valid_align lets through.
LEMMA PtrAlign == PtrSize \in Nat \ {0} /\ jfs_mlg_valid_align(PtrSize) /\ 4 * PtrSize < Word
<1>1. jfs_mlg_valid_align(PtrSize)
  BY PtrAssumption DEF jfs_mlg_valid_align
<1>2. QED
  BY <1>1, ValidAlign, PtrAssumption

\* The stricter of two alignments is one, and a multiple of both.
LEMMA StricterAlign ==
    ASSUME NEW a, NEW b, jfs_mlg_valid_align(a), jfs_mlg_valid_align(b)
    PROVE  /\ jfs_mlg_valid_align(Max2(a, b))
           /\ Max2(a, b) % a = 0 /\ Max2(a, b) % b = 0
<1>1. PICK j \in 0 .. Width - 1 : a = 2^j
  BY DEF jfs_mlg_valid_align
<1>2. PICK k \in 0 .. Width - 1 : b = 2^k
  BY DEF jfs_mlg_valid_align
<1>3. /\ j \in 0 .. Width /\ k \in 0 .. Width /\ j \in 0 .. j /\ k \in 0 .. k
  BY WidthAssumption
<1>4. a % a = 0 /\ b % b = 0 /\ a \in Nat /\ b \in Nat
  BY <1>1, <1>2, <1>3, Powers
<1>5. CASE j <= k
  <2>1. j \in 0 .. k
    BY <1>5
  <2>2. b % a = 0 /\ a <= b
    <3>1. b % a = 0 /\ (j < k => a < b)
      BY <1>1, <1>2, <1>3, <2>1, Powers
    <3>2. j = k => a = b
      BY <1>1, <1>2
    <3>3. QED
      BY <1>4, <1>5, <3>1, <3>2
  <2>3. Max2(a, b) = b
    BY <1>4, <2>2 DEF Max2
  <2>4. QED
    BY <1>4, <2>2, <2>3
<1>6. CASE k < j
  <2>1. k \in 0 .. j
    BY <1>6
  <2>2. a % b = 0 /\ b < a
    BY <1>1, <1>2, <1>3, <1>6, <2>1, Powers
  <2>3. Max2(a, b) = a
    BY <1>4, <2>2 DEF Max2
  <2>4. QED
    BY <1>4, <2>2, <2>3
<1>7. QED
  BY <1>5, <1>6

\* The smallest multiple of a that is no less than x.
RoundUp(x, a) == ((x + a - 1) \div a) * a

\* Rounding up reaches the next multiple and goes less than one alignment further.
LEMMA RoundUpFacts ==
    ASSUME NEW x \in Nat, NEW a \in Nat \ {0}
    PROVE  /\ RoundUp(x, a) \in Nat /\ x <= RoundUp(x, a) /\ RoundUp(x, a) <= x + a - 1
           /\ RoundUp(x, a) % a = 0
           /\ RoundUp(x, a) = (x + a - 1) - ((x + a - 1) % a)
<1> DEFINE y == x + a - 1
           q == y \div a
           r == y % a
<1>1. y \in Int
  OBVIOUS
<1>2. RoundUp(x, a) = q * a
  BY DEF RoundUp
<1> HIDE DEF y
<1>3. q \in Int /\ r \in 0 .. a - 1 /\ y = (a * q) + r
  BY <1>1, DivMod
<1> HIDE DEF q, r
<1>4. (a * q) % a = 0
  BY <1>3, Multiple
<1>5. a * q \in Int /\ q * a = a * q
  BY <1>3
<1>6. RoundUp(x, a) = y - r /\ RoundUp(x, a) \in Int
  BY <1>1, <1>2, <1>3, <1>5
<1>7. RoundUp(x, a) % a = 0
  BY <1>2, <1>4, <1>5
<1>8. QED
  BY <1>3, <1>6, <1>7 DEF y, r

\* A multiple stays where it is.
LEMMA RoundedAlready ==
    ASSUME NEW x \in Nat, NEW a \in Nat \ {0}, x % a = 0
    PROVE  RoundUp(x, a) = x
<1> DEFINE q == x \div a
<1>1. q \in Int /\ x = a * q
  BY Factor
<1> HIDE DEF q
<1>2. ((a * q) + (a - 1)) \div a = q
  BY <1>1, ModUnique
<1>3. x + a - 1 = (a * q) + (a - 1)
  BY <1>1
<1>4. QED
  BY <1>1, <1>2, <1>3 DEF RoundUp

\* jfs_mlg_align_size rounds up, except when that leaves the address space: the
\* result is 0 then.
LEMMA AlignSize ==
    ASSUME NEW x \in Size, NEW a, jfs_mlg_valid_align(a)
    PROVE  /\ RoundUp(x, a) <= Word
           /\ jfs_mlg_align_size(x, a) = IF RoundUp(x, a) < Word THEN RoundUp(x, a) ELSE 0
           /\ jfs_mlg_align_size(x, a) \in Size /\ jfs_mlg_align_size(x, a) % a = 0
<1>1. /\ Word \in Nat \ {0} /\ x \in Nat /\ x < Word /\ a \in Nat \ {0} /\ a < Word
      /\ Word % a = 0
  BY WordNat, ValidAlign DEF Size
<1>2. /\ RoundUp(x, a) \in Nat /\ x <= RoundUp(x, a) /\ RoundUp(x, a) <= x + a - 1
      /\ RoundUp(x, a) % a = 0
  BY <1>1, RoundUpFacts
<1>3. RoundUp(x, a) <= Word
  BY <1>1, <1>2, MultiplesApart
<1> DEFINE padded == Wrap(x + a - 1)
<1>4. CASE x + a - 1 < Word
  <2>1. padded = x + a - 1
    BY <1>1, <1>4, WrapSize DEF Size
  <2>2. padded - (padded % a) = RoundUp(x, a)
    BY <1>1, <2>1, RoundUpFacts
  <2>3. jfs_mlg_align_size(x, a) = RoundUp(x, a) /\ RoundUp(x, a) < Word
    BY <1>1, <1>2, <1>4, <2>2 DEF jfs_mlg_align_size
  <2>4. QED
    BY <1>1, <1>2, <1>3, <2>3 DEF Size
<1>5. CASE x + a - 1 >= Word
  <2>1. padded = x + a - 1 - Word
    BY <1>1, <1>5, WrapSize
  <2>2. padded \in 0 .. a - 1
    BY <1>1, <1>5, <2>1
  <2>3. padded % a = padded
    <3> HIDE DEF padded
    <3>1. ((a * 0) + padded) % a = padded
      BY <1>1, <2>2, ModUnique
    <3>2. (a * 0) + padded = padded
      BY <1>1, <2>2
    <3>3. QED
      BY <3>1, <3>2
  <2>4. jfs_mlg_align_size(x, a) = 0
    BY <2>2, <2>3 DEF jfs_mlg_align_size
  <2>5. RoundUp(x, a) >= Word
    <3>1. SUFFICES ASSUME RoundUp(x, a) < Word PROVE FALSE
      BY <1>1, <1>2
    <3>2. RoundUp(x, a) + a <= Word
      BY <1>1, <1>2, <3>1, MultiplesApart
    <3>3. QED
      BY <1>1, <1>2, <1>5, <3>2
  <2>6. 0 % a = 0
    BY <1>1
  <2>7. 0 \in Size
    BY <1>1 DEF Size
  <2>8. QED
    BY <1>1, <1>2, <1>3, <2>4, <2>5, <2>6, <2>7
<1>6. QED
  BY <1>1, <1>4, <1>5

\* A part only adds to the exact size.
LEMMA ExactGrows ==
    ASSUME NEW x \in Nat, NEW to, to.size \in Nat, to.count \in Nat, jfs_mlg_valid_align(to.align)
    PROVE  /\ to.size * to.count \in Nat
           /\ ExactAppend(x, to) = RoundUp(x, to.align) + (to.size * to.count)
           /\ ExactAppend(x, to) \in Nat /\ ExactAppend(x, to) >= x
<1>1. to.align \in Nat \ {0}
  BY ValidAlign
<1>2. to.size * to.count \in Nat
  <2> DEFINE u == to.size
             v == to.count
  <2>1. u \in Nat /\ v \in Nat
    OBVIOUS
  <2> HIDE DEF u, v
  <2>2. u * v \in Nat
    BY <2>1
  <2>3. QED
    BY <2>2 DEF u, v
<1>3. ExactAppend(x, to) = RoundUp(x, to.align) + (to.size * to.count)
  BY DEF ExactAppend, RoundUp
<1>4. RoundUp(x, to.align) \in Nat /\ x <= RoundUp(x, to.align)
  BY <1>1, RoundUpFacts
<1>5. QED
  BY <1>2, <1>3, <1>4

\* jfs_mlg_append: as long as the exact sum fits, the description has it and the part
\* lies behind all before it; when it does not, the part starts at 0 or ends behind
\* the address space.  Alignments hold in either case.
LEMMA Appended ==
    ASSUME NEW base \in Descriptions, jfs_mlg_valid_align(base.align),
           NEW to, to.size \in Nat, to.count \in Nat, jfs_mlg_valid_align(to.align),
           NEW new, new = jfs_mlg_append(base, to),
           NEW off, off = jfs_mlg_align_size(base.size, to.align),
           NEW len, len = to.size * to.count
    PROVE  /\ new \in Descriptions /\ new.count = base.count /\ jfs_mlg_valid_align(new.align)
           /\ new.align % base.align = 0 /\ new.align % to.align = 0
           /\ off \in Size /\ off % to.align = 0 /\ len \in Nat
           /\ ExactAppend(base.size, to) < Word =>
                /\ new.size = ExactAppend(base.size, to)
                /\ off >= base.size /\ off + len = new.size
           /\ ExactAppend(base.size, to) >= Word => off = 0 \/ off + len >= Word
<1>1. base.size \in Size /\ base.count \in Size /\ base.align \in Size
  BY DEF Descriptions
<1>2. Word \in Nat \ {0} /\ base.size \in Nat /\ base.size < Word
  BY <1>1, WordNat DEF Size
<1>3. /\ len \in Nat /\ ExactAppend(base.size, to) = RoundUp(base.size, to.align) + len
      /\ ExactAppend(base.size, to) \in Nat
  BY <1>2, ExactGrows
<1>4. /\ RoundUp(base.size, to.align) <= Word
      /\ off = IF RoundUp(base.size, to.align) < Word THEN RoundUp(base.size, to.align) ELSE 0
      /\ off \in Size /\ off % to.align = 0
  BY <1>1, AlignSize
<1>5. RoundUp(base.size, to.align) \in Nat /\ base.size <= RoundUp(base.size, to.align)
  BY <1>2, ValidAlign, RoundUpFacts
<1>6. new = [size |-> Wrap(off + len), align |-> Max2(base.align, to.align), count |-> base.count]
  BY DEF jfs_mlg_append, Descriptions
<1>7. /\ jfs_mlg_valid_align(new.align) /\ new.align % base.align = 0 /\ new.align % to.align = 0
  BY <1>6, StricterAlign
<1>8. off \in Nat /\ off < Word
  BY <1>2, <1>4 DEF Size
<1>9. Wrap(off + len) \in Size /\ (off + len \in Size => Wrap(off + len) = off + len)
  BY <1>3, <1>8, WrapSize
<1>10. new \in Descriptions /\ new.count = base.count
  BY <1>1, <1>6, <1>7, <1>9, ValidAlign DEF Descriptions
<1>11. ASSUME ExactAppend(base.size, to) < Word
       PROVE  /\ new.size = ExactAppend(base.size, to)
              /\ off >= base.size /\ off + len = new.size
  <2>1. off = RoundUp(base.size, to.align) /\ off + len \in Size
    BY <1>2, <1>3, <1>4, <1>5, <1>11 DEF Size
  <2>2. QED
    BY <1>3, <1>5, <1>6, <1>9, <2>1
<1>12. ASSUME ExactAppend(base.size, to) >= Word
       PROVE  off = 0 \/ off + len >= Word
  BY <1>2, <1>3, <1>4, <1>5, <1>12
<1>13. QED
  BY <1>3, <1>4, <1>7, <1>10, <1>11, <1>12

-----------------------------------------------------------------------------
(* The inductive invariant *)

\* The call has computed offsets, or has returned a memory with them.
Live == pc \in {"loop", "fill"} \/ Returned

Done == Len(offsets.comps)
ListLen    == sizeof_jfs_mlg_component * n
HeaderLen  == layout.header.size * layout.header.count
CompLen(k) == layout.descs[k].size * layout.descs[k].count

\* A part that wraps: it starts where the block does, or ends behind the address space.
BadPart(offset, len) == (offset = 0 /\ len > 0) \/ offset + len >= Word

HeapInv ==
    /\ pc = "start" => heap = {}
    /\ pc = "loop" => heap = {"offsets"}
    /\ pc = "fill" => heap = {"offsets", "memory"}
    /\ pc = "idle" => heap \subseteq {"memory"}
    /\ pc # "idle" \/ heap # {} => err = "OK"

AlignInv ==
    Live =>
        /\ jfs_mlg_valid_desc(layout.header) /\ jfs_mlg_valid_align(desc.align) /\ desc.count = 1
        /\ desc.align % PtrSize = 0 /\ desc.align % layout.header.align = 0
        /\ offsets.list % PtrSize = 0 /\ offsets.header % layout.header.align = 0
        /\ Done <= n /\ (pc # "loop" => Done = n)
        /\ \A k \in 1 .. Done :
            /\ jfs_mlg_valid_desc(layout.descs[k])
            /\ desc.align % layout.descs[k].align = 0
            /\ offsets.comps[k] % layout.descs[k].align = 0

\* While the sum fits, every part lies behind the one before it.
FitInv ==
    Live /\ need < Word =>
        /\ desc.size = need
        /\ offsets.list = sizeof_jfs_mlg_memory
        /\ offsets.list + ListLen <= offsets.header
        /\ offsets.header + HeaderLen <= desc.size
        /\ \A k \in 1 .. Done :
            /\ offsets.header + HeaderLen <= offsets.comps[k]
            /\ offsets.comps[k] + CompLen(k) <= desc.size
            /\ \A j \in 1 .. k - 1 : offsets.comps[j] + CompLen(j) <= offsets.comps[k]

\* Once it does not, a part has wrapped.
WrapInv ==
    Live /\ need >= Word =>
        \/ BadPart(offsets.list, ListLen) \/ BadPart(offsets.header, HeaderLen)
        \/ \E k \in 1 .. Done : BadPart(offsets.comps[k], CompLen(k))

AssertInv == failed # {} => Live /\ (need >= Word \/ n = 0)

PlaceInv ==
    /\ pc = "fill" \/ Returned =>
        /\ memory.base \in Bases /\ memory.base % desc.align = 0
        /\ memory.base + desc.size <= Word /\ memory.size = desc.size
    /\ Returned =>
        /\ memory.list = Wrap(memory.base + offsets.list)
        /\ memory.header = Wrap(memory.base + offsets.header)
        /\ Len(memory.comps) = n
        /\ \A k \in 1 .. n : memory.comps[k] = Wrap(memory.base + offsets.comps[k])

MemInv ==
    MemoryTypeOK /\ HeapInv /\ AlignInv /\ FitInv /\ WrapInv /\ AssertInv /\ PlaceInv

\* What the variables hold between calls is within their types.
LEMMA NoneTyped ==
    /\ NoLayout \in Layouts /\ Desc(0, 0, 0) \in Descriptions
    /\ NoOffsets \in Offsets /\ NoMemory \in Memories
<1>1. 0 \in Size
  BY WordNat DEF Size
<1>2. Desc(0, 0, 0) \in Descriptions
  BY <1>1 DEF Desc, Descriptions
<1>3. QED
  BY <1>1, <1>2 DEF NoLayout, NoOffsets, NoMemory, Layouts, Offsets, Memories

\* Between calls, and when one has begun, there is nothing to say but the types.
LEMMA RestStep ==
    ASSUME pc' = "start" \/ pc' = "idle", heap' = {}, pc' = "start" => err' = "OK",
           err' \in {"OK", "BAD_CONF", "SYS"}, failed' = {}, need' \in Nat,
           layout' \in Layouts, desc' \in Descriptions, offsets' \in Offsets, memory' \in Memories
    PROVE  MemInv'
<1>1. ~Live' /\ ~Returned' /\ pc' # "fill"
  BY DEF Live, Returned
<1>2. MemoryTypeOK'
  BY DEF MemoryTypeOK
<1>3. HeapInv'
  BY DEF HeapInv
<1>4. AlignInv' /\ FitInv' /\ WrapInv' /\ PlaceInv'
  BY <1>1 DEF AlignInv, FitInv, WrapInv, PlaceInv
<1>5. AssertInv'
  BY DEF AssertInv
<1>6. QED
  BY <1>2, <1>3, <1>4, <1>5 DEF MemInv

\* A call that fails at any of its steps leaves nothing behind it.
LEMMA FailStep ==
    ASSUME NEW code \in {"BAD_CONF", "SYS"}, Fail(code), heap' = {}
    PROVE  MemInv'
<1>1. /\ pc' = "idle" /\ err' = code /\ failed' = {} /\ need' = 0
      /\ layout' \in Layouts /\ desc' \in Descriptions /\ offsets' \in Offsets
      /\ memory' \in Memories
  BY NoneTyped DEF Fail
<1>2. QED
  BY <1>1, RestStep

\* A call begins with a layout of the caller.
LEMMA CallStep ==
    ASSUME MemInv, NEW D, D \subseteq Descriptions, NEW header \in Headers,
           NEW c \in 0 .. MaxComponents, NEW descs \in [1 .. c -> D], Call(header, descs)
    PROVE  MemInv'
<1>1. c \in Nat
  BY BoundAssumption
<1>2. descs \in Seq(Descriptions) /\ header \in Descriptions
  BY <1>1, DescsAssumption
<1>3. layout' \in Layouts
  BY <1>2 DEF Call, Layouts
<1>4. ~Live
  BY DEF Call, Live, Returned
<1>5. failed = {}
  BY <1>4 DEF MemInv, AssertInv
<1>6. /\ pc' = "start" /\ heap' = {} /\ err' = "OK" /\ failed' = {} /\ need' \in Nat
      /\ desc' \in Descriptions /\ offsets' \in Offsets /\ memory' \in Memories
  BY <1>5 DEF Call, MemInv, MemoryTypeOK
<1>7. QED
  BY <1>3, <1>6, RestStep

\* jfs_mlg_memory_free gives the block back.
LEMMA FreeStep == ASSUME MemInv, jfs_mlg_memory_free PROVE MemInv'
<1>1. /\ pc' = "idle" /\ heap' = {} /\ failed' = {} /\ need' = 0
      /\ layout' \in Layouts /\ desc' \in Descriptions /\ offsets' \in Offsets
      /\ memory' \in Memories /\ err' \in {"OK", "BAD_CONF", "SYS"}
  BY NoneTyped DEF jfs_mlg_memory_free, MemInv, MemoryTypeOK, HeapInv
<1>2. QED
  BY <1>1, RestStep

\* A header that is no description is refused before anything is allocated.
LEMMA BadHeaderStep == ASSUME MemInv, init_bad_header PROVE MemInv'
BY FailStep DEF init_bad_header, MemInv, HeapInv

\* A description that is none is refused, and the offsets are freed.
LEMMA BadDescStep == ASSUME MemInv, init_bad_desc PROVE MemInv'
<1>1. heap' = {} /\ Fail("BAD_CONF")
  BY DEF init_bad_desc, cleanup, MemInv, HeapInv
<1>2. QED
  BY <1>1, FailStep

\* The first two appends: the list of components and the header.
LEMMA StartStep == ASSUME MemInv, init_start PROVE MemInv'
<1> DEFINE own   == Desc(sizeof_jfs_mlg_memory, PtrSize, 1)
           comps == Desc(sizeof_jfs_mlg_component, PtrSize, n)
           with_list == jfs_mlg_append(own, comps)
           new   == jfs_mlg_append(with_list, layout.header)
           lo    == jfs_mlg_align_size(own.size, PtrSize)
           ho    == jfs_mlg_align_size(with_list.size, layout.header.align)
           e1    == ExactAppend(own.size, comps)
           e2    == ExactAppend(e1, layout.header)
<1>1. pc = "start" /\ heap = {} /\ err = "OK" /\ jfs_mlg_valid_desc(layout.header)
  BY DEF init_start, MemInv, HeapInv
<1>2. CASE Fail("SYS") /\ UNCHANGED heap
  BY <1>1, <1>2, FailStep
<1>3. CASE /\ desc' = new
           /\ offsets' = [list |-> lo, header |-> ho, comps |-> <<>>]
           /\ need' = e2
           /\ failed' = append_asserts(own, comps) \cup append_asserts(with_list, layout.header)
           /\ pc' = "loop" /\ heap' = {"offsets"}
           /\ UNCHANGED <<layout, memory, err>>
  <2>1. /\ layout \in Layouts /\ memory \in Memories /\ n \in Nat
        /\ layout.header \in Descriptions
    BY DEF MemInv, MemoryTypeOK, Layouts, n
  <2>2. /\ layout.header.size \in Nat /\ layout.header.count \in Nat
        /\ layout.header.size > 0 /\ layout.header.count > 0
        /\ jfs_mlg_valid_align(layout.header.align)
    BY <1>1, <2>1, WordNat DEF Descriptions, Size, jfs_mlg_valid_desc
  <2>3. /\ PtrSize \in Nat \ {0} /\ jfs_mlg_valid_align(PtrSize) /\ 4 * PtrSize < Word
        /\ Word \in Nat
    BY PtrAlign, WordNat
  <2>4. /\ own.size = 3 * PtrSize /\ own.align = PtrSize /\ own.count = 1
        /\ comps.size = 4 * PtrSize /\ comps.align = PtrSize /\ comps.count = n
        /\ own = [size |-> 3 * PtrSize, align |-> PtrSize, count |-> 1]
    BY DEF Desc, sizeof_jfs_mlg_memory, sizeof_jfs_mlg_component
  <2>5. own \in Descriptions
    <3>1. 3 * PtrSize \in Size /\ PtrSize \in Size /\ 1 \in Size
      BY <2>3 DEF Size
    <3>2. QED
      BY <2>4, <3>1 DEF Descriptions
  <2>6. own.size \in Nat /\ comps.size \in Nat
    BY <2>3, <2>4
  <2> HIDE DEF own, comps
  <2>7. /\ with_list \in Descriptions /\ with_list.count = own.count
        /\ jfs_mlg_valid_align(with_list.align)
        /\ with_list.align % own.align = 0 /\ with_list.align % comps.align = 0
        /\ lo \in Size /\ lo % comps.align = 0
        /\ e1 < Word => /\ with_list.size = e1
                        /\ lo >= own.size /\ lo + (comps.size * comps.count) = with_list.size
        /\ e1 >= Word => lo = 0 \/ lo + (comps.size * comps.count) >= Word
    BY <2>1, <2>3, <2>4, <2>5, <2>6, Appended
  <2>8. e1 \in Nat /\ e1 >= own.size
    BY <2>1, <2>3, <2>4, <2>6, ExactGrows
  <2> HIDE DEF with_list
  <2>9. e2 \in Nat /\ e2 >= e1 /\ HeaderLen \in Nat
    <3> HIDE DEF e1
    <3>1. QED
      BY <2>2, <2>8, ExactGrows DEF HeaderLen
  <2>10. /\ new \in Descriptions /\ new.count = with_list.count
         /\ jfs_mlg_valid_align(new.align)
         /\ new.align % with_list.align = 0 /\ new.align % layout.header.align = 0
         /\ ho \in Size /\ ho % layout.header.align = 0
         /\ ExactAppend(with_list.size, layout.header) < Word =>
                /\ new.size = ExactAppend(with_list.size, layout.header)
                /\ ho >= with_list.size /\ ho + HeaderLen = new.size
         /\ ExactAppend(with_list.size, layout.header) >= Word => ho = 0 \/ ho + HeaderLen >= Word
    BY <2>2, <2>7, Appended DEF HeaderLen
  <2> HIDE DEF new, lo, ho, e1
  <2>11. with_list.align \in Nat \ {0} /\ new.align \in Nat \ {0} /\ new.align \in Int
    BY <2>7, <2>10, ValidAlign
  <2>12. new.align % PtrSize = 0
    BY <2>3, <2>4, <2>7, <2>10, <2>11, DividesTrans
  <2>13. lo = 3 * PtrSize
    <3>1. (3 * PtrSize) % PtrSize = 0
      <4>1. (PtrSize * 3) % PtrSize = 0
        BY <2>3, Multiple
      <4>2. PtrSize * 3 = 3 * PtrSize
        BY <2>3
      <4>3. QED
        BY <4>1, <4>2
    <3>2. RoundUp(3 * PtrSize, PtrSize) = 3 * PtrSize
      BY <2>3, <3>1, RoundedAlready
    <3>3. 3 * PtrSize \in Size
      BY <2>3 DEF Size
    <3>4. QED
      BY <2>3, <2>4, <3>2, <3>3, AlignSize DEF lo
  <2>14. ListLen = comps.size * comps.count /\ comps.size * comps.count \in Nat
    BY <2>1, <2>3, <2>4 DEF ListLen, sizeof_jfs_mlg_component
  <2>15. HeaderLen > 0
    <3> DEFINE u == layout.header.size
               v == layout.header.count
    <3>1. u \in Nat /\ v \in Nat /\ u > 0 /\ v > 0
      BY <2>2
    <3> HIDE DEF u, v
    <3>2. u * v > 0
      BY <3>1
    <3>3. QED
      BY <3>2 DEF u, v, HeaderLen
  <2>16. /\ Live' /\ ~Returned' /\ Done' = 0 /\ n' = n /\ ListLen' = ListLen
         /\ HeaderLen' = HeaderLen /\ offsets'.list = lo /\ offsets'.header = ho
         /\ layout' = layout /\ desc' = new /\ need' = e2 /\ pc' = "loop"
    BY <1>3 DEF Live, Returned, Done, n, ListLen, HeaderLen
  <2> HIDE DEF e2
  <2>17. failed' # {} => e2 >= Word \/ n = 0
    <3>1. ASSUME e2 < Word, n # 0 PROVE append_asserts(own, comps) = {}
      <4>1. jfs_mlg_valid_desc(own) /\ jfs_mlg_valid_desc(comps) /\ own.size > 0
        BY <2>1, <2>3, <2>4, <3>1 DEF jfs_mlg_valid_desc
      <4>2. QED
        BY <4>1 DEF append_asserts
    <3>2. ASSUME e2 < Word, n # 0 PROVE append_asserts(with_list, layout.header) = {}
      <4>1. with_list.size = e1 /\ e1 > 0
        BY <2>3, <2>4, <2>7, <2>8, <2>9, <3>2
      <4>2. jfs_mlg_valid_desc(with_list) /\ with_list.size > 0
        BY <2>4, <2>7, <2>8, <4>1 DEF jfs_mlg_valid_desc
      <4>3. QED
        BY <1>1, <4>2 DEF append_asserts
    <3>3. QED
      BY <1>3, <2>3, <2>9, <3>1, <3>2
  <2>18. MemoryTypeOK'
    <3>1. offsets' \in Offsets
      BY <1>3, <2>7, <2>10 DEF Offsets
    <3>2. failed' \subseteq {21, 27, 32, 33}
      BY <1>3 DEF append_asserts
    <3>3. QED
      BY <1>1, <1>3, <2>1, <2>9, <2>10, <2>16, <3>1, <3>2 DEF MemoryTypeOK
  <2>19. HeapInv'
    BY <1>1, <1>3 DEF HeapInv
  <2>20. AlignInv'
    <3>1. \A k \in 1 .. Done' : FALSE
      BY <2>16
    <3>2. n' \in Nat /\ Done' <= n'
      BY <2>1, <2>16
    <3>3. new.count = 1 /\ lo % PtrSize = 0
      BY <2>4, <2>7, <2>10
    <3>4. QED
      BY <1>1, <2>10, <2>12, <2>16, <3>1, <3>2, <3>3 DEF AlignInv
  <2>21. FitInv'
    <3>1. SUFFICES ASSUME e2 < Word
                   PROVE  /\ new.size = e2 /\ lo = sizeof_jfs_mlg_memory
                          /\ lo + ListLen <= ho /\ ho + HeaderLen <= new.size
      <4>1. \A k \in 1 .. Done' : FALSE
        BY <2>16
      <4>2. QED
        BY <2>16, <3>1, <4>1 DEF FitInv, sizeof_jfs_mlg_memory
    <3>2. e1 < Word
      BY <2>3, <2>8, <2>9, <3>1
    <3>3. with_list.size = e1 /\ ExactAppend(with_list.size, layout.header) = e2
      BY <2>7, <3>2 DEF e2
    <3>4. lo + ListLen = with_list.size /\ ho >= with_list.size /\ new.size = e2
          /\ ho + HeaderLen = new.size
      BY <2>7, <2>10, <2>14, <3>1, <3>2, <3>3
    <3>5. ho \in Nat /\ lo \in Nat /\ new.size \in Nat
      BY <2>3, <2>7, <2>9, <2>10, <3>4 DEF Size
    <3>6. QED
      BY <2>9, <2>13, <2>14, <3>4, <3>5 DEF sizeof_jfs_mlg_memory
  <2>22. WrapInv'
    <3>1. SUFFICES ASSUME e2 >= Word
                   PROVE  BadPart(lo, ListLen) \/ BadPart(ho, HeaderLen)
      BY <2>16, <3>1 DEF WrapInv, BadPart
    <3>2. CASE e1 >= Word
      BY <2>3, <2>7, <2>13, <2>14, <3>2 DEF BadPart
    <3>3. CASE e1 < Word
      <4>1. ExactAppend(with_list.size, layout.header) = e2
        BY <2>7, <3>3 DEF e2
      <4>2. QED
        BY <2>10, <2>15, <3>1, <4>1 DEF BadPart
    <3>4. QED
      BY <2>3, <2>8, <3>2, <3>3
  <2>23. AssertInv' /\ PlaceInv'
    BY <2>16, <2>17 DEF AssertInv, PlaceInv
  <2>24. QED
    BY <2>18, <2>19, <2>20, <2>21, <2>22, <2>23 DEF MemInv
<1>4. QED
  BY <1>2, <1>3 DEF init_start

\* A component behind the others.
LEMMA AppendStep == ASSUME MemInv, init_append PROVE MemInv'
<1> DEFINE next == layout.descs[i]
           off  == jfs_mlg_align_size(desc.size, next.align)
           new  == jfs_mlg_append(desc, next)
           e    == ExactAppend(need, next)
           len  == next.size * next.count
<1>1. /\ pc = "loop" /\ i <= n /\ jfs_mlg_valid_desc(next)
      /\ offsets' = [offsets EXCEPT !.comps = Append(@, off)]
      /\ desc' = new /\ need' = e
      /\ failed' = failed \cup append_asserts(desc, next)
      /\ layout' = layout /\ pc' = pc /\ heap' = heap /\ memory' = memory /\ err' = err
  BY DEF init_append
<1>2. /\ MemoryTypeOK /\ HeapInv /\ AlignInv /\ FitInv /\ WrapInv /\ AssertInv
  BY DEF MemInv
<1>3. /\ layout \in Layouts /\ desc \in Descriptions /\ offsets \in Offsets
      /\ need \in Nat /\ n \in Nat /\ Done \in Nat /\ i = Done + 1
      /\ offsets.comps \in Seq(Size) /\ layout.descs \in Seq(Descriptions)
  BY <1>2 DEF MemoryTypeOK, Layouts, Offsets, n, Done, i
<1>4. next \in Descriptions
  BY <1>1, <1>3 DEF n
<1>5. /\ next.size \in Nat /\ next.count \in Nat /\ next.size > 0 /\ next.count > 0
      /\ jfs_mlg_valid_align(next.align) /\ Word \in Nat
  BY <1>1, <1>4, WordNat DEF Descriptions, Size, jfs_mlg_valid_desc
<1>6. Live /\ Live' /\ ~Returned' /\ pc' = "loop"
  BY <1>1 DEF Live, Returned
<1>7. /\ jfs_mlg_valid_desc(layout.header) /\ jfs_mlg_valid_align(desc.align) /\ desc.count = 1
      /\ desc.align % PtrSize = 0 /\ desc.align % layout.header.align = 0
      /\ offsets.list % PtrSize = 0 /\ offsets.header % layout.header.align = 0
      /\ \A k \in 1 .. Done :
            /\ jfs_mlg_valid_desc(layout.descs[k])
            /\ desc.align % layout.descs[k].align = 0
            /\ offsets.comps[k] % layout.descs[k].align = 0
  BY <1>2, <1>6 DEF AlignInv
<1>8. e \in Nat /\ e >= need /\ len \in Nat
  BY <1>3, <1>5, ExactGrows
<1>9. /\ new \in Descriptions /\ new.count = desc.count /\ jfs_mlg_valid_align(new.align)
      /\ new.align % desc.align = 0 /\ new.align % next.align = 0
      /\ off \in Size /\ off % next.align = 0
      /\ ExactAppend(desc.size, next) < Word =>
            /\ new.size = ExactAppend(desc.size, next)
            /\ off >= desc.size /\ off + len = new.size
      /\ ExactAppend(desc.size, next) >= Word => off = 0 \/ off + len >= Word
  BY <1>3, <1>5, <1>7, Appended
<1>10. len > 0
  <2> DEFINE u == next.size
             v == next.count
  <2>1. u \in Nat /\ v \in Nat /\ u > 0 /\ v > 0
    BY <1>5
  <2> HIDE DEF u, v
  <2>2. u * v > 0
    BY <2>1
  <2>3. QED
    BY <2>2 DEF u, v
<1>11. /\ offsets'.list = offsets.list /\ offsets'.header = offsets.header
       /\ offsets'.comps = Append(offsets.comps, off) /\ offsets' \in Offsets
  <2>1. Append(offsets.comps, off) \in Seq(Size)
    BY <1>3, <1>9
  <2> DEFINE longer == Append(offsets.comps, off)
  <2>2. offsets' = [offsets EXCEPT !.comps = longer] /\ longer \in Seq(Size)
    BY <1>1, <2>1
  <2> HIDE DEF longer
  <2>3. offsets' \in Offsets /\ offsets'.list = offsets.list /\ offsets'.header = offsets.header
        /\ offsets'.comps = longer
    BY <1>3, <2>2 DEF Offsets
  <2>4. QED
    BY <2>3 DEF longer
<1>12. /\ Done' = Done + 1 /\ n' = n /\ ListLen' = ListLen /\ HeaderLen' = HeaderLen
       /\ offsets'.comps[Done + 1] = off
       /\ \A k \in 1 .. Done : offsets'.comps[k] = offsets.comps[k]
       /\ \A k \in 1 .. Done : offsets.comps[k] \in Size
  BY <1>1, <1>3, <1>9, <1>11 DEF Done, n, ListLen, HeaderLen
<1>13. /\ CompLen(Done + 1) = len
       /\ \A k \in 1 .. Done + 1 : layout'.descs[k].size * layout'.descs[k].count = CompLen(k)
       /\ layout.descs[Done + 1] = next
  BY <1>1, <1>3 DEF CompLen
<1> HIDE DEF next, off, new, e, len
<1>14. new.align \in Int /\ desc.align \in Nat \ {0}
  BY <1>7, <1>9, ValidAlign
<1>15. ASSUME need < Word PROVE desc.size = need /\ ExactAppend(desc.size, next) = e
  BY <1>2, <1>6, <1>15 DEF FitInv, e
<1>16. MemoryTypeOK'
  <2>1. failed' \subseteq {21, 27, 32, 33}
    BY <1>1, <1>2 DEF append_asserts, MemoryTypeOK
  <2>2. QED
    BY <1>1, <1>2, <1>8, <1>9, <1>11, <2>1 DEF MemoryTypeOK
<1>17. HeapInv'
  BY <1>1, <1>2 DEF HeapInv
<1>18. AlignInv'
  <2>1. PtrSize \in Nat \ {0} /\ layout.header.align \in Nat \ {0}
    BY <1>7, PtrAlign, ValidAlign DEF jfs_mlg_valid_desc
  <2>2. new.align % PtrSize = 0 /\ new.align % layout.header.align = 0
    BY <1>7, <1>9, <1>14, <2>1, DividesTrans
  <2>3. ASSUME NEW k \in 1 .. Done + 1
        PROVE  /\ jfs_mlg_valid_desc(layout.descs[k])
               /\ new.align % layout.descs[k].align = 0
               /\ offsets'.comps[k] % layout.descs[k].align = 0
    <3>1. CASE k = Done + 1
      BY <1>1, <1>9, <1>12, <1>13, <3>1
    <3>2. CASE k \in 1 .. Done
      <4>1. layout.descs[k].align \in Nat \ {0}
        BY <1>7, <3>2, ValidAlign DEF jfs_mlg_valid_desc
      <4>2. QED
        BY <1>7, <1>9, <1>12, <1>14, <3>2, <4>1, DividesTrans
    <3>3. QED
      BY <1>3, <3>1, <3>2
  <2>4. Done + 1 <= n
    BY <1>1, <1>3
  <2>5. QED
    BY <1>1, <1>6, <1>7, <1>9, <1>11, <1>12, <2>2, <2>3, <2>4 DEF AlignInv
<1>19. FitInv'
  <2>1. SUFFICES ASSUME e < Word
                 PROVE  /\ new.size = e
                        /\ offsets.list = sizeof_jfs_mlg_memory
                        /\ offsets.list + ListLen <= offsets.header
                        /\ offsets.header + HeaderLen <= new.size
                        /\ \A k \in 1 .. Done + 1 :
                            /\ offsets.header + HeaderLen <= offsets'.comps[k]
                            /\ offsets'.comps[k] + CompLen(k) <= new.size
                            /\ \A j \in 1 .. k - 1 :
                                    offsets'.comps[j] + CompLen(j) <= offsets'.comps[k]
    <3>1. \A k \in 1 .. Done + 1 : CompLen(k)' = CompLen(k)
      BY <1>1 DEF CompLen
    <3>2. \A k \in 1 .. Done + 1 : \A j \in 1 .. k - 1 : j \in 1 .. Done + 1
      BY <1>3
    <3>3. \A k \in 1 .. Done + 1 : \A j \in 1 .. k - 1 : CompLen(j)' = CompLen(j)
      BY <1>1 DEF CompLen
    <3>4. QED
      BY <1>1, <1>6, <1>11, <1>12, <2>1, <3>1, <3>3 DEF FitInv
  <2>2. need < Word
    BY <1>3, <1>5, <1>8, <2>1
  <2>3. new.size = e /\ off >= desc.size /\ off + len = new.size
    BY <1>9, <1>15, <2>1, <2>2
  <2>4. /\ offsets.list = sizeof_jfs_mlg_memory
        /\ offsets.list + ListLen <= offsets.header
        /\ offsets.header + HeaderLen <= desc.size
        /\ \A k \in 1 .. Done :
            /\ offsets.header + HeaderLen <= offsets.comps[k]
            /\ offsets.comps[k] + CompLen(k) <= desc.size
            /\ \A j \in 1 .. k - 1 : offsets.comps[j] + CompLen(j) <= offsets.comps[k]
    BY <1>2, <1>6, <2>2 DEF FitInv
  <2>5. desc.size \in Nat /\ off \in Nat /\ new.size \in Nat
    BY <1>3, <1>5, <1>8, <1>9, <1>15, <2>2, <2>3 DEF Size
  <2>6. HeaderLen \in Nat /\ offsets.header \in Nat
    <3>1. layout.header.size \in Nat /\ layout.header.count \in Nat /\ offsets.header \in Nat
      BY <1>3, WordNat DEF Layouts, Descriptions, Offsets, Size
    <3> DEFINE u == layout.header.size
               v == layout.header.count
    <3>2. u \in Nat /\ v \in Nat
      BY <3>1
    <3> HIDE DEF u, v
    <3>3. u * v \in Nat
      BY <3>2
    <3>4. QED
      BY <3>1, <3>3 DEF u, v, HeaderLen
  <2>7. \A k \in 1 .. Done : offsets.comps[k] \in Nat /\ CompLen(k) \in Nat
    <3>1. SUFFICES ASSUME NEW k \in 1 .. Done
                   PROVE  offsets.comps[k] \in Nat /\ CompLen(k) \in Nat
      OBVIOUS
    <3>2. k \in 1 .. n
      BY <1>1, <1>3
    <3>3. layout.descs[k] \in Descriptions
      BY <1>3, <3>2 DEF n
    <3> DEFINE u == layout.descs[k].size
               v == layout.descs[k].count
    <3>4. u \in Nat /\ v \in Nat /\ offsets.comps[k] \in Nat
      BY <1>12, <3>3, WordNat DEF Descriptions, Size
    <3> HIDE DEF u, v
    <3>5. u * v \in Nat
      BY <3>4
    <3>6. QED
      BY <3>4, <3>5 DEF u, v, CompLen
  <2>8. offsets.header + HeaderLen <= off /\ off <= new.size /\ desc.size <= new.size
    BY <1>8, <2>3, <2>4, <2>5, <2>6
  <2>9. ASSUME NEW k \in 1 .. Done + 1
        PROVE  /\ offsets.header + HeaderLen <= offsets'.comps[k]
               /\ offsets'.comps[k] + CompLen(k) <= new.size
               /\ \A j \in 1 .. k - 1 : offsets'.comps[j] + CompLen(j) <= offsets'.comps[k]
    <3>1. CASE k = Done + 1
      <4>1. offsets'.comps[k] = off /\ CompLen(k) = len
        BY <1>12, <1>13, <3>1
      <4>2. ASSUME NEW j \in 1 .. k - 1 PROVE offsets'.comps[j] + CompLen(j) <= off
        <5>1. j \in 1 .. Done
          BY <1>3, <3>1
        <5>2. offsets'.comps[j] = offsets.comps[j] /\ offsets.comps[j] + CompLen(j) <= desc.size
          BY <1>12, <2>4, <5>1
        <5>3. offsets.comps[j] \in Nat /\ CompLen(j) \in Nat
          BY <2>7, <5>1
        <5>4. QED
          BY <2>3, <2>5, <5>2, <5>3
      <4>3. off + len <= new.size
        BY <2>3, <2>5
      <4>4. QED
        BY <2>8, <4>1, <4>2, <4>3
    <3>2. CASE k \in 1 .. Done
      <4>1. offsets'.comps[k] = offsets.comps[k]
        BY <1>12, <3>2
      <4>2. \A j \in 1 .. k - 1 : offsets'.comps[j] = offsets.comps[j]
        BY <1>3, <1>12, <3>2
      <4>3. offsets.comps[k] + CompLen(k) <= new.size
        <5>1. offsets.comps[k] \in Nat /\ CompLen(k) \in Nat
              /\ offsets.comps[k] + CompLen(k) <= desc.size
          BY <2>4, <2>7, <3>2
        <5>2. QED
          BY <2>5, <2>8, <5>1
      <4>4. QED
        BY <2>4, <3>2, <4>1, <4>2, <4>3
    <3>3. QED
      BY <1>3, <3>1, <3>2
  <2>10. offsets.header + HeaderLen <= new.size
    BY <2>4, <2>5, <2>6, <2>8
  <2>11. QED
    BY <2>3, <2>4, <2>9, <2>10
<1>20. WrapInv'
  <2>1. SUFFICES ASSUME e >= Word
                 PROVE  \/ BadPart(offsets.list, ListLen) \/ BadPart(offsets.header, HeaderLen)
                        \/ \E k \in 1 .. Done + 1 : BadPart(offsets'.comps[k], CompLen(k))
    <3>1. \A k \in 1 .. Done + 1 : CompLen(k)' = CompLen(k)
      BY <1>1 DEF CompLen
    <3>2. QED
      BY <1>1, <1>6, <1>11, <1>12, <2>1, <3>1 DEF WrapInv, BadPart
  <2>2. CASE need >= Word
    <3>1. \/ BadPart(offsets.list, ListLen) \/ BadPart(offsets.header, HeaderLen)
          \/ \E k \in 1 .. Done : BadPart(offsets.comps[k], CompLen(k))
      BY <1>2, <1>6, <2>2 DEF WrapInv
    <3>2. \A k \in 1 .. Done : k \in 1 .. Done + 1 /\ offsets'.comps[k] = offsets.comps[k]
      BY <1>3, <1>12
    <3>3. QED
      BY <3>1, <3>2
  <2>3. CASE need < Word
    <3>1. off = 0 \/ off + len >= Word
      BY <1>9, <1>15, <2>1, <2>3
    <3>2. BadPart(off, len)
      BY <1>10, <3>1 DEF BadPart
    <3>3. Done + 1 \in 1 .. Done + 1
      BY <1>3
    <3>4. QED
      BY <1>12, <1>13, <3>2, <3>3
  <2>4. QED
    BY <1>3, <1>5, <2>2, <2>3
<1>21. AssertInv'
  <2>1. SUFFICES ASSUME failed' # {}, e < Word PROVE n = 0
    BY <1>1, <1>5, <1>6, <1>8, <1>12 DEF AssertInv
  <2>2. need < Word
    BY <1>3, <1>5, <1>8, <2>1
  <2>3. CASE failed # {}
    BY <1>2, <1>3, <1>5, <2>2, <2>3 DEF AssertInv
  <2>4. CASE failed = {}
    <3>1. desc.size > 0
      <4>1. /\ desc.size = need /\ offsets.header + HeaderLen <= desc.size
            /\ offsets.list = 3 * PtrSize /\ offsets.list + ListLen <= offsets.header
        BY <1>2, <1>6, <2>2 DEF FitInv, sizeof_jfs_mlg_memory
      <4>2. PtrSize \in Nat \ {0}
        BY PtrAlign
      <4>3. ListLen \in Nat
        <5>1. 4 * PtrSize * n \in Nat
          BY <1>3, <4>2
        <5>2. QED
          BY <5>1 DEF ListLen, sizeof_jfs_mlg_component
      <4>4. HeaderLen \in Nat
        <5>1. layout.header.size \in Nat /\ layout.header.count \in Nat
          BY <1>3, WordNat DEF Layouts, Descriptions, Size
        <5>2. QED
          BY <5>1, <1>3, <1>7, ExactGrows DEF HeaderLen, jfs_mlg_valid_desc
      <4>5. offsets.header \in Nat /\ offsets.list \in Nat
        BY <1>3, WordNat DEF Offsets, Size
      <4>6. QED
        BY <1>3, <4>1, <4>2, <4>3, <4>4, <4>5
    <3>2. jfs_mlg_valid_desc(desc)
      BY <1>7, <3>1 DEF jfs_mlg_valid_desc
    <3>3. append_asserts(desc, next) = {}
      BY <1>1, <3>1, <3>2 DEF append_asserts, next
    <3>4. QED
      BY <1>1, <2>1, <2>4, <3>3
  <2>5. QED
    BY <2>3, <2>4
<1>22. PlaceInv'
  BY <1>6 DEF PlaceInv
<1>23. QED
  BY <1>16, <1>17, <1>18, <1>19, <1>20, <1>21, <1>22 DEF MemInv

\* The block lies where posix_memalign puts it, at the strictest alignment.
LEMMA AllocStep == ASSUME MemInv, init_alloc PROVE MemInv'
<1>1. /\ MemoryTypeOK /\ HeapInv /\ AlignInv /\ FitInv /\ WrapInv /\ AssertInv
      /\ pc = "loop" /\ i > n /\ heap = {"offsets"} /\ err = "OK" /\ Live
  BY DEF MemInv, HeapInv, init_alloc, Live
<1>2. CASE cleanup /\ Fail("SYS")
  BY <1>1, <1>2, FailStep DEF cleanup
<1>3. ASSUME NEW b \in Bases, b % desc.align = 0, b + desc.size <= Word,
             memory' = [NoMemory EXCEPT !.base = b, !.size = desc.size],
             heap' = heap \cup {"memory"}, pc' = "fill",
             UNCHANGED <<layout, desc, offsets, err, need, failed>>
      PROVE  MemInv'
  <2>1. b \in Size /\ desc \in Descriptions /\ desc.size \in Size
    BY <1>1, BasesAssumption DEF MemoryTypeOK, Descriptions
  <2>2. memory' \in Memories /\ memory'.base = b /\ memory'.size = desc.size
    BY <1>3, <2>1, NoneTyped DEF Memories
  <2>3. MemoryTypeOK'
    BY <1>1, <1>3, <2>2 DEF MemoryTypeOK
  <2>4. HeapInv'
    BY <1>1, <1>3 DEF HeapInv
  <2>5. Done = n
    <3>1. Done <= n /\ Done \in Nat /\ n \in Nat /\ i = Done + 1
      BY <1>1 DEF AlignInv, Done, n, i, MemoryTypeOK, Offsets, Layouts
    <3>2. QED
      BY <1>1, <3>1
  <2>6. /\ Live' /\ ~Returned' /\ Done' = Done /\ n' = n /\ ListLen' = ListLen
        /\ HeaderLen' = HeaderLen
    BY <1>3 DEF Live, Returned, Done, n, ListLen, HeaderLen
  <2>7. AlignInv'
    BY <1>1, <1>3, <2>5, <2>6 DEF AlignInv
  <2>8. FitInv' /\ WrapInv'
    BY <1>1, <1>3, <2>6 DEF FitInv, WrapInv, CompLen, BadPart
  <2>9. AssertInv'
    BY <1>1, <1>3, <2>6 DEF AssertInv
  <2>10. PlaceInv'
    BY <1>3, <2>2, <2>6 DEF PlaceInv
  <2>11. QED
    BY <2>3, <2>4, <2>7, <2>8, <2>9, <2>10 DEF MemInv
<1>4. QED
  BY <1>2, <1>3 DEF init_alloc

\* The pointers are the offsets from the block, and the offsets are freed.
LEMMA FillStep == ASSUME MemInv, init_fill PROVE MemInv'
<1> DEFINE at(offset) == jfs_mlg_apply_offset(memory.base, offset)
           all == {offsets.list, offsets.header} \cup {offsets.comps[k] : k \in 1 .. n}
           filled == [k \in 1 .. n |-> at(offsets.comps[k])]
<1>1. /\ MemoryTypeOK /\ HeapInv /\ AlignInv /\ FitInv /\ WrapInv /\ AssertInv /\ PlaceInv
      /\ pc = "fill" /\ heap = {"offsets", "memory"} /\ err = "OK" /\ Live
  BY DEF MemInv, HeapInv, init_fill, Live
<1>2. /\ memory' = [memory EXCEPT !.list = at(offsets.list), !.header = at(offsets.header),
                                  !.comps = filled]
      /\ failed' = failed \cup (IF 0 \in all THEN {21} ELSE {})
      /\ heap' = {"memory"} /\ pc' = "idle"
      /\ layout' = layout /\ desc' = desc /\ offsets' = offsets /\ err' = err /\ need' = need
  BY <1>1 DEF init_fill
<1>3. /\ memory \in Memories /\ memory.base \in Nat /\ offsets.list \in Nat
      /\ offsets.header \in Nat /\ n \in Nat /\ Done = n /\ offsets.comps \in Seq(Size)
      /\ \A k \in 1 .. n : offsets.comps[k] \in Nat
  BY <1>1, WordNat DEF MemoryTypeOK, Memories, Offsets, Size, Layouts, n, Done, AlignInv
<1>4. /\ at(offsets.list) = Wrap(memory.base + offsets.list)
      /\ at(offsets.header) = Wrap(memory.base + offsets.header)
      /\ \A k \in 1 .. n : filled[k] = Wrap(memory.base + offsets.comps[k])
  BY DEF jfs_mlg_apply_offset
<1>5. /\ at(offsets.list) \in Size /\ at(offsets.header) \in Size
      /\ \A k \in 1 .. n : at(offsets.comps[k]) \in Size
  <2>1. ASSUME NEW x \in Nat PROVE at(x) \in Size
    <3>1. memory.base + x \in Int
      BY <1>3
    <3>2. QED
      BY <3>1, WrapSize DEF jfs_mlg_apply_offset
  <2>2. QED
    BY <1>3, <2>1
<1>6. filled \in Seq(Size) /\ Len(filled) = n
  BY <1>3, <1>5
<1> DEFINE l == at(offsets.list)
           h == at(offsets.header)
<1>7. l \in Size /\ h \in Size /\ memory' = [memory EXCEPT !.list = l, !.header = h, !.comps = filled]
  BY <1>2, <1>5
<1> HIDE DEF filled, all, l, h
<1>8. /\ memory' \in Memories /\ memory'.list = l /\ memory'.header = h /\ memory'.comps = filled
      /\ memory'.base = memory.base /\ memory'.size = memory.size
  BY <1>3, <1>6, <1>7 DEF Memories
<1>9. /\ Live' /\ Returned' /\ Done' = Done /\ n' = n /\ ListLen' = ListLen
      /\ HeaderLen' = HeaderLen
  BY <1>2 DEF Live, Returned, Done, n, ListLen, HeaderLen
<1>10. MemoryTypeOK' /\ HeapInv'
  BY <1>1, <1>2, <1>8 DEF MemoryTypeOK, HeapInv
<1>11. AlignInv'
  BY <1>1, <1>2, <1>3, <1>9 DEF AlignInv
<1>12. FitInv' /\ WrapInv'
  BY <1>1, <1>2, <1>9 DEF FitInv, WrapInv, CompLen, BadPart
<1>13. PlaceInv'
  <2>1. /\ memory.base \in Bases /\ memory.base % desc.align = 0
        /\ memory.base + desc.size <= Word /\ memory.size = desc.size
    BY <1>1 DEF PlaceInv
  <2>2. QED
    BY <1>2, <1>4, <1>6, <1>8, <1>9, <2>1 DEF PlaceInv, l, h
<1>14. AssertInv'
  <2>1. SUFFICES ASSUME need < Word PROVE 0 \notin all
    <3>1. Live' /\ need' \in Nat /\ Word \in Nat
      BY <1>9, <1>10, WordNat DEF MemoryTypeOK
    <3>2. CASE need' >= Word
      BY <3>1, <3>2 DEF AssertInv
    <3>3. CASE need' < Word
      BY <1>1, <1>2, <1>9, <2>1, <3>1, <3>3 DEF AssertInv
    <3>4. QED
      BY <3>1, <3>2, <3>3
  <2>2. /\ offsets.list = 3 * PtrSize /\ offsets.list + ListLen <= offsets.header
        /\ \A k \in 1 .. n : offsets.header + HeaderLen <= offsets.comps[k]
    BY <1>1, <1>3, <2>1 DEF FitInv, sizeof_jfs_mlg_memory
  <2>3. PtrSize \in Nat \ {0}
    BY PtrAlign
  <2>4. ListLen \in Nat
    <3>1. 4 * PtrSize * n \in Nat
      BY <1>3, <2>3
    <3>2. QED
      BY <3>1 DEF ListLen, sizeof_jfs_mlg_component
  <2>5. HeaderLen \in Nat
    <3>1. layout.header.size \in Nat /\ layout.header.count \in Nat
      BY <1>1, WordNat DEF MemoryTypeOK, Layouts, Descriptions, Size
    <3>2. jfs_mlg_valid_align(layout.header.align)
      BY <1>1 DEF AlignInv, jfs_mlg_valid_desc
    <3>3. QED
      BY <3>1, <3>2, <1>3, ExactGrows DEF HeaderLen
  <2>6. offsets.list > 0 /\ offsets.header > 0
    BY <1>3, <2>2, <2>3, <2>4
  <2>7. \A k \in 1 .. n : offsets.comps[k] > 0
    BY <1>3, <2>2, <2>5, <2>6
  <2>8. QED
    BY <2>6, <2>7, <1>3 DEF all
<1>15. QED
  BY <1>10, <1>11, <1>12, <1>13, <1>14 DEF MemInv

\* At first there is no memory.
LEMMA MemInit == Init => MemInv
<1>1. SUFFICES ASSUME Init PROVE MemInv
  OBVIOUS
<1>2. /\ layout \in Layouts /\ desc \in Descriptions /\ offsets \in Offsets /\ memory \in Memories
      /\ pc = "idle" /\ err = "OK" /\ failed = {} /\ need = 0 /\ heap = {}
  BY <1>1, NoneTyped DEF Init
<1>3. ~Live /\ ~Returned
  BY <1>2 DEF Live, Returned
<1>4. MemoryTypeOK /\ HeapInv
  BY <1>2 DEF MemoryTypeOK, HeapInv
<1>5. AlignInv /\ FitInv /\ WrapInv /\ AssertInv /\ PlaceInv
  BY <1>2, <1>3 DEF AlignInv, FitInv, WrapInv, AssertInv, PlaceInv
<1>6. QED
  BY <1>4, <1>5 DEF MemInv

\* A step that changes nothing keeps MemInv.
LEMMA Stutter == ASSUME MemInv, UNCHANGED vars PROVE MemInv'
BY DEF MemInv, MemoryTypeOK, HeapInv, AlignInv, FitInv, WrapInv, AssertInv, PlaceInv, vars,
       Live, Returned, Done, n, ListLen, HeaderLen, CompLen, BadPart

\* For a client whose descriptions are in D.
LEMMA LayOutStep == ASSUME MemInv, NEW D, D \subseteq Descriptions, LayOut(D) PROVE MemInv'
<1>1. CASE \E header \in Headers, c \in 0 .. MaxComponents :
                \E descs \in [1 .. c -> D] : Call(header, descs)
  BY <1>1, CallStep
<1>2. QED
  BY <1>1, BadHeaderStep, StartStep, AppendStep, BadDescStep, AllocStep, FillStep DEF LayOut

-----------------------------------------------------------------------------
(* What a memory that is handed out looks like *)

\* The parts of a memory: the struct, the list, the header and the components.
LEMMA PartsFacts ==
    ASSUME n \in Nat
    PROVE  /\ Len(Parts) = 3 + n
           /\ Parts[1].start = memory.base /\ Parts[1].len = sizeof_jfs_mlg_memory
           /\ Parts[2].start = memory.list /\ Parts[2].len = n * sizeof_jfs_mlg_component
           /\ Parts[3].start = memory.header /\ Parts[3].len = HeaderLen
           /\ \A k \in 1 .. n :
                Parts[3 + k].start = memory.comps[k] /\ Parts[3 + k].len = CompLen(k)
<1> DEFINE a == [start |-> memory.base, len |-> sizeof_jfs_mlg_memory]
           b == [start |-> memory.list, len |-> n * sizeof_jfs_mlg_component]
           c == [start |-> memory.header, len |-> HeaderLen]
           d(k) == [start |-> memory.comps[k], len |-> CompLen(k)]
           T == {a, b, c} \cup {d(k) : k \in 1 .. n}
           front == <<a, b, c>>
           rest == [k \in 1 .. n |-> d(k)]
<1>1. Parts = front \o rest
  BY DEF Parts, HeaderLen, CompLen
<1>2. front \in Seq(T) /\ Len(front) = 3 /\ front[1] = a /\ front[2] = b /\ front[3] = c
  <2>1. a \in T /\ b \in T /\ c \in T
    OBVIOUS
  <2> HIDE DEF T, a, b, c
  <2>2. QED
    BY <2>1
<1>3. rest \in Seq(T) /\ Len(rest) = n /\ \A k \in 1 .. n : rest[k] = d(k)
  <2>1. \A k \in 1 .. n : d(k) \in T
    OBVIOUS
  <2> HIDE DEF T, d
  <2>2. QED
    BY <2>1
<1> HIDE DEF front, rest, a, b, c, d, T
<1>4. /\ Len(Parts) = 3 + n
      /\ \A k \in 1 .. 3 + n : Parts[k] = IF k <= 3 THEN front[k] ELSE rest[k - 3]
  <2>1. /\ Len(front \o rest) = Len(front) + Len(rest)
        /\ \A k \in 1 .. Len(front) + Len(rest) :
                (front \o rest)[k] = IF k <= Len(front) THEN front[k] ELSE rest[k - Len(front)]
    BY <1>2, <1>3, ConcatProperties, Zenon
  <2> DEFINE whole == front \o rest
  <2> HIDE DEF whole
  <2>2. /\ Len(whole) = 3 + n
        /\ \A k \in 1 .. 3 + n : whole[k] = IF k <= 3 THEN front[k] ELSE rest[k - 3]
    BY <1>2, <1>3, <2>1, Zenon DEF whole
  <2>3. QED
    BY <1>1, <2>2, Zenon DEF whole
<1>5. \A k \in 1 .. 3 : Parts[k] = front[k]
  BY <1>4
<1>6. \A k \in 1 .. n : Parts[3 + k] = rest[k]
  <2>1. ASSUME NEW k \in 1 .. n PROVE 3 + k \in 1 .. 3 + n /\ ~(3 + k <= 3) /\ (3 + k) - 3 = k
    OBVIOUS
  <2>2. QED
    BY <1>4, <2>1
<1>7. QED
  BY <1>2, <1>3, <1>4, <1>5, <1>6 DEF a, b, c, d

\* The numbers of a memory that is handed out.
Numbers ==
    /\ Word \in Nat /\ PtrSize \in Nat \ {0} /\ n \in Nat /\ Done = n /\ need \in Nat
    /\ memory.base \in Nat /\ memory.base > 0 /\ memory.base \in Size
    /\ memory.size \in Nat /\ memory.size < Word /\ memory.size = desc.size
    /\ memory.base + memory.size <= Word
    /\ offsets.list \in Size /\ offsets.header \in Size
    /\ offsets.list \in Nat /\ offsets.header \in Nat
    /\ \A k \in 1 .. n : offsets.comps[k] \in Size /\ offsets.comps[k] \in Nat
    /\ ListLen \in Nat /\ n * sizeof_jfs_mlg_component = ListLen
    /\ HeaderLen \in Nat /\ HeaderLen > 0
    /\ \A k \in 1 .. n : CompLen(k) \in Nat /\ CompLen(k) > 0

\* The numbers a memory that is handed out is made of.
LEMMA ReturnedFacts == ASSUME MemInv, Returned PROVE Numbers
<1>1. MemoryTypeOK /\ AlignInv /\ PlaceInv /\ Live /\ pc = "idle"
  BY DEF MemInv, Live, Returned
<1>2. Word \in Nat /\ PtrSize \in Nat \ {0}
  BY WordNat, PtrAlign
<1>3. /\ layout \in Layouts /\ desc \in Descriptions /\ offsets \in Offsets /\ memory \in Memories
      /\ need \in Nat /\ n \in Nat /\ Done = n
  BY <1>1 DEF MemoryTypeOK, AlignInv, n, Layouts
<1>4. /\ memory.base \in Bases /\ memory.base + desc.size <= Word /\ memory.size = desc.size
  BY <1>1 DEF PlaceInv
<1>5. /\ memory.base \in Size \ {0} /\ memory.size \in Size
      /\ offsets.list \in Size /\ offsets.header \in Size
      /\ \A k \in 1 .. n : offsets.comps[k] \in Size
  BY <1>3, <1>4, BasesAssumption DEF Memories, Offsets, Done
<1>6. \A x \in Size : x \in Nat /\ x < Word
  BY <1>2 DEF Size
<1>7. ListLen \in Nat /\ n * sizeof_jfs_mlg_component = ListLen
  <2>1. (4 * PtrSize) * n \in Nat /\ n * (4 * PtrSize) = (4 * PtrSize) * n
    BY <1>2, <1>3
  <2>2. QED
    BY <2>1 DEF ListLen, sizeof_jfs_mlg_component
<1>8. \A u, v \in Nat : u > 0 /\ v > 0 => u * v \in Nat /\ u * v > 0
  OBVIOUS
<1>9. HeaderLen \in Nat /\ HeaderLen > 0
  <2>1. /\ layout.header.size \in Nat /\ layout.header.count \in Nat
        /\ layout.header.size > 0 /\ layout.header.count > 0
    BY <1>1, <1>3, <1>6 DEF AlignInv, jfs_mlg_valid_desc, Layouts, Descriptions
  <2>2. QED
    BY <1>8, <2>1 DEF HeaderLen
<1>10. \A k \in 1 .. n : CompLen(k) \in Nat /\ CompLen(k) > 0
  <2>1. SUFFICES ASSUME NEW k \in 1 .. n PROVE CompLen(k) \in Nat /\ CompLen(k) > 0
    OBVIOUS
  <2>2. layout.descs[k] \in Descriptions /\ jfs_mlg_valid_desc(layout.descs[k])
    BY <1>1, <1>3 DEF AlignInv, Layouts, n
  <2>3. /\ layout.descs[k].size \in Nat /\ layout.descs[k].count \in Nat
        /\ layout.descs[k].size > 0 /\ layout.descs[k].count > 0
    BY <1>6, <2>2 DEF jfs_mlg_valid_desc, Descriptions
  <2>4. QED
    BY <1>8, <2>3 DEF CompLen
<1>11. memory.base > 0
  BY <1>5, <1>6
<1>12. QED
  BY <1>2, <1>3, <1>4, <1>5, <1>6, <1>7, <1>9, <1>10, <1>11 DEF Numbers

\* A sum that fits leaves every pointer where the offset says.
LEMMA FitsIsSound ==
    ASSUME MemInv, Returned, need < Word
    PROVE  Sound
<1>0. Numbers
  BY ReturnedFacts
<1> USE <1>0 DEF Numbers
<1>1. FitInv /\ PlaceInv /\ Live
  BY DEF MemInv, Live
<1>2. /\ desc.size = memory.size
      /\ offsets.list = 3 * PtrSize
      /\ offsets.list + ListLen <= offsets.header
      /\ offsets.header + HeaderLen <= memory.size
      /\ \A k \in 1 .. n :
            /\ offsets.header + HeaderLen <= offsets.comps[k]
            /\ offsets.comps[k] + CompLen(k) <= memory.size
            /\ \A j \in 1 .. k - 1 : offsets.comps[j] + CompLen(j) <= offsets.comps[k]
  BY <1>1 DEF FitInv, sizeof_jfs_mlg_memory
<1>3. ASSUME NEW o \in Nat, o < memory.size PROVE Wrap(memory.base + o) = memory.base + o
  <2>1. memory.base + o \in Size
    BY <1>3 DEF Size
  <2>2. QED
    BY <2>1, WrapSize DEF Size
<1>4. /\ memory.list = memory.base + offsets.list
      /\ memory.header = memory.base + offsets.header
      /\ \A k \in 1 .. n : memory.comps[k] = memory.base + offsets.comps[k]
  <2>1. offsets.list < memory.size /\ offsets.header < memory.size
    BY <1>2
  <2>2. \A k \in 1 .. n : offsets.comps[k] < memory.size
    BY <1>2
  <2>3. QED
    BY <1>1, <1>3, <2>1, <2>2 DEF PlaceInv
<1> DEFINE S(p) == Parts[p].start
           L(p) == Parts[p].len
<1>5. /\ Len(Parts) = 3 + n
      /\ S(1) = memory.base /\ L(1) = 3 * PtrSize
      /\ S(2) = memory.base + offsets.list /\ L(2) = ListLen
      /\ S(3) = memory.base + offsets.header /\ L(3) = HeaderLen
      /\ \A k \in 1 .. n : S(3 + k) = memory.base + offsets.comps[k] /\ L(3 + k) = CompLen(k)
  BY <1>4, PartsFacts DEF sizeof_jfs_mlg_memory
<1> HIDE DEF S, L
<1>5a. ASSUME NEW p \in {1, 2, 3}
       PROVE  /\ S(p) \in Nat /\ L(p) \in Nat /\ S(p) >= memory.base
              /\ S(p) + L(p) <= memory.base + (offsets.header + HeaderLen)
  <2>1. S(1) = memory.base /\ L(1) = 3 * PtrSize /\ S(2) = memory.base + offsets.list
        /\ L(2) = ListLen /\ S(3) = memory.base + offsets.header /\ L(3) = HeaderLen
    BY <1>5
  <2>2. offsets.list = 3 * PtrSize /\ offsets.list + ListLen <= offsets.header
    BY <1>2
  <2>3. /\ PtrSize \in Nat /\ memory.base \in Nat /\ offsets.list \in Nat /\ offsets.header \in Nat
        /\ ListLen \in Nat /\ HeaderLen \in Nat
    OBVIOUS
  <2> HIDE <1>0
  <2>4. QED
    BY <2>1, <2>2, <2>3
<1>6. ASSUME NEW p \in 1 .. 3 + n
      PROVE  \/ p \in {1, 2, 3} \/ \E k \in 1 .. n : p = 3 + k
  <2>1. p \in 4 .. 3 + n => p - 3 \in 1 .. n /\ p = 3 + (p - 3)
    OBVIOUS
  <2>2. p \in {1, 2, 3} \/ p \in 4 .. 3 + n
    OBVIOUS
  <2>3. QED
    BY <2>1, <2>2
<1>7. ASSUME NEW p \in 1 .. 3 + n
      PROVE  /\ S(p) \in Nat /\ L(p) \in Nat /\ S(p) >= memory.base
             /\ S(p) + L(p) <= memory.base + memory.size
  <2>1. CASE p \in {1, 2, 3}
    BY <1>2, <1>5a, <2>1
  <2>2. ASSUME NEW k \in 1 .. n, p = 3 + k
        PROVE  /\ S(p) \in Nat /\ L(p) \in Nat /\ S(p) >= memory.base
               /\ S(p) + L(p) <= memory.base + memory.size
    <3>1. S(p) = memory.base + offsets.comps[k] /\ L(p) = CompLen(k)
      BY <1>5, <2>2
    <3>2. /\ offsets.comps[k] + CompLen(k) <= memory.size
          /\ offsets.comps[k] \in Nat /\ CompLen(k) \in Nat
      BY <1>2
    <3>3. QED
      BY <3>1, <3>2
  <2>3. QED
    BY <1>6, <2>1, <2>2
<1>8. ASSUME NEW p \in 1 .. 3 + n, NEW q \in 1 .. 3 + n, p < q
      PROVE  S(p) + L(p) <= S(q)
  <2>1. CASE q \in {1, 2, 3}
    <3>1. p \in {1, 2} /\ q \in {2, 3}
      BY <1>8, <2>1
    <3>2. QED
      BY <1>2, <1>5, <1>8, <3>1
  <2>2. ASSUME NEW k \in 1 .. n, q = 3 + k PROVE S(p) + L(p) <= S(q)
    <3>1. S(q) = memory.base + offsets.comps[k] /\ offsets.header + HeaderLen <= offsets.comps[k]
          /\ offsets.comps[k] \in Nat
      BY <1>2, <1>5, <2>2
    <3>2. CASE p \in {1, 2, 3}
      BY <1>5a, <3>1, <3>2
    <3>3. ASSUME NEW j \in 1 .. n, p = 3 + j PROVE S(p) + L(p) <= S(q)
      <4>1. j \in 1 .. k - 1
        BY <1>8, <2>2, <3>3
      <4>2. S(p) = memory.base + offsets.comps[j] /\ L(p) = CompLen(j)
        BY <1>5, <3>3
      <4>3. offsets.comps[j] + CompLen(j) <= offsets.comps[k]
        BY <1>2, <4>1
      <4>4. QED
        BY <3>1, <4>2, <4>3
    <3>4. QED
      BY <1>6, <3>2, <3>3
  <2>3. QED
    BY <1>6, <2>1, <2>2
<1>9. ASSUME NEW p \in 1 .. 3 + n, NEW q \in 1 .. 3 + n, p # q
      PROVE  ~Overlap(S(p), L(p), S(q), L(q))
  <2>1. S(p) \in Nat /\ L(p) \in Nat /\ S(q) \in Nat /\ L(q) \in Nat
    BY <1>7
  <2>2. CASE p < q
    BY <1>8, <2>1, <2>2 DEF Overlap
  <2>3. CASE q < p
    BY <1>8, <2>1, <2>3 DEF Overlap
  <2>4. QED
    BY <1>9, <2>2, <2>3
<1>10. 1 .. Len(Parts) = 1 .. 3 + n
  BY <1>5
<1>11. QED
  BY <1>7, <1>9, <1>10 DEF Sound, S, L

\* A part that has wrapped leaves the block or covers the struct at its start.
LEMMA BadBreaks ==
    ASSUME NEW base \in Size, NEW size \in Size, NEW off \in Size, NEW len \in Nat,
           NEW own \in Nat \ {0}, BadPart(off, len), NEW start, start = Wrap(base + off),
           start >= base, start + len <= base + size
    PROVE  Overlap(base, own, start, len)
<1>1. Word \in Nat /\ base \in Nat /\ off \in Nat /\ size \in Nat /\ off < Word /\ base < Word
      /\ size < Word
  BY WordNat DEF Size
<1>2. CASE base + off < Word
  <2>1. start = base + off
    BY <1>1, <1>2, WrapSize DEF Size
  <2>2. QED
    BY <1>1, <2>1 DEF BadPart, Overlap
<1>3. CASE base + off >= Word
  <2>1. start = base + off - Word
    BY <1>1, <1>3, WrapSize
  <2>2. QED
    BY <1>1, <2>1
<1>4. QED
  BY <1>1, <1>2, <1>3

\* A memory whose size has wrapped has a part that meets the struct at its start or leaves it.
LEMMA WrapsIsNotSound ==
    ASSUME MemInv, Returned, need >= Word
    PROVE  ~Sound
<1>0. Numbers
  BY ReturnedFacts
<1> USE <1>0 DEF Numbers
<1>1. WrapInv /\ PlaceInv /\ Live
  BY DEF MemInv, Live
<1>2. /\ Len(Parts) = 3 + n
      /\ Parts[1].start = memory.base /\ Parts[1].len = sizeof_jfs_mlg_memory
      /\ Parts[2].start = Wrap(memory.base + offsets.list) /\ Parts[2].len = ListLen
      /\ Parts[3].start = Wrap(memory.base + offsets.header) /\ Parts[3].len = HeaderLen
      /\ \A k \in 1 .. n : /\ Parts[3 + k].start = Wrap(memory.base + offsets.comps[k])
                           /\ Parts[3 + k].len = CompLen(k)
  BY <1>1, PartsFacts DEF PlaceInv
<1>3. sizeof_jfs_mlg_memory \in Nat \ {0} /\ memory.size \in Size
  BY DEF sizeof_jfs_mlg_memory, Size
<1>4. ASSUME Sound, NEW p \in 2 .. 3 + n, NEW off \in Size, NEW len \in Nat, BadPart(off, len),
             Parts[p].start = Wrap(memory.base + off), Parts[p].len = len
      PROVE  FALSE
  <2>1. 1 \in 1 .. Len(Parts) /\ p \in 1 .. Len(Parts) /\ 1 # p
    BY <1>2
  <2>2. /\ Parts[p].start >= memory.base
        /\ Parts[p].start + Parts[p].len <= memory.base + memory.size
        /\ ~Overlap(Parts[1].start, Parts[1].len, Parts[p].start, Parts[p].len)
    BY <1>4, <2>1 DEF Sound
  <2>3. QED
    BY <1>2, <1>3, <1>4, <2>2, BadBreaks
<1>5. ~(Sound /\ BadPart(offsets.list, ListLen))
  <2>1. 2 \in 2 .. 3 + n
    OBVIOUS
  <2>2. QED
    BY <1>2, <1>4, <2>1
<1>6. ~(Sound /\ BadPart(offsets.header, HeaderLen))
  <2>1. 3 \in 2 .. 3 + n
    OBVIOUS
  <2>2. QED
    BY <1>2, <1>4, <2>1
<1>7. ASSUME NEW k \in 1 .. n PROVE ~(Sound /\ BadPart(offsets.comps[k], CompLen(k)))
  <2>1. 3 + k \in 2 .. 3 + n
    OBVIOUS
  <2>2. QED
    BY <1>2, <1>4, <2>1
<1>8. QED
  BY <1>1, <1>5, <1>6, <1>7 DEF WrapInv

\* A place at an aligned offset of an aligned block is aligned, even when it wraps.
LEMMA AlignedAt ==
    ASSUME NEW base \in Size, NEW off \in Size, NEW a, jfs_mlg_valid_align(a),
           NEW d, jfs_mlg_valid_align(d), base % d = 0, d % a = 0, off % a = 0
    PROVE  Wrap(base + off) % a = 0
<1>1. Word \in Nat /\ Word \in Int /\ base \in Nat /\ off \in Nat /\ off < Word /\ base < Word
  BY WordNat DEF Size
<1>2. a \in Nat \ {0} /\ d \in Nat \ {0} /\ Word % a = 0
  BY ValidAlign
<1>3. base % a = 0
  BY <1>1, <1>2, DividesTrans
<1>4. (base + off) % a = 0
  BY <1>1, <1>2, <1>3, SumDivides
<1>5. CASE base + off < Word
  BY <1>1, <1>4, <1>5, WrapSize DEF Size
<1>6. CASE base + off >= Word
  <2>1. Wrap(base + off) = base + off - Word
    BY <1>1, <1>6, WrapSize
  <2> DEFINE sum == base + off
  <2>2. sum \in Int /\ sum % a = 0 /\ Wrap(base + off) = sum - Word
    BY <1>1, <1>4, <2>1
  <2> HIDE DEF sum
  <2>3. (sum - Word) % a = 0
    BY <1>1, <1>2, <2>2, SumDivides, Zenon
  <2>4. QED
    BY <2>2, <2>3
<1>7. QED
  BY <1>1, <1>5, <1>6

\* So every part is aligned.
LEMMA AlwaysAligned ==
    ASSUME MemInv, Returned
    PROVE  Aligned
<1>0. Numbers
  BY ReturnedFacts
<1> USE <1>0 DEF Numbers
<1>1. AlignInv /\ PlaceInv /\ Live
  BY DEF MemInv, Live
<1>2. /\ memory.base % desc.align = 0 /\ jfs_mlg_valid_align(desc.align)
      /\ jfs_mlg_valid_align(layout.header.align) /\ jfs_mlg_valid_align(PtrSize)
  BY <1>1, PtrAlign DEF AlignInv, PlaceInv, jfs_mlg_valid_desc
<1>3. memory.list % PtrSize = 0
  BY <1>1, <1>2, AlignedAt DEF AlignInv, PlaceInv
<1>4. memory.header % layout.header.align = 0
  BY <1>1, <1>2, AlignedAt DEF AlignInv, PlaceInv
<1>5. ASSUME NEW k \in 1 .. n PROVE memory.comps[k] % layout.descs[k].align = 0
  <2>1. /\ jfs_mlg_valid_align(layout.descs[k].align) /\ desc.align % layout.descs[k].align = 0
        /\ offsets.comps[k] % layout.descs[k].align = 0
    BY <1>1 DEF AlignInv, jfs_mlg_valid_desc
  <2>2. QED
    BY <1>1, <1>2, <2>1, AlignedAt DEF PlaceInv
<1>6. QED
  BY <1>3, <1>4, <1>5 DEF Aligned

\* The invariant is as strong as the properties.
LEMMA MemInvImplies == MemInv => SoundIffFits /\ NothingLeaked
<1>1. SUFFICES ASSUME MemInv PROVE SoundIffFits /\ NothingLeaked
  OBVIOUS
<1>2. need \in Nat /\ Word \in Nat
  BY <1>1, WordNat DEF MemInv, MemoryTypeOK
<1>3. ASSUME Returned PROVE (Sound <=> need < Word) /\ Aligned
  <2>1. need < Word \/ need >= Word
    BY <1>2
  <2>2. QED
    BY <1>1, <1>3, <2>1, FitsIsSound, WrapsIsNotSound, AlwaysAligned
<1>4. NothingLeaked
  BY <1>1 DEF MemInv, HeapInv, AssertInv, NothingLeaked
<1>5. QED
  BY <1>3, <1>4 DEF SoundIffFits

-----------------------------------------------------------------------------
(* The theorems *)

\* MemInv is inductive.
LEMMA MemStep == MemInv /\ [Next]_vars => MemInv'
<1>1. Descs \subseteq Descriptions
  BY DescsAssumption
<1>2. QED
  BY <1>1, LayOutStep, FreeStep, Stutter DEF Next

\* Whatever the layout, jfs_mlg_memory_init hands out parts that are inside the block and
\* apart exactly if the size they need fits a size_t, and parts that are aligned in any case.
THEOREM LayoutIsSound == Spec => []SoundIffFits
BY MemInit, MemStep, MemInvImplies, PTL DEF Spec

\* jfs_mlg_memory_init leaves nothing on the heap at whichever step it fails, and its asserts
\* fail only for sizes that wrap and for a layout without components.
THEOREM LayoutLeaksNothing == Spec => []NothingLeaked
BY MemInit, MemStep, MemInvImplies, PTL DEF Spec

-----------------------------------------------------------------------------
(* The free list: the inductive invariant *)

Obj(k) == comp.ptr + k * ObjSize
Made   == state \in {"ready", "undefined"}

\* What the head of the list and a link may hold.
Linkable == Objects \cup {NULL, Junk}

ArgsInv == IsTree => jfs_mlg_valid_desc(args)

RestInv ==
    /\ state = "none" =>
        /\ comp = NoComponent /\ linked = 0 /\ link = <<>> /\ list = NULL
        /\ count = 0 /\ out = {} /\ black = FALSE /\ outside = FALSE
    /\ state = "link" => count = 0 /\ out = {} /\ black = FALSE

\* The component is a part of a memory that fits.
CompInv ==
    state # "none" =>
        /\ Returned
        /\ jfs_mlg_valid_desc(comp.desc) /\ comp.ptr > 0
        /\ comp.ptr % comp.desc.align = 0 /\ End <= Word
        /\ IsTree => comp.desc \in NodeDescs

\* However links are overwritten, nothing but an object is ever linked or handed out,
\* and no more objects than there are.
ObjectsInv ==
    /\ list \in Linkable /\ out \subseteq Objects
    /\ DOMAIN link \subseteq Objects /\ \A p \in DOMAIN link : link[p] \in Linkable
    /\ IsFiniteSet(out) /\ Cardinality(out) + count <= comp.desc.count

ValueInv ==
    Made /\ IsTree =>
        /\ value.offset = jfs_mlg_align_size(sizeof_jfs_bst_node, args.align)
        /\ value.size = Wrap(args.size * args.count)

ColourInv == black => ObjSize % comp.desc.align # 0

\* While the list is made it runs from the object made last down to the first.
DownInv ==
    state = "link" =>
        /\ linked > 0 => list = Obj(linked - 1)
        /\ \A j \in 1 .. linked - 1 : Obj(j) \in DOMAIN link /\ link[Obj(j)] = Obj(j - 1)

\* chain is a run of links through all objects the client does not have.
Whole(chain) ==
    /\ RunsThrough(chain)
    /\ \A j, k \in 1 .. count : j # k => chain[j] # chain[k]
    /\ \A k \in 1 .. count : chain[k] \in Objects \ out
    /\ \A o \in Objects \ out : \E k \in 1 .. count : o = chain[k]

ChainInv ==
    Fits => /\ ~outside /\ state # "undefined" /\ DownInv
            /\ state = "ready" => \E chain \in [1 .. count -> Objects] : Whole(chain)

PoolInv ==
    /\ MemInv /\ ListTypeOK /\ ArgsInv /\ RestInv /\ CompInv /\ ObjectsInv /\ ValueInv
    /\ ColourInv /\ ChainInv

-----------------------------------------------------------------------------
(* Objects and nodes *)

\* Multiples of a size are at least that size apart.
LEMMA Spaced ==
    ASSUME NEW s \in Nat, NEW j \in Nat, NEW k \in Nat, j < k
    PROVE  j * s \in Nat /\ k * s \in Nat /\ (j * s) + s <= k * s
<1> DEFINE d == k - j - 1
<1>1. d \in Nat /\ k = j + 1 + d
  OBVIOUS
<1> HIDE DEF d
<1>2. k * s = (j * s) + s + (d * s) /\ d * s \in Nat /\ j * s \in Nat /\ k * s \in Nat
  BY <1>1
<1>3. QED
  BY <1>2

\* The objects of a component lie in it, one behind the other.
LEMMA ObjectsFacts ==
    ASSUME comp.ptr \in Nat, ObjSize \in Nat, comp.desc.count \in Nat
    PROVE  /\ End \in Nat
           /\ \A k \in 0 .. comp.desc.count - 1 :
                /\ Obj(k) \in Objects /\ Obj(k) \in Nat /\ Obj(k) >= comp.ptr
                /\ Obj(k) + ObjSize <= End
           /\ \A o \in Objects : \E k \in 0 .. comp.desc.count - 1 : o = Obj(k)
           /\ \A j, k \in 0 .. comp.desc.count - 1 : j < k => Obj(j) + ObjSize <= Obj(k)
<1> DEFINE s == ObjSize
           c == comp.desc.count
           b == comp.ptr
<1>1. s \in Nat /\ c \in Nat /\ b \in Nat
  OBVIOUS
<1>2. End = b + (s * c) /\ Objects = {b + (k * s) : k \in 0 .. c - 1}
      /\ \A k : Obj(k) = b + (k * s)
  BY DEF End, Objects, Obj
<1> HIDE DEF s, c, b
<1>3. s * c = c * s /\ c * s \in Nat /\ s * c \in Nat
  BY <1>1
<1>4. ASSUME NEW k \in 0 .. c - 1
      PROVE  k * s \in Nat /\ (k * s) + s <= s * c
  BY <1>1, <1>3, Spaced
<1>5. ASSUME NEW j \in 0 .. c - 1, NEW k \in 0 .. c - 1, j < k
      PROVE  (j * s) + s <= k * s
  BY <1>1, <1>5, Spaced
<1>6. ASSUME NEW k \in 0 .. c - 1
      PROVE  /\ Obj(k) \in Objects /\ Obj(k) \in Nat /\ Obj(k) >= b /\ Obj(k) + s <= End
  <2>1. Obj(k) = b + (k * s) /\ k * s \in Nat /\ (k * s) + s <= s * c
    BY <1>2, <1>4
  <2>2. Obj(k) \in Objects
    BY <1>2
  <2>3. QED
    BY <1>1, <1>2, <1>3, <2>1, <2>2
<1>7. ASSUME NEW j \in 0 .. c - 1, NEW k \in 0 .. c - 1, j < k
      PROVE  Obj(j) + s <= Obj(k)
  <2>1. Obj(j) = b + (j * s) /\ Obj(k) = b + (k * s) /\ (j * s) + s <= k * s
        /\ j * s \in Nat /\ k * s \in Nat
    BY <1>2, <1>4, <1>5, <1>7
  <2>2. QED
    BY <1>1, <2>1
<1>8. End \in Nat
  BY <1>1, <1>2, <1>3
<1>9. \A o \in Objects : \E k \in 0 .. c - 1 : o = Obj(k)
  BY <1>2
<1>10. QED
  BY <1>6, <1>7, <1>8, <1>9 DEF s, c, b

\* Objects lie inside the component and apart.
LEMMA ObjectsApart ==
    ASSUME comp.ptr \in Nat, ObjSize \in Nat, comp.desc.count \in Nat
    PROVE  /\ \A o \in Objects : o \in Nat /\ o >= comp.ptr /\ o + ObjSize <= End
           /\ \A o, q \in Objects : o # q => o + ObjSize <= q \/ q + ObjSize <= o
<1>1. \A o \in Objects : o \in Nat /\ o >= comp.ptr /\ o + ObjSize <= End
  BY ObjectsFacts
<1>2. ASSUME NEW o \in Objects, NEW q \in Objects, o # q
      PROVE  o + ObjSize <= q \/ q + ObjSize <= o
  <2>1. PICK j \in 0 .. comp.desc.count - 1 : o = Obj(j)
    BY ObjectsFacts
  <2>2. PICK k \in 0 .. comp.desc.count - 1 : q = Obj(k)
    BY ObjectsFacts
  <2>3. j # k
    BY <1>2, <2>1, <2>2
  <2>4. j < k \/ k < j
    BY <2>3
  <2>5. QED
    BY <2>1, <2>2, <2>4, ObjectsFacts
<1>3. QED
  BY <1>1, <1>2

\* Writing to one object spares the links of the others.
LEMMA OthersSpared ==
    ASSUME comp.ptr \in Nat, ObjSize \in Nat, comp.desc.count \in Nat, PtrSize <= ObjSize,
           NEW o \in Objects, NEW q \in Objects, o # q, NEW start \in Nat, NEW len \in Nat,
           start >= o, start + len <= o + ObjSize, q \in DOMAIN link
    PROVE  q \in Spared(start, len)
<1>1. o \in Nat /\ q \in Nat /\ (o + ObjSize <= q \/ q + ObjSize <= o)
  BY ObjectsApart
<1>2. PtrSize \in Nat
  BY PtrAlign
<1>3. ~Overlap(q, PtrSize, start, len)
  BY <1>1, <1>2 DEF Overlap
<1>4. QED
  BY <1>3 DEF Spared

\* What jfs_bst_make_desc describes: where the value of a node is, how long it is, and
\* that both are found again from the description.
LEMMA NodeFacts ==
    ASSUME args \in Descriptions, jfs_mlg_valid_desc(args), NEW c \in Size,
           NEW d, d = [jfs_mlg_append(NodeDesc, args) EXCEPT !.count = c],
           NEW off, off = jfs_mlg_align_size(sizeof_jfs_bst_node, args.align),
           NEW len, len = args.size * args.count
    PROVE  /\ d \in Descriptions /\ jfs_mlg_valid_align(d.align) /\ d.align % PtrSize = 0
           /\ off \in Size /\ len \in Nat
           /\ jfs_mlg_align_size(sizeof_jfs_bst_node, d.align) = off
           /\ Wrap(d.size - off) = Wrap(len)
           /\ jfs_mlg_append(NodeDesc, [args EXCEPT !.count = 0]).size = off
           /\ ExactAppend(sizeof_jfs_bst_node, args) >= sizeof_jfs_bst_node
           /\ d.size >= ExactAppend(sizeof_jfs_bst_node, args) =>
                /\ off >= sizeof_jfs_bst_node /\ off + len = d.size /\ len \in Size
<1> DEFINE new == jfs_mlg_append(NodeDesc, args)
<1>1. PtrSize \in Nat \ {0} /\ jfs_mlg_valid_align(PtrSize) /\ 4 * PtrSize < Word /\ Word \in Nat
  BY PtrAlign, WordNat
<1>2. /\ NodeDesc = [size |-> 4 * PtrSize, align |-> PtrSize, count |-> 1]
      /\ sizeof_jfs_bst_node = 4 * PtrSize
  BY DEF NodeDesc, Desc, sizeof_jfs_bst_node
<1>3. 4 * PtrSize \in Size /\ PtrSize \in Size /\ 1 \in Size /\ 0 \in Size /\ 4 * PtrSize \in Nat
  BY <1>1 DEF Size
<1>4. NodeDesc \in Descriptions /\ NodeDesc.size = 4 * PtrSize /\ NodeDesc.align = PtrSize
  BY <1>2, <1>3 DEF Descriptions
<1>5. /\ args.size \in Nat /\ args.count \in Nat /\ jfs_mlg_valid_align(args.align)
  BY <1>1 DEF Descriptions, Size, jfs_mlg_valid_desc
<1>6. /\ new \in Descriptions /\ jfs_mlg_valid_align(new.align) /\ new.align % PtrSize = 0
      /\ off \in Size /\ len \in Nat
      /\ ExactAppend(4 * PtrSize, args) < Word =>
            /\ new.size = ExactAppend(4 * PtrSize, args)
            /\ off >= 4 * PtrSize /\ off + len = new.size
  BY <1>1, <1>2, <1>4, <1>5, Appended
<1>7. /\ new.size = Wrap(off + len) /\ new.align = Max2(PtrSize, args.align)
  BY <1>2, <1>4 DEF jfs_mlg_append
<1> HIDE DEF new
<1>8. d \in Descriptions /\ d.size = new.size /\ d.align = new.align
  BY <1>6 DEF Descriptions, new
<1>9. jfs_mlg_align_size(4 * PtrSize, new.align) = off
  <2>1. args.align \in Nat \ {0}
    BY <1>5, ValidAlign
  <2>2. CASE PtrSize > args.align
    <3>1. new.align = PtrSize /\ PtrSize % args.align = 0
      BY <1>1, <1>5, <1>7, <2>2, StricterAlign DEF Max2
    <3>2. (4 * PtrSize) % PtrSize = 0
      <4>1. (PtrSize * 4) % PtrSize = 0
        BY <1>1, Multiple
      <4>2. PtrSize * 4 = 4 * PtrSize
        BY <1>1
      <4>3. QED
        BY <4>1, <4>2
    <3>3. (4 * PtrSize) % args.align = 0
      BY <1>1, <2>1, <3>1, <3>2, DividesTrans
    <3>4. RoundUp(4 * PtrSize, PtrSize) = 4 * PtrSize
      BY <1>1, <1>3, <3>2, RoundedAlready
    <3>5. RoundUp(4 * PtrSize, args.align) = 4 * PtrSize
      BY <1>3, <2>1, <3>3, RoundedAlready
    <3>6. QED
      BY <1>1, <1>2, <1>3, <1>5, <3>1, <3>4, <3>5, AlignSize
  <2>3. CASE ~(PtrSize > args.align)
    BY <1>2, <1>7, <2>3 DEF Max2
  <2>4. QED
    BY <2>2, <2>3
<1>10. Wrap(new.size - off) = Wrap(len)
  <2> DEFINE q == (off + len) \div Word
             r == (off + len) % Word
             q2 == len \div Word
             r2 == len % Word
  <2>1. off \in Nat /\ off + len \in Int /\ Word \in Nat \ {0} /\ len \in Int
    BY <1>1, <1>6, WordNat DEF Size
  <2>2. q \in Int /\ r \in 0 .. Word - 1 /\ off + len = (Word * q) + r
        /\ q2 \in Int /\ r2 \in 0 .. Word - 1 /\ len = (Word * q2) + r2
    BY <2>1, DivMod
  <2>3. new.size = r /\ Wrap(len) = r2
    BY <1>7 DEF Wrap
  <2> HIDE DEF q, r, q2, r2
  <2>4. r - off = (Word * (q2 - q)) + r2 /\ q2 - q \in Int
    <3>1. /\ Word * (q2 - q) = (Word * q2) - (Word * q) /\ q2 - q \in Int
          /\ Word * q2 \in Int /\ Word * q \in Int
      BY <2>1, <2>2
    <3>2. QED
      BY <2>1, <2>2, <3>1
  <2> DEFINE m == q2 - q
  <2>5. m \in Int
    BY <2>4
  <2> HIDE DEF m
  <2>6. ((Word * m) + r2) % Word = r2
    BY <2>1, <2>2, <2>5, ModUnique
  <2>7. QED
    BY <2>3, <2>4, <2>6 DEF Wrap, m
<1>11. jfs_mlg_append(NodeDesc, [args EXCEPT !.count = 0]).size = off
  <2> DEFINE bare == [args EXCEPT !.count = 0]
  <2>1. bare.size = args.size /\ bare.align = args.align /\ bare.count = 0
    BY DEF Descriptions
  <2> HIDE DEF bare
  <2>2. jfs_mlg_append(NodeDesc, bare).size = Wrap(off + bare.size * bare.count)
    BY <1>2, <1>4, <2>1 DEF jfs_mlg_append
  <2>3. off + bare.size * bare.count = off
    BY <1>1, <1>5, <1>6, <2>1 DEF Size
  <2>4. Wrap(off) = off
    BY <1>1, <1>6, WrapSize DEF Size
  <2>5. QED
    BY <2>2, <2>3, <2>4 DEF bare
<1>12. ExactAppend(4 * PtrSize, args) \in Nat /\ ExactAppend(4 * PtrSize, args) >= 4 * PtrSize
  BY <1>3, <1>5, ExactGrows
<1>13. ASSUME new.size >= ExactAppend(4 * PtrSize, args)
       PROVE  off >= 4 * PtrSize /\ off + len = new.size /\ len \in Size
  <2>1. new.size \in Nat /\ new.size < Word /\ off \in Nat
    BY <1>1, <1>6 DEF Descriptions, Size
  <2>2. ExactAppend(4 * PtrSize, args) < Word
    BY <1>1, <1>12, <1>13, <2>1
  <2>3. off >= 4 * PtrSize /\ off + len = new.size
    BY <1>6, <2>2
  <2>4. QED
    BY <1>1, <1>6, <2>1, <2>3 DEF Size
<1>14. QED
  BY <1>2, <1>6, <1>8, <1>9, <1>10, <1>11, <1>12, <1>13

\* What a client lays nodes out with is a description.
LEMMA NodeDescsTyped ==
    ASSUME args \in Descriptions, ArgsInv
    PROVE  NodeDescs \subseteq Descriptions
<1>1. SUFFICES ASSUME NEW d \in NodeDescs PROVE d \in Descriptions
  OBVIOUS
<1>2. IsTree /\ \E c \in Counts : d = [jfs_mlg_append(NodeDesc, args) EXCEPT !.count = c]
  BY DEF NodeDescs
<1>3. PICK c \in Counts : d = [jfs_mlg_append(NodeDesc, args) EXCEPT !.count = c]
  BY <1>2
<1>4. c \in Size /\ jfs_mlg_valid_desc(args)
  BY <1>2, TreeArgsAssumption DEF ArgsInv
<1>5. QED
  BY <1>3, <1>4, NodeFacts

\* The numbers of a component, whatever the state.
LEMMA CompNumbers ==
    ASSUME PoolInv
    PROVE  /\ comp.ptr \in Nat /\ ObjSize \in Nat /\ comp.desc.count \in Nat
           /\ PtrSize \in Nat \ {0} /\ Word \in Nat
           /\ state # "none" => ObjSize > 0 /\ comp.ptr > 0 /\ End <= Word
           /\ state = "none" => Objects = {}
           /\ Objects \subseteq Size \ {0}
<1>1. /\ comp.desc \in Descriptions /\ comp.ptr \in Size /\ Word \in Nat /\ PtrSize \in Nat \ {0}
  BY WordNat, PtrAlign DEF PoolInv, ListTypeOK
<1>2. comp.ptr \in Nat /\ ObjSize \in Nat /\ comp.desc.count \in Nat
  BY <1>1 DEF Descriptions, Size, ObjSize
<1>3. state # "none" => ObjSize > 0 /\ comp.ptr > 0 /\ End <= Word
  BY DEF PoolInv, CompInv, jfs_mlg_valid_desc, ObjSize
<1>4. state = "none" => Objects = {}
  BY DEF PoolInv, RestInv, NoComponent, None, Desc, Objects
<1>5. ASSUME NEW o \in Objects PROVE o \in Size \ {0}
  <2>1. state # "none"
    BY <1>4
  <2>2. o \in Nat /\ o >= comp.ptr /\ o + ObjSize <= End /\ End \in Nat
    BY <1>2, ObjectsApart, ObjectsFacts
  <2>3. QED
    BY <1>1, <1>2, <1>3, <2>1, <2>2 DEF Size
<1>6. QED
  BY <1>1, <1>2, <1>3, <1>4, <1>5

\* What a link may hold is an address or junk.
LEMMA LinkableTyped == ASSUME PoolInv PROVE Linkable \subseteq Addresses
<1>1. 0 \in Size
  BY WordNat DEF Size
<1>2. Objects \subseteq Size
  BY CompNumbers
<1>3. QED
  BY <1>1, <1>2 DEF Linkable, Addresses, NULL

\* Objects with different numbers are different.
LEMMA ObjInjective ==
    ASSUME PoolInv, state # "none", NEW j \in 0 .. comp.desc.count - 1,
           NEW k \in 0 .. comp.desc.count - 1, j # k
    PROVE  Obj(j) # Obj(k)
<1>1. /\ comp.ptr \in Nat /\ ObjSize \in Nat /\ comp.desc.count \in Nat /\ ObjSize > 0
  BY CompNumbers
<1>2. Obj(j) \in Nat /\ Obj(k) \in Nat
  BY <1>1, ObjectsFacts
<1>3. CASE j < k
  <2>1. Obj(j) + ObjSize <= Obj(k)
    BY <1>1, <1>3, ObjectsFacts
  <2>2. QED
    BY <1>1, <1>2, <2>1
<1>4. CASE k < j
  <2>1. Obj(k) + ObjSize <= Obj(j)
    BY <1>1, <1>4, ObjectsFacts
  <2>2. QED
    BY <1>1, <1>2, <2>1
<1>5. QED
  BY <1>3, <1>4

\* What objects that fit have room for.
LEMMA FitsRoom ==
    ASSUME PoolInv, Fits, state # "none"
    PROVE  /\ PtrSize <= ObjSize
           /\ IsTree => sizeof_jfs_bst_node <= ObjSize
           /\ IsTree /\ Made => /\ value.offset \in Nat /\ value.size \in Nat
                                /\ value.offset + value.size <= ObjSize
<1>1. CASE ~IsTree
  BY <1>1 DEF Fits, Used
<1>2. CASE IsTree
  <2>1. comp.desc \in NodeDescs /\ args \in Descriptions /\ jfs_mlg_valid_desc(args)
    BY <1>2 DEF PoolInv, CompInv, ArgsInv, ListTypeOK
  <2>2. PICK c \in Counts : comp.desc = [jfs_mlg_append(NodeDesc, args) EXCEPT !.count = c]
    BY <1>2, <2>1 DEF NodeDescs
  <2>3. c \in Size
    BY TreeArgsAssumption
  <2> DEFINE off == jfs_mlg_align_size(sizeof_jfs_bst_node, args.align)
             len == args.size * args.count
  <2>4. /\ comp.desc \in Descriptions /\ off \in Size /\ len \in Nat
        /\ ExactAppend(sizeof_jfs_bst_node, args) >= sizeof_jfs_bst_node
        /\ comp.desc.size >= ExactAppend(sizeof_jfs_bst_node, args) =>
                off >= sizeof_jfs_bst_node /\ off + len = comp.desc.size /\ len \in Size
    BY <2>1, <2>2, <2>3, NodeFacts
  <2>5. comp.desc.size >= ExactAppend(sizeof_jfs_bst_node, args)
    BY <1>2 DEF Fits, Used, ObjSize
  <2>6. off >= sizeof_jfs_bst_node /\ off + len = ObjSize /\ len \in Size
    BY <2>4, <2>5 DEF ObjSize
  <2> HIDE DEF off, len
  <2>7. off \in Nat /\ PtrSize \in Nat /\ sizeof_jfs_bst_node = 4 * PtrSize /\ len \in Nat
    BY <2>4, WordNat, PtrAlign DEF sizeof_jfs_bst_node, Size
  <2>8. PtrSize <= ObjSize /\ sizeof_jfs_bst_node <= ObjSize
    BY <2>6, <2>7
  <2>9. ASSUME Made PROVE value.offset = off /\ value.size = len
    <3>1. Wrap(len) = len
      BY <2>6, <2>7, WrapSize
    <3>2. QED
      BY <1>2, <2>9, <3>1 DEF PoolInv, ValueInv, off, len
  <2>10. QED
    BY <2>6, <2>7, <2>8, <2>9
<1>3. QED
  BY <1>1, <1>2

-----------------------------------------------------------------------------
(* The steps *)

\* A list that has not been made.
LEMMA EmptyList ==
    ASSUME MemInv', args' \in Descriptions, ArgsInv', comp' = NoComponent, state' = "none",
           linked' = 0, link' = <<>>, list' = NULL, count' = 0, value'.offset \in Size,
           value'.size \in Size, out' = {}, black' = FALSE, outside' = FALSE
    PROVE  PoolInv'
<1>1. 0 \in Size
  BY WordNat DEF Size
<1>2. comp'.ptr = 0 /\ comp'.desc.size = 0 /\ comp'.desc.align = 0 /\ comp'.desc.count = 0
      /\ comp'.desc \in Descriptions
  BY <1>1 DEF NoComponent, NULL, None, Desc, Descriptions
<1>3. DOMAIN link' = {}
  OBVIOUS
<1>4. ListTypeOK'
  <2>1. {linked', count'} \subseteq 0 .. comp'.desc.count
    BY <1>2
  <2>2. \A p \in DOMAIN link' : link'[p] \in Addresses
    BY <1>3
  <2>3. list' \in Addresses /\ comp'.ptr \in Size
    BY <1>1, <1>2 DEF Addresses, NULL
  <2>4. QED
    BY <1>2, <1>3, <2>1, <2>2, <2>3 DEF ListTypeOK
<1>5. RestInv' /\ CompInv'
  BY DEF RestInv, CompInv
<1>6. ObjectsInv'
  <2>1. IsFiniteSet({}) /\ Cardinality({}) = 0
    BY FS_EmptySet
  <2>2. Cardinality(out') + count' <= comp'.desc.count
    BY <1>2, <2>1
  <2>3. QED
    BY <1>3, <2>1, <2>2 DEF ObjectsInv, Linkable
<1>7. ValueInv' /\ ColourInv'
  BY DEF ValueInv, ColourInv, Made
<1>8. ChainInv'
  BY DEF ChainInv, DownInv
<1>9. QED
  BY <1>4, <1>5, <1>6, <1>7, <1>8 DEF PoolInv

\* jfs_bst_make_desc is called before there is a memory.
LEMMA MakeDescStep ==
    ASSUME PoolInv, NEW a \in TreeArgs, jfs_bst_make_desc(a)
    PROVE  PoolInv'
<1>1. /\ MemInv /\ heap = {} /\ jfs_mlg_valid_desc(a) /\ args' = a /\ UNCHANGED vars
      /\ UNCHANGED listVars
  BY DEF PoolInv, jfs_bst_make_desc
<1>2. state = "none"
  BY <1>1 DEF PoolInv, CompInv, Returned
<1>3. MemInv'
  BY <1>1, Stutter
<1>4. a \in Descriptions
  BY TreeArgsAssumption
<1>5. /\ comp' = NoComponent /\ state' = "none" /\ linked' = 0 /\ link' = <<>> /\ list' = NULL
      /\ count' = 0 /\ value'.offset \in Size /\ value'.size \in Size
      /\ out' = {} /\ black' = FALSE /\ outside' = FALSE
  BY <1>1, <1>2 DEF PoolInv, RestInv, ListTypeOK, listVars
<1>6. args' \in Descriptions /\ ArgsInv'
  BY <1>1, <1>4 DEF ArgsInv
<1>7. QED
  BY <1>3, <1>5, <1>6, EmptyList

\* No call of jfs_mlg_memory_init is under way while there is a list.
LEMMA LayOutPoolStep ==
    ASSUME PoolInv, LayOut(Descs \cup NodeDescs), UNCHANGED <<args, listVars>>
    PROVE  PoolInv'
<1>1. Descs \cup NodeDescs \subseteq Descriptions
  BY DescsAssumption, NodeDescsTyped DEF PoolInv, ListTypeOK
<1>2. MemInv'
  BY <1>1, LayOutStep DEF PoolInv
<1>3. state = "none"
  <2>1. SUFFICES ASSUME Returned PROVE FALSE
    BY DEF PoolInv, CompInv
  <2>2. QED
    BY <2>1 DEF Returned, LayOut, Call, init_bad_header, init_start, init_append, init_bad_desc,
                init_alloc, init_fill
<1>4. /\ comp' = NoComponent /\ state' = "none" /\ linked' = 0 /\ link' = <<>> /\ list' = NULL
      /\ count' = 0 /\ value'.offset \in Size /\ value'.size \in Size
      /\ out' = {} /\ black' = FALSE /\ outside' = FALSE
  BY <1>3 DEF PoolInv, RestInv, ListTypeOK, listVars
<1>5. args' \in Descriptions /\ ArgsInv'
  BY DEF PoolInv, ListTypeOK, ArgsInv, IsTree
<1>6. QED
  BY <1>2, <1>4, <1>5, EmptyList

\* The list goes with its memory.
LEMMA ReleaseStep == ASSUME PoolInv, Release PROVE PoolInv'
<1>1. MemInv'
  BY FreeStep DEF PoolInv, Release
<1>2. value'.offset \in Size /\ value'.size \in Size
  BY WordNat DEF Release, NoValue, Size
<1>3. args' \in Descriptions /\ ArgsInv'
  BY DEF PoolInv, ListTypeOK, ArgsInv, IsTree, Release
<1>4. QED
  BY <1>1, <1>2, <1>3, EmptyList DEF Release

\* A component lies in its block, which ends before the address space does.
LEMMA FlInitStep ==
    ASSUME PoolInv, NEW c \in Components, jfs_fl_init(c)
    PROVE  PoolInv'
<1>1. /\ MemInv /\ Returned /\ need < Word /\ state = "none"
      /\ IsTree => c.desc \in NodeDescs
      /\ jfs_mlg_valid_desc(c.desc) /\ c.ptr # NULL
      /\ comp' = c /\ state' = "link" /\ args' = args
      /\ UNCHANGED <<vars, args, linked, link, list, count, value, out, black, outside>>
  BY DEF PoolInv, jfs_fl_init
<1>2. /\ linked' = 0 /\ link' = <<>> /\ list' = NULL /\ count' = 0 /\ out' = {}
      /\ black' = FALSE /\ outside' = FALSE /\ value' = value
  BY <1>1 DEF PoolInv, RestInv
<1>3. c # NoComponent
  BY <1>1 DEF NoComponent
<1>4. PICK k \in DOMAIN memory.comps : c = [ptr |-> memory.comps[k], desc |-> layout.descs[k]]
  BY <1>3 DEF Components
<1>5. Numbers
  BY <1>1, ReturnedFacts
<1>6. /\ memory.comps \in Seq(Size) /\ layout.descs \in Seq(Descriptions) /\ Len(memory.comps) = n
      /\ n = Len(layout.descs)
  BY <1>1 DEF MemInv, MemoryTypeOK, Memories, Layouts, PlaceInv, n
<1>7. k \in 1 .. n /\ c.ptr \in Size /\ c.desc \in Descriptions
      /\ c.ptr = memory.comps[k] /\ c.desc = layout.descs[k]
  BY <1>4, <1>6
<1>8. c.ptr % c.desc.align = 0
  BY <1>1, <1>7, AlwaysAligned DEF Aligned
<1>9. c.ptr + CompLen(k) <= Word
  <2>1. Sound
    BY <1>1, FitsIsSound
  <2>2. Parts[3 + k].start = c.ptr /\ Parts[3 + k].len = CompLen(k) /\ Len(Parts) = 3 + n
    BY <1>5, <1>7, PartsFacts DEF Numbers
  <2>3. 3 + k \in 1 .. Len(Parts)
    BY <1>5, <1>7, <2>2 DEF Numbers
  <2>4. c.ptr + CompLen(k) <= memory.base + memory.size
    BY <2>1, <2>2, <2>3 DEF Sound
  <2>5. /\ memory.base + memory.size <= Word /\ memory.base + memory.size \in Nat /\ Word \in Nat
        /\ CompLen(k) \in Nat /\ c.ptr \in Nat
    BY <1>5, <1>7 DEF Numbers, Size
  <2>6. QED
    BY <2>4, <2>5
<1>10. MemInv' /\ Returned'
  BY <1>1, Stutter DEF Returned, vars
<1>11. DOMAIN link' = {}
  BY <1>2
<1>12. c.ptr > 0
  BY <1>1, <1>7, WordNat DEF NULL, Size
<1>13. ListTypeOK'
  <2>1. {linked', count'} \subseteq 0 .. comp'.desc.count
    <3>1. comp'.desc.count \in Nat
      BY <1>1, <1>7, WordNat DEF Descriptions, Size
    <3>2. QED
      BY <1>2, <3>1
  <2>2. list' \in Addresses
    BY <1>2, WordNat DEF Addresses, NULL, Size
  <2>3. QED
    BY <1>1, <1>2, <1>7, <1>11, <2>1, <2>2 DEF ListTypeOK, PoolInv
<1>14. ArgsInv' /\ RestInv'
  BY <1>1, <1>2 DEF PoolInv, ArgsInv, IsTree, RestInv
<1>15. CompInv'
  <2>1. End' = c.ptr + CompLen(k)
    BY <1>1, <1>7 DEF End, ObjSize, CompLen
  <2>2. IsTree' => comp'.desc \in NodeDescs'
    BY <1>1 DEF IsTree, NodeDescs
  <2>3. QED
    BY <1>1, <1>8, <1>9, <1>10, <1>12, <2>1, <2>2 DEF CompInv
<1>16. ObjectsInv'
  <2>1. IsFiniteSet({}) /\ Cardinality({}) = 0
    BY FS_EmptySet
  <2>2. Cardinality(out') + count' <= comp'.desc.count
    BY <1>1, <1>2, <1>7, <2>1, WordNat DEF Descriptions, Size
  <2>3. QED
    BY <1>2, <1>11, <2>1, <2>2 DEF ObjectsInv, Linkable
<1>17. ValueInv' /\ ColourInv'
  BY <1>1, <1>2 DEF ValueInv, ColourInv, Made
<1>18. ChainInv'
  BY <1>1, <1>2 DEF ChainInv, DownInv
<1>19. QED
  BY <1>10, <1>13, <1>14, <1>15, <1>16, <1>17, <1>18 DEF PoolInv

\* What depends on the component and the arguments alone.
LEMMA SameComp ==
    ASSUME comp' = comp, args' = args
    PROVE  /\ ObjSize' = ObjSize /\ End' = End /\ Objects' = Objects /\ Linkable' = Linkable
           /\ \A k : Obj(k)' = Obj(k)
           /\ IsTree' = IsTree /\ NodeDescs' = NodeDescs /\ Fits' = Fits
BY DEF ObjSize, End, Objects, Linkable, Obj, IsTree, NodeDescs, Fits, Used

\* Steps of a list that is there leave the memory alone.
LEMMA ListFrame ==
    ASSUME PoolInv, state # "none", UNCHANGED <<vars, args, comp>>, state' # "none"
    PROVE  MemInv' /\ ArgsInv' /\ CompInv'
<1>1. MemInv' /\ Returned' = Returned
  BY Stutter DEF PoolInv, Returned, vars
<1>2. ArgsInv'
  BY SameComp DEF PoolInv, ArgsInv
<1>3. CompInv'
  BY <1>1, SameComp DEF PoolInv, CompInv
<1>4. QED
  BY <1>1, <1>2, <1>3

\* SetLink writes one link and spares those of all other objects.
LEMMA SetLinkFacts ==
    ASSUME PoolInv, state # "none", NEW o \in Objects, NEW target, SetLink(o, target)
    PROVE  /\ o \in DOMAIN link' /\ link'[o] = target
           /\ DOMAIN link' \subseteq DOMAIN link \cup {o}
           /\ \A p \in DOMAIN link' : p # o => link'[p] = link[p]
           /\ Fits => \A p \in DOMAIN link : p \in DOMAIN link'
<1>1. link' = [a \in Spared(o, PtrSize) \cup {o} |-> IF a = o THEN target ELSE link[a]]
  BY DEF SetLink
<1>2. Spared(o, PtrSize) \subseteq DOMAIN link
  BY DEF Spared
<1>3. ASSUME Fits, NEW p \in DOMAIN link PROVE p \in DOMAIN link'
  <2>1. CASE p = o
    BY <1>1, <2>1
  <2>2. CASE p # o
    <3>1. /\ comp.ptr \in Nat /\ ObjSize \in Nat /\ comp.desc.count \in Nat /\ PtrSize <= ObjSize
          /\ PtrSize \in Nat /\ p \in Objects
      BY <1>3, CompNumbers, FitsRoom DEF PoolInv, ObjectsInv
    <3>2. o \in Nat /\ o + PtrSize <= o + ObjSize /\ o >= o
      BY <3>1, ObjectsApart
    <3>3. p \in Spared(o, PtrSize)
      BY <2>2, <3>1, <3>2, OthersSpared
    <3>4. QED
      BY <1>1, <3>3
  <2>3. QED
    BY <2>1, <2>2
<1>4. QED
  BY <1>1, <1>2, <1>3

\* A write that stays in an object stays in the component.
LEMMA InsideObject ==
    ASSUME PoolInv, NEW o \in Objects, NEW start \in Nat, NEW len \in Nat,
           start >= o, start + len <= o + ObjSize
    PROVE  Inside(start, len)
<1>1. comp.ptr \in Nat /\ ObjSize \in Nat /\ comp.desc.count \in Nat
  BY CompNumbers
<1>2. o \in Nat /\ o >= comp.ptr /\ o + ObjSize <= End /\ End \in Nat
  BY <1>1, ObjectsApart, ObjectsFacts
<1>3. QED
  BY <1>1, <1>2 DEF Inside

\* Each iteration of fl_link_memory puts the next object in front.
LEMMA LinkMemoryStep == ASSUME PoolInv, fl_link_memory PROVE PoolInv'
<1> DEFINE obj == comp.ptr + linked * ObjSize
<1>1. /\ state = "link" /\ linked < comp.desc.count
      /\ SetLink(obj, list) /\ list' = obj /\ linked' = linked + 1
      /\ outside' = (outside \/ ~Inside(obj, PtrSize))
      /\ UNCHANGED <<vars, args, comp, state, count, value, out, black>>
  BY DEF fl_link_memory, LinkLoop
<1>2. /\ comp.ptr \in Nat /\ ObjSize \in Nat /\ comp.desc.count \in Nat /\ PtrSize \in Nat
      /\ Objects \subseteq Size \ {0}
  BY CompNumbers
<1>3. linked \in 0 .. comp.desc.count /\ count = 0 /\ out = {} /\ black = FALSE
  BY <1>1 DEF PoolInv, ListTypeOK, RestInv
<1>4. linked \in 0 .. comp.desc.count - 1 /\ obj = Obj(linked)
  BY <1>1, <1>2, <1>3 DEF Obj
<1>5. obj \in Objects
  BY <1>2, <1>4, ObjectsFacts
<1> HIDE DEF obj
<1>6. MemInv' /\ ArgsInv' /\ CompInv'
  BY <1>1, ListFrame
<1>7. /\ ObjSize' = ObjSize /\ End' = End /\ Objects' = Objects /\ Linkable' = Linkable
      /\ \A k : Obj(k)' = Obj(k)
      /\ IsTree' = IsTree /\ Fits' = Fits
  BY <1>1, SameComp
<1>8. /\ obj \in DOMAIN link' /\ link'[obj] = list
      /\ DOMAIN link' \subseteq DOMAIN link \cup {obj}
      /\ \A p \in DOMAIN link' : p # obj => link'[p] = link[p]
      /\ Fits => \A p \in DOMAIN link : p \in DOMAIN link'
  BY <1>1, <1>5, SetLinkFacts
<1>9. /\ list \in Linkable /\ DOMAIN link \subseteq Objects
      /\ \A p \in DOMAIN link : link[p] \in Linkable
  BY DEF PoolInv, ObjectsInv
<1>10. /\ DOMAIN link' \subseteq Objects /\ \A p \in DOMAIN link' : link'[p] \in Linkable
       /\ list' \in Linkable
  BY <1>1, <1>5, <1>8, <1>9 DEF Linkable
<1>11. Linkable \subseteq Addresses
  BY LinkableTyped
<1>12. ListTypeOK'
  <2>1. {linked', count'} \subseteq 0 .. comp'.desc.count
    BY <1>1, <1>2, <1>3
  <2>2. outside' \in BOOLEAN
    BY <1>1
  <2>3. /\ DOMAIN link' \subseteq Size /\ \A p \in DOMAIN link' : link'[p] \in Addresses
        /\ list' \in Addresses
    BY <1>2, <1>10, <1>11
  <2>4. QED
    BY <1>1, <2>1, <2>2, <2>3 DEF PoolInv, ListTypeOK
<1>13. RestInv'
  BY <1>1, <1>3 DEF RestInv
<1>14. ObjectsInv'
  BY <1>1, <1>7, <1>10 DEF PoolInv, ObjectsInv
<1>15. ValueInv' /\ ColourInv'
  BY <1>1, <1>3 DEF ValueInv, ColourInv, Made
<1>16. ChainInv'
  <2>1. SUFFICES ASSUME Fits PROVE ~outside' /\ DownInv'
    BY <1>1, <1>7 DEF ChainInv
  <2>2. ~outside /\ DownInv
    BY <2>1 DEF PoolInv, ChainInv
  <2>3. Inside(obj, PtrSize)
    <3>1. PtrSize <= ObjSize
      BY <1>1, <2>1, FitsRoom
    <3>2. obj \in Nat /\ obj >= obj /\ obj + PtrSize <= obj + ObjSize
      BY <1>2, <1>5, <3>1, ObjectsApart
    <3>3. QED
      BY <1>2, <1>5, <3>2, InsideObject
  <2>4. list' = Obj(linked' - 1)
    <3>1. linked' - 1 = linked
      BY <1>1, <1>3
    <3>2. QED
      BY <1>1, <1>4, <3>1
  <2>5. ASSUME NEW j \in 1 .. linked' - 1
        PROVE  Obj(j) \in DOMAIN link' /\ link'[Obj(j)] = Obj(j - 1)
    <3>1. j \in 1 .. linked
      BY <1>1, <1>3
    <3>2. CASE j = linked
      BY <1>1, <1>4, <1>8, <2>2, <3>1, <3>2 DEF DownInv
    <3>3. CASE j # linked
      <4>1. j \in 1 .. linked - 1
        BY <1>3, <3>1, <3>3
      <4>2. Obj(j) \in DOMAIN link /\ link[Obj(j)] = Obj(j - 1)
        BY <1>1, <2>2, <4>1 DEF DownInv
      <4>3. Obj(j) # obj
        <5>1. j \in 0 .. comp.desc.count - 1 /\ j < linked
          BY <1>2, <1>4, <4>1
        <5>2. Obj(j) + ObjSize <= Obj(linked) /\ Obj(j) \in Nat
          BY <1>2, <1>4, <5>1, ObjectsFacts
        <5>3. ObjSize > 0
          BY <1>1, CompNumbers
        <5>4. QED
          BY <1>2, <1>4, <5>2, <5>3
      <4>4. QED
        BY <1>8, <2>1, <4>2, <4>3
    <3>4. QED
      BY <3>2, <3>3
  <2>6. QED
    BY <1>1, <1>7, <2>2, <2>3, <2>4, <2>5 DEF DownInv
<1>17. QED
  BY <1>6, <1>12, <1>13, <1>14, <1>15, <1>16 DEF PoolInv

\* At the end of the loop every object is on the list, the first at its end; for a tree the
\* offset of the value is the one jfs_bst_make_desc has used.
LEMMA InitDoneStep == ASSUME PoolInv, fl_init_done PROVE PoolInv'
<1>1. /\ state = "link" /\ ~(linked < comp.desc.count)
      /\ count' = comp.desc.count /\ state' = "ready"
      /\ value' = IF IsTree THEN [offset |-> value_offset, size |-> Wrap(ObjSize - value_offset)]
                            ELSE [offset |-> 0, size |-> ObjSize]
      /\ UNCHANGED <<vars, args, comp, linked, link, list, out, black, outside>>
  BY DEF fl_init_done, LinkLoop
<1>2. /\ comp.ptr \in Nat /\ ObjSize \in Nat /\ comp.desc.count \in Nat
  BY CompNumbers
<1>3. linked \in 0 .. comp.desc.count /\ count = 0 /\ out = {} /\ black = FALSE
  BY <1>1 DEF PoolInv, ListTypeOK, RestInv
<1>4. linked = comp.desc.count /\ comp.desc.count > 0
  BY <1>1, <1>2, <1>3 DEF PoolInv, CompInv, jfs_mlg_valid_desc
<1>5. MemInv' /\ ArgsInv' /\ CompInv'
  BY <1>1, ListFrame
<1>6. /\ ObjSize' = ObjSize /\ End' = End /\ Objects' = Objects /\ Linkable' = Linkable
      /\ \A k : Obj(k)' = Obj(k)
      /\ IsTree' = IsTree /\ Fits' = Fits
  BY <1>1, SameComp
<1>7. ASSUME IsTree
      PROVE  /\ value'.offset = jfs_mlg_align_size(sizeof_jfs_bst_node, args.align)
             /\ value'.size = Wrap(args.size * args.count)
             /\ value'.offset \in Size /\ value'.size \in Size
  <2>1. comp.desc \in NodeDescs /\ args \in Descriptions /\ jfs_mlg_valid_desc(args)
    BY <1>1, <1>7 DEF PoolInv, CompInv, ArgsInv, ListTypeOK
  <2>2. PICK c \in Counts : comp.desc = [jfs_mlg_append(NodeDesc, args) EXCEPT !.count = c]
    BY <1>7, <2>1 DEF NodeDescs
  <2>3. c \in Size
    BY TreeArgsAssumption
  <2> DEFINE off == jfs_mlg_align_size(sizeof_jfs_bst_node, args.align)
             len == args.size * args.count
  <2>4. /\ off \in Size /\ len \in Nat
        /\ jfs_mlg_align_size(sizeof_jfs_bst_node, comp.desc.align) = off
        /\ Wrap(comp.desc.size - off) = Wrap(len)
    BY <2>1, <2>2, <2>3, NodeFacts
  <2> HIDE DEF off, len
  <2>5. value'.offset = off /\ value'.size = Wrap(len)
    BY <1>1, <1>7, <2>4 DEF value_offset, ObjSize
  <2>6. Wrap(len) \in Size
    BY <2>4, WrapSize
  <2>7. QED
    BY <2>4, <2>5, <2>6 DEF off, len
<1>8. value'.offset \in Size /\ value'.size \in Size
  <2>1. 0 \in Size /\ ObjSize \in Size
    BY WordNat DEF PoolInv, ListTypeOK, Descriptions, ObjSize, Size
  <2>2. CASE ~IsTree
    BY <1>1, <2>1, <2>2
  <2>3. QED
    BY <1>7, <2>2
<1>9. ListTypeOK'
  <2>1. {linked', count'} \subseteq 0 .. comp'.desc.count
    BY <1>1, <1>2, <1>3
  <2>2. QED
    BY <1>1, <1>8, <2>1 DEF PoolInv, ListTypeOK
<1>10. RestInv' /\ ColourInv'
  BY <1>1, <1>3 DEF RestInv, ColourInv
<1>11. ObjectsInv'
  <2>1. IsFiniteSet({}) /\ Cardinality({}) = 0
    BY FS_EmptySet
  <2>2. Cardinality(out') + count' <= comp'.desc.count
    BY <1>1, <1>2, <1>3, <2>1
  <2>3. QED
    BY <1>1, <1>6, <2>2 DEF PoolInv, ObjectsInv
<1>12. ValueInv'
  BY <1>1, <1>6, <1>7 DEF ValueInv
<1>13. ChainInv'
  <2>1. SUFFICES ASSUME Fits
                 PROVE  ~outside' /\ \E chain \in [1 .. count' -> Objects] : Whole(chain)'
    BY <1>1, <1>6 DEF ChainInv, DownInv
  <2>2. ~outside /\ DownInv
    BY <2>1 DEF PoolInv, ChainInv
  <2> DEFINE c == comp.desc.count
             chain == [k \in 1 .. c |-> Obj(c - k)]
  <2>3. ASSUME NEW k \in 1 .. c
        PROVE  c - k \in 0 .. c - 1 /\ chain[k] = Obj(c - k) /\ Obj(c - k) \in Objects
    <3>1. c - k \in 0 .. c - 1
      BY <1>2
    <3>2. QED
      BY <1>2, <3>1, ObjectsFacts
  <2>4. chain \in [1 .. c -> Objects] /\ DOMAIN chain = 1 .. c
    BY <2>3
  <2>5. ASSUME NEW k \in 1 .. c
        PROVE  chain[k] = IF k = 1 THEN list ELSE Follow(chain[k - 1])
    <3>1. CASE k = 1
      <4>1. list = Obj(c - 1)
        BY <1>1, <1>4, <2>2 DEF DownInv
      <4>2. QED
        BY <2>3, <3>1, <4>1
    <3>2. CASE k # 1
      <4> DEFINE j == c - (k - 1)
      <4>1. k - 1 \in 1 .. c /\ j \in 1 .. c - 1 /\ j - 1 = c - k
        BY <1>2, <3>2
      <4>2. chain[k - 1] = Obj(j)
        BY <2>3, <4>1
      <4>3. Obj(j) \in DOMAIN link /\ link[Obj(j)] = Obj(j - 1)
        BY <1>1, <1>4, <2>2, <4>1 DEF DownInv
      <4>4. chain[k] = Obj(j - 1)
        BY <2>3, <4>1
      <4> HIDE DEF chain, j
      <4>5. QED
        BY <3>2, <4>2, <4>3, <4>4 DEF Follow
    <3>3. QED
      BY <3>1, <3>2
  <2>6. ASSUME NEW j \in 1 .. c, NEW k \in 1 .. c, j # k PROVE chain[j] # chain[k]
    <3>1. c - j # c - k
      BY <1>2, <2>6
    <3>2. QED
      BY <1>1, <2>3, <3>1, ObjInjective
  <2>7. ASSUME NEW o \in Objects PROVE \E k \in 1 .. c : o = chain[k]
    <3>1. PICK j \in 0 .. c - 1 : o = Obj(j)
      BY <1>2, ObjectsFacts
    <3>2. c - j \in 1 .. c /\ c - (c - j) = j
      BY <1>2
    <3>3. chain[c - j] = Obj(j)
      BY <2>3, <3>2
    <3>4. QED
      BY <3>1, <3>2, <3>3
  <2>8. \A k \in 1 .. c : chain[k] \in Objects
    BY <2>3
  <2> HIDE DEF chain
  <2>9. PICK ch \in [1 .. c -> Objects] : ch = chain
    BY <2>4
  <2>10. RunsThrough(ch)'
    <3>1. \A k \in 1 .. c : ch[k] = IF k = 1 THEN list ELSE Follow(ch[k - 1])
      BY <2>5, <2>9
    <3>2. DOMAIN ch = 1 .. c
      OBVIOUS
    <3>3. QED
      BY <1>1, <3>1, <3>2 DEF RunsThrough, Follow
  <2>11. Whole(ch)'
    <3>1. count' = c /\ out' = {} /\ Objects' = Objects
      BY <1>1, <1>3, <1>6
    <3>2. /\ \A j, k \in 1 .. c : j # k => ch[j] # ch[k]
          /\ \A k \in 1 .. c : ch[k] \in Objects
          /\ \A o \in Objects : \E k \in 1 .. c : o = ch[k]
      BY <2>6, <2>7, <2>8, <2>9
    <3>3. QED
      BY <2>10, <3>1, <3>2 DEF Whole
  <2>12. QED
    BY <1>1, <2>2, <2>11
<1>14. QED
  BY <1>5, <1>9, <1>10, <1>11, <1>12, <1>13 DEF PoolInv

\* Following a link leads to an object, to NULL or to junk.
LEMMA FollowTyped == ASSUME PoolInv, NEW p PROVE Follow(p) \in Linkable
BY DEF PoolInv, ObjectsInv, Follow, Linkable

\* An object that leads to another has a link.
LEMMA FollowedLink ==
    ASSUME PoolInv, NEW p, Follow(p) \in Objects
    PROVE  p \in DOMAIN link
<1>1. Objects \subseteq Nat
  BY CompNumbers, WordNat DEF Size
<1>2. Junk \notin Nat
  BY DEF Junk
<1>3. QED
  BY <1>1, <1>2 DEF Follow

\* Allocating takes the first object of the chain.
LEMMA AllocChain ==
    ASSUME PoolInv, count > 0, list' = Follow(list), count' = count - 1,
           out' = out \cup {list}, link' = link, comp' = comp, args' = args,
           NEW chain \in [1 .. count -> Objects], Whole(chain),
           NEW ch, ch = [k \in 1 .. count - 1 |-> chain[k + 1]]
    PROVE  ch \in [1 .. count - 1 -> Objects] /\ Whole(ch)'
<1>1. /\ \A k \in 1 .. count : chain[k] = IF k = 1 THEN list ELSE Follow(chain[k - 1])
      /\ \A j, k \in 1 .. count : j # k => chain[j] # chain[k]
      /\ \A k \in 1 .. count : chain[k] \in Objects \ out
      /\ \A o \in Objects \ out : \E k \in 1 .. count : o = chain[k]
  BY DEF Whole, RunsThrough
<1>2. count \in Nat /\ Objects' = Objects
  BY CompNumbers, SameComp DEF PoolInv, ListTypeOK
<1>3. ASSUME NEW k \in 1 .. count - 1
      PROVE  k + 1 \in 1 .. count /\ ch[k] = chain[k + 1] /\ k + 1 # 1 /\ (k + 1) - 1 = k
  BY <1>2
<1>4. ch \in [1 .. count - 1 -> Objects] /\ DOMAIN ch = 1 .. count - 1
  BY <1>1, <1>3
<1>5. 1 \in 1 .. count /\ chain[1] = list
  BY <1>1, <1>2
<1>6. ASSUME NEW k \in 1 .. count - 1
      PROVE  ch[k] = IF k = 1 THEN Follow(list) ELSE Follow(ch[k - 1])
  <2>1. ch[k] = Follow(chain[k])
    BY <1>1, <1>3
  <2>2. CASE k = 1
    BY <1>5, <2>1, <2>2
  <2>3. CASE k # 1
    <3>1. k - 1 \in 1 .. count - 1 /\ (k - 1) + 1 = k
      BY <1>2, <2>3
    <3>2. ch[k - 1] = chain[k]
      BY <1>3, <3>1
    <3>3. QED
      BY <2>1, <2>3, <3>2
  <2>4. QED
    BY <2>2, <2>3
<1>7. ASSUME NEW j \in 1 .. count - 1, NEW k \in 1 .. count - 1, j # k PROVE ch[j] # ch[k]
  <2>1. j + 1 # k + 1
    BY <1>7
  <2>2. QED
    BY <1>1, <1>3, <2>1
<1>8. ASSUME NEW k \in 1 .. count - 1 PROVE ch[k] \in Objects \ (out \cup {list})
  BY <1>1, <1>3, <1>5
<1>9. ASSUME NEW o \in Objects \ (out \cup {list}) PROVE \E k \in 1 .. count - 1 : o = ch[k]
  <2>1. PICK k \in 1 .. count : o = chain[k]
    BY <1>1
  <2>2. k # 1
    BY <1>5, <2>1
  <2>3. k - 1 \in 1 .. count - 1 /\ (k - 1) + 1 = k
    BY <1>2, <2>2
  <2>4. QED
    BY <1>3, <2>1, <2>3
<1>10. RunsThrough(ch)'
  BY <1>4, <1>6 DEF RunsThrough, Follow
<1>11. QED
  BY <1>2, <1>4, <1>7, <1>8, <1>9, <1>10 DEF Whole

\* jfs_fl_alloc takes the head of the chain.
LEMMA AllocObjStep == ASSUME PoolInv, jfs_fl_alloc PROVE PoolInv'
<1>1. /\ state = "ready" /\ count > 0
      /\ UNCHANGED <<vars, args, comp, linked, link, value, black, outside>>
      /\ state' \in {"ready", "undefined"}
  BY DEF jfs_fl_alloc
<1>2. /\ comp.ptr \in Nat /\ ObjSize \in Nat /\ comp.desc.count \in Nat
      /\ Objects \subseteq Size \ {0}
  BY CompNumbers
<1>3. count \in 0 .. comp.desc.count
  BY DEF PoolInv, ListTypeOK
<1>4. MemInv' /\ ArgsInv' /\ CompInv'
  BY <1>1, ListFrame
<1>5. /\ ObjSize' = ObjSize /\ End' = End /\ Objects' = Objects /\ Linkable' = Linkable
      /\ IsTree' = IsTree /\ Fits' = Fits
  BY <1>1, SameComp
<1>6. RestInv' /\ ColourInv' /\ ValueInv'
  BY <1>1, <1>5 DEF PoolInv, RestInv, ColourInv, ValueInv, Made
<1>7. /\ list \in Linkable /\ out \subseteq Objects /\ IsFiniteSet(out)
      /\ Cardinality(out) + count <= comp.desc.count
  BY DEF PoolInv, ObjectsInv
<1>8. CASE list \in {Junk, NULL} /\ state' = "undefined" /\ UNCHANGED <<list, count, out>>
  <2>1. ListTypeOK' /\ ObjectsInv'
    BY <1>1, <1>5, <1>8 DEF PoolInv, ListTypeOK, ObjectsInv
  <2>2. ~Fits
    <3>1. SUFFICES ASSUME Fits PROVE FALSE
      OBVIOUS
    <3>2. PICK chain \in [1 .. count -> Objects] : Whole(chain)
      BY <1>1, <3>1 DEF PoolInv, ChainInv
    <3>3. 1 \in 1 .. count /\ DOMAIN chain = 1 .. count
      BY <1>1, <1>3
    <3>4. chain[1] = list
      BY <3>2, <3>3 DEF Whole, RunsThrough
    <3>5. list \in Size \ {0}
      BY <1>2, <3>3, <3>4
    <3>6. QED
      BY <1>8, <3>5, WordNat DEF Junk, NULL, Size
  <2>3. ChainInv'
    BY <1>5, <2>2 DEF ChainInv
  <2>4. QED
    BY <1>4, <1>6, <2>1, <2>3 DEF PoolInv
<1>9. CASE /\ list \notin {Junk, NULL} /\ list' = Follow(list) /\ count' = count - 1
           /\ out' = out \cup {list} /\ state' = state
  <2>1. list \in Objects /\ list' \in Linkable
    BY <1>7, <1>9, FollowTyped DEF Linkable
  <2>2. out' \subseteq Objects /\ IsFiniteSet(out')
    BY <1>7, <1>9, <2>1, FS_AddElement
  <2>3. Cardinality(out') \in Nat /\ Cardinality(out) \in Nat
        /\ Cardinality(out') <= Cardinality(out) + 1
    BY <1>7, <1>9, <2>2, FS_AddElement, FS_CardinalityType
  <2>4. count' \in Nat /\ count' <= comp.desc.count
        /\ Cardinality(out') + count' <= comp.desc.count
    BY <1>1, <1>2, <1>3, <1>7, <1>9, <2>3
  <2>5. ListTypeOK'
    <3>1. {linked', count'} \subseteq 0 .. comp'.desc.count
      <4>1. linked' \in 0 .. comp'.desc.count
        BY <1>1 DEF PoolInv, ListTypeOK
      <4>2. count' \in 0 .. comp'.desc.count
        BY <1>1, <1>2, <2>4
      <4>3. QED
        BY <4>1, <4>2
    <3>2. list' \in Addresses /\ out' \subseteq Addresses
      BY <2>1, <2>2, LinkableTyped DEF Linkable
    <3>3. QED
      BY <1>1, <3>1, <3>2 DEF PoolInv, ListTypeOK
  <2>6. ObjectsInv'
    BY <1>1, <1>5, <2>1, <2>2, <2>4 DEF PoolInv, ObjectsInv
  <2>7. ChainInv'
    <3>1. SUFFICES ASSUME Fits
                   PROVE  ~outside' /\ \E chain \in [1 .. count' -> Objects] : Whole(chain)'
      BY <1>1, <1>5, <1>9 DEF ChainInv, DownInv
    <3>2. ~outside
      BY <3>1 DEF PoolInv, ChainInv
    <3>3. PICK chain \in [1 .. count -> Objects] : Whole(chain)
      BY <1>1, <3>1 DEF PoolInv, ChainInv
    <3>4. PICK ch : ch = [k \in 1 .. count - 1 |-> chain[k + 1]]
      OBVIOUS
    <3>5. ch \in [1 .. count - 1 -> Objects] /\ Whole(ch)'
      BY <1>1, <1>9, <3>3, <3>4, AllocChain
    <3>6. QED
      BY <1>1, <1>9, <3>2, <3>5
  <2>8. QED
    BY <1>4, <1>6, <2>5, <2>6, <2>7 DEF PoolInv
<1>10. QED
  BY <1>8, <1>9 DEF jfs_fl_alloc, count_after_alloc

\* Freeing puts the object in front of the chain.
LEMMA FreeChain ==
    ASSUME PoolInv, Fits, NEW obj \in out, jfs_fl_free(obj),
           NEW chain \in [1 .. count -> Objects], Whole(chain),
           NEW ch, ch = [k \in 1 .. count + 1 |-> IF k = 1 THEN obj ELSE chain[k - 1]]
    PROVE  ch \in [1 .. count + 1 -> Objects] /\ Whole(ch)'
<1>1. /\ state = "ready" /\ SetLink(obj, list) /\ list' = obj /\ count' = count + 1
      /\ out' = out \ {obj} /\ comp' = comp /\ args' = args
  BY DEF jfs_fl_free
<1>2. count \in Nat /\ obj \in Objects /\ Objects' = Objects
  BY <1>1, CompNumbers, SameComp DEF PoolInv, ListTypeOK, ObjectsInv
<1>3. /\ obj \in DOMAIN link' /\ link'[obj] = list
      /\ \A p \in DOMAIN link' : p # obj => link'[p] = link[p]
      /\ \A p \in DOMAIN link : p \in DOMAIN link'
  BY <1>1, <1>2, SetLinkFacts
<1>4. /\ \A k \in 1 .. count : chain[k] = IF k = 1 THEN list ELSE Follow(chain[k - 1])
      /\ \A j, k \in 1 .. count : j # k => chain[j] # chain[k]
      /\ \A k \in 1 .. count : chain[k] \in Objects \ out
      /\ \A o \in Objects \ out : \E k \in 1 .. count : o = chain[k]
  BY DEF Whole, RunsThrough
<1>5. ASSUME NEW k \in 1 .. count + 1, k # 1
      PROVE  k - 1 \in 1 .. count /\ ch[k] = chain[k - 1]
  BY <1>2, <1>5
<1>6. 1 \in 1 .. count + 1 /\ ch[1] = obj
  BY <1>2
<1>7. ch \in [1 .. count + 1 -> Objects] /\ DOMAIN ch = 1 .. count + 1
  <2>1. \A k \in 1 .. count + 1 : ch[k] \in Objects
    BY <1>2, <1>4, <1>5, <1>6
  <2>2. QED
    BY <2>1
<1>8. ASSUME NEW k \in 1 .. count, k # 1
      PROVE  /\ k - 1 \in 1 .. count /\ chain[k - 1] \in DOMAIN link'
             /\ link'[chain[k - 1]] = chain[k]
  <2>1. k - 1 \in 1 .. count
    BY <1>2, <1>8
  <2>2. chain[k] = Follow(chain[k - 1]) /\ chain[k] \in Objects /\ chain[k - 1] # obj
    BY <1>4, <1>8, <2>1
  <2>3. chain[k - 1] \in DOMAIN link
    BY <2>2, FollowedLink
  <2>4. chain[k] = link[chain[k - 1]]
    BY <2>2, <2>3 DEF Follow
  <2>5. QED
    BY <1>3, <2>1, <2>2, <2>3, <2>4
<1>9. ASSUME NEW k \in 1 .. count + 1, k # 1
      PROVE  ch[k - 1] \in DOMAIN link' /\ ch[k] = link'[ch[k - 1]]
  <2>1. k - 1 \in 1 .. count /\ k - 1 \in 1 .. count + 1 /\ ch[k] = chain[k - 1]
    BY <1>2, <1>5, <1>9
  <2>2. CASE k - 1 = 1
    <3>1. ch[k - 1] = obj /\ chain[k - 1] = list
      BY <1>4, <1>6, <2>1, <2>2
    <3>2. QED
      BY <1>3, <2>1, <3>1
  <2>3. CASE k - 1 # 1
    <3>1. ch[k - 1] = chain[(k - 1) - 1]
      BY <1>5, <2>1, <2>3
    <3>2. QED
      BY <1>8, <2>1, <2>3, <3>1
  <2>4. QED
    BY <2>2, <2>3
<1>10. ASSUME NEW j \in 1 .. count + 1, NEW k \in 1 .. count + 1, j # k PROVE ch[j] # ch[k]
  <2>1. ASSUME NEW m \in 1 .. count + 1, m # 1 PROVE ch[m] # obj
    BY <1>4, <1>5, <2>1
  <2>2. CASE j # 1 /\ k # 1
    <3>1. j - 1 # k - 1
      BY <1>2, <1>10
    <3>2. QED
      BY <1>4, <1>5, <2>2, <3>1
  <2>3. QED
    BY <1>6, <1>10, <2>1, <2>2
<1>11. ASSUME NEW k \in 1 .. count + 1 PROVE ch[k] \in Objects \ (out \ {obj})
  BY <1>2, <1>4, <1>5, <1>6
<1>12. ASSUME NEW o \in Objects \ (out \ {obj}) PROVE \E k \in 1 .. count + 1 : o = ch[k]
  <2>1. CASE o = obj
    BY <1>6, <2>1
  <2>2. CASE o # obj
    <3>1. PICK k \in 1 .. count : o = chain[k]
      BY <1>4, <2>2
    <3>2. k + 1 \in 1 .. count + 1 /\ k + 1 # 1 /\ (k + 1) - 1 = k
      BY <1>2
    <3>3. QED
      BY <1>5, <3>1, <3>2
  <2>3. QED
    BY <2>1, <2>2
<1>13. RunsThrough(ch)'
  BY <1>1, <1>6, <1>7, <1>9 DEF RunsThrough, Follow
<1>14. QED
  BY <1>1, <1>2, <1>7, <1>10, <1>11, <1>12, <1>13 DEF Whole

\* jfs_fl_free puts an object in front of the chain.
LEMMA FreeObjStep ==
    ASSUME PoolInv, NEW obj \in out, jfs_fl_free(obj)
    PROVE  PoolInv'
<1>1. /\ state = "ready" /\ SetLink(obj, list) /\ list' = obj /\ count' = count + 1
      /\ out' = out \ {obj} /\ outside' = (outside \/ ~Inside(obj, PtrSize))
      /\ UNCHANGED <<vars, args, comp, state, linked, value, black>>
  BY DEF jfs_fl_free
<1>2. /\ comp.ptr \in Nat /\ ObjSize \in Nat /\ comp.desc.count \in Nat /\ PtrSize \in Nat
      /\ Objects \subseteq Size \ {0}
  BY CompNumbers
<1>3. count \in 0 .. comp.desc.count
  BY DEF PoolInv, ListTypeOK
<1>4. MemInv' /\ ArgsInv' /\ CompInv'
  BY <1>1, ListFrame
<1>5. /\ ObjSize' = ObjSize /\ End' = End /\ Objects' = Objects /\ Linkable' = Linkable
      /\ IsTree' = IsTree /\ Fits' = Fits
  BY <1>1, SameComp
<1>6. RestInv' /\ ColourInv' /\ ValueInv'
  BY <1>1, <1>5 DEF PoolInv, RestInv, ColourInv, ValueInv, Made
<1>7. /\ list \in Linkable /\ out \subseteq Objects /\ IsFiniteSet(out) /\ obj \in Objects
      /\ Cardinality(out) + count <= comp.desc.count
      /\ DOMAIN link \subseteq Objects /\ \A p \in DOMAIN link : link[p] \in Linkable
  BY DEF PoolInv, ObjectsInv
<1>8. /\ obj \in DOMAIN link' /\ link'[obj] = list
      /\ DOMAIN link' \subseteq DOMAIN link \cup {obj}
      /\ \A p \in DOMAIN link' : p # obj => link'[p] = link[p]
      /\ Fits => \A p \in DOMAIN link : p \in DOMAIN link'
  BY <1>1, <1>7, SetLinkFacts
<1>9. /\ DOMAIN link' \subseteq Objects /\ \A p \in DOMAIN link' : link'[p] \in Linkable
      /\ list' \in Linkable /\ out' \subseteq Objects
  BY <1>1, <1>7, <1>8 DEF Linkable
<1>10. /\ IsFiniteSet(out') /\ Cardinality(out') = Cardinality(out) - 1
       /\ Cardinality(out) \in Nat /\ Cardinality(out') \in Nat
  BY <1>1, <1>7, FS_RemoveElement, FS_CardinalityType
<1>11. count' \in 0 .. comp.desc.count /\ Cardinality(out') + count' <= comp.desc.count
  BY <1>1, <1>2, <1>3, <1>7, <1>10
<1>12. ListTypeOK'
  <2>1. {linked', count'} \subseteq 0 .. comp'.desc.count
    <3>1. linked' \in 0 .. comp'.desc.count
      BY <1>1 DEF PoolInv, ListTypeOK
    <3>2. QED
      BY <1>1, <1>11, <3>1
  <2>2. /\ DOMAIN link' \subseteq Size /\ \A p \in DOMAIN link' : link'[p] \in Addresses
        /\ list' \in Addresses /\ out' \subseteq Addresses
    BY <1>2, <1>9, LinkableTyped DEF Linkable
  <2>3. outside' \in BOOLEAN
    BY <1>1
  <2>4. QED
    BY <1>1, <2>1, <2>2, <2>3 DEF PoolInv, ListTypeOK
<1>13. ObjectsInv'
  BY <1>1, <1>5, <1>9, <1>10, <1>11 DEF ObjectsInv
<1>14. ChainInv'
  <2>1. SUFFICES ASSUME Fits
                 PROVE  ~outside' /\ \E chain \in [1 .. count' -> Objects] : Whole(chain)'
    BY <1>1, <1>5 DEF ChainInv, DownInv
  <2>2. ~outside'
    <3>1. PtrSize <= ObjSize
      BY <1>1, <2>1, FitsRoom
    <3>2. obj \in Nat /\ obj >= obj /\ obj + PtrSize <= obj + ObjSize
      BY <1>2, <1>7, <3>1, ObjectsApart
    <3>3. Inside(obj, PtrSize)
      BY <1>2, <1>7, <3>2, InsideObject
    <3>4. QED
      BY <1>1, <2>1, <3>3 DEF PoolInv, ChainInv
  <2>3. PICK chain \in [1 .. count -> Objects] : Whole(chain)
    BY <1>1, <2>1 DEF PoolInv, ChainInv
  <2>4. PICK ch : ch = [k \in 1 .. count + 1 |-> IF k = 1 THEN obj ELSE chain[k - 1]]
    OBVIOUS
  <2>5. ch \in [1 .. count + 1 -> Objects] /\ Whole(ch)'
    BY <2>1, <2>3, <2>4, FreeChain
  <2>6. QED
    BY <1>1, <2>2, <2>5
<1>15. QED
  BY <1>4, <1>6, <1>12, <1>13, <1>14 DEF PoolInv

\* A write that spares the links of free objects keeps the chain.
LEMMA KeptChain ==
    ASSUME PoolInv, NEW S, S \subseteq DOMAIN link, link' = [p \in S |-> link[p]],
           \A q \in DOMAIN link \ out : q \in S,
           comp' = comp, args' = args, list' = list, count' = count, out' = out,
           NEW chain \in [1 .. count -> Objects], Whole(chain)
    PROVE  Whole(chain)'
<1>1. DOMAIN link' = S /\ \A p \in S : link'[p] = link[p]
  OBVIOUS
<1>2. count \in Nat /\ Objects' = Objects /\ DOMAIN chain = 1 .. count
  BY CompNumbers, SameComp DEF PoolInv, ListTypeOK
<1>3. ASSUME NEW k \in 1 .. count, k # 1
      PROVE  chain[k - 1] \in S /\ chain[k] = link[chain[k - 1]]
  <2>1. k - 1 \in 1 .. count
    BY <1>2, <1>3
  <2>2. chain[k] = Follow(chain[k - 1]) /\ chain[k] \in Objects /\ chain[k - 1] \in Objects \ out
    BY <1>3, <2>1 DEF Whole, RunsThrough
  <2>3. chain[k - 1] \in DOMAIN link
    BY <2>2, FollowedLink
  <2>4. QED
    BY <2>2, <2>3 DEF Follow
<1>4. \A k \in 1 .. count : k = 1 => chain[k] = list
  BY DEF Whole, RunsThrough
<1>5. RunsThrough(chain)'
  BY <1>1, <1>2, <1>3, <1>4 DEF RunsThrough, Follow
<1>6. QED
  BY <1>2, <1>5 DEF Whole

\* A client writes to what it holds: links are lost, but none of a free object when
\* objects fit.
LEMMA WriteStep ==
    ASSUME PoolInv, state = "ready", NEW S, S \subseteq DOMAIN link,
           link' = [p \in S |-> link[p]],
           Fits => \A q \in DOMAIN link \ out : q \in S,
           black' \in BOOLEAN, black' => ObjSize % comp.desc.align # 0,
           outside' \in BOOLEAN, Fits => ~outside',
           UNCHANGED <<vars, args, comp, state, linked, list, count, value, out>>
    PROVE  PoolInv'
<1>1. MemInv' /\ ArgsInv' /\ CompInv'
  BY ListFrame
<1>2. /\ ObjSize' = ObjSize /\ End' = End /\ Objects' = Objects /\ Linkable' = Linkable
      /\ IsTree' = IsTree /\ Fits' = Fits
  BY SameComp
<1>3. RestInv' /\ ColourInv' /\ ValueInv'
  BY <1>2 DEF PoolInv, RestInv, ColourInv, ValueInv, Made
<1>4. DOMAIN link' = S /\ \A p \in S : link'[p] = link[p]
  OBVIOUS
<1>5. ListTypeOK' /\ ObjectsInv'
  BY <1>2, <1>4 DEF PoolInv, ListTypeOK, ObjectsInv
<1>6. ChainInv'
  <2>1. SUFFICES ASSUME Fits
                 PROVE  \E chain \in [1 .. count -> Objects] : Whole(chain)'
    BY <1>2 DEF ChainInv, DownInv
  <2>2. PICK chain \in [1 .. count -> Objects] : Whole(chain)
    BY <2>1 DEF PoolInv, ChainInv
  <2>3. Whole(chain)'
    BY <2>1, <2>2, KeptChain
  <2>4. QED
    BY <2>3
<1>7. QED
  BY <1>1, <1>3, <1>5, <1>6 DEF PoolInv

\* A client that writes to all of an object it holds spares the links of the free ones.
LEMMA WriteSpares ==
    ASSUME PoolInv, state = "ready", Fits, NEW obj \in out, NEW q \in DOMAIN link \ out
    PROVE  q \in Spared(obj, ObjSize)
<1>1. obj \in Objects /\ DOMAIN link \subseteq Objects
  BY DEF PoolInv, ObjectsInv
<1>2. /\ comp.ptr \in Nat /\ ObjSize \in Nat /\ comp.desc.count \in Nat /\ PtrSize <= ObjSize
  BY CompNumbers, FitsRoom
<1>3. obj \in Nat /\ obj >= obj /\ obj + ObjSize <= obj + ObjSize
  BY <1>1, <1>2, ObjectsApart
<1>4. QED
  BY <1>1, <1>2, <1>3, OthersSpared

\* In an object that fits there is room for a node and its value.
LEMMA NodeRoom ==
    ASSUME PoolInv, state = "ready", IsTree, Fits, NEW obj \in out
    PROVE  LET start == obj + value.offset IN
           /\ PtrSize <= ObjSize /\ sizeof_jfs_bst_node <= ObjSize
           /\ value.offset \in Nat /\ value.size \in Nat
           /\ value.offset + value.size <= ObjSize
           /\ start \in Nat /\ start >= obj /\ start + value.size <= obj + ObjSize
           /\ sizeof_jfs_bst_node \in Nat
           /\ obj >= obj /\ obj + sizeof_jfs_bst_node <= obj + ObjSize
<1>1. /\ comp.ptr \in Nat /\ ObjSize \in Nat /\ comp.desc.count \in Nat /\ PtrSize \in Nat \ {0}
      /\ Made /\ state # "none"
  BY CompNumbers DEF Made
<1>2. obj \in Nat
  BY <1>1, ObjectsApart DEF PoolInv, ObjectsInv
<1>3. /\ PtrSize <= ObjSize /\ sizeof_jfs_bst_node <= ObjSize
      /\ value.offset \in Nat /\ value.size \in Nat
      /\ value.offset + value.size <= ObjSize
  BY <1>1, FitsRoom
<1>4. sizeof_jfs_bst_node \in Nat
  BY <1>1 DEF sizeof_jfs_bst_node
<1>5. QED
  BY <1>1, <1>2, <1>3, <1>4

\* So does the tree that writes a node and its value.
LEMMA InsertSpares ==
    ASSUME PoolInv, state = "ready", IsTree, Fits, NEW obj \in out, NEW q \in DOMAIN link \ out
    PROVE  q \in Spared(obj, sizeof_jfs_bst_node) \cap Spared(obj + value.offset, value.size)
<1> DEFINE start == obj + value.offset
<1>1. /\ PtrSize <= ObjSize /\ sizeof_jfs_bst_node <= ObjSize
      /\ value.offset \in Nat /\ value.size \in Nat
      /\ value.offset + value.size <= ObjSize
      /\ start \in Nat /\ start >= obj /\ start + value.size <= obj + ObjSize
      /\ sizeof_jfs_bst_node \in Nat
      /\ obj >= obj /\ obj + sizeof_jfs_bst_node <= obj + ObjSize
  BY NodeRoom
<1> HIDE DEF start
<1>2. /\ obj \in Objects /\ q \in Objects /\ q # obj
  BY DEF PoolInv, ObjectsInv
<1>3. /\ comp.ptr \in Nat /\ ObjSize \in Nat /\ comp.desc.count \in Nat
  BY CompNumbers
<1>4. obj \in Nat
  BY <1>2, <1>3, ObjectsApart
<1>5. q \in Spared(obj, sizeof_jfs_bst_node)
  BY <1>1, <1>2, <1>3, <1>4, OthersSpared
<1>6. q \in Spared(start, value.size)
  BY <1>1, <1>2, <1>3, OthersSpared
<1>7. QED
  BY <1>5, <1>6 DEF start

\* A client writes to an object it holds.
LEMMA WriteObjStep == ASSUME PoolInv, NEW obj \in out, Write(obj) PROVE PoolInv'
<1>1. /\ state = "ready" /\ link' = [p \in Spared(obj, ObjSize) |-> link[p]]
      /\ UNCHANGED <<vars, args, comp, state, linked, list, count, value, out, black, outside>>
  BY DEF Write
<1>2. Spared(obj, ObjSize) \subseteq DOMAIN link
  BY DEF Spared
<1>3. /\ obj \in Objects /\ DOMAIN link \subseteq Objects /\ black \in BOOLEAN
      /\ outside \in BOOLEAN /\ (black => ObjSize % comp.desc.align # 0) /\ (Fits => ~outside)
  BY DEF PoolInv, ObjectsInv, ListTypeOK, ColourInv, ChainInv
<1>4. ASSUME Fits, NEW q \in DOMAIN link \ out PROVE q \in Spared(obj, ObjSize)
  BY <1>1, <1>4, WriteSpares
<1> DEFINE S == Spared(obj, ObjSize)
<1>5. S \subseteq DOMAIN link /\ link' = [p \in S |-> link[p]]
      /\ (Fits => \A q \in DOMAIN link \ out : q \in S)
  BY <1>1, <1>2, <1>4
<1> HIDE DEF S
<1>6. QED
  BY <1>1, <1>3, <1>5, WriteStep

\* The tree writes a node and its value, and the colour into the address of the parent, which
\* is even if sizes are multiples of alignments.
LEMMA InsertStep == ASSUME PoolInv, NEW obj \in out, bst_pack_and_insert(obj) PROVE PoolInv'
<1> DEFINE start == obj + value.offset
           S == Spared(obj, sizeof_jfs_bst_node) \cap Spared(start, value.size)
<1>1. /\ state = "ready" /\ IsTree /\ link' = [p \in S |-> link[p]]
      /\ outside' = \/ outside
                    \/ ~Inside(obj, sizeof_jfs_bst_node) \/ ~Inside(start, value.size)
      /\ \E parent \in {NULL} \cup (out \ {obj}) : black' = reads_black(parent)
      /\ UNCHANGED <<vars, args, comp, state, linked, list, count, value, out>>
  BY DEF bst_pack_and_insert
<1>2. S \subseteq DOMAIN link
  BY DEF Spared
<1>3. /\ obj \in Objects /\ out \subseteq Objects /\ DOMAIN link \subseteq Objects
  BY DEF PoolInv, ObjectsInv
<1>4. /\ comp.ptr \in Nat /\ ObjSize \in Nat /\ comp.desc.count \in Nat /\ PtrSize \in Nat \ {0}
      /\ Made /\ state # "none"
  BY <1>1, CompNumbers DEF Made
<1>5. obj \in Nat
  BY <1>3, <1>4, ObjectsApart
<1>6. ASSUME Fits
      PROVE  /\ PtrSize <= ObjSize /\ sizeof_jfs_bst_node <= ObjSize
             /\ value.offset \in Nat /\ value.size \in Nat
             /\ value.offset + value.size <= ObjSize
             /\ start \in Nat /\ start >= obj /\ start + value.size <= obj + ObjSize
             /\ sizeof_jfs_bst_node \in Nat
             /\ obj >= obj /\ obj + sizeof_jfs_bst_node <= obj + ObjSize
  BY <1>1, <1>6, NodeRoom
<1>7. ASSUME Fits, NEW q \in DOMAIN link \ out PROVE q \in S
  BY <1>1, <1>7, InsertSpares
<1> HIDE DEF start
<1>8. outside' \in BOOLEAN /\ (Fits => ~outside')
  <2>1. ASSUME Fits PROVE ~outside /\ Inside(obj, sizeof_jfs_bst_node) /\ Inside(start, value.size)
    BY <1>3, <1>5, <1>6, <2>1, InsideObject DEF PoolInv, ChainInv
  <2>2. QED
    BY <1>1, <2>1
<1>9. black' \in BOOLEAN /\ (black' => ObjSize % comp.desc.align # 0)
  <2>1. PICK parent \in {NULL} \cup (out \ {obj}) : black' = reads_black(parent)
    BY <1>1
  <2>2. SUFFICES ASSUME parent % 2 = 1 PROVE ObjSize % comp.desc.align # 0
    BY <2>1 DEF reads_black
  <2>3. parent \in Objects
    BY <1>3, <2>2 DEF NULL
  <2>4. PICK k \in 0 .. comp.desc.count - 1 : parent = Obj(k)
    BY <1>4, <2>3, ObjectsFacts
  <2>5. SUFFICES ASSUME ObjSize % comp.desc.align = 0 PROVE parent % 2 = 0
    BY <2>2
  <2>6. /\ jfs_mlg_valid_align(comp.desc.align) /\ comp.ptr % comp.desc.align = 0
        /\ comp.desc \in NodeDescs
    BY <1>1 DEF PoolInv, CompInv, jfs_mlg_valid_desc
  <2>7. comp.desc.align \in Nat \ {0}
    BY <2>6, ValidAlign
  <2>8. comp.desc.align % 2 = 0
    <3>1. PICK c \in Counts : comp.desc = [jfs_mlg_append(NodeDesc, args) EXCEPT !.count = c]
      BY <1>1, <2>6 DEF NodeDescs
    <3>2. c \in Size /\ args \in Descriptions /\ jfs_mlg_valid_desc(args)
      BY <1>1, TreeArgsAssumption DEF PoolInv, ListTypeOK, ArgsInv
    <3>3. comp.desc.align % PtrSize = 0
      BY <3>1, <3>2, NodeFacts
    <3>4. PtrSize % 2 = 0
      BY PtrAssumption
    <3>5. QED
      BY <1>4, <2>7, <3>3, <3>4, DividesTrans
  <2>9. comp.ptr % 2 = 0 /\ ObjSize % 2 = 0
    <3>1. 2 \in Nat \ {0} /\ comp.ptr \in Int /\ ObjSize \in Int
      BY <1>4
    <3>2. QED
      BY <2>5, <2>6, <2>7, <2>8, <3>1, DividesTrans, Zenon
  <2>10. (k * ObjSize) % 2 = 0 /\ k * ObjSize \in Int
    <3> DEFINE h == ObjSize \div 2
               s == ObjSize
    <3>1. s \in Nat
      BY <1>4
    <3>2. h \in Int /\ s = 2 * h
      BY <1>4, <2>9, Factor
    <3> HIDE DEF h, s
    <3>3. k * s = 2 * (k * h) /\ k * h \in Int /\ k * s \in Int
      BY <3>1, <3>2
    <3> DEFINE m == k * h
    <3> HIDE DEF m
    <3>4. (2 * m) % 2 = 0
      BY <3>3, Multiple DEF m
    <3>5. QED
      BY <3>3, <3>4 DEF s, m
  <2>11. parent = comp.ptr + k * ObjSize
    BY <2>4 DEF Obj
  <2>12. QED
    <3> DEFINE q == k * ObjSize
               z == comp.ptr
    <3>1. q \in Int /\ z \in Int /\ q % 2 = 0 /\ z % 2 = 0 /\ parent = z + q
      BY <1>4, <2>9, <2>10, <2>11
    <3> HIDE DEF q, z
    <3>2. (z + q) % 2 = 0
      BY ONLY <3>1
    <3>3. QED
      BY ONLY <3>1, <3>2
<1> HIDE DEF S
<1>10. QED
  BY <1>1, <1>2, <1>7, <1>8, <1>9, WriteStep

\* At first there is no list.
LEMMA PoolStart == PoolInit => PoolInv
<1>1. SUFFICES ASSUME PoolInit PROVE PoolInv
  OBVIOUS
<1>2. MemInv
  BY <1>1, MemInit DEF PoolInit
<1>3. /\ args = None /\ comp = NoComponent /\ state = "none" /\ linked = 0 /\ link = <<>>
      /\ list = NULL /\ count = 0 /\ value = NoValue /\ out = {} /\ black = FALSE
      /\ outside = FALSE
  BY <1>1 DEF PoolInit
<1>4. 0 \in Size
  BY WordNat DEF Size
<1>5. /\ None \in Descriptions /\ comp.ptr = 0 /\ comp.desc = None /\ comp.desc.count = 0
      /\ value.offset = 0 /\ value.size = 0
  BY <1>3, <1>4 DEF NoComponent, NULL, None, Desc, Descriptions, NoValue
<1>6. DOMAIN link = {}
  BY <1>3
<1>7. ListTypeOK
  <2>1. {linked, count} \subseteq 0 .. comp.desc.count
    BY <1>3, <1>5
  <2>2. \A p \in DOMAIN link : link[p] \in Addresses
    BY <1>6
  <2>3. list \in Addresses /\ comp.ptr \in Size
    BY <1>3, <1>4, <1>5 DEF Addresses, NULL
  <2>4. QED
    BY <1>3, <1>4, <1>5, <1>6, <2>1, <2>2, <2>3 DEF ListTypeOK
<1>8. ArgsInv /\ RestInv /\ CompInv
  BY <1>3 DEF ArgsInv, IsTree, RestInv, CompInv
<1>9. ObjectsInv
  <2>1. IsFiniteSet({}) /\ Cardinality({}) = 0
    BY FS_EmptySet
  <2>2. Cardinality(out) + count <= comp.desc.count
    BY <1>3, <1>5, <2>1
  <2>3. QED
    BY <1>3, <1>6, <2>1, <2>2 DEF ObjectsInv, Linkable
<1>10. ValueInv /\ ColourInv /\ ChainInv
  BY <1>3 DEF ValueInv, ColourInv, Made, ChainInv, DownInv
<1>11. QED
  BY <1>2, <1>7, <1>8, <1>9, <1>10 DEF PoolInv

\* A step that changes nothing keeps PoolInv.
LEMMA PoolStutter == ASSUME PoolInv, UNCHANGED poolVars PROVE PoolInv'
<1>1. /\ MemInv' /\ UNCHANGED <<vars, args, comp>> /\ UNCHANGED listVars
  BY Stutter DEF PoolInv, poolVars, listVars
<1>2. /\ ObjSize' = ObjSize /\ End' = End /\ Objects' = Objects /\ Linkable' = Linkable
      /\ \A k : Obj(k)' = Obj(k)
      /\ IsTree' = IsTree /\ NodeDescs' = NodeDescs /\ Fits' = Fits
  BY <1>1, SameComp
<1>3. Returned' = Returned
  BY <1>1 DEF Returned, vars
<1>4. ListTypeOK' /\ ArgsInv' /\ RestInv'
  BY <1>1, <1>2 DEF PoolInv, ListTypeOK, ArgsInv, RestInv, listVars
<1>5. CompInv' /\ ObjectsInv'
  BY <1>1, <1>2, <1>3 DEF PoolInv, CompInv, ObjectsInv, listVars
<1>6. ValueInv' /\ ColourInv'
  BY <1>1, <1>2 DEF PoolInv, ValueInv, ColourInv, Made, listVars
<1>7. ChainInv'
  <2>1. DownInv' = DownInv
    BY <1>1, <1>2 DEF DownInv, listVars
  <2>2. \A chain : RunsThrough(chain)' = RunsThrough(chain)
    BY <1>1 DEF RunsThrough, Follow, listVars
  <2>3. \A chain : Whole(chain)' = Whole(chain)
    BY <1>1, <1>2, <2>2 DEF Whole, listVars
  <2>4. QED
    BY <1>1, <1>2, <2>1, <2>3 DEF PoolInv, ChainInv, listVars
<1>8. QED
  BY <1>1, <1>4, <1>5, <1>6, <1>7 DEF PoolInv

\* PoolInv is inductive.
LEMMA PoolStep == PoolInv /\ [PoolNext]_poolVars => PoolInv'
<1>1. SUFFICES ASSUME PoolInv, PoolNext PROVE PoolInv'
  BY PoolStutter
<1>2. ASSUME NEW a \in TreeArgs, jfs_bst_make_desc(a) PROVE PoolInv'
  BY <1>1, <1>2, MakeDescStep
<1>3. CASE LayOut(Descs \cup NodeDescs) /\ UNCHANGED <<args, listVars>>
  BY <1>1, <1>3, LayOutPoolStep
<1>4. ASSUME NEW c \in Components, jfs_fl_init(c) PROVE PoolInv'
  BY <1>1, <1>4, FlInitStep
<1>5. ASSUME NEW obj \in out, jfs_fl_free(obj) \/ Write(obj) \/ bst_pack_and_insert(obj)
      PROVE  PoolInv'
  BY <1>1, <1>5, FreeObjStep, WriteObjStep, InsertStep
<1>6. QED
  BY <1>1, <1>2, <1>3, <1>4, <1>5, ReleaseStep, LinkMemoryStep, InitDoneStep, AllocObjStep
     DEF PoolNext

-----------------------------------------------------------------------------
(* The chain that the links determine *)

\* Two runs of the same length through the links are the same: at the first place
\* where they differed they would follow the same link.
LEMMA OneRun ==
    ASSUME NEW c \in Nat, NEW S1, NEW S2, NEW f \in [1 .. c -> S1], NEW g \in [1 .. c -> S2],
           RunsThrough(f), RunsThrough(g)
    PROVE  f = g
<1> DEFINE T == {k \in 1 .. c : f[k] # g[k]}
<1>1. /\ DOMAIN f = 1 .. c /\ DOMAIN g = 1 .. c
      /\ \A k \in 1 .. c : f[k] = IF k = 1 THEN list ELSE Follow(f[k - 1])
      /\ \A k \in 1 .. c : g[k] = IF k = 1 THEN list ELSE Follow(g[k - 1])
  BY DEF RunsThrough
<1>2. T = {}
  <2>1. SUFFICES ASSUME T # {} PROVE FALSE
    OBVIOUS
  <2>2. T \subseteq Nat
    OBVIOUS
  <2>3. PICK m \in T : \A k \in T : ~(k < m)
    BY <2>1, <2>2, LeastNat
  <2>4. m \in 1 .. c /\ f[m] # g[m]
    OBVIOUS
  <2>5. m # 1
    BY <1>1, <2>4
  <2>6. m - 1 \in 1 .. c /\ m - 1 < m
    BY <2>4, <2>5
  <2>7. f[m - 1] = g[m - 1]
    BY <2>3, <2>6
  <2>8. QED
    BY <1>1, <2>4, <2>5, <2>7
<1>3. \A k \in 1 .. c : f[k] = g[k]
  BY <1>2
<1>4. QED
  BY <1>1, <1>3

\* Chain is the only chain.
Determined == \A chain \in [1 .. count -> Objects] : Whole(chain) => Chain = chain

\* The links determine the chain, which therefore is the one of the properties.
LEMMA ChainDetermined == PoolInv => Determined
<1>1. SUFFICES ASSUME PoolInv, NEW chain \in [1 .. count -> Objects], Whole(chain)
               PROVE  Chain = chain
  BY DEF Determined
<1>2. count \in Nat
  BY <1>1, CompNumbers DEF PoolInv, ListTypeOK
<1>3. RunsThrough(chain) /\ DOMAIN chain = 1 .. count
  BY <1>1 DEF Whole
<1>4. ASSUME NEW k \in 1 .. count PROVE chain[k] \in Targets
  <2>1. chain[k] = IF k = 1 THEN list ELSE Follow(chain[k - 1])
    BY <1>3 DEF RunsThrough
  <2>2. \A p : Follow(p) \in Targets
    BY DEF Follow, Targets
  <2>3. list \in Targets
    BY DEF Targets
  <2>4. QED
    BY <2>1, <2>2, <2>3
<1>5. chain \in [1 .. count -> Targets]
  BY <1>4
<1>6. Chain \in [1 .. count -> Targets] /\ RunsThrough(Chain)
  BY <1>3, <1>5 DEF Chain
<1>7. QED
  BY <1>2, <1>3, <1>5, <1>6, OneRun

\* The invariant is as strong as the properties.
LEMMA PoolInvImplies == PoolInv => EveryObjectOnce /\ NodesAreReadable
<1>1. SUFFICES ASSUME PoolInv PROVE EveryObjectOnce /\ NodesAreReadable
  OBVIOUS
<1>2. ASSUME state = "ready", Fits
      PROVE  /\ \A j, k \in 1 .. count : j # k => Chain[j] # Chain[k]
             /\ {Chain[k] : k \in 1 .. count} \cap out = {}
             /\ {Chain[k] : k \in 1 .. count} \cup out = Objects
  <2>1. PICK chain \in [1 .. count -> Objects] : Whole(chain)
    BY <1>1, <1>2 DEF PoolInv, ChainInv
  <2>2. Chain = chain
    BY <1>1, <2>1, ChainDetermined DEF Determined
  <2>3. out \subseteq Objects
    BY <1>1 DEF PoolInv, ObjectsInv
  <2>4. QED
    BY <2>1, <2>2, <2>3 DEF Whole
<1>3. EveryObjectOnce
  <2>1. ListTypeOK /\ (outside \/ state = "undefined" => ~Fits)
    BY <1>1 DEF PoolInv, ChainInv
  <2>2. QED
    BY <1>2, <2>1 DEF EveryObjectOnce
<1>4. NodesAreReadable
  <2>1. ASSUME state = "ready", IsTree
        PROVE  /\ value.offset = jfs_mlg_append(NodeDesc, [args EXCEPT !.count = 0]).size
               /\ value.size = Wrap(args.size * args.count)
    <3>1. args \in Descriptions /\ jfs_mlg_valid_desc(args) /\ 0 \in Size
      BY <1>1, <2>1, WordNat DEF PoolInv, ListTypeOK, ArgsInv, Size
    <3>2. jfs_mlg_append(NodeDesc, [args EXCEPT !.count = 0]).size
            = jfs_mlg_align_size(sizeof_jfs_bst_node, args.align)
      BY <3>1, NodeFacts
    <3>3. QED
      BY <1>1, <2>1, <3>2 DEF PoolInv, ValueInv, Made
  <2>2. QED
    BY <1>1, <2>1 DEF NodesAreReadable, PoolInv, ColourInv
<1>5. QED
  BY <1>3, <1>4

\* What LayoutIsSound and LayoutLeaksNothing say of jfs_mlg_memory_init holds with nodes of
\* jfs_bst_make_desc among the components and lists in them.
THEOREM PoolLayoutIsSound == PoolSpec => [](SoundIffFits /\ NothingLeaked)
<1>1. PoolInv => SoundIffFits /\ NothingLeaked
  BY MemInvImplies DEF PoolInv
<1>2. QED
  BY <1>1, PoolStart, PoolStep, PTL DEF PoolSpec

\* After any sequence of jfs_fl_alloc, jfs_fl_free and writes to the objects handed out, for
\* any number of objects of any size: each object is on the list once or with the client and
\* no write leaves the component, provided an object has room for what is put into it.
THEOREM ObjectsStayApart == PoolSpec => []EveryObjectOnce
BY PoolStart, PoolStep, PoolInvImplies, PTL DEF PoolSpec

\* jfs_bst_init finds the offset and the size of the values that jfs_bst_make_desc has used
\* and not saved, even when sizes wrap, and a red node reads as red if the size of a node is
\* a multiple of its alignment.
THEOREM NodesStayReadable == PoolSpec => []NodesAreReadable
BY PoolStart, PoolStep, PoolInvImplies, PTL DEF PoolSpec

-----------------------------------------------------------------------------
(* The free list implements the stack of FreeStack *)

\* The chain after a step, by what is known of the links after it.
LEMMA ChainAfter ==
    ASSUME PoolInv', NEW ch, ch \in [1 .. count' -> Objects'], Whole(ch)'
    PROVE  Chain' = ch
<1>1. (PoolInv => Determined)'
  BY ChainDetermined, PTL
<1>2. QED
  BY <1>1 DEF Determined

\* What an abstract step sees of the list.
LEMMA StackStep ==
    ASSUME PoolInv, PoolInv', PoolNext, Fits
    PROVE  Stack!Next \/ UNCHANGED Stack!vars
<1>1. ASSUME ~Made, ~Made', out' = out PROVE UNCHANGED Stack!vars
  BY <1>1 DEF Made, Stack!vars
<1>2. state # "none"
  <2>1. SUFFICES ASSUME state = "none" PROVE FALSE
    OBVIOUS
  <2>2. ObjSize = 0
    BY <2>1 DEF PoolInv, RestInv, NoComponent, None, Desc, ObjSize
  <2>3. Used \in Nat /\ Used > 0
    <3>1. PtrSize \in Nat \ {0}
      BY PtrAlign
    <3>2. CASE ~IsTree
      BY <3>1, <3>2 DEF Used
    <3>3. CASE IsTree
      <4>1. /\ args.size \in Nat /\ args.count \in Nat /\ jfs_mlg_valid_align(args.align)
        BY <3>3, WordNat DEF PoolInv, ArgsInv, ListTypeOK, jfs_mlg_valid_desc, Descriptions, Size
      <4>2. 4 * PtrSize \in Nat
        BY <3>1
      <4>3. /\ ExactAppend(4 * PtrSize, args) \in Nat
            /\ ExactAppend(4 * PtrSize, args) >= 4 * PtrSize
        BY <4>1, <4>2, ExactGrows
      <4>4. QED
        BY <3>1, <3>3, <4>3 DEF Used, sizeof_jfs_bst_node
    <3>4. QED
      BY <3>2, <3>3
  <2>4. QED
    BY <2>2, <2>3 DEF Fits
<1>3. Returned
  BY <1>2 DEF PoolInv, CompInv
<1>4. ASSUME NEW a \in TreeArgs, jfs_bst_make_desc(a) PROVE FALSE
  BY <1>3, <1>4 DEF jfs_bst_make_desc, Returned
<1>5. ASSUME LayOut(Descs \cup NodeDescs) PROVE FALSE
  BY <1>3, <1>5 DEF Returned, LayOut, Call, init_bad_header, init_start, init_append,
                    init_bad_desc, init_alloc, init_fill
<1>6. CASE Release
  BY <1>6 DEF Release, Stack!Next, Stack!Drop
<1>7. ASSUME NEW c \in Components, jfs_fl_init(c) PROVE FALSE
  BY <1>2, <1>7 DEF jfs_fl_init
<1>8. CASE fl_link_memory
  <2>1. ~Made /\ ~Made' /\ out' = out
    BY <1>8 DEF fl_link_memory, LinkLoop, Made
  <2>2. QED
    BY <1>1, <2>1
<1>9. CASE fl_init_done
  <2>1. /\ state = "link" /\ state' = "ready" /\ out' = out /\ comp' = comp /\ args' = args
    BY <1>9 DEF fl_init_done
  <2>2. Fits' /\ Objects' = Objects
    BY <2>1, SameComp
  <2>3. PICK ch \in [1 .. count' -> Objects'] : Whole(ch)'
    BY <2>1, <2>2 DEF PoolInv, ChainInv
  <2>4. Chain' = ch
    BY <2>3, ChainAfter
  <2>5. /\ \A j, k \in 1 .. count' : j # k => ch[j] # ch[k]
        /\ \A k \in 1 .. count' : ch[k] \in Objects /\ DOMAIN ch = 1 .. count'
    BY <2>2, <2>3 DEF Whole
  <2>6. Objects \subseteq Size
    BY CompNumbers
  <2>7. Stack!ToSet(ch) \subseteq Size /\ Stack!IsInjective(ch)
    BY <2>3, <2>5, <2>6 DEF Stack!ToSet, Stack!IsInjective
  <2>8. Stack!Make
    BY <2>1, <2>4, <2>7 DEF Stack!Make
  <2>9. QED
    BY <2>8 DEF Stack!Next
<1>10. ASSUME Made PROVE state = "ready" /\ \E ch \in [1 .. count -> Objects] : Whole(ch) /\ Chain = ch
  <2>1. state = "ready"
    BY <1>10 DEF Made, PoolInv, ChainInv
  <2>2. QED
    BY <2>1, ChainDetermined DEF Determined, PoolInv, ChainInv
<1>11. count \in Nat /\ Objects \subseteq Size
  BY CompNumbers DEF PoolInv, ListTypeOK
<1>12. CASE jfs_fl_alloc
  <2>1. /\ state = "ready" /\ count > 0 /\ link' = link /\ comp' = comp /\ args' = args
    BY <1>12 DEF jfs_fl_alloc
  <2>2. Fits' /\ Objects' = Objects /\ Made
    BY <2>1, SameComp DEF Made
  <2>3. state' # "undefined"
    BY <2>2 DEF PoolInv, ChainInv
  <2>4. /\ list' = Follow(list) /\ count' = count - 1 /\ out' = out \cup {list} /\ state' = "ready"
    BY <1>12, <2>1, <2>3 DEF jfs_fl_alloc, count_after_alloc
  <2>5. PICK chain \in [1 .. count -> Objects] : Whole(chain) /\ Chain = chain
    BY <1>10, <2>2
  <2>6. PICK ch : ch = [k \in 1 .. count - 1 |-> chain[k + 1]]
    OBVIOUS
  <2>7. ch \in [1 .. count - 1 -> Objects] /\ Whole(ch)'
    BY <2>1, <2>4, <2>5, <2>6, AllocChain
  <2>8. Chain' = ch
    BY <2>2, <2>4, <2>7, ChainAfter
  <2>9. chain[1] = list /\ chain \in Seq(Objects) /\ Len(chain) = count
    BY <1>11, <2>1, <2>5 DEF Whole, RunsThrough
  <2>10. Tail(chain) = ch /\ Head(chain) = list /\ chain # <<>>
    <3>1. chain # <<>>
      BY <2>1, <2>9
    <3>2. Head(chain) = list
      BY <2>9, <3>1
    <3>3. /\ Tail(chain) \in Seq(Objects) /\ Len(Tail(chain)) = Len(chain) - 1
          /\ \A k \in 1 .. Len(Tail(chain)) : Tail(chain)[k] = chain[k + 1]
      BY <2>9, <3>1, HeadTailProperties
    <3>4. ch \in Seq(Objects) /\ Len(ch) = count - 1
      BY <1>11, <2>1, <2>7
    <3>5. \A k \in 1 .. Len(ch) : Tail(chain)[k] = ch[k]
      BY <1>11, <2>1, <2>6, <2>9, <3>3, <3>4
    <3>6. Tail(chain) = ch
      BY <2>9, <3>3, <3>4, <3>5, SeqEqual
    <3>7. QED
      BY <3>1, <3>2, <3>6
  <2>11. Stack!Alloc
    BY <2>1, <2>4, <2>5, <2>8, <2>10 DEF Stack!Alloc
  <2>12. QED
    BY <2>11 DEF Stack!Next
<1>13. ASSUME NEW obj \in out, jfs_fl_free(obj) PROVE Stack!Next
  <2>1. /\ state = "ready" /\ state' = "ready" /\ count' = count + 1 /\ out' = out \ {obj}
        /\ comp' = comp /\ args' = args
    BY <1>13 DEF jfs_fl_free
  <2>2. Objects' = Objects /\ Made /\ obj \in Objects
    BY <2>1, SameComp DEF Made, PoolInv, ObjectsInv
  <2>3. PICK chain \in [1 .. count -> Objects] : Whole(chain) /\ Chain = chain
    BY <1>10, <2>2
  <2>4. PICK ch : ch = [k \in 1 .. count + 1 |-> IF k = 1 THEN obj ELSE chain[k - 1]]
    OBVIOUS
  <2>5. ch \in [1 .. count + 1 -> Objects] /\ Whole(ch)'
    BY <1>13, <2>3, <2>4, FreeChain
  <2>6. Chain' = ch
    BY <2>1, <2>2, <2>5, ChainAfter
  <2>7. <<obj>> \o chain = ch
    <3>1. chain \in Seq(Objects) /\ Len(chain) = count /\ <<obj>> \in Seq(Objects) /\ Len(<<obj>>) = 1
          /\ <<obj>>[1] = obj /\ ch \in Seq(Objects) /\ Len(ch) = count + 1
      BY <1>11, <2>2, <2>5
    <3> DEFINE one == <<obj>>
               both == one \o chain
    <3>2. /\ both \in Seq(Objects) /\ Len(both) = Len(one) + Len(chain)
          /\ \A k \in 1 .. Len(one) + Len(chain) :
                both[k] = IF k <= Len(one) THEN one[k] ELSE chain[k - Len(one)]
      BY <3>1, ConcatProperties, Zenon
    <3>3. Len(one) = 1 /\ one[1] = obj
      BY <3>1
    <3> HIDE DEF one, both
    <3>4. Len(both) = count + 1
      BY <1>11, <3>1, <3>2, <3>3
    <3>5. ASSUME NEW k \in 1 .. count + 1 PROVE both[k] = ch[k]
      <4>1. both[k] = IF k <= 1 THEN one[k] ELSE chain[k - 1]
        BY <1>11, <3>1, <3>2, <3>3
      <4>2. k <= 1 <=> k = 1
        BY <1>11
      <4>3. QED
        BY <2>4, <3>3, <4>1, <4>2
    <3>6. both = ch
      BY <3>1, <3>2, <3>4, <3>5, SeqEqual
    <3>7. QED
      BY <3>6 DEF both, one
  <2>8. Stack!Free(obj) /\ obj \in Size
    BY <1>11, <2>1, <2>2, <2>3, <2>6, <2>7 DEF Stack!Free
  <2>9. QED
    BY <2>8 DEF Stack!Next
<1>14. ASSUME NEW S, S \subseteq DOMAIN link, link' = [p \in S |-> link[p]],
              \A q \in DOMAIN link \ out : q \in S, state = "ready",
              comp' = comp, args' = args, list' = list, count' = count, out' = out, state' = state
       PROVE  UNCHANGED Stack!vars
  <2>1. Objects' = Objects /\ Made
    BY <1>14, SameComp DEF Made
  <2>2. PICK chain \in [1 .. count -> Objects] : Whole(chain) /\ Chain = chain
    BY <1>10, <2>1
  <2>3. Whole(chain)'
    BY <1>14, <2>2, KeptChain
  <2>4. Chain' = chain
    BY <1>14, <2>1, <2>2, <2>3, ChainAfter
  <2>5. QED
    BY <1>14, <2>2, <2>4 DEF Stack!vars
<1>15. ASSUME NEW obj \in out, Write(obj) PROVE UNCHANGED Stack!vars
  <2> DEFINE S == Spared(obj, ObjSize)
  <2>1. /\ state = "ready" /\ link' = [p \in S |-> link[p]]
        /\ comp' = comp /\ args' = args /\ list' = list /\ count' = count /\ out' = out
        /\ state' = state
    BY <1>15 DEF Write
  <2>2. S \subseteq DOMAIN link /\ \A q \in DOMAIN link \ out : q \in S
    BY <2>1, WriteSpares DEF Spared
  <2> HIDE DEF S
  <2>3. QED
    BY <1>14, <2>1, <2>2
<1>16. ASSUME NEW obj \in out, bst_pack_and_insert(obj) PROVE UNCHANGED Stack!vars
  <2> DEFINE S == Spared(obj, sizeof_jfs_bst_node) \cap Spared(obj + value.offset, value.size)
  <2>1. /\ state = "ready" /\ IsTree /\ link' = [p \in S |-> link[p]]
        /\ comp' = comp /\ args' = args /\ list' = list /\ count' = count /\ out' = out
        /\ state' = state
    BY <1>16 DEF bst_pack_and_insert
  <2>2. S \subseteq DOMAIN link
    BY DEF Spared
  <2>3. \A q \in DOMAIN link \ out : q \in S
    BY <2>1, InsertSpares
  <2> HIDE DEF S
  <2>4. QED
    BY <1>14, <2>1, <2>2, <2>3
<1>17. QED
  BY <1>4, <1>5, <1>6, <1>7, <1>8, <1>9, <1>12, <1>13, <1>15, <1>16 DEF PoolNext

\* jfs_fl_alloc takes the object that jfs_fl_free gave back last, and writes of clients change
\* nothing of the order: the list threaded through the objects is the stack of FreeStack, for
\* any number of objects that have room for what is put into them.
THEOREM ListImplementsStack == PoolSpec => ImplementsFreeStack
<1>1. PoolInit => Stack!Init
  BY DEF PoolInit, Stack!Init
<1>2. PoolInv /\ PoolInv' /\ [PoolNext]_poolVars => [Fits => [Stack!Next]_(Stack!vars)]_poolVars
  BY StackStep
<1>3. QED
  BY <1>1, <1>2, PoolStart, PoolStep, PTL DEF PoolSpec, ImplementsFreeStack

-----------------------------------------------------------------------------
(* The sizes of the slab allocator *)

\* No size doubles beyond the address space but the largest power of two, which
\* reaches it.
LEMMA Doubled ==
    ASSUME NEW a, jfs_mlg_valid_align(a)
    PROVE  2 * a <= Word /\ (jfs_mlg_valid_align(2 * a) \/ 2 * a = Word)
<1>1. PICK k \in 0 .. Width - 1 : a = 2^k
  BY DEF jfs_mlg_valid_align
<1>2. a \in Nat \ {0} /\ a < Word /\ Word % a = 0 /\ Word \in Nat
  BY ValidAlign, WordNat DEF Size
<1>3. a % a = 0
  <2>1. (a * 1) % a = 0 /\ a * 1 = a
    BY <1>2, Multiple
  <2>2. QED
    BY <2>1
<1>4. a + a <= Word
  BY <1>2, <1>3, MultiplesApart
<1>5. 2^(k + 1) = 2 * a
  BY <1>1, PowersAssumption
<1>6. k + 1 \in 0 .. Width - 1 \/ k + 1 = Width
  BY WidthAssumption
<1>7. jfs_mlg_valid_align(2 * a) \/ 2 * a = Word
  BY <1>5, <1>6 DEF jfs_mlg_valid_align, Word
<1>8. QED
  BY <1>2, <1>4, <1>7

\* The header of a slab takes no more than half the address space, however it is
\* aligned: it is padded to the larger of two powers of two.
LEMMA HeaderFits ==
    ASSUME NEW a, jfs_mlg_valid_align(a)
    PROVE  /\ 2 * PtrSize \in Size
           /\ jfs_mlg_align_size(2 * PtrSize, a) \in Size
           /\ 2 * jfs_mlg_align_size(2 * PtrSize, a) <= Word
<1> DEFINE x == 2 * PtrSize
           r == RoundUp(x, a)
<1>1. x \in Nat \ {0} /\ 2 * x < Word /\ Word \in Nat /\ a \in Nat \ {0} /\ x \in Size
  BY PtrAlign, WordNat, ValidAlign DEF Size
<1>2. jfs_mlg_valid_align(x)
  <2>1. jfs_mlg_valid_align(x) \/ x = Word
    BY PtrAlign, Doubled
  <2>2. QED
    BY <1>1, <2>1
<1> HIDE DEF x
<1>3. /\ r \in Nat /\ x <= r /\ r <= x + a - 1 /\ r % a = 0
  BY <1>1, RoundUpFacts
<1>4. 2 * r <= Word
  <2>1. Max2(a, x) % a = 0
    BY <1>2, StricterAlign
  <2>2. CASE a > x
    <3>1. 2 * a <= Word
      BY Doubled
    <3>2. r <= a
      <4>1. SUFFICES ASSUME a < r PROVE FALSE
        BY <1>1, <1>3
      <4>2. a % a = 0
        BY <2>1, <2>2 DEF Max2
      <4>3. a + a <= r
        BY <1>1, <1>3, <4>1, <4>2, MultiplesApart
      <4>4. QED
        BY <1>1, <1>3, <2>2, <4>3
    <3>3. QED
      BY <1>1, <1>3, <3>1, <3>2
  <2>3. CASE ~(a > x)
    <3>1. x % a = 0
      BY <2>1, <2>3 DEF Max2
    <3>2. r = x
      BY <1>1, <3>1, RoundedAlready
    <3>3. QED
      BY <1>1, <3>2
  <2>4. QED
    BY <2>2, <2>3
<1> HIDE DEF r
<1>5. jfs_mlg_align_size(x, a) \in Size
      /\ jfs_mlg_align_size(x, a) = IF r < Word THEN r ELSE 0
  BY <1>1, AlignSize DEF r
<1>6. QED
  BY <1>1, <1>3, <1>4, <1>5 DEF x

\* The pages that are needed, when no more than half the address space is: they
\* hold it, and one page fewer does not.
LEMMA PagesHold ==
    ASSUME NEW P, jfs_mlg_valid_align(P), NEW req \in Nat, 2 * req <= Word
    PROVE  \E min \in Nat : /\ min = Wrap(req + P - 1) \div P
                            /\ req <= min * P /\ min * P <= req + P - 1
<1>1. P \in Nat \ {0} /\ 2 * P <= Word /\ Word \in Nat
  BY ValidAlign, Doubled, WordNat
<1>2. req + P - 1 \in Size
  BY <1>1 DEF Size
<1>3. Wrap(req + P - 1) = req + P - 1
  BY <1>1, <1>2, WrapSize
<1> DEFINE min == (req + P - 1) \div P
<1>4. RoundUp(req, P) \in Nat /\ req <= RoundUp(req, P) /\ RoundUp(req, P) <= req + P - 1
  BY <1>1, RoundUpFacts
<1>5. RoundUp(req, P) = min * P
  BY DEF RoundUp
<1>6. min \in Int
  BY <1>1, DivMod
<1> HIDE DEF min
<1>7. min \in Nat
  BY <1>1, <1>4, <1>5, <1>6
<1>8. QED
  BY <1>3, <1>4, <1>5, <1>7 DEF min

\* How far the doubling loop is: the pages are one, or twice as many as were too few,
\* and they make a power of two that does not exceed the address space.
LoopAt(pages, min, P) ==
    /\ pages \in Nat
    /\ pages = 1 \/ \E h \in Nat : h < min /\ pages = 2 * h
    /\ jfs_mlg_valid_align(pages * P) \/ pages * P = Word

\* The loop starts so.
LEMMA LoopStarts ==
    ASSUME NEW min, NEW P, jfs_mlg_valid_align(P)
    PROVE  LoopAt(1, min, P)
<1>1. P \in Nat /\ 1 * P = P
  BY ValidAlign
<1>2. QED
  BY <1>1 DEF LoopAt

\* An iteration keeps it so, and does not wrap.
LEMMA LoopDoubles ==
    ASSUME NEW P, jfs_mlg_valid_align(P), NEW min \in Nat, min * P <= Word - 1,
           NEW pages, LoopAt(pages, min, P), pages < min
    PROVE  LoopAt(2 * pages, min, P)
<1>1. pages \in Nat /\ P \in Nat \ {0} /\ Word \in Nat
  BY ValidAlign, WordNat DEF LoopAt
<1>2. pages * P <= min * P /\ pages * P \in Nat /\ min * P \in Nat
  BY <1>1
<1>3. jfs_mlg_valid_align(pages * P)
  BY <1>1, <1>2 DEF LoopAt
<1>4. jfs_mlg_valid_align(2 * (pages * P)) \/ 2 * (pages * P) = Word
  BY <1>3, Doubled
<1>5. 2 * (pages * P) = (2 * pages) * P
  BY <1>1
<1>6. QED
  BY <1>1, <1>4, <1>5 DEF LoopAt

\* Where the loop ends, the size of the slab is a power of two or has wrapped to 0, and
\* for a need of no more than half the address space it is large enough, and less than
\* twice as large unless it is one page.
LEMMA LoopEnds ==
    ASSUME NEW P, jfs_mlg_valid_align(P), NEW req \in Nat, 2 * req <= Word,
           NEW pages, LoopAt(pages, Wrap(req + P - 1) \div P, P),
           ~(pages < Wrap(req + P - 1) \div P)
    PROVE  Wrap(pages * P) >= req /\ (Wrap(pages * P) < 2 * req \/ Wrap(pages * P) = P)
<1>1. P \in Nat \ {0} /\ P \in Size /\ Word \in Nat /\ P < Word
  BY ValidAlign, WordNat DEF Size
<1>2. PICK min \in Nat : /\ min = Wrap(req + P - 1) \div P
                         /\ req <= min * P /\ min * P <= req + P - 1
  BY PagesHold
<1>3. /\ pages \in Nat /\ ~(pages < min)
      /\ pages = 1 \/ \E h \in Nat : h < min /\ pages = 2 * h
  BY <1>2 DEF LoopAt
<1>4. min * P <= pages * P /\ pages * P \in Nat /\ min * P \in Nat
  BY <1>1, <1>3
<1>5. CASE pages = 1
  <2>1. pages * P = P /\ Wrap(P) = P
    BY <1>1, <1>5, WrapSize
  <2>2. QED
    BY <1>1, <1>2, <1>4, <2>1
<1>6. CASE \E h \in Nat : h < min /\ pages = 2 * h
  <2>1. PICK h \in Nat : h < min /\ pages = 2 * h
    BY <1>6
  <2>2. (h + 1) * P <= min * P
    BY <1>1, <2>1
  <2>3. (h + 1) * P = h * P + P /\ pages * P = 2 * (h * P) /\ h * P \in Nat
    BY <1>1, <2>1
  <2>4. pages * P < 2 * req
    BY <1>1, <1>2, <1>4, <2>2, <2>3
  <2>5. pages * P \in Size
    BY <1>1, <1>4, <2>4 DEF Size
  <2>6. Wrap(pages * P) = pages * P
    BY <1>4, <2>5, WrapSize
  <2>7. QED
    BY <1>1, <1>2, <1>4, <2>4, <2>6
<1>7. QED
  BY <1>3, <1>5, <1>6

\* Bytes that wrap to none stay none, however many times they are taken.
LEMMA NoBytes ==
    ASSUME NEW t \in Nat, NEW b \in Nat, NEW p \in Nat, Wrap(b * p) = 0
    PROVE  Wrap(Wrap(t * b) * p) = 0
<1>1. Word \in Nat \ {0}
  BY WordNat
<1>2. b * p \in Nat /\ t * b \in Nat
  OBVIOUS
<1> DEFINE r == (b * p) \div Word
           q == (t * b) \div Word
           w == Wrap(t * b)
<1>3. r \in Int /\ b * p = Word * r
  BY <1>1, <1>2, Factor DEF Wrap
<1>4. q \in Int /\ w \in Int /\ t * b = Word * q + w
  BY <1>1, <1>2, DivMod DEF Wrap
<1> HIDE DEF r, q, w
<1>5. w * p = Word * (t * r - q * p)
  <2>1. w = t * b - Word * q
    BY <1>1, <1>2, <1>4
  <2>2. w * p = (t * b) * p - (Word * q) * p
    BY <1>1, <1>2, <1>4, <2>1
  <2>3. (t * b) * p = t * (b * p)
    OBVIOUS
  <2>4. t * (b * p) = Word * (t * r)
    BY <1>1, <1>3
  <2>5. (Word * q) * p = Word * (q * p)
    BY <1>1, <1>4
  <2>6. Word * (t * r) - Word * (q * p) = Word * (t * r - q * p)
    BY <1>1, <1>3, <1>4
  <2>7. QED
    BY <2>2, <2>3, <2>4, <2>5, <2>6
<1>6. t * r - q * p \in Int
  BY <1>3, <1>4
<1>7. (Word * (t * r - q * p)) % Word = 0
  BY <1>1, <1>6, Multiple
<1>8. QED
  BY <1>5, <1>7 DEF Wrap, w

\* A factor is no larger than the product.
LEMMA NoLarger ==
    ASSUME NEW u \in Nat, NEW v \in Nat \ {0}
    PROVE  u <= u * v /\ u * v \in Nat
OBVIOUS

\* What sa_config_init computes is exact as long as the exact number fits half the
\* address space: no product on the way and no padding wraps.
LEMMA NeedIsExact ==
    ASSUME NEW t \in Size, NEW m \in Size, NEW b \in Size, NEW x \in Size, NEW a,
           t # 0, m # 0, b # 0, x # 0, jfs_mlg_valid_align(a),
           2 * (t * m * b * RoundUp(x, a) + RoundUp(2 * PtrSize, a)) <= Word
    PROVE  Wrap(Wrap(Wrap(Wrap(t * m) * b) * jfs_mlg_align_size(x, a))
                + jfs_mlg_align_size(2 * PtrSize, a))
               = t * m * b * RoundUp(x, a) + RoundUp(2 * PtrSize, a)
<1> DEFINE p == RoundUp(x, a)
           s == RoundUp(2 * PtrSize, a)
<1>1. /\ Word \in Nat \ {0} /\ t \in Nat \ {0} /\ m \in Nat \ {0} /\ b \in Nat \ {0}
      /\ x \in Nat \ {0} /\ a \in Nat \ {0} /\ 2 * PtrSize \in Nat /\ 2 * PtrSize \in Size
  BY WordNat, ValidAlign, HeaderFits DEF Size
<1>2. p \in Nat \ {0} /\ s \in Nat
  <2>1. p \in Nat /\ x <= p
    BY <1>1, RoundUpFacts
  <2>2. s \in Nat
    BY <1>1, RoundUpFacts
  <2> HIDE DEF p, s
  <2>3. QED
    BY <1>1, <2>1, <2>2
<1>3. 2 * (t * m * b * p + s) <= Word
  OBVIOUS
<1>4. /\ jfs_mlg_align_size(x, a) = IF p < Word THEN p ELSE 0
      /\ jfs_mlg_align_size(2 * PtrSize, a) = IF s < Word THEN s ELSE 0
  BY <1>1, AlignSize
<1> HIDE DEF p, s
<1> DEFINE u == t * m
           v == u * b
           w == v * p
<1>5. u \in Nat \ {0}
  BY <1>1
<1> HIDE DEF u
<1>6. v \in Nat \ {0} /\ u <= v
  BY <1>1, <1>5
<1> HIDE DEF v
<1>7. w \in Nat /\ v <= w /\ p <= w
  <2>1. v <= v * p /\ v * p \in Nat
    BY <1>2, <1>6, NoLarger
  <2>2. p <= p * v
    BY <1>2, <1>6, NoLarger
  <2>3. p * v = v * p
    BY <1>2, <1>6
  <2>4. QED
    BY <2>1, <2>2, <2>3
<1>8. w + s < Word
  <2>1. 2 * (w + s) <= Word
    BY <1>3 DEF u, v
  <2> HIDE DEF w
  <2>2. QED
    BY <1>1, <1>2, <1>7, <2>1
<1>9. Wrap(u) = u /\ Wrap(v) = v /\ Wrap(w) = w /\ Wrap(w + s) = w + s
  <2> HIDE DEF w
  <2>1. u \in Size /\ v \in Size /\ w \in Size /\ w + s \in Size
    BY <1>1, <1>2, <1>5, <1>6, <1>7, <1>8 DEF Size
  <2>2. QED
    BY <1>1, <1>2, <1>5, <1>6, <1>7, <2>1, WrapSize
<1>10. jfs_mlg_align_size(x, a) = p /\ jfs_mlg_align_size(2 * PtrSize, a) = s
  <2> HIDE DEF w
  <2>1. p < Word /\ s < Word
    BY <1>1, <1>2, <1>7, <1>8
  <2>2. QED
    BY <1>4, <2>1
<1>11. Wrap(Wrap(Wrap(Wrap(t * m) * b) * p) + s) = w + s
  BY <1>9 DEF u, v
<1>12. QED
  BY <1>10, <1>11 DEF u, v, p, s

\* The page size is a power of two, and what a caller passes are sizes.
LEMMA SlabConstants ==
    /\ jfs_mlg_valid_align(PageSize)
    /\ ObjSizes \subseteq Size /\ ObjAligns \subseteq Size /\ Amounts \subseteq Size
    /\ StoreCapacities \subseteq Size /\ BatchCapacities \subseteq Size
    /\ AcquireCounts \subseteq Size /\ {0, 1, 2, 4, 8, 64} \subseteq Size
<1>1. jfs_mlg_valid_align(PageSize)
  BY PageAssumption DEF jfs_mlg_valid_align
<1>2. {0, 1, 2, 4, 8, 64} \subseteq Size
  BY WordNat, DefaultsAssumption DEF DEFAULT_BATCH_CAPACITY, Size
<1>3. QED
  BY <1>1, <1>2, InputsAssumption

\* Or never gives 0, unless both are.
LEMMA OrSize ==
    ASSUME NEW g \in Size, NEW d \in Size, d # 0
    PROVE  Or(g, d) \in Size \ {0}
BY DEF Or

\* What lines 111 to 126 compute: sizes, with nothing that is counted being 0, and
\* paddings as jfs_mlg_align_size has them.
BasicsAre(c, x) ==
    /\ c \in [Fields -> Size]
    /\ c["cache_acquire_amount"] # 0 /\ c["batch_capacity"] # 0
    /\ x \in Size \ {0} /\ x = Max2(asked.obj_size, MIN_OBJ_SIZE)
    /\ c["obj_padded_size"] = jfs_mlg_align_size(x, asked.obj_align)
    /\ c["slab_offset"] = jfs_mlg_align_size(2 * PtrSize, asked.obj_align)
    /\ AcquirePerSlab \in Size \ {0}

\* Whatever is asked for, the code up to the loop computes this.
LEMMA BasicsHold ==
    ASSUME asked \in Asked, jfs_mlg_valid_align(asked.obj_align)
    PROVE  \E x : BasicsAre(Basics(asked), x)
<1> DEFINE a == asked.obj_align
           x == Max2(asked.obj_size, MIN_OBJ_SIZE)
<1>1. /\ asked.obj_size \in Size /\ asked.batch_capacity \in Size
      /\ asked.alloc_store_capacity \in Size /\ asked.cache_store_capacity \in Size
      /\ asked.cache_acquire_amount \in Size /\ asked.cache_release_amount \in Size
      /\ asked.slab_acquire_count \in Size /\ a \in Size
  BY SlabConstants DEF Asked
<1>2. {0, 1, 2, 4, 8, 64} \subseteq Size
  BY SlabConstants
<1>3. PtrSize \in Nat \ {0} /\ PtrSize \in Size /\ 2 * PtrSize \in Size
  BY PtrAlign, HeaderFits, WordNat DEF Size
<1>4. x \in Size \ {0}
  BY <1>1, <1>3, WordNat DEF Max2, MIN_OBJ_SIZE, Size
<1> HIDE DEF x
<1>5. /\ jfs_mlg_align_size(x, a) \in Size
      /\ jfs_mlg_align_size(2 * PtrSize, a) \in Size
  BY <1>3, <1>4, AlignSize
<1>6. /\ Or(asked.batch_capacity, 64) \in Size \ {0}
      /\ Or(asked.cache_acquire_amount, 1) \in Size \ {0}
      /\ Or(asked.cache_release_amount, 1) \in Size \ {0}
      /\ Or(asked.alloc_store_capacity, 4) \in Size \ {0}
      /\ Or(asked.slab_acquire_count, 8) \in Size \ {0}
  BY <1>1, <1>2, OrSize
<1>7. AcquirePerSlab \in Size \ {0}
  BY <1>6 DEF AcquirePerSlab, DEFAULT_ACQUIRE_PER_SLAB
<1> DEFINE c == Basics(asked)
           store == IF asked.cache_store_capacity # 0 THEN asked.alloc_store_capacity ELSE 2
<1>8. c = [obj_align            |-> a,
           obj_padded_size      |-> jfs_mlg_align_size(x, a),
           slab_offset          |-> jfs_mlg_align_size(2 * PtrSize, a),
           batch_capacity       |-> Or(asked.batch_capacity, 64),
           cache_acquire_amount |-> Or(asked.cache_acquire_amount, 1),
           cache_release_amount |-> Or(asked.cache_release_amount, 1),
           cache_store_capacity |-> store,
           alloc_store_capacity |-> Or(asked.alloc_store_capacity, 4),
           slab_size            |-> 0,
           batch_per_slab       |-> 0]
  BY DEF x, Basics, sizeof_sa_slab, DEFAULT_BATCH_CAPACITY,
 DEFAULT_CACHE_ACQUIRE_AMOUNT, DEFAULT_CACHE_RELEASE_AMOUNT,
 DEFAULT_CACHE_STORE_CAPACITY, DEFAULT_ALLOC_STORE_CAPACITY
<1>9. store \in Size
  BY <1>1, <1>2
<1> HIDE DEF store, c
<1>10. c \in [Fields -> Size]
  BY <1>1, <1>2, <1>5, <1>6, <1>8, <1>9 DEF Fields
<1>11. /\ c["cache_acquire_amount"] # 0 /\ c["batch_capacity"] # 0
       /\ c["obj_padded_size"] = jfs_mlg_align_size(x, a)
       /\ c["slab_offset"] = jfs_mlg_align_size(2 * PtrSize, a)
  BY <1>6, <1>8
<1>12. BasicsAre(c, x)
  BY <1>4, <1>7, <1>10, <1>11 DEF BasicsAre, x
<1>13. QED
  BY <1>12 DEF c

\* The state of the loop: what has been computed is what was asked for, and the loop is
\* where LoopAt says.
InLoop ==
    /\ jfs_mlg_valid_align(asked.obj_align) /\ conf = Basics(asked)
    /\ slab.needed = SlabSizeNeeded(conf)
    /\ slab.min = Wrap(slab.needed + PageSize - 1) \div PageSize
    /\ 2 * slab.min < Word
    /\ LoopAt(slab.pages, slab.min, PageSize)

\* The invariant of sa_config_init, with the loop.
SlabInv ==
    /\ asked \in Asked /\ conf \in [Fields -> Size]
    /\ slab \in [needed : Size, min : Size, pages : Size]
    /\ conf_pc \in {"start", "loop", "batches", "done"}
    /\ conf_err \in {"OK", "BAD_CONF"} /\ conf_failed \subseteq {117, 120, 144, 150}
    /\ conf_pc = "loop" => InLoop
    /\ conf_pc \in {"loop", "batches"} => ~BadAmounts(conf)
    /\ conf_pc = "batches" => BatchBytes(conf) # 0
    /\ conf_pc = "batches" \/ (conf_pc = "done" /\ conf_err = "OK")
           => ~Sane /\ 144 \in conf_failed

\* In the loop, what is needed is exact if half the address space holds it.
LEMMA SaneIsExact ==
    ASSUME SlabInv, InLoop, Sane
    PROVE  slab.needed = ExactNeed /\ slab.needed \in Nat /\ 2 * slab.needed <= Word
<1>1. PICK x : BasicsAre(conf, x)
  BY BasicsHold DEF SlabInv, InLoop
<1> DEFINE a == asked.obj_align
           t == AcquirePerSlab
           m == conf["cache_acquire_amount"]
           b == conf["batch_capacity"]
           e == t * m * b * RoundUp(x, a) + RoundUp(2 * PtrSize, a)
<1>2. /\ t \in Size /\ m \in Size /\ b \in Size /\ x \in Size
      /\ t # 0 /\ m # 0 /\ b # 0 /\ x # 0 /\ jfs_mlg_valid_align(a)
  BY <1>1 DEF BasicsAre, InLoop, Fields
<1>3. ExactNeed = e
  BY <1>1 DEF BasicsAre, ExactNeed, sizeof_sa_slab, RoundUp
<1>4. e \in Nat
  <2>1. t \in Nat /\ m \in Nat /\ b \in Nat /\ x \in Nat /\ a \in Nat \ {0} /\ 2 * PtrSize \in Nat
    BY <1>2, ValidAlign, PtrAlign, WordNat DEF Size
  <2>2. RoundUp(x, a) \in Nat /\ RoundUp(2 * PtrSize, a) \in Nat
    BY <2>1, RoundUpFacts
  <2> HIDE DEF t, m, b, a
  <2>3. t * m * b * RoundUp(x, a) \in Nat
    BY <2>1, <2>2
  <2>4. QED
    BY <2>2, <2>3
<1> HIDE DEF t, m, b, a
<1>5. 2 * e <= Word
  <2> HIDE DEF e
  <2>1. e <= Word \div 2
    BY <1>3 DEF Sane
  <2>2. QED
    BY <1>4, <2>1, WordNat
<1>6. Wrap(Wrap(Wrap(Wrap(t * m) * b) * jfs_mlg_align_size(x, a))
           + jfs_mlg_align_size(2 * PtrSize, a)) = e
  BY <1>2, <1>5, NeedIsExact
<1>7. slab.needed = e
  BY <1>1, <1>6 DEF t, m, b, a, InLoop, SlabSizeNeeded, BasicsAre
<1>8. QED
  BY <1>3, <1>4, <1>5, <1>7

\* In the loop, a batch without bytes needs no more than the header of its slab.
LEMMA EmptyBatches ==
    ASSUME SlabInv, InLoop, BatchBytes(conf) = 0
    PROVE  slab.needed \in Nat /\ 2 * slab.needed <= Word
<1>1. PICK x : BasicsAre(conf, x)
  BY BasicsHold DEF SlabInv, InLoop
<1> DEFINE t == Wrap(AcquirePerSlab * conf["cache_acquire_amount"])
           b == conf["batch_capacity"]
           p == conf["obj_padded_size"]
           s == conf["slab_offset"]
<1>2. /\ conf["cache_acquire_amount"] \in Nat /\ b \in Nat /\ p \in Nat /\ s \in Size
      /\ AcquirePerSlab \in Nat
  BY <1>1, WordNat DEF BasicsAre, Fields, Size
<1>3. t \in Nat
  <2>1. AcquirePerSlab * conf["cache_acquire_amount"] \in Int
    BY <1>2
  <2>2. QED
    BY <2>1, WrapSize
<1>4. Wrap(b * p) = 0
  BY DEF BatchBytes
<1>5. slab.needed = Wrap(Wrap(Wrap(t * b) * p) + s)
  BY DEF InLoop, SlabSizeNeeded
<1>6. 2 * s <= Word
  BY <1>1, HeaderFits DEF BasicsAre, InLoop
<1> HIDE DEF t, b, p, s
<1>7. Wrap(Wrap(t * b) * p) = 0
  BY <1>2, <1>3, <1>4, NoBytes
<1>8. 0 + s = s /\ s \in Nat
  BY <1>2 DEF Size
<1>9. Wrap(s) = s
  BY <1>2, <1>8, WrapSize
<1>10. QED
  BY <1>5, <1>6, <1>7, <1>8, <1>9

\* Where the loop ends, what half the address space can hold is refused.
LEMMA SmallIsFound ==
    ASSUME InLoop, slab.needed \in Nat, 2 * slab.needed <= Word,
           ~(slab.pages < slab.min)
    PROVE  /\ SlabSize >= slab.needed
           /\ SlabSize < 2 * slab.needed \/ SlabSize = PageSize
<1>1. SlabSize = Wrap(slab.pages * PageSize)
  BY DEF SlabSize
<1>2. jfs_mlg_valid_align(PageSize)
  BY SlabConstants
<1> DEFINE req == slab.needed
           k == slab.pages
<1>3. /\ req \in Nat /\ 2 * req <= Word /\ LoopAt(k, Wrap(req + PageSize - 1) \div PageSize, PageSize)
      /\ ~(k < Wrap(req + PageSize - 1) \div PageSize)
  BY DEF InLoop
<1> HIDE DEF req, k
<1>4. Wrap(k * PageSize) >= req /\ (Wrap(k * PageSize) < 2 * req \/ Wrap(k * PageSize) = PageSize)
  BY <1>2, <1>3, LoopEnds
<1>5. QED
  BY <1>1, <1>4 DEF req, k

\* The size of a slab has one bit, or none: it is a power of two that may have wrapped.
LEMMA SlabHasOneBit ==
    ASSUME InLoop
    PROVE  SlabSize \in Size /\ OneBit(SlabSize)
<1> DEFINE z == slab.pages * PageSize
<1>1. SlabSize = Wrap(z)
  BY DEF SlabSize
<1>2. jfs_mlg_valid_align(z) \/ z = Word
  BY DEF InLoop, LoopAt
<1> HIDE DEF z
<1>3. z \in Nat
  BY <1>2, ValidAlign, WordNat
<1>4. CASE jfs_mlg_valid_align(z)
  <2>1. Wrap(z) = z /\ z \in Size
    BY <1>3, <1>4, ValidAlign, WrapSize
  <2>2. QED
    BY <1>1, <1>4, <2>1 DEF OneBit
<1>5. CASE z = Word
  <2>1. z \in Word .. 2 * Word - 1 /\ Word - Word = 0 /\ 0 \in Size
    BY <1>5, WordNat DEF Size
  <2>2. Wrap(z) = 0
    BY <1>3, <1>5, <2>1, WrapSize
  <2>3. QED
    BY <1>1, <2>1, <2>2 DEF OneBit
<1>6. QED
  BY <1>2, <1>4, <1>5

\* The start.
LEMMA SlabStarts == ASSUME ConfigInit PROVE SlabInv
<1>1. 0 \in Size
  BY SlabConstants
<1>2. conf \in [Fields -> Size] /\ slab \in [needed : Size, min : Size, pages : Size]
  BY <1>1 DEF ConfigInit
<1>3. QED
  BY <1>2 DEF ConfigInit, SlabInv

\* Lines 105 to 137.
LEMMA SlabBasicsStep == ASSUME SlabInv, basics PROVE SlabInv'
<1> DEFINE c == Basics(asked)
           needed == SlabSizeNeeded(c)
           min == Wrap(needed + PageSize - 1) \div PageSize
<1>1. /\ asked \in Asked /\ asked' = asked /\ jfs_mlg_valid_align(asked.obj_align)
      /\ conf' = c
  BY DEF SlabInv, basics
<1>2. PICK x : BasicsAre(c, x)
  BY <1>1, BasicsHold
<1>3. c \in [Fields -> Size]
  BY <1>2 DEF BasicsAre
<1>4. min_pages(needed) = min
  BY DEF min_pages
<1>5. /\ conf_err' \in {"OK", "BAD_CONF"} /\ conf_failed' \subseteq {117, 120, 144, 150}
  <2>1. conf_err' \in {"OK", "BAD_CONF"}
    BY DEF SlabInv, basics, Refuse
  <2>2. conf_failed' \subseteq {117, 120}
    BY DEF basics
  <2>3. QED
    BY <2>1, <2>2
<1>6. CASE BadAmounts(c) \/ min > (Word - 1) \div 2
  <2>1. slab' = slab /\ conf_pc' = "done" /\ conf_err' = "BAD_CONF"
    BY <1>4, <1>6 DEF basics, Refuse
  <2>2. QED
    BY <1>1, <1>3, <1>5, <2>1 DEF SlabInv
<1>7. CASE ~(BadAmounts(c) \/ min > (Word - 1) \div 2)
  <2>1. slab' = [needed |-> needed, min |-> min, pages |-> 1] /\ conf_pc' = "loop"
    BY <1>4, <1>7 DEF basics
  <2>2. needed \in Size
    <3>1. needed = Wrap(Wrap(Wrap(Wrap(AcquirePerSlab * c["cache_acquire_amount"])
                                  * c["batch_capacity"]) * c["obj_padded_size"])
                        + c["slab_offset"])
      BY DEF SlabSizeNeeded
    <3> DEFINE w == Wrap(Wrap(Wrap(AcquirePerSlab * c["cache_acquire_amount"])
                              * c["batch_capacity"]) * c["obj_padded_size"])
    <3>2. /\ AcquirePerSlab \in Int /\ c["cache_acquire_amount"] \in Int
          /\ c["batch_capacity"] \in Int /\ c["obj_padded_size"] \in Int
          /\ c["slab_offset"] \in Int
      BY <1>2, <1>3, WordNat DEF BasicsAre, Fields, Size
    <3>3. w \in Int
      <4> DEFINE u == Wrap(AcquirePerSlab * c["cache_acquire_amount"])
                 v == Wrap(u * c["batch_capacity"])
      <4>1. u \in Int
        BY <3>2, WrapSize
      <4> HIDE DEF u
      <4>2. v \in Int
        BY <3>2, <4>1, WrapSize
      <4> HIDE DEF v
      <4>3. Wrap(v * c["obj_padded_size"]) \in Int
        BY <3>2, <4>2, WrapSize
      <4>4. QED
        BY <4>3 DEF u, v
    <3> HIDE DEF w, c
    <3>4. Wrap(w + c["slab_offset"]) \in Size
      BY <3>2, <3>3, WrapSize
    <3>5. QED
      BY <3>1, <3>4 DEF w
  <2>3. PageSize \in Nat \ {0} /\ jfs_mlg_valid_align(PageSize) /\ 1 \in Size
    BY SlabConstants, ValidAlign
  <2>4. min \in Size /\ 2 * min < Word
    <3> DEFINE y == Wrap(needed + PageSize - 1)
    <3>1. needed + PageSize - 1 \in Int
      BY <2>2, <2>3 DEF Size
    <3>2. y \in Nat /\ y < Word
      BY <3>1, WrapSize, WordNat DEF Size
    <3> HIDE DEF y
    <3>3. y \div PageSize \in Nat
      BY <2>3, <3>2
    <3>4. ~(y \div PageSize > (Word - 1) \div 2)
      BY <1>7 DEF y
    <3>5. 2 * (y \div PageSize) < Word
      BY <3>3, <3>4, WordNat
    <3>6. QED
      BY <3>3, <3>5, WordNat DEF y, Size
  <2>5. LoopAt(1, min, PageSize)
    BY <2>3, LoopStarts
  <2> HIDE DEF c
  <2>6. /\ slab'.needed = SlabSizeNeeded(conf)' /\ slab'.needed = needed
        /\ slab'.min = min /\ slab'.pages = 1
    BY <1>1, <2>1 DEF SlabSizeNeeded, AcquirePerSlab
  <2> HIDE DEF needed
  <2>7. InLoop'
    <3>1. (conf = Basics(asked))'
      BY <1>1 DEF c, Basics
    <3>2. jfs_mlg_valid_align(asked.obj_align)'
      BY <1>1
    <3>3. QED
      BY <2>4, <2>5, <2>6, <3>1, <3>2 DEF InLoop
  <2>8. slab' \in [needed : Size, min : Size, pages : Size]
    BY <2>1, <2>2, <2>3, <2>4
  <2>9. ~BadAmounts(conf)'
    BY <1>1, <1>7 DEF BadAmounts
  <2>10. QED
    BY <1>1, <1>3, <1>5, <2>1, <2>7, <2>8, <2>9 DEF SlabInv
<1>8. QED
  BY <1>6, <1>7

\* An iteration of the loop.
LEMMA SlabDoubleStep == ASSUME SlabInv, double PROVE SlabInv'
<1>1. /\ conf_pc = "loop" /\ InLoop /\ slab.pages < slab.min
      /\ slab' = [slab EXCEPT !.pages = Wrap(2 * slab.pages)]
      /\ UNCHANGED <<asked, conf, conf_pc, conf_err, conf_failed>>
  BY DEF SlabInv, double, Doubling
<1> DEFINE k == slab.pages
           min == slab.min
           y == Wrap(slab.needed + PageSize - 1)
<1>2. jfs_mlg_valid_align(PageSize) /\ PageSize \in Nat \ {0} /\ Word \in Nat
  BY SlabConstants, ValidAlign, WordNat
<1>3. k \in Nat /\ min \in Nat /\ 2 * min < Word /\ k < min /\ LoopAt(k, min, PageSize)
  BY <1>1, <1>2 DEF SlabInv, InLoop, Size
<1>4. min * PageSize <= Word - 1
  <2>1. slab.needed + PageSize - 1 \in Int
    BY <1>2 DEF SlabInv, Size
  <2>2. y \in 0 .. Word - 1
    BY <2>1, WrapSize DEF Size
  <2>3. min = y \div PageSize
    BY <1>1 DEF InLoop
  <2> HIDE DEF y, min
  <2>4. /\ y % PageSize \in 0 .. PageSize - 1
        /\ y = (PageSize * min) + (y % PageSize)
    BY <1>2, <2>2, <2>3, DivMod
  <2>5. min * PageSize = PageSize * min /\ min * PageSize \in Nat
    BY <1>2, <1>3
  <2>6. QED
    BY <1>2, <2>2, <2>4, <2>5
<1> HIDE DEF y
<1>5. LoopAt(2 * k, min, PageSize)
  <2> HIDE DEF k, min
  <2> QED
    BY <1>2, <1>3, <1>4, LoopDoubles
<1>6. Wrap(2 * k) = 2 * k /\ 2 * k \in Size
  <2>1. 2 * k \in Size
    BY <1>2, <1>3 DEF Size
  <2>2. QED
    BY <1>3, <2>1, WrapSize
<1>7. /\ slab' \in [needed : Size, min : Size, pages : Size]
      /\ slab'.needed = slab.needed /\ slab'.min = min /\ slab'.pages = 2 * k
  BY <1>1, <1>6 DEF SlabInv
<1>8. InLoop'
  <2>1. (conf = Basics(asked))' /\ jfs_mlg_valid_align(asked.obj_align)'
    BY <1>1 DEF InLoop, Basics
  <2>2. SlabSizeNeeded(conf)' = SlabSizeNeeded(conf)
    BY <1>1 DEF SlabSizeNeeded, AcquirePerSlab
  <2>3. QED
    BY <1>1, <1>3, <1>5, <1>7, <2>1, <2>2 DEF InLoop
<1>9. BadAmounts(conf)' = BadAmounts(conf)
  BY <1>1 DEF BadAmounts
<1>10. QED
  BY <1>1, <1>7, <1>8, <1>9 DEF SlabInv

\* Lines 144 to 147: what passes line 143 is beyond half the address space, and its
\* size is a power of two all the same.
LEMMA SlabAcceptStep == ASSUME SlabInv, accept_size PROVE SlabInv'
<1>1. /\ conf_pc = "loop" /\ InLoop /\ ~(slab.pages < slab.min)
      /\ ~(SlabSize >= slab.needed)
      /\ conf' = [conf EXCEPT !["slab_size"] = SlabSize]
      /\ conf_pc' = "batches" /\ UNCHANGED <<asked, slab, conf_err>>
      /\ conf_failed' = conf_failed \cup (IF OneBit(SlabSize) THEN {144} ELSE {})
  BY DEF SlabInv, accept_size, Doubling, size_refused
<1>2. SlabSize \in Size /\ OneBit(SlabSize)
  BY <1>1, SlabHasOneBit
<1>3. conf_failed' = conf_failed \cup {144}
  BY <1>1, <1>2
<1>4. ~Sane
  BY <1>1, SaneIsExact, SmallIsFound
<1>5. BatchBytes(conf) # 0
  BY <1>1, EmptyBatches, SmallIsFound
<1>6. /\ conf' \in [Fields -> Size]
      /\ \A f \in Fields \ {"slab_size"} : conf'[f] = conf[f]
  <2>1. conf \in [Fields -> Size]
    BY DEF SlabInv
  <2> DEFINE z == SlabSize
  <2>2. z \in Size /\ conf' = [conf EXCEPT !["slab_size"] = z]
    BY <1>1, <1>2
  <2> HIDE DEF z
  <2>3. QED
    BY ONLY <2>1, <2>2
<1>7. /\ conf'["cache_acquire_amount"] = conf["cache_acquire_amount"]
      /\ conf'["cache_release_amount"] = conf["cache_release_amount"]
      /\ conf'["cache_store_capacity"] = conf["cache_store_capacity"]
      /\ conf'["alloc_store_capacity"] = conf["alloc_store_capacity"]
      /\ conf'["batch_capacity"] = conf["batch_capacity"]
      /\ conf'["obj_padded_size"] = conf["obj_padded_size"]
  BY <1>6 DEF Fields
<1>8. (Sane)' = Sane
  BY <1>1, <1>7 DEF Sane, ExactNeed, AcquirePerSlab
<1>9. BatchBytes(conf)' = BatchBytes(conf)
  BY <1>7 DEF BatchBytes
<1>10. ~BadAmounts(conf)'
  <2>1. ~BadAmounts(conf)
    BY <1>1 DEF SlabInv
  <2>2. QED
    BY <1>7, <2>1 DEF BadAmounts
<1>11. QED
  BY <1>1, <1>3, <1>4, <1>5, <1>6, <1>8, <1>9, <1>10 DEF SlabInv

\* Lines 148 to 151: there are bytes to divide by.
LEMMA SlabBatchesStep == ASSUME SlabInv, batches PROVE SlabInv'
<1> DEFINE bytes == BatchBytes(conf)
           y == Wrap(conf["slab_size"] - conf["slab_offset"] + bytes - 1)
           per_slab == y \div bytes
<1>1. conf_pc = "batches" /\ bytes # 0
  BY DEF SlabInv, batches
<1>2. /\ conf' = [conf EXCEPT !["batch_per_slab"] = per_slab]
      /\ conf_pc' = "done" /\ conf_err' \in {"OK", "BAD_CONF"} /\ UNCHANGED <<asked, slab>>
      /\ conf_failed \subseteq conf_failed' /\ conf_failed' \subseteq conf_failed \cup {150}
  BY <1>1 DEF batches
<1>3. per_slab \in Size
  <2>1. /\ conf["slab_size"] \in Int /\ conf["slab_offset"] \in Int
        /\ conf["batch_capacity"] * conf["obj_padded_size"] \in Int
    <3>1. /\ conf["slab_size"] \in Int /\ conf["slab_offset"] \in Int
          /\ conf["batch_capacity"] \in Int /\ conf["obj_padded_size"] \in Int
      BY WordNat DEF SlabInv, Fields, Size
    <3>2. QED
      BY <3>1
  <2>2. bytes \in Nat \ {0}
    BY <1>1, <2>1, WrapSize DEF BatchBytes
  <2> HIDE DEF bytes
  <2>3. y \in 0 .. Word - 1
    BY <2>1, <2>2, WrapSize DEF Size
  <2> HIDE DEF y
  <2>4. y \div bytes \in 0 .. y
    <3>1. /\ y \div bytes \in Int /\ y % bytes \in 0 .. bytes - 1
          /\ y = (bytes * (y \div bytes)) + (y % bytes)
      BY <2>2, <2>3, DivMod
    <3> DEFINE q == y \div bytes
               r == y % bytes
    <3> HIDE DEF q, r
    <3>2. q \in Int /\ r \in 0 .. bytes - 1 /\ y = (bytes * q) + r
      BY <3>1 DEF q, r
    <3>3. q >= 0 /\ q <= y
      BY <2>2, <2>3, <3>2
    <3>4. QED
      BY <3>2, <3>3 DEF q
  <2>5. QED
    BY <2>3, <2>4, WordNat DEF Size
<1> HIDE DEF per_slab, bytes
<1>4. /\ conf' \in [Fields -> Size]
      /\ \A f \in Fields \ {"batch_per_slab"} : conf'[f] = conf[f]
  <2>1. conf \in [Fields -> Size]
    BY DEF SlabInv
  <2>2. QED
    BY ONLY <1>2, <1>3, <2>1
<1>5. /\ conf'["cache_acquire_amount"] = conf["cache_acquire_amount"]
      /\ conf'["batch_capacity"] = conf["batch_capacity"]
  BY <1>4 DEF Fields
<1>6. (Sane)' = Sane
  BY <1>2, <1>5 DEF Sane, ExactNeed, AcquirePerSlab
<1>7. QED
  BY <1>1, <1>2, <1>4, <1>6 DEF SlabInv

\* Every step keeps the invariant.
LEMMA SlabStep == ASSUME SlabInv, [ConfigNext]_configVars PROVE SlabInv'
<1>1. CASE bad_align
  BY <1>1 DEF SlabInv, bad_align, Refuse
<1>2. CASE basics
  BY <1>2, SlabBasicsStep
<1>3. CASE double
  BY <1>3, SlabDoubleStep
<1>4. CASE refuse_size
  <2>1. InLoop
    BY <1>4 DEF SlabInv, refuse_size
  <2>2. SlabSize \in Size
    BY <2>1, SlabHasOneBit
  <2>3. conf' \in [Fields -> Size]
    BY <1>4, <2>2 DEF SlabInv, refuse_size
  <2>4. QED
    BY <1>4, <2>3 DEF SlabInv, refuse_size, Refuse
<1>5. CASE accept_size
  BY <1>5, SlabAcceptStep
<1>6. CASE batches
  BY <1>6, SlabBatchesStep
<1>7. CASE UNCHANGED configVars
  <2>1. UNCHANGED <<asked, conf, slab, conf_pc, conf_err, conf_failed>>
    BY <1>7 DEF configVars
  <2>2. (Sane)' = Sane /\ InLoop' = InLoop
    BY <2>1 DEF Sane, ExactNeed, AcquirePerSlab, InLoop, Basics,
       SlabSizeNeeded
  <2>3. BatchBytes(conf)' = BatchBytes(conf) /\ BadAmounts(conf)' = BadAmounts(conf)
    BY <2>1 DEF BatchBytes, BadAmounts
  <2>4. QED
    BY <2>1, <2>2, <2>3 DEF SlabInv
<1>8. QED
  BY <1>1, <1>2, <1>3, <1>4, <1>5, <1>6, <1>7 DEF ConfigNext

\* The invariant is what SlabConfig promises.
LEMMA SlabInvImplies == ASSUME SlabInv PROVE ConfigInv
<1>1. TypeOK
  <2>1. {slab.needed, slab.min, slab.pages} \subseteq Size
    BY DEF SlabInv
  <2>2. DOMAIN conf = Fields /\ \A f \in Fields : conf[f] \in Size
    BY DEF SlabInv
  <2>3. QED
    BY <2>1, <2>2 DEF SlabInv, TypeOK
<1>2. LoopFindsSlab
  <2>1. SUFFICES ASSUME conf_pc = "loop", ~(slab.pages < slab.min), Sane
                 PROVE  /\ SlabSize >= ExactNeed
                        /\ SlabSize < 2 * ExactNeed \/ SlabSize = PageSize
    BY DEF LoopFindsSlab
  <2>2. InLoop
    BY <2>1 DEF SlabInv
  <2>3. slab.needed = ExactNeed /\ slab.needed \in Nat /\ 2 * slab.needed <= Word
    BY <2>1, <2>2, SaneIsExact
  <2>4. /\ SlabSize >= slab.needed
        /\ SlabSize < 2 * slab.needed \/ SlabSize = PageSize
    BY <2>1, <2>2, <2>3, SmallIsFound
  <2>5. QED
    BY <2>3, <2>4
<1>3. AmountsFit
  <2>1. SUFFICES ASSUME conf_pc \in {"loop", "batches"},
                        NEW a \in {conf["cache_acquire_amount"], conf["cache_release_amount"]}
                 PROVE  a <= conf["cache_store_capacity"] /\ a <= conf["alloc_store_capacity"]
    BY DEF AmountsFit
  <2>2. ~(a > conf["cache_store_capacity"]) /\ ~(a > conf["alloc_store_capacity"])
    BY <2>1 DEF SlabInv, BadAmounts
  <2>3. a \in Int /\ conf["cache_store_capacity"] \in Int /\ conf["alloc_store_capacity"] \in Int
    BY WordNat DEF SlabInv, Fields, Size
  <2>4. QED
    BY <2>2, <2>3
<1>4. OnlyHugeAccepted
  BY DEF SlabInv, OnlyHugeAccepted
<1>5. QED
  BY <1>1, <1>2, <1>3, <1>4 DEF ConfigInv

\* sa_config_init, for every width, page size and request: where its loop ends, the slab
\* is large enough for whatever half the address space can hold and not twice as large
\* as it has to be; the amounts fit the stores; only what is larger is accepted, with
\* the assert of line 144 failing; and the division of line 149 has a divisor.
THEOREM ConfigsAreSound == ConfigSpec => []ConfigInv
<1>1. ConfigInit => SlabInv
  BY SlabStarts
<1>2. SlabInv /\ [ConfigNext]_configVars => SlabInv'
  BY SlabStep
<1>3. SlabInv => ConfigInv
  BY SlabInvImplies
<1>4. QED
  BY <1>1, <1>2, <1>3, PTL DEF ConfigSpec
=============================================================================
