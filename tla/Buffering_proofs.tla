-------------------------- MODULE Buffering_proofs --------------------------
(***************************************************************************)
(* Proofs about Buffering, for every size of the RAM, flash and template   *)
(* buffers that the assumptions allow: type correctness, and that the      *)
(* RAM/flash buffer with the template in its tail implements TxBuffer.     *)
(***************************************************************************)
EXTENDS Buffering, SequenceTheorems, TLAPS

-----------------------------------------------------------------------------
(* Arrays: what a slice of an array is, before and after a write.          *)

\* A slice inside an array of bytes is a byte string of the asked length.
LEMMA SliceProperties ==
  ASSUME NEW cap \in Nat, NEW a \in [0 .. cap - 1 -> Byte],
         NEW pos \in Nat, NEW n \in Nat, pos + n <= cap
  PROVE  /\ Slice(a, pos, n) \in Seq(Byte)
         /\ Len(Slice(a, pos, n)) = n
         /\ \A i \in 1 .. n : Slice(a, pos, n)[i] = a[pos + i - 1]
<1>1. \A i \in 1 .. n : pos + i - 1 \in 0 .. cap - 1
  OBVIOUS
<1>2. \A i \in 1 .. n : a[pos + i - 1] \in Byte
  BY <1>1
<1>3. Slice(a, pos, n) \in Seq(Byte)
  BY <1>2, IsASeq DEF Slice
<1>4. Len(Slice(a, pos, n)) = n
  BY <1>3, LenProperties DEF Slice
<1>. QED  BY <1>3, <1>4 DEF Slice

\* The same for a prefix of the array.
LEMMA PrefixProperties ==
  ASSUME NEW cap \in Nat, NEW a \in [0 .. cap - 1 -> Byte],
         NEW n \in Nat, n <= cap
  PROVE  /\ Slice(a, 0, n) \in Seq(Byte)
         /\ Len(Slice(a, 0, n)) = n
         /\ \A i \in 1 .. n : Slice(a, 0, n)[i] = a[i - 1]
<1>1. 0 + n <= cap
  OBVIOUS
<1>2. /\ Slice(a, 0, n) \in Seq(Byte)
      /\ Len(Slice(a, 0, n)) = n
  BY <1>1, SliceProperties
<1>3. \A i \in 1 .. n : Slice(a, 0, n)[i] = a[0 + i - 1]
  BY DEF Slice
<1>4. \A i \in 1 .. n : 0 + i - 1 = i - 1
  OBVIOUS
<1>. QED  BY <1>2, <1>3, <1>4

\* A write keeps the array an array of bytes.
LEMMA WrittenType ==
  ASSUME NEW cap \in Nat, NEW a \in [0 .. cap - 1 -> Byte],
         NEW pos \in Nat, NEW d \in Seq(Byte)
  PROVE  Written(a, pos, d) \in [0 .. cap - 1 -> Byte]
<1>1. Len(d) \in Nat /\ d \in [1 .. Len(d) -> Byte]
  BY LenProperties
<1>2. ASSUME NEW i \in 0 .. cap - 1, pos <= i, i < pos + Len(d)
      PROVE  d[i - pos + 1] \in Byte
  BY <1>1, <1>2
<1>. QED  BY <1>2 DEF Written

\* Appending: data written right after the first n bytes extends them by data.
LEMMA WrittenAppends ==
  ASSUME NEW cap \in Nat, NEW a \in [0 .. cap - 1 -> Byte],
         NEW n \in Nat, NEW d \in Seq(Byte), n + Len(d) <= cap
  PROVE  Slice(Written(a, n, d), 0, n + Len(d)) = Slice(a, 0, n) \o d
<1> DEFINE w == Written(a, n, d)
           s == Slice(w, 0, n + Len(d))
           h == Slice(a, 0, n)
<1>1. Len(d) \in Nat /\ d \in [1 .. Len(d) -> Byte]
  BY LenProperties
<1>2. w \in [0 .. cap - 1 -> Byte]
  BY WrittenType
<1>3. /\ s \in Seq(Byte)
      /\ Len(s) = n + Len(d)
      /\ \A i \in 1 .. n + Len(d) : s[i] = w[i - 1]
  <2> HIDE DEF w
  <2>1. n + Len(d) \in Nat
    BY <1>1
  <2>. QED  BY <1>2, <2>1, PrefixProperties
<1>4. /\ h \in Seq(Byte)
      /\ Len(h) = n
      /\ \A i \in 1 .. n : h[i] = a[i - 1]
  <2>1. n <= cap
    BY <1>1
  <2>. QED  BY <2>1, PrefixProperties
<1>5. /\ h \o d \in Seq(Byte)
      /\ Len(h \o d) = n + Len(d)
      /\ \A i \in 1 .. n + Len(d) : (h \o d)[i] = IF i <= n THEN h[i] ELSE d[i - n]
  <2> HIDE DEF h
  <2>1. /\ h \o d \in Seq(Byte)
        /\ Len(h \o d) = Len(h) + Len(d)
        /\ \A i \in 1 .. Len(h) + Len(d) :
             (h \o d)[i] = IF i <= Len(h) THEN h[i] ELSE d[i - Len(h)]
    BY <1>4, ConcatProperties
  <2>. QED  BY <1>4, <2>1
<1>6. ASSUME NEW i \in 1 .. n + Len(d)
      PROVE  s[i] = (h \o d)[i]
  <2>1. i - 1 \in 0 .. cap - 1
    BY <1>1
  <2>2. w[i - 1] = IF n <= i - 1 /\ i - 1 < n + Len(d) THEN d[(i - 1) - n + 1] ELSE a[i - 1]
    BY <2>1 DEF Written
  <2>3. s[i] = w[i - 1]
    BY <1>3
  <2>4. CASE i <= n
    <3>1. h[i] = a[i - 1] /\ (h \o d)[i] = h[i]
      BY <1>1, <1>4, <1>5, <2>4
    <3>2. w[i - 1] = a[i - 1]
      BY <2>2, <2>4
    <3>. QED  BY <2>3, <3>1, <3>2
  <2>5. CASE ~(i <= n)
    <3>1. (h \o d)[i] = d[i - n]
      BY <1>1, <1>5, <2>5
    <3>2. (i - 1) - n + 1 = i - n /\ n <= i - 1 /\ i - 1 < n + Len(d)
      BY <1>1, <2>5
    <3>3. w[i - 1] = d[i - n]
      BY <2>2, <3>2
    <3>. QED  BY <2>3, <3>1, <3>3
  <2>. QED  BY <2>4, <2>5
<1> HIDE DEF w, s, h
<1>7. s = h \o d
  BY <1>3, <1>5, <1>6, SeqEqual
<1>. QED  BY <1>7 DEF w, s, h

\* A write outside a range leaves the range as it was.
LEMMA WrittenElsewhere ==
  ASSUME NEW cap \in Nat, NEW a \in [0 .. cap - 1 -> Byte],
         NEW pos \in Nat, NEW d \in Seq(Byte),
         NEW from \in Nat, NEW n \in Nat, from + n <= cap,
         from + n <= pos \/ pos + Len(d) <= from
  PROVE  Slice(Written(a, pos, d), from, n) = Slice(a, from, n)
<1>1. Len(d) \in Nat
  BY LenProperties
<1>2. ASSUME NEW i \in 1 .. n
      PROVE  Written(a, pos, d)[from + i - 1] = a[from + i - 1]
  <2>1. from + i - 1 \in 0 .. cap - 1
    OBVIOUS
  <2>2. ~(pos <= from + i - 1 /\ from + i - 1 < pos + Len(d))
    BY <1>1
  <2>. QED  BY <2>1, <2>2 DEF Written
<1>. QED  BY <1>2 DEF Slice

\* A write that starts a range replaces it by the data written.
LEMMA WrittenHere ==
  ASSUME NEW cap \in Nat, NEW a \in [0 .. cap - 1 -> Byte],
         NEW pos \in Nat, NEW d \in Seq(Byte), pos + Len(d) <= cap
  PROVE  Slice(Written(a, pos, d), pos, Len(d)) = d
<1>1. Len(d) \in Nat /\ d \in [1 .. Len(d) -> Byte]
  BY LenProperties
<1>2. ASSUME NEW i \in 1 .. Len(d)
      PROVE  Written(a, pos, d)[pos + i - 1] = d[i]
  <2>1. pos + i - 1 \in 0 .. cap - 1
    BY <1>1
  <2>2. pos <= pos + i - 1 /\ pos + i - 1 < pos + Len(d) /\ (pos + i - 1) - pos + 1 = i
    BY <1>1
  <2>. QED  BY <2>1, <2>2 DEF Written
<1>. QED  BY <1>1, <1>2 DEF Slice

-----------------------------------------------------------------------------
(* The invariant.                                                          *)

Inv == TypeOK /\ OnePosition

\* The initial positions are in bounds.
LEMMA InitInv == Init => Inv
BY SizesAssumption, DataAssumption DEF Init, Inv, TypeOK, OnePosition

\* Every operation keeps the positions in bounds, and only one of them in use.
LEMMA NextInv == Inv /\ [Next]_vars => Inv'
<1> SUFFICES ASSUME Inv, [Next]_vars PROVE Inv'
  OBVIOUS
<1> USE DEF Inv, TypeOK, OnePosition
<1>1. CASE Reset
  BY <1>1, SizesAssumption DEF Reset
<1>2. ASSUME NEW data \in Chunks, AppendRam(data) PROVE Inv'
  <2>1. data \in Seq(Byte) /\ Len(data) \in Nat
    BY DataAssumption, LenProperties
  <2>2. ram' \in [0 .. RAM_CAP - 1 -> Byte]
    BY <1>2, <2>1, WrittenType, SizesAssumption DEF AppendRam
  <2>. QED  BY <1>2, <2>1, <2>2, SizesAssumption DEF AppendRam, RamFits
<1>3. ASSUME NEW data \in Chunks, AppendMove(data) PROVE Inv'
  <2> DEFINE held == Slice(ram, 0, ram_pos)
             moved == Written(flash, flash_pos, held)
             pos == flash_pos + ram_pos
  <2>1. data \in Seq(Byte) /\ Len(data) \in Nat
    BY DataAssumption, LenProperties
  <2>2. held \in Seq(Byte)
    BY PrefixProperties, SizesAssumption
  <2>3. pos \in Nat /\ pos <= FLASH_CAP /\ flash_pos = 0
    BY <1>3, SizesAssumption DEF AppendMove
  <2>4. moved \in [0 .. FLASH_CAP - 1 -> Byte]
    <3> HIDE DEF held
    <3>. QED  BY <2>2, <2>3, WrittenType, SizesAssumption
  <2>5. Written(moved, pos, data) \in [0 .. FLASH_CAP - 1 -> Byte]
    <3> HIDE DEF moved, pos
    <3>. QED  BY <2>1, <2>3, <2>4, WrittenType, SizesAssumption
  <2>6. \/ /\ FlashFits(pos, data) /\ accepted' = TRUE
           /\ flash' = Written(moved, pos, data) /\ flash_pos' = pos + Len(data)
        \/ flash' = moved /\ flash_pos' = pos /\ accepted' = FALSE
    BY <1>3 DEF AppendMove
  <2>7. in_ram' = FALSE /\ ram_pos' = 0 /\ ram' = ram /\ template_len' = template_len
    BY <1>3 DEF AppendMove
  <2> HIDE DEF moved, pos
  <2>8. flash' \in [0 .. FLASH_CAP - 1 -> Byte]
    BY <2>4, <2>5, <2>6
  <2>9. flash_pos' \in 0 .. FLASH_CAP
    BY <2>1, <2>3, <2>6, SizesAssumption DEF FlashFits
  <2>10. accepted' \in BOOLEAN /\ in_ram' \in BOOLEAN
    BY <2>6, <2>7
  <2>11. OnePosition'
    BY <2>7
  <2>12. ram_pos' \in 0 .. RAM_CAP
    BY <2>7, SizesAssumption
  <2>. QED  BY <2>7, <2>8, <2>9, <2>10, <2>11, <2>12
<1>4. ASSUME NEW data \in Chunks, AppendFlash(data) PROVE Inv'
  <2>1. data \in Seq(Byte) /\ Len(data) \in Nat
    BY DataAssumption, LenProperties
  <2>2. Written(flash, flash_pos, data) \in [0 .. FLASH_CAP - 1 -> Byte]
    BY <2>1, WrittenType, SizesAssumption
  <2>3. flash' \in [0 .. FLASH_CAP - 1 -> Byte]
    BY <1>4, <2>2 DEF AppendFlash
  <2>4. flash_pos' \in 0 .. FLASH_CAP
    BY <1>4, <2>1, SizesAssumption DEF AppendFlash, FlashFits
  <2>5. accepted' \in BOOLEAN
    BY <1>4 DEF AppendFlash
  <2>. QED  BY <1>4, <2>3, <2>4, <2>5 DEF AppendFlash
<1>5. ASSUME NEW data \in Templates, TemplateStore(data) PROVE Inv'
  <2>1. data \in Seq(Byte) /\ Len(data) \in 0 .. TEMPLATE_BUF
    BY DataAssumption, SizesAssumption, LenProperties
  <2>2. TEMPLATE_AT \in Nat
    BY SizesAssumption DEF TEMPLATE_AT
  <2>3. ram' \in [0 .. RAM_CAP - 1 -> Byte]
    BY <1>5, <2>1, <2>2, WrittenType, SizesAssumption DEF TemplateStore
  <2>. QED  BY <1>5, <2>1, <2>3 DEF TemplateStore
<1>6. CASE UNCHANGED vars
  BY <1>6 DEF vars
<1>. QED  BY <1>1, <1>2, <1>3, <1>4, <1>5, <1>6 DEF Next

LEMMA BufferInvariant == Spec => []Inv
BY InitInv, NextInv, PTL DEF Spec

\* Type correctness of the buffer, for every size: the positions never leave
\* their arrays (buffering.rs subtracts them from the capacities on usize).
THEOREM TypeCorrect == Spec => []TypeOK
<1>1. Inv => TypeOK
  BY DEF Inv
<1>. QED  BY <1>1, BufferInvariant, PTL

\* The flash position is zero whenever the move to flash starts, and the RAM
\* position is zero after it (buffering.rs: append, reset).
THEOREM PositionSafe == Spec => []OnePosition
<1>1. Inv => OnePosition
  BY DEF Inv
<1>. QED  BY <1>1, BufferInvariant, PTL

-----------------------------------------------------------------------------
(* The refinement.                                                         *)

\* What the transaction and the template read as, in a state of the invariant.
LEMMA ReadTypes ==
  ASSUME Inv
  PROVE  /\ Get \in Seq(Byte)
         /\ Len(Get) = IF in_ram THEN ram_pos ELSE flash_pos
         /\ Len(Get) <= FLASH_CAP
BY PrefixProperties, SizesAssumption DEF Inv, TypeOK, Get

\* Both read as empty initially.
LEMMA InitRefines == Init => Abstract!Init
<1> SUFFICES ASSUME Init PROVE Abstract!Init
  OBVIOUS
<1>1. ASSUME NEW a, NEW pos PROVE Slice(a, pos, 0) = << >>
  BY DEF Slice
<1>. QED  BY <1>1 DEF Init, Abstract!Init, Get, Template

\* Every step of the RAM/flash buffer is a step of the abstract buffer, or
\* leaves what can be read unchanged.
LEMMA StepRefines == Inv /\ [Next]_vars => [Abstract!Next]_(Abstract!vars)
<1> SUFFICES ASSUME Inv, [Next]_vars PROVE [Abstract!Next]_(Abstract!vars)
  OBVIOUS
<1> USE SizesAssumption
<1>0. TypeOK /\ OnePosition
  BY DEF Inv
<1>1. CASE Reset
  <2>1. Get' = << >>
    BY <1>1 DEF Reset, Get, Slice
  <2>2. Template' = Template /\ accepted' = accepted
    BY <1>1 DEF Reset, Template
  <2>. QED  BY <2>1, <2>2 DEF Abstract!Next, Abstract!Reset
<1>2. ASSUME NEW data \in Chunks, AppendRam(data)
      PROVE  Abstract!Append_(data)
  <2>1. data \in Seq(Byte) /\ Len(data) \in Nat
    BY DataAssumption, LenProperties
  <2>2. /\ ram_pos \in Nat /\ ram \in [0 .. RAM_CAP - 1 -> Byte]
        /\ ram_pos + Len(data) <= RAM_CAP /\ template_len \in 0 .. TEMPLATE_BUF
    BY <1>0, <1>2, <2>1 DEF TypeOK, AppendRam, RamFits
  <2>3. Len(Get) = ram_pos
    BY <1>2, ReadTypes DEF AppendRam
  <2>4. Abstract!Fits(Get, data)
    BY <2>1, <2>2, <2>3 DEF Abstract!Fits
  <2>5. Get' = Get \o data
    <3>1. Get = Slice(ram, 0, ram_pos)
      BY <1>2 DEF AppendRam, Get
    <3>2. Get' = Slice(Written(ram, ram_pos, data), 0, ram_pos + Len(data))
      BY <1>2 DEF AppendRam, Get
    <3>. QED  BY <2>1, <2>2, <3>1, <3>2, WrittenAppends
  <2>6. ASSUME Len(Get') <= TEMPLATE_AT PROVE Template' = Template
    <3>1. Len(Get') = ram_pos + Len(data)
      <4>1. Get \in Seq(Byte)
        BY ReadTypes
      <4>. QED  BY <2>1, <2>3, <2>5, <4>1, ConcatProperties
    <3>2. TEMPLATE_AT \in Nat /\ TEMPLATE_AT + template_len <= RAM_CAP
      BY <2>2 DEF TEMPLATE_AT
    <3>3. Template' = Slice(Written(ram, ram_pos, data), TEMPLATE_AT, template_len)
      BY <1>2 DEF AppendRam, Template
    <3>4. Slice(Written(ram, ram_pos, data), TEMPLATE_AT, template_len)
            = Slice(ram, TEMPLATE_AT, template_len)
      <4> HIDE DEF TEMPLATE_AT
      <4>1. ram_pos + Len(data) <= TEMPLATE_AT
        BY <2>6, <3>1
      <4>. QED  BY <2>1, <2>2, <3>2, <4>1, WrittenElsewhere
    <3>. QED  BY <3>3, <3>4 DEF Template
  <2>. QED  BY <1>2, <2>4, <2>5, <2>6 DEF AppendRam, Abstract!Append_
<1>3. ASSUME NEW data \in Chunks, AppendMove(data)
      PROVE  Abstract!Append_(data)
  <2> DEFINE held == Slice(ram, 0, ram_pos)
             moved == Written(flash, 0, held)
  <2>1. data \in Seq(Byte) /\ Len(data) \in Nat
    BY DataAssumption, LenProperties
  <2>2. flash_pos = 0 /\ flash_pos + ram_pos = ram_pos /\ ram_pos \in Nat /\ ram_pos <= FLASH_CAP
    BY <1>0, <1>3 DEF TypeOK, OnePosition, AppendMove
  <2>3. held \in Seq(Byte) /\ Len(held) = ram_pos /\ Get = held
    BY <1>0, <1>3, PrefixProperties DEF TypeOK, AppendMove, Get
  <2>4. flash \in [0 .. FLASH_CAP - 1 -> Byte]
    BY <1>0 DEF TypeOK
  <2>5. moved \in [0 .. FLASH_CAP - 1 -> Byte]
    <3> HIDE DEF held
    <3>. QED  BY <2>3, <2>4, WrittenType
  <2>6. Slice(moved, 0, ram_pos) = held
    <3> HIDE DEF held
    <3>1. 0 + Len(held) <= FLASH_CAP
      BY <2>2, <2>3
    <3>2. Slice(Written(flash, 0, held), 0, Len(held)) = held
      BY <2>3, <2>4, <3>1, WrittenHere
    <3>. QED  BY <2>3, <3>2
  <2>7. /\ Template' = Template
        /\ in_ram' = FALSE
        /\ IF FlashFits(ram_pos, data)
             THEN /\ flash' = Written(moved, ram_pos, data)
                  /\ flash_pos' = ram_pos + Len(data)
                  /\ accepted' = TRUE
             ELSE /\ flash' = moved
                  /\ flash_pos' = ram_pos
                  /\ accepted' = FALSE
    BY <1>3, <2>2 DEF AppendMove, Template
  <2>8. FlashFits(ram_pos, data) <=> Abstract!Fits(Get, data)
    BY <2>1, <2>2, <2>3 DEF FlashFits, Abstract!Fits
  <2> HIDE DEF held, moved
  <2>9. CASE FlashFits(ram_pos, data)
    <3>1. Get' = Slice(Written(moved, ram_pos, data), 0, ram_pos + Len(data))
      BY <2>7, <2>9 DEF Get
    <3>2. ram_pos + Len(data) <= FLASH_CAP
      BY <2>1, <2>2, <2>9 DEF FlashFits
    <3>3. Get' = held \o data
      BY <2>1, <2>2, <2>5, <2>6, <3>1, <3>2, WrittenAppends
    <3>. QED  BY <2>3, <2>7, <2>8, <2>9, <3>3 DEF Abstract!Append_
  <2>10. CASE ~FlashFits(ram_pos, data)
    <3>1. Get' = held
      BY <2>6, <2>7, <2>10 DEF Get
    <3>. QED  BY <2>3, <2>7, <2>8, <2>10, <3>1 DEF Abstract!Append_
  <2>. QED  BY <2>9, <2>10
<1>4. ASSUME NEW data \in Chunks, AppendFlash(data)
      PROVE  Abstract!Append_(data)
  <2>1. data \in Seq(Byte) /\ Len(data) \in Nat
    BY DataAssumption, LenProperties
  <2>2. flash_pos \in Nat /\ flash \in [0 .. FLASH_CAP - 1 -> Byte]
    BY <1>0 DEF TypeOK
  <2>3. Len(Get) = flash_pos /\ Get = Slice(flash, 0, flash_pos)
    BY <1>4, ReadTypes DEF AppendFlash, Get
  <2>4. FlashFits(flash_pos, data) <=> Abstract!Fits(Get, data)
    BY <2>1, <2>2, <2>3 DEF FlashFits, Abstract!Fits
  <2>5. Template' = Template
    BY <1>4 DEF AppendFlash, Template
  <2>6. CASE FlashFits(flash_pos, data)
    <3>1. Get' = Slice(Written(flash, flash_pos, data), 0, flash_pos + Len(data))
      BY <1>4, <2>6 DEF AppendFlash, Get
    <3>2. flash_pos + Len(data) <= FLASH_CAP
      BY <2>1, <2>2, <2>6 DEF FlashFits
    <3>3. Slice(Written(flash, flash_pos, data), 0, flash_pos + Len(data))
            = Slice(flash, 0, flash_pos) \o data
      BY <2>1, <2>2, <3>2, WrittenAppends
    <3>4. Get' = Get \o data
      BY <2>3, <3>1, <3>3
    <3>. QED  BY <1>4, <2>4, <2>5, <2>6, <3>4 DEF AppendFlash, Abstract!Append_
  <2>7. CASE ~FlashFits(flash_pos, data)
    <3>1. Get' = Get
      BY <1>4, <2>7 DEF AppendFlash, Get
    <3>. QED  BY <1>4, <2>4, <2>5, <2>7, <3>1 DEF AppendFlash, Abstract!Append_
  <2>. QED  BY <2>6, <2>7
<1>5. ASSUME NEW data \in Templates, TemplateStore(data)
      PROVE  Abstract!TemplateStore(data)
  <2>1. data \in Seq(Byte) /\ Len(data) \in Nat /\ Len(data) <= TEMPLATE_BUF
    BY DataAssumption, LenProperties
  <2>2. /\ TEMPLATE_AT \in Nat
        /\ TEMPLATE_AT + Len(data) <= RAM_CAP
        /\ MAX_TRANSFER_BODY <= TEMPLATE_AT
    BY <2>1 DEF TEMPLATE_AT
  <2>3. ram \in [0 .. RAM_CAP - 1 -> Byte] /\ ram_pos \in Nat /\ ram_pos <= RAM_CAP
    BY <1>0 DEF TypeOK
  <2> HIDE DEF TEMPLATE_AT
  <2>4. Len(Get) <= TEMPLATE_AT
    <3>1. Len(Get) \in Nat
      BY ReadTypes, LenProperties
    <3>. QED  BY <1>5, <2>2, <3>1 DEF TemplateStore
  <2>5. Template' = data
    <3>1. Template' = Slice(Written(ram, TEMPLATE_AT, data), TEMPLATE_AT, Len(data))
      BY <1>5 DEF TemplateStore, Template
    <3>. QED  BY <2>1, <2>2, <2>3, <3>1, WrittenHere
  <2>6. Get' = Get
    <3>1. CASE in_ram
      <4>1. ram_pos <= TEMPLATE_AT
        BY <2>4, <3>1, ReadTypes
      <4>2. Get' = Slice(Written(ram, TEMPLATE_AT, data), 0, ram_pos)
        BY <1>5, <3>1 DEF TemplateStore, Get
      <4>3. Get = Slice(ram, 0, ram_pos)
        BY <3>1 DEF Get
      <4>4. 0 + ram_pos <= RAM_CAP /\ 0 + ram_pos <= TEMPLATE_AT
        BY <2>3, <4>1
      <4>. QED  BY <2>1, <2>2, <2>3, <4>2, <4>3, <4>4, WrittenElsewhere
    <3>2. CASE ~in_ram
      BY <1>5, <3>2 DEF TemplateStore, Get
    <3>. QED  BY <3>1, <3>2
  <2>. QED  BY <1>5, <2>4, <2>5, <2>6 DEF TemplateStore, Abstract!TemplateStore
<1>6. CASE UNCHANGED vars
  BY <1>6 DEF vars, Abstract!vars, Get, Template
<1>. QED  BY <1>1, <1>2, <1>3, <1>4, <1>5, <1>6 DEF Next, Abstract!Next

\* The RAM/flash buffer implements the abstract one, for every size of the
\* buffers: all-or-nothing appends across the move to flash, reads that return
\* exactly what was appended, and a template that shares RAM with the
\* transaction it was built from without either disturbing the other.
THEOREM Refinement == Spec => ImplementsTxBuffer
BY BufferInvariant, InitRefines, StepRefines, PTL DEF Spec, ImplementsTxBuffer, Abstract!Spec

-----------------------------------------------------------------------------

\* Flash wear, for every size of the buffers: an accepted append that leaves RAM
\* does so only because the transaction does not fit there.
THEOREM FlashWear == Spec => FlashOnlyOnOverflow
<1>1. Spec => []Inv
  BY BufferInvariant
<1>2. ASSUME Inv, [Next]_vars
      PROVE  [in_ram /\ flash' # flash /\ accepted' => Len(Get') > RAM_CAP]_vars
  <2> SUFFICES ASSUME Next, in_ram, flash' # flash, accepted' PROVE Len(Get') > RAM_CAP
    BY <1>2
  <2>1. PICK data \in Chunks : AppendMove(data)
    BY DEF Next, Reset, AppendRam, AppendFlash, TemplateStore
  <2>2. data \in Seq(Byte) /\ Len(data) \in Nat
    BY DataAssumption, LenProperties
  <2>3. in_ram' = FALSE /\ flash_pos' = flash_pos + ram_pos + Len(data)
    BY <2>1 DEF AppendMove
  <2>4. ram_pos \in Nat /\ flash_pos = 0 /\ ~(RAM_CAP - ram_pos >= Len(data))
    BY <1>2, <2>1, SizesAssumption DEF Inv, TypeOK, OnePosition, AppendMove, RamFits
  <2>5. flash_pos' > RAM_CAP
    BY <2>2, <2>3, <2>4, SizesAssumption
  <2>6. flash' \in [0 .. FLASH_CAP - 1 -> Byte] /\ flash_pos' \in Nat /\ flash_pos' <= FLASH_CAP
    <3>1. Inv'
      BY <1>2, NextInv
    <3> QED
      BY <3>1, SizesAssumption DEF Inv, TypeOK
  <2>7. Len(Slice(flash', 0, flash_pos')) = flash_pos'
    BY <2>6, PrefixProperties, SizesAssumption
  <2>8. Get' = Slice(flash', 0, flash_pos')
    BY <2>3 DEF Get
  <2> QED
    BY <2>5, <2>7, <2>8
<1>. QED  BY <1>1, <1>2, PTL DEF Spec, FlashOnlyOnOverflow

=============================================================================
