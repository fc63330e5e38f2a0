---------------------------- MODULE BipBuf_proofs ----------------------------
(***************************************************************************)
(* Proofs about the input buffer, for every initial capacity, every        *)
(* sequence of calls and every content: it stays within its allocation,    *)
(* never moves a block onto itself, and is a queue of bytes.               *)
(*                                                                         *)
(* TypeOK and RegionsInBuffer are inductive together; they imply           *)
(* MoveIsDisjoint.  For the refinement the committed cells must also hold  *)
(* bytes, which is CommittedIsWritten.                                     *)
(***************************************************************************)
EXTENDS BipBuf, TLAPS, SequenceTheorems, WellFoundedInduction

(* The cells of region A have been written. *)
CommittedIsWritten == \A i \in a_start .. a_end - 1 : mem[i] \in Byte

BufferInv == TypeOK /\ RegionsInBuffer /\ CommittedIsWritten

-----------------------------------------------------------------------------

(* The new capacity holds what it has to hold and respects the bound. *)
LEMMA NextPowerOfTwo ==
    ASSUME NEW x \in Nat, x <= MaxCapacity
    PROVE  /\ next_power_of_two(x) \in Nat
           /\ next_power_of_two(x) >= x
           /\ next_power_of_two(x) <= MaxCapacity
<1> DEFINE Fit == {p \in PowersOfTwo : p >= x}
<1>1. PowersOfTwo \subseteq Nat BY DEF PowersOfTwo
<1>2. MaxCapacity \in Fit BY CapacityAssumption, <1>1
<1>3. PICK p \in Fit : \A r \in Fit : ~ (<<r, p>> \in OpToRel(<, Nat))
  <2>1. Fit \subseteq Nat /\ Fit # {} BY <1>1, <1>2
  <2> HIDE DEF Fit
  <2>2. QED BY <2>1, NatLessThanWellFounded, WFMin
<1>4. \A r \in Fit : p <= r
  <2> SUFFICES ASSUME NEW r \in Fit PROVE p <= r OBVIOUS
  <2>1. r \in Nat /\ p \in Nat BY <1>1
  <2>2. ~ (<<r, p>> \in OpToRel(<, Nat)) BY <1>3
  <2>3. ~ (r < p) BY <2>1, <2>2 DEF OpToRel
  <2>4. QED BY <2>1, <2>3
<1>5. \E n \in PowersOfTwo : n >= x /\ \A r \in PowersOfTwo : r >= x => n <= r
  BY <1>4
<1>6. next_power_of_two(x) \in Fit /\ \A r \in Fit : next_power_of_two(x) <= r
  BY <1>5 DEF next_power_of_two
<1>7. QED BY <1>1, <1>2, <1>6

(* What a move leaves in an allocation that has room for A. *)
LEMMA Moved ==
    ASSUME BufferInv, NEW n \in Nat, committed_size <= 2 * n,
           NEW to \in [0 .. 2 * n - 1 -> Byte \cup {Junk}]
    PROVE  /\ MoveA(to) \in [0 .. 2 * n - 1 -> Byte \cup {Junk}]
           /\ \A i \in 0 .. committed_size - 1 :
                MoveA(to)[i] = mem[a_start + i] /\ MoveA(to)[i] \in Byte
<1>1. \A i \in 0 .. committed_size - 1 : mem[a_start + i] \in Byte
  <2> SUFFICES ASSUME NEW i \in 0 .. committed_size - 1 PROVE mem[a_start + i] \in Byte
    OBVIOUS
  <2>1. a_start + i \in a_start .. a_end - 1
    BY DEF BufferInv, TypeOK, committed_size
  <2>2. QED BY <2>1 DEF BufferInv, CommittedIsWritten
<1>2. committed_size \in Nat BY DEF BufferInv, TypeOK, RegionsInBuffer, committed_size
<1>3. QED BY <1>1, <1>2 DEF MoveA

-----------------------------------------------------------------------------

(* bip_buf_create() makes it hold. *)
LEMMA InitBuffer == Init => BufferInv
<1> SUFFICES ASSUME Init PROVE BufferInv OBVIOUS
<1>1. TypeOK BY CapacityAssumption DEF Init, TypeOK, Malloc, PowersOfTwo
<1>2. QED
  BY <1>1, CapacityAssumption
  DEF Init, BufferInv, TypeOK, RegionsInBuffer, CommittedIsWritten, committed_size, reservation_size

(* A reservation behind A, or in front of the moved A, keeps it. *)
LEMMA ReserveInPlaceKeeps ==
    ASSUME BufferInv, reservation_size = 0, NEW size \in 1 .. freespace, ReserveInPlace(size)
    PROVE  BufferInv' /\ contiguous_block' = contiguous_block /\ reservation_size' = size
<1> USE DEF BufferInv, TypeOK, RegionsInBuffer, committed_size, reservation_size, freespace
<1>1. CASE committed_size = 0 \/ NoRoomBehind(size)
  <2>1. /\ mem' = MoveA(mem) /\ a_start' = 0 /\ a_end' = committed_size
        /\ r_start' = committed_size /\ r_end' = committed_size + size
        /\ capacity' = capacity
    BY <1>1 DEF ReserveInPlace
  <2>2. /\ mem' \in [0 .. 2 * capacity - 1 -> Byte \cup {Junk}]
        /\ \A i \in 0 .. committed_size - 1 : mem'[i] = mem[a_start + i] /\ mem'[i] \in Byte
    BY <2>1, Moved
  <2>3. TypeOK' /\ RegionsInBuffer' /\ reservation_size' = size
    BY <2>1, <2>2
  <2>4. CommittedIsWritten' BY <2>1, <2>2 DEF CommittedIsWritten
  <2>5. contiguous_block' = contiguous_block BY <2>1, <2>2 DEF contiguous_block
  <2>6. QED BY <2>3, <2>4, <2>5
<1>2. CASE ~(committed_size = 0 \/ NoRoomBehind(size))
  <2>1. /\ UNCHANGED <<mem, a_start, a_end, capacity>>
        /\ r_start' = a_end /\ r_end' = a_end + size
    BY <1>2 DEF ReserveInPlace, regionA
  <2>2. 2 * capacity - a_end >= size BY <1>2 DEF NoRoomBehind
  <2>3. TypeOK' /\ RegionsInBuffer' /\ reservation_size' = size BY <2>1, <2>2
  <2>4. CommittedIsWritten' BY <2>1 DEF CommittedIsWritten
  <2>5. contiguous_block' = contiguous_block BY <2>1 DEF contiguous_block
  <2>6. QED BY <2>3, <2>4, <2>5
<1>3. QED BY <1>1, <1>2

(* Doubling a size keeps it large enough. *)
LEMMA Doubled == \A m, n \in Nat : m <= n => m <= 2 * n
OBVIOUS

(* So does the move to an allocation twice as large, or more. *)
LEMMA GrowKeeps ==
    ASSUME BufferInv, reservation_size = 0, NEW size \in Nat \ {0}, Grow(size)
    PROVE  BufferInv' /\ contiguous_block' = contiguous_block /\ reservation_size' = size
<1>1. /\ MaxCapacity \in Nat /\ capacity \in Nat /\ a_start \in Nat /\ a_end \in Nat
      /\ committed_size \in Nat /\ committed_size <= capacity
  BY CapacityAssumption
  DEF BufferInv, TypeOK, RegionsInBuffer, PowersOfTwo, committed_size, reservation_size
<1>2. capacity' \in Nat /\ capacity' <= MaxCapacity /\ capacity' >= capacity + size
  <2>1. capacity + size \in Nat /\ capacity + size <= MaxCapacity BY <1>1 DEF Grow
  <2>2. QED BY <2>1, NextPowerOfTwo DEF Grow
<1>3. committed_size <= capacity' /\ committed_size + size <= capacity' BY <1>1, <1>2
<1>4. /\ mem' = MoveA(Malloc(capacity'))
      /\ a_start' = 0 /\ a_end' = committed_size
      /\ r_start' = committed_size /\ r_end' = committed_size + size
  BY DEF Grow
<1>5. Malloc(capacity') \in [0 .. 2 * capacity' - 1 -> Byte \cup {Junk}]
  BY <1>2 DEF Malloc
<1>6. /\ mem' \in [0 .. 2 * capacity' - 1 -> Byte \cup {Junk}]
      /\ \A i \in 0 .. committed_size - 1 : mem'[i] = mem[a_start + i] /\ mem'[i] \in Byte
  BY <1>1, <1>2, <1>3, <1>4, <1>5, Doubled, Moved
<1>7. committed_size' = committed_size /\ reservation_size' = size
  BY <1>1, <1>4 DEF committed_size, reservation_size
<1>8. TypeOK' /\ RegionsInBuffer'
  <2>1. capacity' \in 1 .. MaxCapacity BY <1>1, <1>2
  <2>2. committed_size + size \in Nat BY <1>1
  <2>3. TypeOK' BY <1>1, <1>4, <1>6, <2>1, <2>2 DEF TypeOK
  <2>4. committed_size <= 2 * capacity' /\ committed_size + size <= 2 * capacity'
    BY <1>1, <1>2, <1>3, <2>2, Doubled
  <2>5. 0 <= committed_size /\ committed_size <= committed_size + size BY <1>1
  <2>6. capacity' \in Nat /\ committed_size' + reservation_size' <= capacity'
    BY <1>2, <1>3, <1>7
  <2>7. RegionsInBuffer' BY <1>4, <2>4, <2>5, <2>6 DEF RegionsInBuffer
  <2>8. QED BY <2>3, <2>7
<1>9. CommittedIsWritten' BY <1>1, <1>4, <1>6 DEF CommittedIsWritten
<1>10. contiguous_block' = contiguous_block
  BY <1>1, <1>4, <1>6, <1>7 DEF contiguous_block
<1>11. QED BY <1>7, <1>8, <1>9, <1>10 DEF BufferInv

(* So does committing part of a reservation, or more than it has. *)
LEMMA CommitKeeps ==
    ASSUME BufferInv, NEW n \in Nat, NEW bs \in [1 .. n -> Byte], NEW size \in Nat,
           n <= reservation_size, Len(bs) = n, Commit(bs, size)
    PROVE  /\ BufferInv' /\ reservation_size' = 0
           /\ committed_size' = committed_size + n
           /\ \A i \in 1 .. committed_size : contiguous_block'[i] = contiguous_block[i]
<1>1. /\ capacity \in Nat /\ a_start \in Nat /\ a_end \in Nat /\ r_start = a_end
      /\ r_end \in Nat /\ committed_size \in Nat /\ r_end <= 2 * capacity /\ a_start <= a_end
      /\ reservation_size \in Nat /\ committed_size + reservation_size <= capacity
  BY DEF BufferInv, TypeOK, RegionsInBuffer, Commit, committed_size, reservation_size
<1>2. /\ mem' = [i \in DOMAIN mem |->
                   IF i \in r_start .. r_start + n - 1 THEN bs[i - r_start + 1] ELSE mem[i]]
      /\ a_end' = r_start + n /\ a_start' = a_start /\ capacity' = capacity
      /\ r_start' = 0 /\ r_end' = 0
  BY DEF Commit
<1>3. committed_size' = committed_size + n /\ reservation_size' = 0
  BY <1>1, <1>2 DEF committed_size, reservation_size
<1>4. \A i \in r_start .. r_start + n - 1 : bs[i - r_start + 1] \in Byte
  BY <1>1
<1>5. mem' \in [0 .. 2 * capacity - 1 -> Byte \cup {Junk}]
  BY <1>2, <1>4 DEF BufferInv, TypeOK
<1>6. TypeOK' /\ RegionsInBuffer'
  <2>1. TypeOK' BY <1>1, <1>2, <1>5 DEF BufferInv, TypeOK
  <2>2. a_end' <= 2 * capacity BY <1>1, <1>2 DEF reservation_size
  <2>3. committed_size + n <= capacity BY <1>1
  <2>4. RegionsInBuffer' BY <1>1, <1>2, <1>3, <2>2, <2>3 DEF RegionsInBuffer
  <2>5. QED BY <2>1, <2>4
<1>7. \A i \in a_start .. a_end - 1 : mem'[i] = mem[i]
  <2>1. DOMAIN mem = 0 .. 2 * capacity - 1 BY DEF BufferInv, TypeOK
  <2>2. a_end <= 2 * capacity BY DEF BufferInv, RegionsInBuffer
  <2>3. QED BY <1>1, <1>2, <2>1, <2>2
<1>8. CommittedIsWritten'
  <2> SUFFICES ASSUME NEW i \in a_start' .. a_end' - 1 PROVE mem'[i] \in Byte
    BY DEF CommittedIsWritten
  <2>1. CASE i < a_end
    BY <2>1, <1>1, <1>2, <1>7 DEF BufferInv, CommittedIsWritten
  <2>2. CASE i >= a_end
    <3>1. i \in r_start .. r_start + n - 1 BY <2>2, <1>1, <1>2
    <3>2. i \in DOMAIN mem BY <3>1, <1>1 DEF BufferInv, TypeOK, reservation_size
    <3>3. QED BY <3>1, <3>2, <1>2, <1>4
  <2>3. QED BY <2>1, <2>2, <1>1, <1>2
<1>9. \A i \in 1 .. committed_size : contiguous_block'[i] = contiguous_block[i]
  <2> SUFFICES ASSUME NEW i \in 1 .. committed_size
               PROVE  contiguous_block'[i] = contiguous_block[i]
    OBVIOUS
  <2>1. a_start + i - 1 \in a_start .. a_end - 1 BY <1>1 DEF committed_size
  <2>2. i \in 1 .. committed_size' BY <1>1, <1>3
  <2>3. contiguous_block'[i] = mem'[a_start + i - 1] BY <2>2, <1>2 DEF contiguous_block
  <2>4. contiguous_block[i] = mem[a_start + i - 1] BY DEF contiguous_block
  <2>5. QED BY <2>1, <2>3, <2>4, <1>7
<1>10. QED BY <1>3, <1>6, <1>8, <1>9 DEF BufferInv

(* So does giving up bytes from the front. *)
LEMMA DecommitKeeps ==
    ASSUME BufferInv, NEW size \in Nat, Decommit(size)
    PROVE  /\ BufferInv' /\ reservation_size' = reservation_size
           /\ \E n \in 1 .. committed_size :
                /\ committed_size' = committed_size - n
                /\ a_start' = a_start + n
<1> DEFINE n == IF size >= committed_size THEN committed_size ELSE size
<1>1. /\ a_start \in Nat /\ a_end \in Nat /\ capacity \in Nat /\ committed_size \in Nat \ {0}
      /\ size > 0
  BY DEF BufferInv, TypeOK, RegionsInBuffer, Decommit, committed_size
<1>2. n \in 1 .. committed_size BY <1>1
<1>3. a_start' = a_start + n /\ UNCHANGED <<mem, capacity, a_end, r_start, r_end>>
  BY DEF Decommit, reservation
<1> HIDE DEF n
<1>4. committed_size' = committed_size - n BY <1>1, <1>2, <1>3 DEF committed_size
<1>5. reservation_size' = reservation_size BY <1>3 DEF reservation_size
<1>6. TypeOK' BY <1>1, <1>2, <1>3 DEF BufferInv, TypeOK
<1>7. RegionsInBuffer'
  BY <1>1, <1>2, <1>3, <1>4, <1>5
  DEF BufferInv, TypeOK, RegionsInBuffer, committed_size, reservation_size
<1>8. CommittedIsWritten'
  BY <1>1, <1>2, <1>3 DEF BufferInv, CommittedIsWritten
<1>9. QED BY <1>2, <1>3, <1>4, <1>5, <1>6, <1>7, <1>8 DEF BufferInv

(* So does forgetting everything. *)
LEMMA ResetKeeps ==
    ASSUME BufferInv, Reset
    PROVE  BufferInv' /\ committed_size' = 0 /\ reservation_size' = 0
BY DEF BufferInv, TypeOK, RegionsInBuffer, CommittedIsWritten, Reset, committed_size,
       reservation_size

-----------------------------------------------------------------------------
(* The committed bytes as a sequence. *)

BlockInv ==
    /\ contiguous_block \in Seq(Byte)
    /\ Len(contiguous_block) = committed_size /\ committed_size \in Nat
    /\ reservation_size \in Nat

(* What the parser reads is a sequence of written bytes. *)
LEMMA BlockIsSequence == BufferInv => BlockInv
<1> SUFFICES ASSUME BufferInv PROVE BlockInv OBVIOUS
<1>1. committed_size \in Nat /\ a_start \in Nat /\ a_end \in Nat /\ reservation_size \in Nat
  BY DEF BufferInv, TypeOK, RegionsInBuffer, committed_size, reservation_size
<1>2. \A i \in 1 .. committed_size : mem[a_start + i - 1] \in Byte
  <2> SUFFICES ASSUME NEW i \in 1 .. committed_size PROVE mem[a_start + i - 1] \in Byte
    OBVIOUS
  <2>1. a_start + i - 1 \in a_start .. a_end - 1 BY <1>1 DEF committed_size
  <2>2. QED BY <2>1 DEF BufferInv, CommittedIsWritten
<1>3. contiguous_block \in [1 .. committed_size -> Byte] BY <1>2 DEF contiguous_block
<1>4. QED BY <1>1, <1>3 DEF BlockInv

(* Each step of the buffer is a step of the queue or changes nothing of it, and
   keeps the invariant. *)
LEMMA StepRefines ==
    ASSUME BufferInv, [Next]_vars
    PROVE  BufferInv' /\ [Queue!Next]_(Queue!vars)
<1>1. /\ contiguous_block \in Seq(Byte)
      /\ Len(contiguous_block) = committed_size /\ committed_size \in Nat
      /\ reservation_size \in Nat
  BY BlockIsSequence DEF BlockInv
<1>2. /\ capacity \in Nat /\ freespace \in Nat /\ freespace = capacity - committed_size
  BY DEF BufferInv, TypeOK, RegionsInBuffer, freespace, committed_size, reservation_size
<1>3. CASE Reserve
  <2>1. freespace \in 1 .. freespace BY <1>3, <1>2 DEF Reserve
  <2>2. BufferInv' /\ contiguous_block' = contiguous_block /\ reservation_size' = freespace
    BY <1>3, <2>1, ReserveInPlaceKeeps DEF Reserve
  <2>3. Queue!Offer BY <1>3, <2>1, <2>2 DEF Reserve, Queue!Offer
  <2>4. QED BY <2>2, <2>3 DEF Queue!Next
<1>4. ASSUME NEW size \in 1 .. MaxCapacity, ForceReserve(size)
      PROVE  BufferInv' /\ [Queue!Next]_(Queue!vars)
  <2>1. size \in Nat \ {0} BY CapacityAssumption DEF PowersOfTwo
  <2>2. CASE size > freespace
    <3>1. BufferInv' /\ contiguous_block' = contiguous_block /\ reservation_size' = size
      BY <1>4, <2>1, <2>2, GrowKeeps DEF ForceReserve
    <3>2. Queue!Offer BY <1>4, <2>1, <3>1 DEF ForceReserve, Queue!Offer
    <3>3. QED BY <3>1, <3>2 DEF Queue!Next
  <2>3. CASE ~(size > freespace)
    <3>1. size \in 1 .. freespace BY <2>1, <2>3, <1>2
    <3>2. BufferInv' /\ contiguous_block' = contiguous_block /\ reservation_size' = size
      BY <1>4, <2>3, <3>1, ReserveInPlaceKeeps DEF ForceReserve
    <3>3. Queue!Offer BY <1>4, <2>1, <3>2 DEF ForceReserve, Queue!Offer
    <3>4. QED BY <3>2, <3>3 DEF Queue!Next
  <2>4. QED BY <2>2, <2>3
<1>5. ASSUME NEW size \in 1 .. MaxCapacity, Decommit(size)
      PROVE  BufferInv' /\ [Queue!Next]_(Queue!vars)
  <2>1. size \in Nat BY CapacityAssumption DEF PowersOfTwo
  <2>2. BufferInv' /\ reservation_size' = reservation_size BY <1>5, <2>1, DecommitKeeps
  <2>3. PICK n \in 1 .. committed_size :
          committed_size' = committed_size - n /\ a_start' = a_start + n
    BY <1>5, <2>1, DecommitKeeps
  <2>4. contiguous_block' \in Seq(Byte) /\ Len(contiguous_block') = committed_size'
    <3>1. BlockInv' BY <2>2, BlockIsSequence, PTL
    <3>2. QED BY <3>1 DEF BlockInv
  <2>5. contiguous_block' = SubSeq(contiguous_block, n + 1, Len(contiguous_block))
    <3>1. a_start \in Nat /\ mem' = mem
      BY <1>5 DEF BufferInv, TypeOK, Decommit
    <3>2. contiguous_block' = [i \in 1 .. committed_size - n |-> mem[a_start + n + i - 1]]
      BY <2>3, <3>1 DEF contiguous_block
    <3>3. SubSeq(contiguous_block, n + 1, Len(contiguous_block))
            = [i \in 1 .. committed_size - n |-> contiguous_block[n + i]]
      BY <1>1, <2>3
    <3>4. \A i \in 1 .. committed_size - n : contiguous_block[n + i] = mem[a_start + n + i - 1]
      BY <1>1, <2>3, <3>1 DEF contiguous_block
    <3>5. QED BY <3>2, <3>3, <3>4
  <2>6. n \in 1 .. Len(contiguous_block) BY <1>1, <2>3
  <2>7. Queue!Take BY <2>2, <2>5, <2>6 DEF Queue!Take
  <2>8. QED BY <2>2, <2>7 DEF Queue!Next
<1>6. ASSUME NEW size \in 1 .. MaxCapacity,
             NEW bs \in [1 .. (IF size > reservation_size THEN reservation_size ELSE size) -> Byte],
             Commit(bs, size)
      PROVE  BufferInv' /\ [Queue!Next]_(Queue!vars)
  <2> DEFINE n == IF size > reservation_size THEN reservation_size ELSE size
  <2>1. size \in Nat BY CapacityAssumption DEF PowersOfTwo
  <2>2. n \in Nat /\ n <= reservation_size /\ Len(bs) = n BY <1>1, <1>6, <2>1 DEF Commit
  <2>3. /\ BufferInv' /\ reservation_size' = 0
        /\ committed_size' = committed_size + n
        /\ \A i \in 1 .. committed_size : contiguous_block'[i] = contiguous_block[i]
    BY <1>6, <2>1, <2>2, CommitKeeps
  <2> HIDE DEF n
  <2>4. contiguous_block' \in Seq(Byte) /\ Len(contiguous_block') = committed_size'
    <3>1. BlockInv' BY <2>3, BlockIsSequence, PTL
    <3>2. QED BY <3>1 DEF BlockInv
  <2>5. Len(contiguous_block') \in Len(contiguous_block) .. Len(contiguous_block) + reservation_size
    BY <1>1, <2>2, <2>3, <2>4
  <2>6. SubSeq(contiguous_block', 1, Len(contiguous_block)) = contiguous_block
    BY <1>1, <2>2, <2>3, <2>4
  <2>7. Queue!Put BY <2>3, <2>4, <2>5, <2>6 DEF Queue!Put
  <2>8. QED BY <2>3, <2>7 DEF Queue!Next
<1>7. CASE Reset
  <2>1. BufferInv' /\ committed_size' = 0 /\ reservation_size' = 0 BY <1>7, ResetKeeps
  <2>2. contiguous_block' = <<>> BY <2>1 DEF contiguous_block
  <2>3. Queue!Clear BY <2>1, <2>2 DEF Queue!Clear
  <2>4. QED BY <2>1, <2>3 DEF Queue!Next
<1>8. CASE UNCHANGED vars
  <2>1. UNCHANGED <<mem, capacity, a_start, a_end, r_start, r_end>>
    BY <1>8 DEF vars, regionA, reservation
  <2>2. BufferInv'
    BY <2>1 DEF BufferInv, TypeOK, RegionsInBuffer, CommittedIsWritten, committed_size,
                reservation_size
  <2>3. UNCHANGED Queue!vars
    BY <2>1 DEF Queue!vars, contiguous_block, committed_size, reservation_size
  <2>4. QED BY <2>2, <2>3
<1>9. QED BY <1>3, <1>4, <1>5, <1>6, <1>7, <1>8 DEF Next

(* A new buffer is an empty queue. *)
LEMMA InitRefines == Init => Queue!Init
BY DEF Init, Queue!Init, contiguous_block, committed_size, reservation_size

-----------------------------------------------------------------------------

(* Every variable keeps its type: the buffer is always a function over the whole
   allocation and the offsets are natural numbers. *)
THEOREM BufferTypeCorrect == Spec => []TypeOK
<1>1. BufferInv => TypeOK BY DEF BufferInv
<1>2. QED BY <1>1, InitBuffer, StepRefines, PTL DEF Spec

(* No call reads or writes outside the allocation, and no reservation overlaps the
   committed bytes, for every capacity and every sequence of calls. *)
THEOREM AlwaysInBuffer == Spec => []RegionsInBuffer
<1>1. BufferInv => RegionsInBuffer BY DEF BufferInv
<1>2. QED BY <1>1, InitBuffer, StepRefines, PTL DEF Spec

(* No memcpy within an allocation is given regions that overlap. *)
THEOREM AlwaysDisjoint == Spec => []MoveIsDisjoint
<1>1. BufferInv => MoveIsDisjoint
  BY DEF BufferInv, TypeOK, RegionsInBuffer, MoveIsDisjoint, NoRoomBehind, freespace,
         committed_size, reservation_size
<1>2. QED BY <1>1, InitBuffer, StepRefines, PTL DEF Spec

(* The buffer implements the queue of bytes. *)
THEOREM BufferIsQueue == Spec => IsByteQueue
BY InitBuffer, InitRefines, StepRefines, PTL DEF Spec, IsByteQueue, Queue!Spec

=============================================================================
