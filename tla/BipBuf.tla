------------------------------- MODULE BipBuf -------------------------------
(***************************************************************************)
(* The input buffer of a connection (src/base/bip_buf.c).  One allocation  *)
(* of twice the capacity; the committed bytes are its region A, always in  *)
(* one piece, so that the parser can read them where they lie; behind A    *)
(* there may be a reservation, into which the stream reads.  When too      *)
(* little space is left behind A, A is moved to the front, and when A      *)
(* takes up too much of the capacity, to a larger allocation.              *)
(*                                                                         *)
(* The calls that return NULL change nothing: they are the guards of the   *)
(* actions.  _committed_sum is a statistic that nobody asks for.           *)
(***************************************************************************)
EXTENDS Integers, Sequences

CONSTANTS
    Byte,          \* the values a byte may have
    Junk,          \* the content of a cell of memory that was never written
    InitCapacity,  \* the capacity bip_buf_create() is called with
    MaxCapacity    \* bound: the capacity the buffer may grow to

PowersOfTwo == {2^k : k \in 0 .. 30} \cap Nat

ASSUME JunkAssumption == Junk \notin Byte
ASSUME CapacityAssumption ==
    /\ InitCapacity \in Nat \ {0}
    /\ MaxCapacity \in PowersOfTwo
    /\ InitCapacity <= MaxCapacity

VARIABLES
    mem,        \* what _buffer points to
    capacity,   \* _available_capacity
    a_start, a_end,     \* region A: the committed bytes
    r_start, r_end      \* the reservation, r_start = r_end when there is none

regionA     == <<a_start, a_end>>
reservation == <<r_start, r_end>>
vars == <<mem, capacity, regionA, reservation>>

-----------------------------------------------------------------------------

next_power_of_two(x) ==
    CHOOSE p \in PowersOfTwo : p >= x /\ \A r \in PowersOfTwo : r >= x => p <= r

Malloc(n) == [i \in 0 .. 2 * n - 1 |-> Junk]

committed_size   == a_end - a_start
reservation_size == r_end - r_start
freespace        == capacity - committed_size

contiguous_block == [i \in 1 .. committed_size |-> mem[a_start + i - 1]]

(* memcpy of region A to the start of an allocation. *)
MoveNothing(to) == to                                    \* mutant: copy forgotten
MoveA(to) ==
    [i \in DOMAIN to |-> IF i < committed_size THEN mem[a_start + i] ELSE to[i]]

NoRoomBehindCapacity(size) == 3 * capacity - a_end < size \* mutant: end misplaced
NoRoomBehindHalf(size) == capacity - a_end < size        \* mutant: not doubled
NoRoomBehind(size) == 2 * capacity - a_end < size

Init ==
    /\ capacity = InitCapacity
    /\ mem = Malloc(InitCapacity)
    /\ a_start = 0 /\ a_end = 0
    /\ r_start = 0 /\ r_end = 0

-----------------------------------------------------------------------------

(* A stays in its allocation, moved to the front if it is empty or leaves no
   room for size bytes behind it; these are then reserved. *)
ReserveInPlace(size) ==
    /\ IF committed_size = 0 \/ NoRoomBehind(size)
       THEN /\ mem' = MoveA(mem)
            /\ a_start' = 0
            /\ a_end' = committed_size
       ELSE UNCHANGED <<mem, regionA>>
    /\ r_start' = a_end'
    /\ r_end' = r_start' + size
    /\ UNCHANGED capacity

(* bip_buf_reserve(): all the free space. *)
Reserve ==
    /\ reservation_size = 0
    /\ freespace # 0
    /\ ReserveInPlace(freespace)

(* bip_buf_force_reserve() with more than the free space: A is copied to the
   front of a new allocation. *)
Grow(size) ==
    /\ capacity + size <= MaxCapacity
    /\ capacity' = next_power_of_two(capacity + size)
    /\ mem' = MoveA(Malloc(capacity'))
    /\ a_start' = 0
    /\ a_end' = committed_size
    /\ r_start' = a_end'
    /\ r_end' = r_start' + size

ForceReserve(size) ==
    /\ reservation_size = 0
    /\ size # 0
    /\ freespace # 0
    /\ IF size > freespace THEN Grow(size) ELSE ReserveInPlace(size)

(* The owner of the reservation writes the bytes bs to its front, then calls
   bip_buf_commit(size); a size that exceeds the reservation is clipped. *)
Commit(bs, size) ==
    /\ reservation_size # 0
    /\ Len(bs) = IF size > reservation_size THEN reservation_size ELSE size
    /\ mem' = [i \in DOMAIN mem |->
                 IF i \in r_start .. r_start + Len(bs) - 1 THEN bs[i - r_start + 1] ELSE mem[i]]
    /\ a_end' = r_start + Len(bs)
    /\ r_start' = 0 /\ r_end' = 0
    /\ UNCHANGED <<capacity, a_start>>

(* bip_buf_decommit() *)
Decommit(size) ==
    /\ size > 0 /\ committed_size > 0
    /\ a_start' = a_start + IF size >= committed_size THEN committed_size ELSE size
    /\ UNCHANGED <<mem, capacity, a_end, reservation>>

(* bip_buf_reset(): FlushStream() *)
Reset ==
    /\ a_start' = 0 /\ a_end' = 0
    /\ r_start' = 0 /\ r_end' = 0
    /\ UNCHANGED <<mem, capacity>>

Next ==
    \/ Reserve
    \/ \E size \in 1 .. MaxCapacity :
         \/ ForceReserve(size)
         \/ Decommit(size)
         \/ \E bs \in [1 .. (IF size > reservation_size THEN reservation_size ELSE size) -> Byte] :
              Commit(bs, size)
    \/ Reset

Spec == Init /\ [][Next]_vars

-----------------------------------------------------------------------------
(* Properties.                                                              *)

(* The allocation is twice the capacity, as bip_buf_create() and every growth make it,
   and the ends of the two regions are positions. *)
TypeOK ==
    /\ capacity \in 1 .. MaxCapacity
    /\ mem \in [0 .. 2 * capacity - 1 -> Byte \cup {Junk}]
    /\ a_start \in Nat /\ a_end \in Nat
    /\ r_start \in Nat /\ r_end \in Nat

(* Region A and the reservation lie inside the allocation, the reservation right
   behind A, and together they never exceed the capacity: what the stream writes
   into a reservation stays in bounds and overwrites no byte the parser has not
   consumed, whatever sequence of moves, growths and partial commits led here. *)
RegionsInBuffer ==
    /\ a_start <= a_end /\ a_end <= 2 * capacity
    /\ r_start <= r_end /\ r_end <= 2 * capacity
    /\ committed_size + reservation_size <= capacity
    /\ reservation_size # 0 => r_start = a_end

(* memcpy() may not be given regions that overlap: whenever a reservation would
   move A to the front of its own allocation, A starts behind its own length. *)
MoveIsDisjoint ==
    \A size \in 1 .. freespace :
        reservation_size = 0 /\ committed_size > 0 /\ NoRoomBehind(size)
            => a_start >= committed_size

Queue == INSTANCE ByteQueue WITH q <- contiguous_block, room <- reservation_size

(* The buffer is a queue of bytes: read in place, moved to the front, moved to a
   larger allocation, the committed bytes are those put and not yet taken, in
   order. *)
IsByteQueue == Queue!Spec

(* "Like bip_buf_reserve, but would expand buffer if not enough free space."
   (bip_buf.h:45): with no reservation outstanding, the call leaves the caller
   with one, whatever the fill.  It does not hold when the buffer is full. *)
ForceReserveExpands ==
    \A size \in 1 .. MaxCapacity :
        reservation_size = 0 /\ capacity + size <= MaxCapacity => ENABLED ForceReserve(size)

=============================================================================
