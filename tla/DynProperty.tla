---------------------------- MODULE DynProperty ----------------------------
(***************************************************************************)
(* The dynamic property type of src/src/data/property_dynamic.c: a         *)
(* property_t whose value is a heap buffer, with the flags is_owner and    *)
(* is_raw, and the dispatcher operations copy, weak, move, destroy and     *)
(* concat plus the two constructors string_to / raw_to.                    *)
(*                                                                         *)
(* The caller's property_t variables are the Slots.  The heap is NBlocks   *)
(* blocks: cap[b] is the number of bytes block b holds (0 = free) and      *)
(* slen[b] what strlen() returns on it.  A pointer is a block, NULL, or    *)
(* DANGLING: a pointer into a block that has since been freed.  Contents   *)
(* are abstracted to their two lengths, the only thing the code reads.     *)
(*                                                                         *)
(* The caller obeys the property contract: it constructs into, and copies, *)
(* weakens or moves into, an unused slot; it never reads through a         *)
(* dangling pointer; it destroys a slot once and then drops it; and it     *)
(* does not concat a buffer onto itself through a second slot.             *)
(***************************************************************************)
EXTENDS Integers, FiniteSets

CONSTANTS
    Slots,      \* the caller's property_t variables
    NBlocks,    \* number of heap blocks (bound on the heap)
    MaxLen,     \* longest string a property holds (bound on sizes)
    StaticBuf,  \* the STATIC_DYNAMIC_PROPERTY build (static_buf allocator)
    OOM,        \* whether an allocation may fail
    RawInputs   \* whether the caller builds raw properties (raw_to)

ASSUME SlotsAssumption == Slots # {} /\ IsFiniteSet(Slots)
ASSUME NBlocksAssumption == NBlocks \in Nat \ {0}
ASSUME MaxLenAssumption == MaxLen \in Nat
ASSUME SwitchAssumption == {StaticBuf, OOM, RawInputs} \subseteq BOOLEAN

NULL == 0
DANGLING == -1
Blocks == 1..NBlocks
Pointers == Blocks \cup {NULL, DANGLING}
Faults == {"none", "double_free", "null_read"}

Prop == [value : Pointers, size : 0..MaxLen, owner : BOOLEAN, raw : BOOLEAN]
Empty == [value |-> NULL, size |-> 0, owner |-> FALSE, raw |-> FALSE]

VARIABLES prop, inuse, cap, slen, fault
vars == <<prop, inuse, cap, slen, fault>>

TypeOK ==
    /\ prop \in [Slots -> Prop]
    /\ inuse \subseteq Slots
    /\ cap \in [Blocks -> 0..MaxLen + 1]
    /\ slen \in [Blocks -> 0..MaxLen]
    /\ fault \in Faults

Init ==
    /\ prop = [s \in Slots |-> Empty]
    /\ inuse = {}
    /\ cap = [b \in Blocks |-> 0]
    /\ slen = [b \in Blocks |-> 0]
    /\ fault = "none"

MinOf(a, b) == IF a < b THEN a ELSE b

(* malloc/realloc of a new block: a free block, or NULL when it fails.     *)
FreeBlocks == {b \in Blocks : cap[b] = 0}
AllocResults == FreeBlocks \cup (IF OOM THEN {NULL} ELSE {})

(* STRNDUP(ptr, size): static_strndup returns NULL for size <= 0.         *)
StrndupResults(size) ==
    IF StaticBuf /\ size = 0 THEN {NULL} ELSE AllocResults

(* The bytes STRNDUP(ptr, size) allocates when z = strnlen(ptr, size):     *)
(* static_strndup takes size + 1 and copies all size bytes; libc strndup   *)
(* stops at the first NUL and takes z + 1.  STRDUP is STRNDUP at z = size. *)
StrndupBytes(size, z) == IF StaticBuf THEN size + 1 ELSE z + 1

(* The heap after the allocator handed out r with the given lengths.       *)
Allocated(r, bytes, len) ==
    /\ cap' = IF r = NULL THEN cap ELSE [cap EXCEPT ![r] = bytes]
    /\ slen' = IF r = NULL THEN slen ELSE [slen EXCEPT ![r] = MinOf(len, bytes - 1)]

(* Freeing block b leaves every slot that pointed into it dangling.        *)
Dangle(p, b) ==
    [s \in Slots |-> IF p[s].value = b
                     THEN [p[s] EXCEPT !.value = DANGLING] ELSE p[s]]

Valid(s) == s \in inuse /\ prop[s].value # DANGLING

(* strlen(value), or the size of a raw value, as the code reads it.        *)
ReadLen(p) == IF p.raw THEN p.size ELSE slen[p.value]
ReadsNull(p) == p.value = NULL /\ (~p.raw \/ p.size > 0)

(* string_to_dynamic_property(name) with strlen(name) = n.                 *)
StringTo(s, n) ==
    /\ s \notin inuse
    /\ \E r \in StrndupResults(n) :
          /\ prop' = [prop EXCEPT ![s] =
                        [value |-> r, size |-> n, owner |-> TRUE, raw |-> FALSE]]
          /\ Allocated(r, n + 1, n)
    /\ inuse' = inuse \cup {s}
    /\ UNCHANGED fault

(* raw_to_dynamic_property(name, len): z is strlen of the first len bytes. *)
RawTo(s, n, z) ==
    /\ RawInputs
    /\ s \notin inuse
    /\ \E r \in StrndupResults(n) :
          /\ prop' = [prop EXCEPT ![s] =
                        [value |-> r, size |-> n, owner |-> TRUE, raw |-> TRUE]]
          /\ Allocated(r, StrndupBytes(n, z), z)
    /\ inuse' = inuse \cup {s}
    /\ UNCHANGED fault

(* dynmc_copy(dst, src): a weak source is aliased with its flags; an owner *)
(* is duplicated (STRNDUP of size bytes if raw, else STRDUP) and the copy  *)
(* gets is_owner only.                                                     *)
Copy(d, s) ==
    LET p == prop[s] IN
    /\ d \notin inuse /\ Valid(s)
    /\ inuse' = inuse \cup {d}
    /\ IF ~p.owner
       THEN /\ prop' = [prop EXCEPT ![d] = p]
            /\ UNCHANGED <<cap, slen, fault>>
       ELSE IF ReadsNull(p)
       THEN /\ fault' = "null_read"
            /\ UNCHANGED <<prop, cap, slen>>
       ELSE LET n == IF p.raw THEN p.size ELSE slen[p.value]
                len == IF p.value = NULL THEN 0 ELSE slen[p.value]
            IN \E r \in StrndupResults(n) :
                 /\ prop' = [prop EXCEPT ![d] =
                              [value |-> r, size |-> p.size, owner |-> TRUE, raw |-> FALSE]]
                 /\ Allocated(r, StrndupBytes(n, MinOf(len, n)), len)
                 /\ UNCHANGED fault

(* dynmc_weak(dst, src): dst aliases src's buffer and owns nothing.        *)
Weak(d, s) ==
    /\ d \notin inuse /\ Valid(s)
    /\ prop' = [prop EXCEPT ![d] = [value |-> prop[s].value, size |-> prop[s].size,
                                    owner |-> FALSE, raw |-> FALSE]]
    /\ inuse' = inuse \cup {d}
    /\ UNCHANGED <<cap, slen, fault>>

(* Fault model: dynmc_move without clearing src's is_owner.               *)
MoveKeepsOwner(d, s) ==
    /\ d \notin inuse /\ Valid(s)
    /\ prop' = [prop EXCEPT ![d] = [value |-> prop[s].value, size |-> prop[s].size,
                                    owner |-> prop[s].owner, raw |-> FALSE]]
    /\ inuse' = inuse \cup {d}
    /\ UNCHANGED <<cap, slen, fault>>

(* dynmc_move(dst, src): ownership passes to dst and src is made weak.     *)
Move(d, s) ==
    /\ d \notin inuse /\ Valid(s)
    /\ prop' = [prop EXCEPT ![d] = [value |-> prop[s].value, size |-> prop[s].size,
                                    owner |-> prop[s].owner, raw |-> FALSE],
                            ![s].owner = FALSE]
    /\ inuse' = inuse \cup {d}
    /\ UNCHANGED <<cap, slen, fault>>

(* Fault model: dynmc_destroy without the FREE of the owned buffer.        *)
DestroyKeepsBlock(s) ==
    /\ s \in inuse
    /\ prop' = [prop EXCEPT ![s] = Empty]
    /\ inuse' = inuse \ {s}
    /\ UNCHANGED <<cap, slen, fault>>

(* dynmc_destroy(dst): an owner frees its buffer; free(NULL) does nothing  *)
(* and freeing a dangling pointer is a double free.  The caller then drops *)
(* the slot.                                                               *)
Destroy(s) ==
    LET v == prop[s].value IN
    /\ s \in inuse
    /\ inuse' = inuse \ {s}
    /\ IF prop[s].owner /\ v = DANGLING
       THEN /\ fault' = "double_free"
            /\ UNCHANGED <<prop, cap, slen>>
       ELSE IF prop[s].owner /\ v \in Blocks
       THEN /\ prop' = [Dangle(prop, v) EXCEPT ![s] = Empty]
            /\ cap' = [cap EXCEPT ![v] = 0]
            /\ UNCHANGED <<slen, fault>>
       ELSE /\ prop' = [prop EXCEPT ![s] = Empty]
            /\ UNCHANGED <<cap, slen, fault>>

(* realloc(v, n): the block grown in place, a fresh block, or NULL.        *)
ReallocResults(v) == AllocResults \cup (IF v \in Blocks THEN {v} ELSE {})

(* strlen of the first sd bytes of the block realloc returns: realloc(NULL)*)
(* returns uninitialised bytes, so any length up to sd.                    *)
Prefix(v, sd) == IF v \in Blocks THEN {MinOf(slen[v], sd)} ELSE 0..sd

(* The slots after realloc moved v to r: aliases of v dangle.              *)
Realloced(p, v, r) == IF r = v \/ v \notin Blocks THEN p ELSE Dangle(p, v)

(* The bytes dynmc_concat reallocates: both sides and the terminator.      *)
ReallocBytes(sd, ss) == sd + ss + 1

(* Fault model: the size also counts the terminator.                       *)
GrownWithTerminator(size, ss) == size + ss + 1
(* The size of dst after the concat.                                       *)
Grown(size, ss) == size + ss

(* The caller does not concat a buffer onto itself through another slot.   *)
NoAlias(d, s) == s = d \/ prop[d].value = NULL \/ prop[s].value # prop[d].value

(* realloc failed: dst->value is NULL and dynmc_destroy(dst) frees NULL.   *)
ConcatFailed(d) ==
    /\ prop' = [prop EXCEPT ![d].value = NULL]
    /\ UNCHANGED <<inuse, cap, slen, fault>>

(* realloc returned r: dst's first sd bytes are kept (pre is their strlen),*)
(* src's first ss bytes are copied behind them, size grows by ss.          *)
ConcatInto(d, s, r, sd, ss) ==
    LET p == prop[d]
        q == prop[s]
        v == p.value
    IN
    \E pre \in Prefix(v, sd) :
       LET src == IF s = d THEN MinOf(pre, ss)
                  ELSE IF q.value = NULL THEN 0
                  ELSE MinOf(slen[q.value], ss)
       IN
       /\ prop' = [Realloced(prop, v, r) EXCEPT ![d].value = r,
                                                ![d].size = Grown(p.size, ss)]
       /\ cap' = [b \in Blocks |-> IF b = r THEN ReallocBytes(sd, ss)
                                   ELSE IF b = v THEN 0 ELSE cap[b]]
       /\ slen' = [slen EXCEPT ![r] = IF pre < sd THEN pre ELSE sd + src]
       /\ UNCHANGED <<inuse, fault>>

(* dynmc_concat(dst, src): nothing unless dst owns its buffer; measure     *)
(* both sides (size if raw, else strlen), realloc dst to the sum plus the  *)
(* terminator, and on failure destroy dst (whose value is already NULL);   *)
(* else grow the size and copy src behind dst's first size_dst bytes.      *)
Concat(d, s) ==
    LET p == prop[d]
        q == prop[s]
        v == p.value
    IN
    /\ Valid(d) /\ Valid(s) /\ NoAlias(d, s)
    /\ IF ~p.owner
       THEN UNCHANGED vars
       ELSE IF (v = NULL /\ ~p.raw) \/ (q.value = NULL /\ ~q.raw)
       THEN /\ fault' = "null_read"
            /\ UNCHANGED <<prop, inuse, cap, slen>>
       ELSE LET sd == ReadLen(p)
                ss == ReadLen(q)
            IN
            /\ sd + ss <= MaxLen
            /\ p.size + ss <= MaxLen
            /\ \E r \in ReallocResults(v) :
                 IF r = NULL
                 THEN ConcatFailed(d)
                 ELSE IF s # d /\ q.value = NULL /\ ss > 0
                 THEN /\ fault' = "null_read"
                      /\ UNCHANGED <<prop, inuse, cap, slen>>
                 ELSE ConcatInto(d, s, r, sd, ss)

(* property_dynamic_destroy(): the static build clears the whole buffer,   *)
(* freeing every block under the properties still holding them.           *)
DynamicDestroy ==
    IF StaticBuf
    THEN /\ cap' = [b \in Blocks |-> 0]
         /\ prop' = [s \in Slots |-> IF prop[s].value \in Blocks
                                     THEN [prop[s] EXCEPT !.value = DANGLING]
                                     ELSE prop[s]]
         /\ UNCHANGED <<inuse, slen, fault>>
    ELSE UNCHANGED vars

(* A fault stops the program: no step follows it.                          *)
Next ==
    /\ fault = "none"
    /\ \/ \E s \in Slots, n \in 0..MaxLen : StringTo(s, n)
       \/ \E s \in Slots, n \in 0..MaxLen : \E z \in 0..n : RawTo(s, n, z)
       \/ \E d, s \in Slots : Copy(d, s)
       \/ \E d, s \in Slots : Weak(d, s)
       \/ \E d, s \in Slots : Move(d, s)
       \/ \E d, s \in Slots : Concat(d, s)
       \/ \E s \in Slots : Destroy(s)
       \/ DynamicDestroy

Spec == Init /\ [][Next]_vars

-----------------------------------------------------------------------------
(* No buffer is freed twice: dynmc_destroy never frees a pointer some      *)
(* other owner (or property_dynamic_destroy) already freed; this fails if  *)
(* move, copy or concat ever leave two owners of one buffer.               *)
NoDoubleFree == fault # "double_free"

(* No leak: every allocated block is the buffer of a live owning property, *)
(* so every buffer is freed by the destroy of its owner.                   *)
NoLeak ==
    \A b \in Blocks : cap[b] > 0 =>
        \E s \in inuse : prop[s].owner /\ prop[s].value = b

(* The size an owning property reports never exceeds the bytes its buffer *)
(* holds before the terminator, so a reader of size bytes stays in it.     *)
SizeWithinBlock ==
    \A s \in inuse : prop[s].owner /\ prop[s].value \in Blocks =>
        prop[s].size < cap[prop[s].value]
=============================================================================
