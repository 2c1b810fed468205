------------------------- MODULE DynPropertyProofs -------------------------
(***************************************************************************)
(* Proofs about the dynamic property type of property_dynamic.c, for any   *)
(* number of slots and blocks and any MaxLen, in the libc build.           *)
(*                                                                         *)
(* The argument is that ownership is exact: an owning property in use      *)
(* points at NULL or at an allocated block, and no two owners share a      *)
(* block.  Then dynmc_destroy of an owner never meets a dangling pointer   *)
(* (no double free), and, when allocation cannot fail, every allocated     *)
(* block is some owner's (no leak).                                        *)
(***************************************************************************)
EXTENDS DynProperty, TLAPS

(* An owner in use points at NULL or at an allocated block.                *)
OwnersAllocated ==
    \A s \in inuse : prop[s].owner =>
        \/ prop[s].value = NULL
        \/ prop[s].value \in Blocks /\ cap[prop[s].value] > 0

(* No two owners in use hold the same block.                               *)
OwnersDistinct ==
    \A s, t \in inuse :
        s # t /\ prop[s].owner /\ prop[t].owner /\ prop[s].value \in Blocks
            => prop[s].value # prop[t].value

(* A slot not in use holds the empty property: Init and dynmc_destroy     *)
(* leave it so, and only a constructor, copy, weak or move writes it.      *)
SlotsIdle == \A s \in Slots \ inuse : prop[s] = Empty

(* The inductive invariant behind NoDoubleFree.                            *)
OwnInv == TypeOK /\ NoDoubleFree /\ SlotsIdle /\ OwnersAllocated /\ OwnersDistinct

(* Without allocation failure every owner holds a block.                   *)
OwnersHoldBlocks == \A s \in inuse : prop[s].owner => prop[s].value \in Blocks

(* The inductive invariant behind NoLeak.                                  *)
LeakInv == OwnInv /\ OwnersHoldBlocks /\ NoLeak

-----------------------------------------------------------------------------
(* STRNDUP takes at least the terminator and at most MaxLen + 1 bytes, in  *)
(* either build, for any size up to MaxLen and any strnlen up to the size. *)
LEMMA StrndupBytesRange ==
  ASSUME NEW n \in 0..MaxLen, NEW z \in 0..n
  PROVE  StrndupBytes(n, z) \in 1..MaxLen + 1
  BY MaxLenAssumption DEF StrndupBytes

(* Every reachable state is typed, for any slots, blocks and MaxLen.       *)
LEMMA TypeInit == Init => TypeOK
  BY MaxLenAssumption, NBlocksAssumption DEF Init, TypeOK, Empty, Prop, Pointers, Blocks, NULL, Faults

LEMMA TypeStringTo ==
  ASSUME TypeOK, NEW s \in Slots, NEW n \in 0..MaxLen, StringTo(s, n)
  PROVE  TypeOK'
  BY MaxLenAssumption DEF TypeOK, StringTo, StrndupResults, AllocResults, FreeBlocks,
     Allocated, MinOf, Prop, Pointers, Blocks, NULL, DANGLING, Faults

LEMMA TypeRawTo ==
  ASSUME TypeOK, NEW s \in Slots, NEW n \in 0..MaxLen, NEW z \in 0..n, RawTo(s, n, z)
  PROVE  TypeOK'
<1>1. StrndupBytes(n, z) \in 1..MaxLen + 1
  BY StrndupBytesRange
<1>2. z \in 0..MaxLen
  BY MaxLenAssumption
<1> HIDE DEF StrndupBytes
<1> QED
  BY <1>1, <1>2, MaxLenAssumption DEF TypeOK, RawTo, StrndupResults, AllocResults, FreeBlocks,
     Allocated, MinOf, Prop, Pointers, Blocks, NULL, DANGLING, Faults

LEMMA TypeCopy ==
  ASSUME TypeOK, NEW d \in Slots, NEW s \in Slots, Copy(d, s)
  PROVE  TypeOK'
<1> DEFINE p == prop[s]
<1>1. /\ p \in Prop
      /\ inuse' = inuse \cup {d}
      /\ p.value # DANGLING
  BY DEF Copy, Valid, TypeOK
<1>2. CASE ~p.owner
  BY <1>1, <1>2 DEF Copy, TypeOK
<1>3. CASE p.owner /\ ReadsNull(p)
  BY <1>1, <1>3 DEF Copy, TypeOK, Faults
<1>4. CASE p.owner /\ ~ReadsNull(p)
  <2> DEFINE n == IF p.raw THEN p.size ELSE slen[p.value]
             len == IF p.value = NULL THEN 0 ELSE slen[p.value]
  <2>1. p.value \in Blocks \/ p.raw
    BY <1>1, <1>4 DEF ReadsNull, Prop, Pointers, DANGLING, NULL
  <2>2. n \in 0..MaxLen /\ len \in 0..MaxLen
    BY <1>1, <2>1, MaxLenAssumption DEF TypeOK, Prop, Pointers, Blocks, NULL, DANGLING
  <2>3. PICK r \in StrndupResults(n) :
              /\ prop' = [prop EXCEPT ![d] =
                           [value |-> r, size |-> p.size, owner |-> TRUE, raw |-> FALSE]]
              /\ Allocated(r, StrndupBytes(n, MinOf(len, n)), len)
              /\ UNCHANGED fault
    BY <1>4 DEF Copy
  <2>4. r \in Blocks \cup {NULL}
    BY DEF StrndupResults, AllocResults, FreeBlocks
  <2>5. MinOf(len, n) \in 0..n
    BY <2>2 DEF MinOf
  <2>6. StrndupBytes(n, MinOf(len, n)) \in 1..MaxLen + 1
    BY <2>2, <2>5, StrndupBytesRange
  <2> HIDE DEF StrndupBytes
  <2> QED
    BY <1>1, <2>2, <2>3, <2>4, <2>6, MaxLenAssumption
       DEF TypeOK, Allocated, MinOf, Prop, Pointers, NULL
<1> QED
  BY <1>2, <1>3, <1>4

LEMMA TypeWeak ==
  ASSUME TypeOK, NEW d \in Slots, NEW s \in Slots, Weak(d, s)
  PROVE  TypeOK'
  BY DEF TypeOK, Weak, Valid, Prop, Pointers, Blocks, NULL, DANGLING, Faults

LEMMA TypeMove ==
  ASSUME TypeOK, NEW d \in Slots, NEW s \in Slots, Move(d, s)
  PROVE  TypeOK'
  BY DEF TypeOK, Move, Valid, Prop, Pointers, Blocks, NULL, DANGLING, Faults

(* Freeing a block keeps the slots typed.                                  *)
LEMMA DangleType ==
  ASSUME NEW p \in [Slots -> Prop], NEW b
  PROVE  Dangle(p, b) \in [Slots -> Prop]
  BY DEF Dangle, Prop, Pointers, DANGLING

LEMMA TypeDestroy ==
  ASSUME TypeOK, NEW s \in Slots, Destroy(s)
  PROVE  TypeOK'
<1> DEFINE v == prop[s].value
<1>1. inuse' = inuse \ {s}
  BY DEF Destroy
<1>2. CASE prop[s].owner /\ v = DANGLING
  BY <1>1, <1>2 DEF Destroy, TypeOK, Faults
<1>3. CASE ~(prop[s].owner /\ v = DANGLING) /\ prop[s].owner /\ v \in Blocks
  <2>1. Dangle(prop, v) \in [Slots -> Prop]
    BY DangleType DEF TypeOK
  <2>2. /\ prop' = [Dangle(prop, v) EXCEPT ![s] = Empty]
        /\ cap' = [cap EXCEPT ![v] = 0]
        /\ UNCHANGED <<slen, fault>>
    BY <1>3 DEF Destroy
  <2>3. Empty \in Prop
    BY MaxLenAssumption DEF Empty, Prop, Pointers, NULL
  <2>4. prop' \in [Slots -> Prop]
    BY <2>1, <2>2, <2>3
  <2>5. cap' \in [Blocks -> 0..MaxLen + 1]
    BY <1>3, <2>2, MaxLenAssumption DEF TypeOK
  <2> QED
    BY <1>1, <2>2, <2>4, <2>5 DEF TypeOK
<1>4. CASE ~(prop[s].owner /\ v = DANGLING) /\ ~(prop[s].owner /\ v \in Blocks)
  <2>1. prop' = [prop EXCEPT ![s] = Empty] /\ UNCHANGED <<cap, slen, fault>>
    BY <1>4 DEF Destroy
  <2>2. Empty \in Prop
    BY MaxLenAssumption DEF Empty, Prop, Pointers, NULL
  <2> QED
    BY <1>1, <2>1, <2>2 DEF TypeOK
<1> QED
  BY <1>2, <1>3, <1>4

LEMMA TypeDynamicDestroy ==
  ASSUME TypeOK, DynamicDestroy
  PROVE  TypeOK'
<1>1. CASE StaticBuf
  <2>2. prop' \in [Slots -> Prop]
    BY <1>1 DEF DynamicDestroy, TypeOK, Prop, Pointers, DANGLING
  <2> QED
    BY <1>1, <2>2, MaxLenAssumption DEF DynamicDestroy, TypeOK, Blocks
<1>2. CASE ~StaticBuf
  BY <1>2 DEF DynamicDestroy, TypeOK, vars
<1> QED
  BY <1>1, <1>2

LEMMA TypeConcatInto ==
  ASSUME TypeOK, NEW d \in Slots, NEW s \in Slots, NEW r \in Blocks,
         NEW sd \in 0..MaxLen, NEW ss \in 0..MaxLen,
         sd + ss <= MaxLen, prop[d].size + ss <= MaxLen,
         prop[s].value # DANGLING,
         ConcatInto(d, s, r, sd, ss)
  PROVE  TypeOK'
<1> DEFINE v == prop[d].value
<1>1. PICK pre \in Prefix(v, sd) :
         /\ prop' = [Realloced(prop, v, r) EXCEPT ![d].value = r,
                                                  ![d].size = Grown(prop[d].size, ss)]
         /\ cap' = [b \in Blocks |-> IF b = r THEN ReallocBytes(sd, ss)
                                     ELSE IF b = v THEN 0 ELSE cap[b]]
         /\ slen' = [slen EXCEPT ![r] =
                       IF pre < sd THEN pre
                       ELSE sd + (IF s = d THEN MinOf(pre, ss)
                                  ELSE IF prop[s].value = NULL THEN 0
                                  ELSE MinOf(slen[prop[s].value], ss))]
         /\ UNCHANGED <<inuse, fault>>
  BY DEF ConcatInto
<1>2. pre \in 0..sd
  BY MaxLenAssumption DEF Prefix, MinOf, TypeOK
<1>3. Realloced(prop, v, r) \in [Slots -> Prop]
  BY DangleType DEF Realloced, TypeOK
<1>4. prop' \in [Slots -> Prop]
  BY <1>1, <1>3, MaxLenAssumption DEF Grown, Prop, Pointers
<1>5. cap' \in [Blocks -> 0..MaxLen + 1]
  BY <1>1, MaxLenAssumption DEF ReallocBytes, TypeOK
<1>6. prop[s].value \in Blocks \/ prop[s].value = NULL
  BY DEF TypeOK, Prop, Pointers
<1>7. slen' \in [Blocks -> 0..MaxLen]
  BY <1>1, <1>2, <1>6, MaxLenAssumption DEF MinOf, TypeOK
<1> QED
  BY <1>1, <1>4, <1>5, <1>7 DEF TypeOK

LEMMA TypeConcat ==
  ASSUME TypeOK, NEW d \in Slots, NEW s \in Slots, Concat(d, s)
  PROVE  TypeOK'
<1> DEFINE p == prop[d]
           q == prop[s]
           v == p.value
<1>1. /\ p \in Prop /\ q \in Prop
      /\ v # DANGLING /\ q.value # DANGLING
  BY DEF Concat, Valid, TypeOK
<1>2. CASE ~p.owner
  BY <1>2 DEF Concat, TypeOK, vars
<1>3. CASE p.owner /\ ((v = NULL /\ ~p.raw) \/ (q.value = NULL /\ ~q.raw))
  BY <1>3 DEF Concat, TypeOK, Faults
<1>4. CASE p.owner /\ ~((v = NULL /\ ~p.raw) \/ (q.value = NULL /\ ~q.raw))
  <2> DEFINE sd == ReadLen(p)
             ss == ReadLen(q)
  <2>1. sd \in 0..MaxLen /\ ss \in 0..MaxLen
    BY <1>1, <1>4 DEF ReadLen, TypeOK, Prop, Pointers, NULL
  <2>2. /\ sd + ss <= MaxLen
        /\ p.size + ss <= MaxLen
        /\ \E r \in ReallocResults(v) :
             IF r = NULL
             THEN ConcatFailed(d)
             ELSE IF s # d /\ q.value = NULL /\ ss > 0
             THEN /\ fault' = "null_read"
                  /\ UNCHANGED <<prop, inuse, cap, slen>>
             ELSE ConcatInto(d, s, r, sd, ss)
    BY <1>4 DEF Concat
  <2>3. PICK r \in ReallocResults(v) :
             IF r = NULL
             THEN ConcatFailed(d)
             ELSE IF s # d /\ q.value = NULL /\ ss > 0
             THEN /\ fault' = "null_read"
                  /\ UNCHANGED <<prop, inuse, cap, slen>>
             ELSE ConcatInto(d, s, r, sd, ss)
    BY <2>2
  <2>4. r \in Blocks \cup {NULL}
    BY DEF ReallocResults, AllocResults, FreeBlocks
  <2>5. CASE r = NULL
    BY <2>3, <2>5 DEF ConcatFailed, TypeOK, Prop, Pointers
  <2>6. CASE r # NULL /\ s # d /\ q.value = NULL /\ ss > 0
    BY <2>3, <2>6 DEF TypeOK, Faults
  <2>7. CASE r # NULL /\ ~(s # d /\ q.value = NULL /\ ss > 0)
    <3>1. ConcatInto(d, s, r, sd, ss)
      BY <2>3, <2>7
    <3> QED
      BY <1>1, <2>1, <2>2, <2>4, <2>7, <3>1, TypeConcatInto DEF NULL
  <2> QED
    BY <2>5, <2>6, <2>7
<1> QED
  BY <1>2, <1>3, <1>4

(* A step of Next that changes the state is one of the operations.         *)
LEMMA NextCases ==
  ASSUME Next
  PROVE  /\ fault = "none"
         /\ \/ \E s \in Slots, n \in 0..MaxLen : StringTo(s, n)
            \/ \E s \in Slots, n \in 0..MaxLen : \E z \in 0..n : RawTo(s, n, z)
            \/ \E d, s \in Slots : Copy(d, s)
            \/ \E d, s \in Slots : Weak(d, s)
            \/ \E d, s \in Slots : Move(d, s)
            \/ \E d, s \in Slots : Concat(d, s)
            \/ \E s \in Slots : Destroy(s)
            \/ DynamicDestroy
  BY DEF Next

LEMMA TypeStep ==
  ASSUME TypeOK, [Next]_vars
  PROVE  TypeOK'
<1>1. CASE Next
  BY <1>1, NextCases, TypeStringTo, TypeRawTo, TypeCopy, TypeWeak, TypeMove,
     TypeConcat, TypeDestroy, TypeDynamicDestroy
<1>2. CASE UNCHANGED vars
  BY <1>2 DEF TypeOK, vars
<1> QED
  BY <1>1, <1>2

(* Every reachable state of the dynamic property model is typed, whatever  *)
(* the slots, the heap size, MaxLen and the build.                         *)
THEOREM DynTypeCorrect == Spec => []TypeOK
<1>1. Init => TypeOK
  BY TypeInit
<1>2. TypeOK /\ [Next]_vars => TypeOK'
  BY TypeStep
<1> QED
  BY <1>1, <1>2, PTL DEF Spec

-----------------------------------------------------------------------------
(* Ownership.  The lemmas below take a step from a state of OwnInv to a    *)
(* typed state and show the rest of OwnInv there.                          *)
OwnRest == NoDoubleFree /\ SlotsIdle /\ OwnersAllocated /\ OwnersDistinct

(* A step that puts a new owner of a fresh block (or of NULL) in slot d.   *)
LEMMA OwnNewOwner ==
  ASSUME OwnInv, TypeOK', NEW d \in Slots, d \notin inuse,
         NEW r \in FreeBlocks \cup {NULL},
         inuse' = inuse \cup {d},
         \A t \in Slots \ {d} : prop'[t] = prop[t],
         prop'[d].owner, prop'[d].value = r,
         r \in Blocks => cap'[r] > 0,
         \A b \in Blocks \ {r} : cap'[b] = cap[b],
         fault' = fault
  PROVE  OwnRest'
<1>1. NoDoubleFree'
  BY DEF OwnInv, NoDoubleFree
<1>2. SlotsIdle'
  BY DEF OwnInv, SlotsIdle
<1>3. \A t \in inuse : prop[t].owner /\ prop[t].value \in Blocks => prop[t].value # r
  BY DEF OwnInv, OwnersAllocated, FreeBlocks, NULL, Blocks
<1>4. OwnersAllocated'
  <2> SUFFICES ASSUME NEW t \in inuse', prop'[t].owner
               PROVE  \/ prop'[t].value = NULL
                      \/ prop'[t].value \in Blocks /\ cap'[prop'[t].value] > 0
    BY DEF OwnersAllocated
  <2>1. CASE t = d
    BY <2>1 DEF FreeBlocks
  <2>2. CASE t # d
    <3>1. t \in inuse /\ prop'[t] = prop[t]
      BY <2>2 DEF OwnInv, TypeOK
    <3>2. prop[t].value = NULL \/ (prop[t].value \in Blocks /\ cap[prop[t].value] > 0)
      BY <3>1 DEF OwnInv, OwnersAllocated
    <3> QED
      BY <3>1, <3>2, <1>3
  <2> QED
    BY <2>1, <2>2
<1>5. OwnersDistinct'
  <2> SUFFICES ASSUME NEW t \in inuse', NEW u \in inuse', t # u,
                      prop'[t].owner, prop'[u].owner, prop'[t].value \in Blocks
               PROVE  prop'[t].value # prop'[u].value
    BY DEF OwnersDistinct
  <2>1. CASE t = d
    <3>1. u \in inuse /\ prop'[u] = prop[u]
      BY <2>1 DEF OwnInv, TypeOK
    <3> QED
      BY <2>1, <3>1, <1>3
  <2>2. CASE u = d
    <3>1. t \in inuse /\ prop'[t] = prop[t]
      BY <2>2 DEF OwnInv, TypeOK
    <3> QED
      BY <2>2, <3>1, <1>3
  <2>3. CASE t # d /\ u # d
    <3>1. t \in inuse /\ u \in inuse /\ prop'[t] = prop[t] /\ prop'[u] = prop[u]
      BY <2>3 DEF OwnInv, TypeOK
    <3> QED
      BY <3>1 DEF OwnInv, OwnersDistinct
  <2> QED
    BY <2>1, <2>2, <2>3
<1> QED
  BY <1>1, <1>2, <1>4, <1>5 DEF OwnRest

(* A step that puts a property owning nothing in slot d.                   *)
LEMMA OwnNewAlias ==
  ASSUME OwnInv, NEW d \in Slots, d \notin inuse,
         inuse' = inuse \cup {d},
         \A t \in Slots \ {d} : prop'[t] = prop[t],
         ~prop'[d].owner,
         cap' = cap,
         fault' # "double_free"
  PROVE  OwnRest'
<1>1. \A t \in inuse : t # d /\ prop'[t] = prop[t]
  BY DEF OwnInv, TypeOK
<1>2. NoDoubleFree' /\ SlotsIdle'
  BY DEF OwnInv, NoDoubleFree, SlotsIdle
<1>3. OwnersAllocated'
  BY <1>1 DEF OwnInv, OwnersAllocated
<1>4. OwnersDistinct'
  BY <1>1 DEF OwnInv, OwnersDistinct
<1> QED
  BY <1>2, <1>3, <1>4 DEF OwnRest

LEMMA OwnStringTo ==
  ASSUME OwnInv, TypeOK', ~StaticBuf, NEW s \in Slots, NEW n \in 0..MaxLen, StringTo(s, n)
  PROVE  OwnRest'
<1>1. PICK r \in StrndupResults(n) :
         /\ prop' = [prop EXCEPT ![s] =
                       [value |-> r, size |-> n, owner |-> TRUE, raw |-> FALSE]]
         /\ Allocated(r, n + 1, n)
  BY DEF StringTo
<1>2. r \in FreeBlocks \cup {NULL}
  BY DEF StrndupResults, AllocResults
<1>3. /\ r \in Blocks => cap'[r] > 0
      /\ \A b \in Blocks \ {r} : cap'[b] = cap[b]
  BY <1>1, <1>2, MaxLenAssumption DEF Allocated, OwnInv, TypeOK, NULL, Blocks
<1>4. /\ s \notin inuse
      /\ inuse' = inuse \cup {s}
      /\ \A t \in Slots \ {s} : prop'[t] = prop[t]
      /\ prop'[s].owner /\ prop'[s].value = r
      /\ fault' = fault
  BY <1>1 DEF StringTo, OwnInv, TypeOK
<1> QED
  BY <1>2, <1>3, <1>4, OwnNewOwner

LEMMA OwnRawTo ==
  ASSUME OwnInv, TypeOK', ~StaticBuf, NEW s \in Slots, NEW n \in 0..MaxLen,
         NEW z \in 0..n, RawTo(s, n, z)
  PROVE  OwnRest'
<1>1. PICK r \in StrndupResults(n) :
         /\ prop' = [prop EXCEPT ![s] =
                       [value |-> r, size |-> n, owner |-> TRUE, raw |-> TRUE]]
         /\ Allocated(r, StrndupBytes(n, z), z)
  BY DEF RawTo
<1>2. r \in FreeBlocks \cup {NULL}
  BY DEF StrndupResults, AllocResults
<1>a. StrndupBytes(n, z) \in 1..MaxLen + 1
  BY StrndupBytesRange
<1>3. /\ r \in Blocks => cap'[r] > 0
      /\ \A b \in Blocks \ {r} : cap'[b] = cap[b]
  BY <1>1, <1>2, <1>a, MaxLenAssumption DEF Allocated, OwnInv, TypeOK, NULL, Blocks
<1>4. /\ s \notin inuse
      /\ inuse' = inuse \cup {s}
      /\ \A t \in Slots \ {s} : prop'[t] = prop[t]
      /\ prop'[s].owner /\ prop'[s].value = r
      /\ fault' = fault
  BY <1>1 DEF RawTo, OwnInv, TypeOK
<1> QED
  BY <1>2, <1>3, <1>4, OwnNewOwner

LEMMA OwnWeak ==
  ASSUME OwnInv, NEW d \in Slots, NEW s \in Slots, Weak(d, s)
  PROVE  OwnRest'
<1>1. /\ d \notin inuse
      /\ inuse' = inuse \cup {d}
      /\ \A t \in Slots \ {d} : prop'[t] = prop[t]
      /\ ~prop'[d].owner
      /\ cap' = cap
      /\ fault' # "double_free"
  BY DEF Weak, OwnInv, TypeOK, NoDoubleFree
<1> QED
  BY <1>1, OwnNewAlias

LEMMA OwnCopy ==
  ASSUME OwnInv, TypeOK', ~StaticBuf, NEW d \in Slots, NEW s \in Slots, Copy(d, s)
  PROVE  OwnRest'
<1> DEFINE p == prop[s]
<1>1. d \notin inuse /\ inuse' = inuse \cup {d}
  BY DEF Copy
<1>2. CASE ~p.owner
  <2>1. /\ \A t \in Slots \ {d} : prop'[t] = prop[t]
        /\ ~prop'[d].owner
        /\ cap' = cap /\ fault' # "double_free"
    BY <1>2 DEF Copy, OwnInv, TypeOK, NoDoubleFree
  <2> QED
    BY <1>1, <2>1, OwnNewAlias
<1>3. CASE p.owner /\ ReadsNull(p)
  <2>1. /\ prop' = prop /\ cap' = cap /\ fault' = "null_read"
    BY <1>3 DEF Copy
  <2>2. prop[d] = Empty
    BY <1>1 DEF OwnInv, SlotsIdle
  <2> QED
    BY <1>1, <2>1, <2>2, OwnNewAlias DEF Empty
<1>4. CASE p.owner /\ ~ReadsNull(p)
  <2> DEFINE n == IF p.raw THEN p.size ELSE slen[p.value]
             len == IF p.value = NULL THEN 0 ELSE slen[p.value]
  <2>1. PICK r \in StrndupResults(n) :
              /\ prop' = [prop EXCEPT ![d] =
                           [value |-> r, size |-> p.size, owner |-> TRUE, raw |-> FALSE]]
              /\ Allocated(r, StrndupBytes(n, MinOf(len, n)), len)
              /\ UNCHANGED fault
    BY <1>4 DEF Copy
  <2>2. r \in FreeBlocks \cup {NULL}
    BY DEF StrndupResults, AllocResults
  <2>3. n \in Nat
    BY <1>4, MaxLenAssumption DEF OwnInv, TypeOK, Prop, Pointers, NULL, DANGLING, Blocks, Copy, Valid, ReadsNull
  <2>a. /\ n \in 0..MaxLen
        /\ len \in 0..MaxLen
    BY <1>4, MaxLenAssumption DEF OwnInv, TypeOK, Prop, Pointers, NULL, DANGLING, Blocks, Copy, Valid, ReadsNull
  <2>b. StrndupBytes(n, MinOf(len, n)) \in 1..MaxLen + 1
    BY <2>a, StrndupBytesRange DEF MinOf
  <2>4. /\ r \in Blocks => cap'[r] > 0
        /\ \A b \in Blocks \ {r} : cap'[b] = cap[b]
    BY <2>1, <2>2, <2>b DEF Allocated, OwnInv, TypeOK, NULL, Blocks
  <2>5. /\ \A t \in Slots \ {d} : prop'[t] = prop[t]
        /\ prop'[d].owner /\ prop'[d].value = r
    BY <2>1 DEF OwnInv, TypeOK
  <2> QED
    BY <1>1, <2>1, <2>2, <2>4, <2>5, OwnNewOwner
<1> QED
  BY <1>2, <1>3, <1>4

LEMMA OwnMove ==
  ASSUME OwnInv, NEW d \in Slots, NEW s \in Slots, Move(d, s)
  PROVE  OwnRest'
<1>1. /\ d \notin inuse /\ s \in inuse /\ d # s
      /\ inuse' = inuse \cup {d}
      /\ UNCHANGED <<cap, fault>>
  BY DEF Move, Valid
<1>2. /\ prop'[d].value = prop[s].value /\ prop'[d].owner = prop[s].owner
      /\ ~prop'[s].owner /\ prop'[s].value = prop[s].value
      /\ \A t \in Slots \ {d, s} : prop'[t] = prop[t]
  BY <1>1 DEF Move, OwnInv, TypeOK
<1>3. NoDoubleFree' /\ SlotsIdle'
  BY <1>1, <1>2 DEF OwnInv, NoDoubleFree, SlotsIdle
<1>4. OwnersAllocated'
  <2> SUFFICES ASSUME NEW t \in inuse', prop'[t].owner
               PROVE  \/ prop'[t].value = NULL
                      \/ prop'[t].value \in Blocks /\ cap'[prop'[t].value] > 0
    BY DEF OwnersAllocated
  <2>1. CASE t = d
    BY <1>1, <1>2, <2>1 DEF OwnInv, OwnersAllocated
  <2>2. CASE t # d
    <3>1. t \in inuse /\ t \in Slots /\ t # s
      BY <1>1, <1>2, <2>2 DEF OwnInv, TypeOK
    <3> QED
      BY <1>1, <1>2, <3>1 DEF OwnInv, OwnersAllocated
  <2> QED
    BY <2>1, <2>2
<1>5. OwnersDistinct'
  <2> SUFFICES ASSUME NEW t \in inuse', NEW u \in inuse', t # u,
                      prop'[t].owner, prop'[u].owner, prop'[t].value \in Blocks
               PROVE  prop'[t].value # prop'[u].value
    BY DEF OwnersDistinct
  <2>1. t # s /\ u # s
    BY <1>2
  <2>2. CASE t = d
    BY <1>1, <1>2, <2>1, <2>2 DEF OwnInv, OwnersDistinct, TypeOK
  <2>3. CASE u = d
    BY <1>1, <1>2, <2>1, <2>3 DEF OwnInv, OwnersDistinct, TypeOK
  <2>4. CASE t # d /\ u # d
    BY <1>1, <1>2, <2>1, <2>4 DEF OwnInv, OwnersDistinct, TypeOK
  <2> QED
    BY <2>2, <2>3, <2>4
<1> QED
  BY <1>3, <1>4, <1>5 DEF OwnRest

(* Freeing block b touches only the slots pointing at b, and no flag.      *)
LEMMA DangleAt ==
  ASSUME NEW p \in [Slots -> Prop], NEW b, NEW t \in Slots
  PROVE  /\ Dangle(p, b)[t].owner = p[t].owner
         /\ p[t].value # b => Dangle(p, b)[t] = p[t]
  BY DEF Dangle, Prop

(* What dynmc_destroy of an owner leaves alone: every other slot's flags, *)
(* and the whole of every other owner and of every unused slot.           *)
LEMMA DestroyFrame ==
  ASSUME OwnInv, NEW s \in Slots, Destroy(s), prop[s].owner, prop[s].value \in Blocks
  PROVE  \A t \in Slots \ {s} :
           /\ prop'[t].owner = prop[t].owner
           /\ (prop[t].owner \/ t \notin inuse) => prop'[t] = prop[t]
<1> DEFINE v == prop[s].value
<1> SUFFICES ASSUME NEW t \in Slots \ {s}
             PROVE  /\ prop'[t].owner = prop[t].owner
                    /\ (prop[t].owner \/ t \notin inuse) => prop'[t] = prop[t]
  OBVIOUS
<1>1. s \in inuse /\ prop' = [Dangle(prop, v) EXCEPT ![s] = Empty]
  BY DEF Destroy, Blocks, DANGLING
<1>2. prop'[t] = Dangle(prop, v)[t]
  BY <1>1 DEF Dangle
<1>3. (prop[t].owner /\ t \in inuse) => prop[t].value # v
  BY <1>1 DEF OwnInv, OwnersDistinct
<1>4. t \notin inuse => prop[t].value # v
  BY DEF OwnInv, SlotsIdle, Empty, NULL, Blocks
<1> QED
  BY <1>2, <1>3, <1>4, DangleAt DEF OwnInv, TypeOK

LEMMA OwnDestroy ==
  ASSUME OwnInv, NEW s \in Slots, Destroy(s)
  PROVE  OwnRest'
<1> DEFINE v == prop[s].value
<1>1. s \in inuse /\ inuse' = inuse \ {s}
  BY DEF Destroy
<1>2. ~(prop[s].owner /\ v = DANGLING)
  BY <1>1 DEF OwnInv, OwnersAllocated, NULL, DANGLING, Blocks
<1>3. CASE prop[s].owner /\ v \in Blocks
  <2>1. /\ prop' = [Dangle(prop, v) EXCEPT ![s] = Empty]
        /\ cap' = [cap EXCEPT ![v] = 0]
        /\ UNCHANGED fault
    BY <1>2, <1>3 DEF Destroy
  <2>2. \A t \in Slots \ {s} :
          /\ prop'[t].owner = prop[t].owner
          /\ (prop[t].owner \/ t \notin inuse) => prop'[t] = prop[t]
    BY <1>3, DestroyFrame
  <2>3. \A t \in inuse' : prop'[t].owner => prop[t].value # v
    BY <1>1, <1>3, <2>2 DEF OwnInv, OwnersDistinct, TypeOK
  <2>4. prop'[s] = Empty
    BY <2>1 DEF OwnInv, TypeOK, Dangle
  <2>5. NoDoubleFree' /\ SlotsIdle'
    BY <1>1, <2>1, <2>2, <2>4 DEF OwnInv, NoDoubleFree, SlotsIdle, TypeOK
  <2>6. OwnersAllocated'
    BY <1>1, <2>1, <2>2, <2>3 DEF OwnInv, OwnersAllocated, TypeOK
  <2>7. OwnersDistinct'
    BY <1>1, <2>2 DEF OwnInv, OwnersDistinct, TypeOK
  <2> QED
    BY <2>5, <2>6, <2>7 DEF OwnRest
<1>4. CASE ~(prop[s].owner /\ v \in Blocks)
  <2>1. /\ prop' = [prop EXCEPT ![s] = Empty]
        /\ UNCHANGED <<cap, fault>>
    BY <1>2, <1>4 DEF Destroy
  <2> QED
    BY <1>1, <2>1 DEF OwnRest, OwnInv, TypeOK, NoDoubleFree, SlotsIdle, OwnersAllocated,
       OwnersDistinct, Empty
<1> QED
  BY <1>3, <1>4

LEMMA OwnDynamicDestroy ==
  ASSUME OwnInv, ~StaticBuf, DynamicDestroy
  PROVE  OwnRest'
  BY DEF DynamicDestroy, vars, OwnRest, OwnInv, NoDoubleFree, SlotsIdle, OwnersAllocated,
     OwnersDistinct

(* realloc returned a block: either dst's own or a free one.               *)
(* What dynmc_concat leaves alone when realloc returns r: every other    *)
(* slot's flags, the whole of every other owner and unused slot, whose     *)
(* blocks are neither dst's old one nor r; dst owns r.                     *)
LEMMA ConcatIntoFrame ==
  ASSUME OwnInv, NEW d \in inuse, NEW s \in Slots, prop[d].owner,
         NEW r \in Blocks, r \in FreeBlocks \cup {prop[d].value},
         NEW sd \in 0..MaxLen, NEW ss \in 0..MaxLen,
         ConcatInto(d, s, r, sd, ss)
  PROVE  /\ \A t \in inuse \ {d} : prop[t].owner /\ prop[t].value \in Blocks =>
              prop[t].value # prop[d].value /\ prop[t].value # r
         /\ \A t \in Slots \ {d} :
              /\ prop'[t].owner = prop[t].owner
              /\ (prop[t].owner \/ t \notin inuse) => prop'[t] = prop[t]
         /\ prop'[d].owner /\ prop'[d].value = r
<1> DEFINE v == prop[d].value
           R == Realloced(prop, v, r)
<1>1. PICK pre \in Prefix(v, sd) :
         /\ prop' = [R EXCEPT ![d].value = r, ![d].size = Grown(prop[d].size, ss)]
         /\ cap' = [b \in Blocks |-> IF b = r THEN ReallocBytes(sd, ss)
                                     ELSE IF b = v THEN 0 ELSE cap[b]]
         /\ UNCHANGED <<inuse, fault>>
  BY DEF ConcatInto
<1>0. R \in [Slots -> Prop]
  BY DangleType DEF Realloced, OwnInv, TypeOK
<1>2. \A t \in inuse \ {d} : prop[t].owner /\ prop[t].value \in Blocks =>
          prop[t].value # v /\ prop[t].value # r
  <2> SUFFICES ASSUME NEW t \in inuse \ {d}, prop[t].owner, prop[t].value \in Blocks
               PROVE  prop[t].value # v /\ prop[t].value # r
    OBVIOUS
  <2>1. prop[t].value # v
    BY DEF OwnInv, OwnersDistinct
  <2>2. cap[prop[t].value] > 0
    BY DEF OwnInv, OwnersAllocated, NULL, Blocks
  <2>3. r \in FreeBlocks => cap[r] = 0
    BY DEF FreeBlocks
  <2> QED
    BY <2>1, <2>2, <2>3
<1>3. \A t \in Slots \ {d} :
          /\ prop'[t].owner = prop[t].owner
          /\ (prop[t].owner \/ t \notin inuse) => prop'[t] = prop[t]
  <2> SUFFICES ASSUME NEW t \in Slots \ {d}
               PROVE  /\ prop'[t].owner = prop[t].owner
                      /\ (prop[t].owner \/ t \notin inuse) => prop'[t] = prop[t]
    OBVIOUS
  <2>1. R \in [Slots -> Prop] /\ prop'[t] = R[t]
    BY <1>1, DangleType DEF Realloced, OwnInv, TypeOK
  <2>2. CASE r = v \/ v \notin Blocks
    BY <2>1, <2>2 DEF Realloced
  <2>3. CASE ~(r = v \/ v \notin Blocks)
    <3>1. R = Dangle(prop, v)
      BY <2>3 DEF Realloced
    <3>2. (prop[t].owner /\ t \in inuse) => prop[t].value # v
      BY <1>2, <2>3 DEF OwnInv, OwnersAllocated, NULL, Blocks
    <3>3. t \notin inuse => prop[t].value # v
      BY <2>3 DEF OwnInv, SlotsIdle, Empty, NULL, Blocks
    <3> QED
      BY <2>1, <3>1, <3>2, <3>3, DangleAt DEF OwnInv, TypeOK
  <2> QED
    BY <2>2, <2>3
<1>4. prop'[d].owner /\ prop'[d].value = r
  <2>1. R[d].owner = prop[d].owner
    BY <1>0, DangleAt DEF Realloced, OwnInv, TypeOK
  <2> QED
    BY <1>0, <1>1, <2>1 DEF Prop, OwnInv, TypeOK
<1> QED
  BY <1>2, <1>3, <1>4

LEMMA OwnConcatInto ==
  ASSUME OwnInv, NEW d \in inuse, NEW s \in Slots, prop[d].owner,
         NEW r \in Blocks, r \in FreeBlocks \cup {prop[d].value},
         NEW sd \in 0..MaxLen, NEW ss \in 0..MaxLen,
         ConcatInto(d, s, r, sd, ss)
  PROVE  OwnRest'
<1> DEFINE v == prop[d].value
           R == Realloced(prop, v, r)
<1>1. PICK pre \in Prefix(v, sd) :
         /\ prop' = [R EXCEPT ![d].value = r, ![d].size = Grown(prop[d].size, ss)]
         /\ cap' = [b \in Blocks |-> IF b = r THEN ReallocBytes(sd, ss)
                                     ELSE IF b = v THEN 0 ELSE cap[b]]
         /\ UNCHANGED <<inuse, fault>>
  BY DEF ConcatInto
<1>2. \A t \in inuse \ {d} : prop[t].owner /\ prop[t].value \in Blocks =>
          prop[t].value # v /\ prop[t].value # r
  BY ConcatIntoFrame
<1>3. \A t \in Slots \ {d} :
          /\ prop'[t].owner = prop[t].owner
          /\ (prop[t].owner \/ t \notin inuse) => prop'[t] = prop[t]
  BY ConcatIntoFrame
<1>4. prop'[d].owner /\ prop'[d].value = r
  BY ConcatIntoFrame
<1>5. cap'[r] > 0
  BY <1>1 DEF ReallocBytes
<1>6. \A t \in inuse \ {d} : prop[t].owner /\ prop[t].value \in Blocks =>
          cap'[prop[t].value] = cap[prop[t].value]
  BY <1>1, <1>2
<1>7. NoDoubleFree' /\ SlotsIdle'
  BY <1>1, <1>3 DEF OwnInv, NoDoubleFree, SlotsIdle
<1>8. OwnersAllocated'
  <2> SUFFICES ASSUME NEW t \in inuse', prop'[t].owner
               PROVE  \/ prop'[t].value = NULL
                      \/ prop'[t].value \in Blocks /\ cap'[prop'[t].value] > 0
    BY DEF OwnersAllocated
  <2>1. CASE t = d
    BY <1>4, <1>5, <2>1
  <2>2. CASE t # d
    <3>1. t \in inuse \ {d} /\ t \in Slots /\ prop'[t] = prop[t] /\ prop[t].owner
      BY <1>1, <1>3, <2>2 DEF OwnInv, TypeOK
    <3> QED
      BY <1>6, <3>1 DEF OwnInv, OwnersAllocated
  <2> QED
    BY <2>1, <2>2
<1>9. OwnersDistinct'
  <2> SUFFICES ASSUME NEW t \in inuse', NEW u \in inuse', t # u,
                      prop'[t].owner, prop'[u].owner, prop'[t].value \in Blocks
               PROVE  prop'[t].value # prop'[u].value
    BY DEF OwnersDistinct
  <2>1. CASE t = d
    <3>1. u \in inuse \ {d} /\ u \in Slots /\ prop'[u] = prop[u] /\ prop[u].owner
      BY <1>1, <1>3, <2>1 DEF OwnInv, TypeOK
    <3>2. prop[u].value \in Blocks => prop[u].value # r
      BY <1>2, <3>1
    <3> QED
      BY <1>4, <2>1, <3>1, <3>2 DEF NULL, Blocks
  <2>2. CASE u = d
    <3>1. t \in inuse \ {d} /\ t \in Slots /\ prop'[t] = prop[t] /\ prop[t].owner
      BY <1>1, <1>3, <2>2 DEF OwnInv, TypeOK
    <3> QED
      BY <1>2, <1>4, <2>2, <3>1
  <2>3. CASE t # d /\ u # d
    <3>1. /\ t \in inuse /\ t \in Slots /\ prop'[t] = prop[t] /\ prop[t].owner
          /\ u \in inuse /\ u \in Slots /\ prop'[u] = prop[u] /\ prop[u].owner
      BY <1>1, <1>3, <2>3 DEF OwnInv, TypeOK
    <3> QED
      BY <3>1 DEF OwnInv, OwnersDistinct
  <2> QED
    BY <2>1, <2>2, <2>3
<1> QED
  BY <1>7, <1>8, <1>9 DEF OwnRest

LEMMA OwnConcat ==
  ASSUME OwnInv, NEW d \in Slots, NEW s \in Slots, Concat(d, s)
  PROVE  OwnRest'
<1> DEFINE p == prop[d]
           q == prop[s]
           v == p.value
<1>1. d \in inuse
  BY DEF Concat, Valid
<1>2. CASE ~p.owner
  BY <1>2 DEF Concat, vars, OwnRest, OwnInv, NoDoubleFree, SlotsIdle, OwnersAllocated,
     OwnersDistinct
<1>3. CASE p.owner /\ ((v = NULL /\ ~p.raw) \/ (q.value = NULL /\ ~q.raw))
  BY <1>3 DEF Concat, OwnRest, OwnInv, NoDoubleFree, SlotsIdle, OwnersAllocated,
     OwnersDistinct
<1>4. CASE p.owner /\ ~((v = NULL /\ ~p.raw) \/ (q.value = NULL /\ ~q.raw))
  <2> DEFINE sd == ReadLen(p)
             ss == ReadLen(q)
  <2>1. sd \in 0..MaxLen /\ ss \in 0..MaxLen
    BY <1>4, MaxLenAssumption DEF Concat, Valid, ReadLen, OwnInv, TypeOK, Prop, Pointers,
       NULL, DANGLING, Blocks
  <2>2. PICK r \in ReallocResults(v) :
             IF r = NULL
             THEN ConcatFailed(d)
             ELSE IF s # d /\ q.value = NULL /\ ss > 0
             THEN /\ fault' = "null_read"
                  /\ UNCHANGED <<prop, inuse, cap, slen>>
             ELSE ConcatInto(d, s, r, sd, ss)
    BY <1>4 DEF Concat
  <2>3. CASE r = NULL
    <3>1. prop' = [prop EXCEPT ![d].value = NULL] /\ UNCHANGED <<inuse, cap, fault>>
      BY <2>2, <2>3 DEF ConcatFailed
    <3>2. \A t \in Slots \ {d} : prop'[t] = prop[t]
      BY <3>1 DEF OwnInv, TypeOK
    <3>3. prop'[d].value = NULL /\ prop'[d].owner = prop[d].owner
      BY <1>1, <3>1 DEF OwnInv, TypeOK
    <3>4. NoDoubleFree' /\ SlotsIdle'
      BY <1>1, <3>1, <3>2 DEF OwnInv, NoDoubleFree, SlotsIdle
    <3>5. OwnersAllocated'
      BY <1>1, <3>1, <3>2, <3>3 DEF OwnInv, OwnersAllocated, TypeOK
    <3>6. OwnersDistinct'
      BY <1>1, <3>1, <3>2, <3>3 DEF OwnInv, OwnersDistinct, TypeOK, NULL, Blocks
    <3> QED
      BY <3>4, <3>5, <3>6 DEF OwnRest
  <2>4. CASE r # NULL /\ s # d /\ q.value = NULL /\ ss > 0
    BY <2>2, <2>4 DEF OwnRest, OwnInv, NoDoubleFree, SlotsIdle, OwnersAllocated,
       OwnersDistinct
  <2>5. CASE r # NULL /\ ~(s # d /\ q.value = NULL /\ ss > 0)
    <3>1. ConcatInto(d, s, r, sd, ss)
      BY <2>2, <2>5
    <3>2. r \in Blocks /\ r \in FreeBlocks \cup {v}
      BY <2>5 DEF ReallocResults, AllocResults, FreeBlocks
    <3> QED
      BY <1>1, <1>4, <2>1, <3>1, <3>2, OwnConcatInto
  <2> QED
    BY <2>3, <2>4, <2>5
<1> QED
  BY <1>2, <1>3, <1>4

LEMMA OwnInit == Init => OwnInv
<1> SUFFICES ASSUME Init PROVE OwnInv
  OBVIOUS
<1>1. TypeOK
  BY TypeInit
<1> QED
  BY <1>1 DEF Init, OwnInv, NoDoubleFree, SlotsIdle, OwnersAllocated, OwnersDistinct

LEMMA OwnStep ==
  ASSUME ~StaticBuf, OwnInv, [Next]_vars
  PROVE  OwnInv'
<1>1. TypeOK'
  BY TypeStep DEF OwnInv
<1>2. CASE Next
  <2>1. OwnRest'
    BY <1>1, <1>2, NextCases, OwnStringTo, OwnRawTo, OwnCopy, OwnWeak, OwnMove,
       OwnConcat, OwnDestroy, OwnDynamicDestroy
  <2> QED
    BY <1>1, <2>1 DEF OwnInv, OwnRest
<1>3. CASE UNCHANGED vars
  BY <1>3 DEF vars, OwnInv, TypeOK, NoDoubleFree, SlotsIdle, OwnersAllocated,
     OwnersDistinct
<1> QED
  BY <1>2, <1>3

(* Outside the STATIC_DYNAMIC_PROPERTY build, and whether or not           *)
(* allocation can fail, ownership stays exact in every reachable state:    *)
(* owners in use hold NULL or an allocated block, and no two share one.    *)
THEOREM OwnershipExact == ~StaticBuf => (Spec => []OwnInv)
<1> SUFFICES ASSUME ~StaticBuf PROVE Spec => []OwnInv
  OBVIOUS
<1>1. Init => OwnInv
  BY OwnInit
<1>2. OwnInv /\ [Next]_vars => OwnInv'
  BY OwnStep
<1> QED
  BY <1>1, <1>2, PTL DEF Spec

(* So dynmc_destroy never frees a buffer twice, through any sequence of    *)
(* copy, weak, move, concat and destroy, for any number of properties and  *)
(* any heap: the property the dyn_raw run checks on three slots.           *)
THEOREM NoDoubleFreeProved == ~StaticBuf => (Spec => []NoDoubleFree)
<1>1. OwnInv => NoDoubleFree
  BY DEF OwnInv
<1> QED
  BY <1>1, OwnershipExact, PTL

-----------------------------------------------------------------------------
(* No leak.  Without allocation failure every owner holds a block and     *)
(* every allocated block has an owner; the lemmas take a step from         *)
(* LeakInv to a state where OwnInv is already known.                       *)
LeakRest == OwnersHoldBlocks /\ NoLeak

(* Without allocation failure the allocator hands out only free blocks.   *)
LEMMA FreshBlock ==
  ASSUME ~StaticBuf, ~OOM, NEW n
  PROVE  StrndupResults(n) = FreeBlocks
  BY DEF StrndupResults, AllocResults

(* A step that puts a new owner of a fresh block in slot d.                *)
LEMMA LeakNewOwner ==
  ASSUME LeakInv, NEW d \in Slots, d \notin inuse, NEW r \in FreeBlocks,
         inuse' = inuse \cup {d},
         \A t \in Slots \ {d} : prop'[t] = prop[t],
         prop'[d].owner, prop'[d].value = r,
         \A b \in Blocks \ {r} : cap'[b] = cap[b]
  PROVE  LeakRest'
<1>1. OwnersHoldBlocks'
  BY DEF LeakInv, OwnInv, TypeOK, OwnersHoldBlocks, FreeBlocks
<1>2. NoLeak'
  <2> SUFFICES ASSUME NEW b \in Blocks, cap'[b] > 0
               PROVE  \E t \in inuse' : prop'[t].owner /\ prop'[t].value = b
    BY DEF NoLeak
  <2>1. CASE b = r
    BY <2>1
  <2>2. CASE b # r
    <3>1. PICK t \in inuse : prop[t].owner /\ prop[t].value = b
      BY <2>2 DEF LeakInv, NoLeak
    <3>2. t # d /\ t \in Slots
      BY DEF LeakInv, OwnInv, TypeOK
    <3> QED
      BY <3>1, <3>2
  <2> QED
    BY <2>1, <2>2
<1> QED
  BY <1>1, <1>2 DEF LeakRest

(* A step that adds a non-owner in slot d and leaves owners and the heap.  *)
LEMMA LeakNewAlias ==
  ASSUME LeakInv, NEW d \in Slots, d \notin inuse,
         inuse' = inuse \cup {d},
         \A t \in Slots \ {d} : prop'[t] = prop[t],
         ~prop'[d].owner,
         cap' = cap
  PROVE  LeakRest'
<1>1. \A t \in inuse : t # d /\ prop'[t] = prop[t]
  BY DEF LeakInv, OwnInv, TypeOK
<1> QED
  BY <1>1 DEF LeakRest, LeakInv, OwnersHoldBlocks, NoLeak

LEMMA LeakStringTo ==
  ASSUME LeakInv, ~StaticBuf, ~OOM, NEW s \in Slots, NEW n \in 0..MaxLen, StringTo(s, n)
  PROVE  LeakRest'
<1>1. PICK r \in FreeBlocks :
         /\ prop' = [prop EXCEPT ![s] =
                       [value |-> r, size |-> n, owner |-> TRUE, raw |-> FALSE]]
         /\ Allocated(r, n + 1, n)
  BY FreshBlock DEF StringTo
<1>2. /\ s \notin inuse /\ inuse' = inuse \cup {s}
      /\ \A t \in Slots \ {s} : prop'[t] = prop[t]
      /\ prop'[s].owner /\ prop'[s].value = r
      /\ \A b \in Blocks \ {r} : cap'[b] = cap[b]
  BY <1>1 DEF StringTo, Allocated, LeakInv, OwnInv, TypeOK, FreeBlocks, NULL, Blocks
<1> QED
  BY <1>2, LeakNewOwner

LEMMA LeakRawTo ==
  ASSUME LeakInv, ~StaticBuf, ~OOM, NEW s \in Slots, NEW n \in 0..MaxLen,
         NEW z \in 0..n, RawTo(s, n, z)
  PROVE  LeakRest'
<1>1. PICK r \in FreeBlocks :
         /\ prop' = [prop EXCEPT ![s] =
                       [value |-> r, size |-> n, owner |-> TRUE, raw |-> TRUE]]
         /\ Allocated(r, StrndupBytes(n, z), z)
  BY FreshBlock DEF RawTo
<1>2. /\ s \notin inuse /\ inuse' = inuse \cup {s}
      /\ \A t \in Slots \ {s} : prop'[t] = prop[t]
      /\ prop'[s].owner /\ prop'[s].value = r
      /\ \A b \in Blocks \ {r} : cap'[b] = cap[b]
  BY <1>1 DEF RawTo, Allocated, LeakInv, OwnInv, TypeOK, FreeBlocks, NULL, Blocks
<1> QED
  BY <1>2, LeakNewOwner

LEMMA LeakWeak ==
  ASSUME LeakInv, NEW d \in Slots, NEW s \in Slots, Weak(d, s)
  PROVE  LeakRest'
<1>1. /\ d \notin inuse /\ inuse' = inuse \cup {d}
      /\ \A t \in Slots \ {d} : prop'[t] = prop[t]
      /\ ~prop'[d].owner /\ cap' = cap
  BY DEF Weak, LeakInv, OwnInv, TypeOK
<1> QED
  BY <1>1, LeakNewAlias

LEMMA LeakCopy ==
  ASSUME LeakInv, ~StaticBuf, ~OOM, NEW d \in Slots, NEW s \in Slots, Copy(d, s)
  PROVE  LeakRest'
<1> DEFINE p == prop[s]
<1>1. d \notin inuse /\ inuse' = inuse \cup {d}
  BY DEF Copy
<1>2. CASE ~p.owner
  <2>1. /\ \A t \in Slots \ {d} : prop'[t] = prop[t]
        /\ ~prop'[d].owner /\ cap' = cap
    BY <1>2 DEF Copy, LeakInv, OwnInv, TypeOK
  <2> QED
    BY <1>1, <2>1, LeakNewAlias
<1>3. CASE p.owner /\ ReadsNull(p)
  <2>1. prop' = prop /\ cap' = cap
    BY <1>3 DEF Copy
  <2>2. prop[d] = Empty
    BY <1>1 DEF LeakInv, OwnInv, SlotsIdle
  <2> QED
    BY <1>1, <2>1, <2>2, LeakNewAlias DEF Empty
<1>4. CASE p.owner /\ ~ReadsNull(p)
  <2> DEFINE n == IF p.raw THEN p.size ELSE slen[p.value]
             len == IF p.value = NULL THEN 0 ELSE slen[p.value]
  <2>1. PICK r \in FreeBlocks :
              /\ prop' = [prop EXCEPT ![d] =
                           [value |-> r, size |-> p.size, owner |-> TRUE, raw |-> FALSE]]
              /\ Allocated(r, StrndupBytes(n, MinOf(len, n)), len)
    BY <1>4, FreshBlock DEF Copy
  <2>2. /\ \A t \in Slots \ {d} : prop'[t] = prop[t]
        /\ prop'[d].owner /\ prop'[d].value = r
        /\ \A b \in Blocks \ {r} : cap'[b] = cap[b]
    BY <2>1 DEF Allocated, LeakInv, OwnInv, TypeOK, FreeBlocks, NULL, Blocks
  <2> QED
    BY <1>1, <2>2, LeakNewOwner
<1> QED
  BY <1>2, <1>3, <1>4

LEMMA LeakMove ==
  ASSUME LeakInv, NEW d \in Slots, NEW s \in Slots, Move(d, s)
  PROVE  LeakRest'
<1>1. /\ d \notin inuse /\ s \in inuse /\ d # s
      /\ inuse' = inuse \cup {d}
      /\ cap' = cap
  BY DEF Move, Valid
<1>2. /\ prop'[d].value = prop[s].value /\ prop'[d].owner = prop[s].owner
      /\ ~prop'[s].owner
      /\ \A t \in Slots \ {d, s} : prop'[t] = prop[t]
  BY <1>1 DEF Move, LeakInv, OwnInv, TypeOK
<1>3. OwnersHoldBlocks'
  BY <1>1, <1>2 DEF LeakInv, OwnersHoldBlocks, OwnInv, TypeOK
<1>4. NoLeak'
  <2> SUFFICES ASSUME NEW b \in Blocks, cap'[b] > 0
               PROVE  \E t \in inuse' : prop'[t].owner /\ prop'[t].value = b
    BY DEF NoLeak
  <2>1. PICK t \in inuse : prop[t].owner /\ prop[t].value = b
    BY <1>1 DEF LeakInv, NoLeak
  <2>2. CASE t = s
    BY <1>1, <1>2, <2>1, <2>2
  <2>3. CASE t # s
    BY <1>1, <1>2, <2>1, <2>3 DEF LeakInv, OwnInv, TypeOK
  <2> QED
    BY <2>2, <2>3
<1> QED
  BY <1>3, <1>4 DEF LeakRest

LEMMA LeakDestroy ==
  ASSUME LeakInv, NEW s \in Slots, Destroy(s)
  PROVE  LeakRest'
<1> DEFINE v == prop[s].value
<1>1. s \in inuse /\ inuse' = inuse \ {s}
  BY DEF Destroy
<1>2. prop[s].owner => v \in Blocks
  BY <1>1 DEF LeakInv, OwnersHoldBlocks
<1>3. CASE prop[s].owner
  <2>1. /\ \A t \in Slots \ {s} :
             /\ prop'[t].owner = prop[t].owner
             /\ (prop[t].owner \/ t \notin inuse) => prop'[t] = prop[t]
    BY <1>2, <1>3, DestroyFrame DEF LeakInv
  <2>2. cap' = [cap EXCEPT ![v] = 0]
    BY <1>2, <1>3 DEF Destroy, Blocks, DANGLING
  <2>3. OwnersHoldBlocks'
    BY <1>1, <2>1 DEF LeakInv, OwnersHoldBlocks, OwnInv, TypeOK
  <2>4. NoLeak'
    <3> SUFFICES ASSUME NEW b \in Blocks, cap'[b] > 0
                 PROVE  \E t \in inuse' : prop'[t].owner /\ prop'[t].value = b
      BY DEF NoLeak
    <3>1. b # v /\ cap[b] > 0
      BY <2>2 DEF LeakInv, OwnInv, TypeOK
    <3>2. PICK t \in inuse : prop[t].owner /\ prop[t].value = b
      BY <3>1 DEF LeakInv, NoLeak
    <3>3. t # s /\ t \in Slots
      BY <3>1, <3>2 DEF LeakInv, OwnInv, TypeOK
    <3> QED
      BY <1>1, <2>1, <3>2, <3>3
  <2> QED
    BY <2>3, <2>4 DEF LeakRest
<1>4. CASE ~prop[s].owner
  <2>1. prop' = [prop EXCEPT ![s] = Empty] /\ cap' = cap
    BY <1>4 DEF Destroy
  <2>2. \A t \in inuse' : prop'[t] = prop[t]
    BY <1>1, <2>1 DEF LeakInv, OwnInv, TypeOK
  <2>3. \A t \in inuse : prop[t].owner => t \in inuse'
    BY <1>1, <1>4
  <2>4. OwnersHoldBlocks'
    BY <1>1, <2>2 DEF LeakInv, OwnersHoldBlocks
  <2>5. NoLeak'
    <3> SUFFICES ASSUME NEW b \in Blocks, cap'[b] > 0
                 PROVE  \E t \in inuse' : prop'[t].owner /\ prop'[t].value = b
      BY DEF NoLeak
    <3>1. PICK t \in inuse : prop[t].owner /\ prop[t].value = b
      BY <2>1 DEF LeakInv, NoLeak
    <3> QED
      BY <2>2, <2>3, <3>1
  <2> QED
    BY <2>4, <2>5 DEF LeakRest
<1> QED
  BY <1>3, <1>4

LEMMA LeakDynamicDestroy ==
  ASSUME LeakInv, ~StaticBuf, DynamicDestroy
  PROVE  LeakRest'
  BY DEF DynamicDestroy, vars, LeakRest, LeakInv, OwnersHoldBlocks, NoLeak

LEMMA LeakConcatInto ==
  ASSUME LeakInv, NEW d \in inuse, NEW s \in Slots, prop[d].owner,
         NEW r \in Blocks, r \in FreeBlocks \cup {prop[d].value},
         NEW sd \in 0..MaxLen, NEW ss \in 0..MaxLen,
         ConcatInto(d, s, r, sd, ss)
  PROVE  LeakRest'
<1> DEFINE v == prop[d].value
<1>1. /\ \A t \in Slots \ {d} :
           /\ prop'[t].owner = prop[t].owner
           /\ (prop[t].owner \/ t \notin inuse) => prop'[t] = prop[t]
      /\ prop'[d].owner /\ prop'[d].value = r
  BY ConcatIntoFrame DEF LeakInv
<1>2. /\ cap' = [b \in Blocks |-> IF b = r THEN ReallocBytes(sd, ss)
                                  ELSE IF b = v THEN 0 ELSE cap[b]]
      /\ inuse' = inuse
  BY DEF ConcatInto
<1>3. OwnersHoldBlocks'
  BY <1>1, <1>2 DEF LeakInv, OwnersHoldBlocks, OwnInv, TypeOK
<1>4. NoLeak'
  <2> SUFFICES ASSUME NEW b \in Blocks, cap'[b] > 0
               PROVE  \E t \in inuse' : prop'[t].owner /\ prop'[t].value = b
    BY DEF NoLeak
  <2>1. CASE b = r
    BY <1>1, <1>2, <2>1
  <2>2. CASE b # r
    <3>1. b # v /\ cap[b] > 0
      BY <1>2, <2>2
    <3>2. PICK t \in inuse : prop[t].owner /\ prop[t].value = b
      BY <3>1 DEF LeakInv, NoLeak
    <3>3. t # d /\ t \in Slots
      BY <3>1, <3>2 DEF LeakInv, OwnInv, TypeOK
    <3> QED
      BY <1>1, <1>2, <3>2, <3>3
  <2> QED
    BY <2>1, <2>2
<1> QED
  BY <1>3, <1>4 DEF LeakRest

LEMMA LeakConcat ==
  ASSUME LeakInv, ~OOM, NEW d \in Slots, NEW s \in Slots, Concat(d, s)
  PROVE  LeakRest'
<1> DEFINE p == prop[d]
           q == prop[s]
           v == p.value
<1>1. d \in inuse
  BY DEF Concat, Valid
<1>2. CASE ~p.owner
  BY <1>2 DEF Concat, vars, LeakRest, LeakInv, OwnersHoldBlocks, NoLeak
<1>3. CASE p.owner /\ ((v = NULL /\ ~p.raw) \/ (q.value = NULL /\ ~q.raw))
  BY <1>3 DEF Concat, LeakRest, LeakInv, OwnersHoldBlocks, NoLeak
<1>4. CASE p.owner /\ ~((v = NULL /\ ~p.raw) \/ (q.value = NULL /\ ~q.raw))
  <2> DEFINE sd == ReadLen(p)
             ss == ReadLen(q)
  <2>1. sd \in 0..MaxLen /\ ss \in 0..MaxLen
    BY <1>4, MaxLenAssumption DEF Concat, Valid, ReadLen, LeakInv, OwnInv, TypeOK, Prop,
       Pointers, NULL, DANGLING, Blocks
  <2>2. PICK r \in ReallocResults(v) :
             IF r = NULL
             THEN ConcatFailed(d)
             ELSE IF s # d /\ q.value = NULL /\ ss > 0
             THEN /\ fault' = "null_read"
                  /\ UNCHANGED <<prop, inuse, cap, slen>>
             ELSE ConcatInto(d, s, r, sd, ss)
    BY <1>4 DEF Concat
  <2>3. v \in Blocks
    BY <1>1, <1>4 DEF LeakInv, OwnersHoldBlocks
  <2>4. r \in Blocks /\ r # NULL /\ r \in FreeBlocks \cup {v}
    BY <2>3 DEF ReallocResults, AllocResults, FreeBlocks, NULL, Blocks
  <2>5. CASE s # d /\ q.value = NULL /\ ss > 0
    BY <2>2, <2>4, <2>5 DEF LeakRest, LeakInv, OwnersHoldBlocks, NoLeak
  <2>6. CASE ~(s # d /\ q.value = NULL /\ ss > 0)
    <3>1. ConcatInto(d, s, r, sd, ss)
      BY <2>2, <2>4, <2>6
    <3> QED
      BY <1>1, <1>4, <2>1, <2>4, <3>1, LeakConcatInto
  <2> QED
    BY <2>5, <2>6
<1> QED
  BY <1>2, <1>3, <1>4

LEMMA LeakInit == Init => LeakInv
<1> SUFFICES ASSUME Init PROVE LeakInv
  OBVIOUS
<1>1. OwnInv
  BY OwnInit
<1> QED
  BY <1>1 DEF Init, LeakInv, OwnersHoldBlocks, NoLeak

LEMMA LeakStep ==
  ASSUME ~StaticBuf, ~OOM, LeakInv, [Next]_vars
  PROVE  LeakInv'
<1>1. OwnInv'
  BY OwnStep DEF LeakInv
<1>2. CASE Next
  <2>1. LeakRest'
    BY <1>2, NextCases, LeakStringTo, LeakRawTo, LeakCopy, LeakWeak, LeakMove,
       LeakConcat, LeakDestroy, LeakDynamicDestroy
  <2> QED
    BY <1>1, <2>1 DEF LeakInv, LeakRest
<1>3. CASE UNCHANGED vars
  BY <1>1, <1>3 DEF vars, LeakInv, OwnersHoldBlocks, NoLeak
<1> QED
  BY <1>2, <1>3

(* With the heap allocator and no allocation failure, no sequence of       *)
(* property operations loses a buffer: every block malloc, strndup or      *)
(* realloc handed out is still owned by a live property, so the caller's   *)
(* dynmc_destroy calls free it.  The dyn_raw run checks NoLeak on three    *)
(* slots; this holds for every number of slots and blocks.                  *)
THEOREM NoLeakProved == (~StaticBuf /\ ~OOM) => (Spec => []NoLeak)
<1> SUFFICES ASSUME ~StaticBuf, ~OOM PROVE Spec => []NoLeak
  OBVIOUS
<1>1. Init => LeakInv
  BY LeakInit
<1>2. LeakInv /\ [Next]_vars => LeakInv'
  BY LeakStep
<1>3. LeakInv => NoLeak
  BY DEF LeakInv
<1> QED
  BY <1>1, <1>2, <1>3, PTL DEF Spec
=============================================================================
