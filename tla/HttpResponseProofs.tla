------------------------- MODULE HttpResponseProofs -------------------------
(***************************************************************************)
(* Proofs about HttpResponse for every number of chunks, chunk length and *)
(* header count.  The type invariant holds in every build; the payload is *)
(* the concatenation of the chunks when the client hands the first chunk  *)
(* to set_payload and every chunk is a dynamic property, the case the     *)
(* run checks.                                                             *)
(***************************************************************************)
EXTENDS HttpResponse, SequenceTheorems, TLAPS

USE MaxChunksAssumption, MaxLenAssumption, MaxHeadersAssumption,
    KindsAssumption, FirstBySetAssumption

\* The bytes of a chunk are a sequence of its order number.
LEMMA ChunkBytesType ==
    ASSUME NEW k \in 1..MaxChunks, NEW n \in Nat
    PROVE  /\ ChunkBytes(k, n) \in Seq(1..MaxChunks)
           /\ Len(ChunkBytes(k, n)) = n
BY DEF ChunkBytes

\* TypeOK with the two bounds that make it inductive: payload.size never
\* passes the bytes delivered, and those are at most MaxLen a chunk.
TInv ==
    /\ TypeOK
    /\ size <= Len(body)
    /\ Len(body) <= Len(sent) * MaxLen

\* The response starts empty.
LEMMA TInvInit == Init => TInv
<1> SUFFICES ASSUME Init PROVE TInv
  OBVIOUS
<1>1. buf \in [kind : BufKinds, bytes : Seq(0..MaxChunks)] /\ Len(buf.bytes) <= MaxBody + 1
  BY DEF Init, EmptyBuf, BufKinds, MaxBody
<1>2. /\ size \in 0..MaxBody
      /\ sent \in Seq(Chunk) /\ Len(sent) <= MaxChunks
      /\ body \in Seq(1..MaxChunks)
      /\ headers \in Seq(1..MaxHeaders) /\ Len(headers) <= MaxHeaders
  BY DEF Init, MaxBody
<1>3. overflow \in BOOLEAN
  BY DEF Init
<1>4. size <= Len(body) /\ Len(body) <= Len(sent) * MaxLen
  BY DEF Init
<1> QED
  BY <1>1, <1>2, <1>3, <1>4 DEF TInv, TypeOK


\* The longest body is a number of bytes.
LEMMA MaxBodyNat == MaxBody \in Nat
BY DEF MaxBody

\* At most MaxChunks chunks of at most MaxLen bytes fit in MaxBody.
LEMMA BodyBound ==
    ASSUME NEW a \in 0..MaxChunks
    PROVE  a * MaxLen \in 0..MaxBody
<1>1. a * MaxLen <= MaxChunks * MaxLen
  BY SMTT(30)
<1> QED
  BY <1>1 DEF MaxBody

\* P_COPY of the k-th chunk: its kind, its bytes and a terminator.
LEMMA CopyOfType ==
    ASSUME NEW k \in 1..MaxChunks, NEW c \in Chunk
    PROVE  /\ CopyOf(k, c) \in [kind : BufKinds, bytes : Seq(0..MaxChunks)]
           /\ Len(CopyOf(k, c).bytes) = c.len + 1
           /\ Len(CopyOf(k, c).bytes) <= MaxBody + 1
<1>1. c.len \in 1..MaxLen /\ c.kind \in BufKinds
  BY DEF Chunk, BufKinds
<1>2. ChunkBytes(k, c.len) \in Seq(0..MaxChunks) /\ Len(ChunkBytes(k, c.len)) = c.len
  BY <1>1 DEF ChunkBytes
<1>3. /\ ChunkBytes(k, c.len) \o <<0>> \in Seq(0..MaxChunks)
      /\ Len(ChunkBytes(k, c.len) \o <<0>>) = c.len + 1
  BY <1>2
<1>4. c.len <= MaxBody
  <2>1. MaxLen <= MaxChunks * MaxLen
    BY SMTT(30)
  <2> QED
    BY <1>1, <2>1 DEF MaxBody
<1>5. CopyOf(k, c).kind = c.kind /\ CopyOf(k, c).bytes = ChunkBytes(k, c.len) \o <<0>>
  BY DEF CopyOf
<1>6. CopyOf(k, c) \in [kind : BufKinds, bytes : Seq(0..MaxChunks)]
  BY <1>1, <1>3, <1>5 DEF CopyOf
<1>7. Len(CopyOf(k, c).bytes) = c.len + 1
  BY <1>3, <1>5
<1>8. Len(CopyOf(k, c).bytes) <= MaxBody + 1
  BY <1>1, <1>4, <1>7, MaxBodyNat
<1> QED
  BY <1>6, <1>7, <1>8

\* realloc to sz bytes followed by the memcpy of a chunk: a buffer of sz
\* bytes, each a chunk number or 0.
LEMMA AppendedType ==
    ASSUME NEW bytes \in Seq(0..MaxChunks), NEW sz \in Nat, NEW off \in Int,
           NEW k \in 1..MaxChunks, NEW n \in Nat
    PROVE  /\ Appended(Realloc(bytes, sz), off, k, n) \in Seq(0..MaxChunks)
           /\ Len(Appended(Realloc(bytes, sz), off, k, n)) = sz
<1>1. Realloc(bytes, sz) \in Seq(0..MaxChunks) /\ Len(Realloc(bytes, sz)) = sz
  BY DEF Realloc
<1> QED
  BY <1>1 DEF Appended

\* What a delivery does to the chunks and the body.
LEMMA DeliverType ==
    ASSUME TInv, NEW c \in Chunk, Len(sent) < MaxChunks, Deliver(c)
    PROVE  /\ sent' \in Seq(Chunk) /\ Len(sent') = Len(sent) + 1
           /\ Len(sent') <= MaxChunks
           /\ body' \in Seq(1..MaxChunks)
           /\ Len(body') = Len(body) + c.len
           /\ Len(body') <= Len(sent') * MaxLen
<1>1. sent \in Seq(Chunk) /\ body \in Seq(1..MaxChunks) /\ Len(body) <= Len(sent) * MaxLen
  BY DEF TInv, TypeOK
<1>2. Len(sent) + 1 \in 1..MaxChunks /\ c.len \in 1..MaxLen
  BY <1>1 DEF Chunk
<1>3. ChunkBytes(Len(sent) + 1, c.len) \in Seq(1..MaxChunks)
      /\ Len(ChunkBytes(Len(sent) + 1, c.len)) = c.len
  BY <1>2 DEF ChunkBytes
<1>4. Len(body) + c.len <= (Len(sent) + 1) * MaxLen
  BY <1>1, <1>2
<1>5. sent' \in Seq(Chunk) /\ Len(sent') = Len(sent) + 1
  BY <1>1 DEF Deliver
<1>6. body' \in Seq(1..MaxChunks) /\ Len(body') = Len(body) + c.len
  BY <1>1, <1>3 DEF Deliver
<1> QED
  BY <1>2, <1>4, <1>5, <1>6


\* http_response_add_header appends one header within the bound.
LEMMA AddHeaderTInv == TInv /\ ResponseAddHeader => TInv'
<1> SUFFICES ASSUME TInv, ResponseAddHeader PROVE TInv'
  OBVIOUS
<1>1. headers' \in Seq(1..MaxHeaders) /\ Len(headers') <= MaxHeaders
  BY DEF ResponseAddHeader, TInv, TypeOK
<1> QED
  BY <1>1 DEF ResponseAddHeader, TInv, TypeOK

\* http_response_free empties the response.
LEMMA FreeTInv == TInv /\ ResponseFree => TInv'
<1> SUFFICES ASSUME TInv, ResponseFree PROVE TInv'
  OBVIOUS
<1>1. buf' \in [kind : BufKinds, bytes : Seq(0..MaxChunks)] /\ Len(buf'.bytes) <= MaxBody + 1
  BY MaxBodyNat DEF ResponseFree, EmptyBuf, BufKinds
<1>2. /\ size' \in 0..MaxBody /\ sent' \in Seq(Chunk) /\ Len(sent') <= MaxChunks
      /\ body' \in Seq(1..MaxChunks)
      /\ headers' \in Seq(1..MaxHeaders) /\ Len(headers') <= MaxHeaders
      /\ size' <= Len(body') /\ Len(body') <= Len(sent') * MaxLen
  BY MaxBodyNat DEF ResponseFree
<1>3. overflow' \in BOOLEAN
  BY DEF ResponseFree, TInv, TypeOK
<1> QED
  BY <1>1, <1>2, <1>3 DEF TInv, TypeOK

\* http_response_set_payload copies the first chunk and sets the size.
LEMMA SetPayloadTInv ==
    ASSUME TInv, NEW c \in Chunk, SetPayload(c) PROVE TInv'
<1>1. sent = <<>> /\ Len(sent) < MaxChunks
  BY DEF SetPayload, TInv, TypeOK
<1>2. /\ sent' \in Seq(Chunk) /\ Len(sent') <= MaxChunks
      /\ body' \in Seq(1..MaxChunks)
      /\ Len(body') = Len(body) + c.len
      /\ Len(body') <= Len(sent') * MaxLen
  BY <1>1, DeliverType DEF SetPayload
<1>3. Len(body) = 0
  BY <1>1 DEF TInv, TypeOK
<1>4. buf' \in [kind : BufKinds, bytes : Seq(0..MaxChunks)] /\ Len(buf'.bytes) <= MaxBody + 1
  BY CopyOfType DEF SetPayload
<1>5. size' \in 0..MaxBody /\ size' <= Len(body')
  <2>1. Len(CopyOf(1, c).bytes) = c.len + 1 /\ Len(CopyOf(1, c).bytes) <= MaxBody + 1
    BY CopyOfType
  <2> QED
    BY <1>2, <1>3, <2>1, MaxBodyNat DEF SetPayload, Chunk
<1>6. UNCHANGED <<headers, overflow>>
  BY DEF SetPayload
<1> QED
  BY <1>2, <1>4, <1>5, <1>6 DEF TInv, TypeOK


\* The effect of http_response_add_payload on each kind of buffer, with
\* the chunk's order number k and the grown size written out.
LEMMA AddPayloadCases ==
    ASSUME NEW c \in Chunk, AddPayload(c)
    PROVE  /\ Len(sent) < MaxChunks /\ Deliver(c) /\ UNCHANGED headers
           /\ buf.kind = "empty" =>
                /\ buf' = CopyOf(Len(sent) + 1, c)
                /\ UNCHANGED <<size, overflow>>
           /\ buf.kind = "dynamic" =>
                /\ size' = GrowSize(size, c.len)
                /\ buf' = [buf EXCEPT !.bytes =
                     Appended(Realloc(buf.bytes, GrowSize(size, c.len)),
                              GrowSize(size, c.len) - c.len, Len(sent) + 1, c.len)]
                /\ overflow' = (overflow \/ GrowSize(size, c.len) + 1 >
                          Len(Realloc(buf.bytes, GrowSize(size, c.len))))
           /\ buf.kind = "const" => UNCHANGED <<buf, size, overflow>>
<1>1. Len(sent) < MaxChunks /\ Deliver(c) /\ UNCHANGED headers
  BY DEF AddPayload
<1>2. buf.kind = "empty" =>
        /\ buf' = CopyOf(Len(sent) + 1, c)
        /\ UNCHANGED <<size, overflow>>
  BY DEF AddPayload
<1>3. buf.kind = "dynamic" =>
        /\ size' = GrowSize(size, c.len)
        /\ buf' = [buf EXCEPT !.bytes =
                     Appended(Realloc(buf.bytes, GrowSize(size, c.len)),
                              GrowSize(size, c.len) - c.len, Len(sent) + 1, c.len)]
        /\ overflow' = (overflow \/ GrowSize(size, c.len) + 1 >
                          Len(Realloc(buf.bytes, GrowSize(size, c.len))))
  BY DEF AddPayload
<1>4. buf.kind = "const" => UNCHANGED <<buf, size, overflow>>
  BY DEF AddPayload
<1> QED
  BY <1>1, <1>2, <1>3, <1>4

\* http_response_add_payload keeps the types and the size bounds.
LEMMA AddPayloadTInv ==
    ASSUME TInv, NEW c \in Chunk, AddPayload(c) PROVE TInv'
<1>1. /\ sent' \in Seq(Chunk) /\ Len(sent') <= MaxChunks
      /\ body' \in Seq(1..MaxChunks)
      /\ Len(body') = Len(body) + c.len
      /\ Len(body') <= Len(sent') * MaxLen
  <2>1. Len(sent) < MaxChunks /\ Deliver(c)
    BY AddPayloadCases
  <2> QED
    BY <2>1, DeliverType
<1>2. Len(sent') \in 0..MaxChunks
  BY <1>1
<1>3. Len(body') \in 0..MaxBody
  <2>1. Len(sent') * MaxLen \in 0..MaxBody
    BY <1>2, BodyBound
  <2>2. Len(body') \in Nat
    BY <1>1
  <2> QED
    BY <1>1, <2>1, <2>2, MaxBodyNat
<1>4. /\ buf \in [kind : BufKinds, bytes : Seq(0..MaxChunks)]
      /\ size \in 0..MaxBody /\ size <= Len(body)
      /\ overflow \in BOOLEAN
      /\ Len(sent) \in 0..MaxChunks - 1 /\ c.len \in 1..MaxLen
  BY AddPayloadCases DEF TInv, TypeOK, Chunk
<1>5. headers' \in Seq(1..MaxHeaders) /\ Len(headers') <= MaxHeaders
  BY AddPayloadCases DEF TInv, TypeOK
<1>6. CASE buf.kind = "empty"
  <2>1. buf' = CopyOf(Len(sent) + 1, c) /\ UNCHANGED <<size, overflow>>
    BY <1>4, <1>6, AddPayloadCases
  <2>2. buf' \in [kind : BufKinds, bytes : Seq(0..MaxChunks)] /\ Len(buf'.bytes) <= MaxBody + 1
    BY <1>4, <2>1, CopyOfType
  <2>3. size' \in 0..MaxBody /\ size' <= Len(body')
    BY <1>1, <1>4, <2>1
  <2> QED
    BY <1>1, <1>4, <1>5, <2>1, <2>2, <2>3 DEF TInv, TypeOK
<1>7. CASE buf.kind = "dynamic"
  <2>0. GrowSize(size, c.len) = size + c.len
    BY DEF GrowSize
  <2>1. /\ size' = GrowSize(size, c.len)
        /\ buf' = [buf EXCEPT !.bytes =
                     Appended(Realloc(buf.bytes, GrowSize(size, c.len)),
                              GrowSize(size, c.len) - c.len, Len(sent) + 1, c.len)]
        /\ overflow' \in BOOLEAN
    BY <1>4, <1>7, AddPayloadCases
  <2>a. size \in 0..MaxBody /\ size <= Len(body) /\ c.len \in 1..MaxLen
        /\ Len(sent) \in 0..MaxChunks - 1 /\ buf.bytes \in Seq(0..MaxChunks)
    BY <1>4
  <2>b. Len(body') = Len(body) + c.len /\ Len(body) \in Nat
    BY <1>1, <1>4 DEF TInv, TypeOK
  <2>2. GrowSize(size, c.len) \in 0..MaxBody /\ GrowSize(size, c.len) <= Len(body')
    BY <1>3, <2>a, <2>b, <2>0, MaxBodyNat
  <2>3. /\ Appended(Realloc(buf.bytes, GrowSize(size, c.len)),
                     GrowSize(size, c.len) - c.len, Len(sent) + 1, c.len) \in Seq(0..MaxChunks)
        /\ Len(Appended(Realloc(buf.bytes, GrowSize(size, c.len)),
                     GrowSize(size, c.len) - c.len, Len(sent) + 1, c.len)) = GrowSize(size, c.len)
    <3>1. GrowSize(size, c.len) \in Nat /\ GrowSize(size, c.len) - c.len \in Int
          /\ Len(sent) + 1 \in 1..MaxChunks /\ c.len \in Nat
      BY <2>2, <2>a, MaxBodyNat
    <3>2. PICK g \in Nat : g = GrowSize(size, c.len)
      BY <3>1
    <3>3. PICK bs \in Seq(0..MaxChunks) : bs = buf.bytes
      BY <2>a
    <3>4. PICK ln \in Nat : ln = c.len
      BY <3>1
    <3>5. /\ Appended(Realloc(bs, g), g - ln, Len(sent) + 1, ln) \in Seq(0..MaxChunks)
          /\ Len(Appended(Realloc(bs, g), g - ln, Len(sent) + 1, ln)) = g
      <4>1. g - ln \in Int /\ Len(sent) + 1 \in 1..MaxChunks
        BY <3>1
      <4>2. Appended(Realloc(bs, g), g - ln, Len(sent) + 1, ln) \in Seq(0..MaxChunks)
        BY <4>1, AppendedType
      <4>3. Len(Appended(Realloc(bs, g), g - ln, Len(sent) + 1, ln)) = g
        BY <4>1, AppendedType
      <4> QED
        BY <4>2, <4>3
    <3> QED
      BY <3>2, <3>3, <3>4, <3>5, Zenon
  <2>4. buf' \in [kind : BufKinds, bytes : Seq(0..MaxChunks)] /\ Len(buf'.bytes) <= MaxBody + 1
    <3>1. buf' = [kind |-> buf.kind,
                  bytes |-> Appended(Realloc(buf.bytes, GrowSize(size, c.len)),
                              GrowSize(size, c.len) - c.len, Len(sent) + 1, c.len)]
      BY <1>4, <2>1
    <3>2. buf.kind \in BufKinds
      BY <1>4
    <3> QED
      BY <3>1, <3>2, <2>2, <2>3, MaxBodyNat
  <2> QED
    BY <1>1, <1>4, <1>5, <2>1, <2>2, <2>4 DEF TInv, TypeOK
<1>8. CASE buf.kind = "const"
  <2>1. UNCHANGED <<buf, size, overflow>>
    BY <1>4, <1>8, AddPayloadCases
  <2>2. size' <= Len(body')
    BY <1>1, <1>4, <2>1
  <2> QED
    BY <1>1, <1>4, <1>5, <2>1, <2>2 DEF TInv, TypeOK
<1> QED
  BY <1>4, <1>6, <1>7, <1>8 DEF BufKinds


\* Every step of the client, and a stutter, keeps TInv.
LEMMA TInvStep == TInv /\ [Next]_vars => TInv'
<1> SUFFICES ASSUME TInv, [Next]_vars PROVE TInv'
  OBVIOUS
<1>1. CASE ResponseAddHeader
  BY <1>1, AddHeaderTInv
<1>2. CASE \E c \in Chunk : SetPayload(c)
  BY <1>2, SetPayloadTInv
<1>3. CASE \E c \in Chunk : AddPayload(c)
  BY <1>3, AddPayloadTInv
<1>4. CASE ResponseFree
  BY <1>4, FreeTInv
<1>5. CASE UNCHANGED vars
  BY <1>5 DEF TInv, TypeOK, vars
<1> QED
  BY <1>1, <1>2, <1>3, <1>4, <1>5 DEF Next

\* http_response_add_header, set_payload, add_payload and free keep the
\* response well typed in every build: the payload buffer holds at most
\* MaxBody bytes and a terminator, payload.size stays within the chunks
\* delivered, and the header list within MaxHeaders nodes.
THEOREM HttpTypeCorrect == Spec => []TypeOK
<1>1. Init => TInv
  BY TInvInit
<1>2. TInv /\ [Next]_vars => TInv'
  BY TInvStep
<1>3. TInv => TypeOK
  BY DEF TInv
<1> QED
  BY <1>1, <1>2, <1>3, PTL DEF Spec

-----------------------------------------------------------------------------
(* The payload when the client hands its first chunk to set_payload and   *)
(* every chunk is a dynamic property: the client of the checked run.      *)
DynamicClient == FirstBySet /\ Kinds = {"dynamic"}

\* The first Len(body) bytes of the buffer are the bytes delivered.
Prefix == \A i \in 1..Len(body) : buf.bytes[i] = body[i]

\* The strengthening of PayloadIsConcatenation: before the first chunk the
\* buffer is empty, and after it the buffer is the dynamic copy set_payload
\* made, its size the bytes delivered and its prefix those bytes;
\* add_payload then always takes its appending path.
PInv ==
    /\ TInv
    /\ sent = <<>> => buf.kind = "empty"
    /\ sent # <<>> => /\ buf.kind = "dynamic"
                      /\ size = Len(body)
                      /\ Len(buf.bytes) >= size
                      /\ Prefix

\* A prefix of Len(body) bytes is the SubSeq the property names.
LEMMA PrefixSubSeq ==
    ASSUME NEW S, NEW T, NEW bs \in Seq(S), NEW b \in Seq(T),
           Len(bs) >= Len(b), \A i \in 1..Len(b) : bs[i] = b[i]
    PROVE  SubSeq(bs, 1, Len(b)) = b
OBVIOUS

\* No chunk has been delivered at the start.
LEMMA PInvInit == Init => PInv
<1> SUFFICES ASSUME Init PROVE PInv
  OBVIOUS
<1>1. TInv
  BY TInvInit
<1> QED
  BY <1>1 DEF PInv, Init, EmptyBuf

\* add_header and free leave the payload as it is, or empty it.
LEMMA AddHeaderPInv == PInv /\ ResponseAddHeader => PInv'
<1> SUFFICES ASSUME PInv, ResponseAddHeader PROVE PInv'
  OBVIOUS
<1>1. TInv'
  BY AddHeaderTInv DEF PInv
<1> QED
  BY <1>1 DEF PInv, Prefix, ResponseAddHeader

LEMMA FreePInv == PInv /\ ResponseFree => PInv'
<1> SUFFICES ASSUME PInv, ResponseFree PROVE PInv'
  OBVIOUS
<1>1. TInv'
  BY FreeTInv DEF PInv
<1> QED
  BY <1>1 DEF PInv, ResponseFree, EmptyBuf

\* set_payload makes a dynamic copy of the first chunk: its bytes are the
\* body and payload.size their number.
LEMMA SetPayloadPInv ==
    ASSUME DynamicClient, PInv, NEW c \in Chunk, SetPayload(c) PROVE PInv'
<1>1. TInv'
  BY SetPayloadTInv DEF PInv
<1>2. c.kind = "dynamic" /\ c.len \in 1..MaxLen
  BY DEF DynamicClient, Chunk
<1>3. sent = <<>> /\ body = <<>>
  <2>1. sent = <<>>
    BY DEF SetPayload
  <2>2. body \in Seq(1..MaxChunks) /\ Len(body) <= Len(sent) * MaxLen
    BY DEF PInv, TInv, TypeOK
  <2> QED
    BY <2>1, <2>2
<1>4. /\ sent' = <<c>>
      /\ body' = ChunkBytes(1, c.len)
      /\ size' = c.len
      /\ buf' = CopyOf(1, c)
  BY <1>3 DEF SetPayload, Deliver
<1>5. /\ buf'.kind = "dynamic"
      /\ Len(buf'.bytes) = c.len + 1
      /\ \A i \in 1..c.len : buf'.bytes[i] = 1
  BY <1>2, <1>4 DEF CopyOf, ChunkBytes
<1>6. Len(body') = c.len /\ \A i \in 1..c.len : body'[i] = 1
  BY <1>2, <1>4 DEF ChunkBytes
<1> QED
  <2>1. Prefix'
    BY <1>5, <1>6 DEF Prefix
  <2>2. sent' # <<>>
    BY <1>4
  <2> QED
    BY <1>1, <1>4, <1>5, <1>6, <2>1, <2>2 DEF PInv

\* add_payload on the dynamic buffer: the old size bytes are kept by the
\* realloc, the chunk lands right after them, and the size grows by its
\* length.
LEMMA AddPayloadPInv ==
    ASSUME DynamicClient, PInv, NEW c \in Chunk, AddPayload(c) PROVE PInv'
<1>1. TInv'
  BY AddPayloadTInv DEF PInv
<1>2. sent # <<>>
  BY DEF DynamicClient, AddPayload
<1>3. /\ buf.kind = "dynamic" /\ size = Len(body) /\ Len(buf.bytes) >= size
      /\ Prefix
  BY <1>2 DEF PInv
<1>4. /\ buf.bytes \in Seq(0..MaxChunks) /\ body \in Seq(1..MaxChunks)
      /\ size \in Nat /\ c.len \in 1..MaxLen /\ Len(sent) \in Nat
  BY DEF PInv, TInv, TypeOK, Chunk
<1> DEFINE k == Len(sent) + 1
<1> DEFINE nb == Appended(Realloc(buf.bytes, size + c.len), size, k, c.len)
<1>5. /\ size' = size + c.len
      /\ buf' = [buf EXCEPT !.bytes = nb]
  <2>1. GrowSize(size, c.len) = size + c.len /\ size + c.len - c.len = size
    BY <1>4 DEF GrowSize
  <2>2. /\ size' = GrowSize(size, c.len)
        /\ buf' = [buf EXCEPT !.bytes =
                     Appended(Realloc(buf.bytes, GrowSize(size, c.len)),
                              GrowSize(size, c.len) - c.len, Len(sent) + 1, c.len)]
    BY <1>3, AddPayloadCases
  <2>3. GrowSize(size, c.len) - c.len = size
    BY <1>4 DEF GrowSize
  <2> QED
    BY <2>1, <2>2, <2>3, Zenon
<1>6. /\ sent' = Append(sent, c)
      /\ body' = body \o ChunkBytes(k, c.len)
  BY AddPayloadCases DEF Deliver
<1>7. /\ Len(nb) = size + c.len
      /\ \A i \in 1..size : nb[i] = buf.bytes[i]
      /\ \A i \in size + 1..size + c.len : nb[i] = k
  <2> DEFINE rb == Realloc(buf.bytes, size + c.len)
  <2>1. /\ Len(rb) = size + c.len
        /\ \A i \in 1..size : rb[i] = buf.bytes[i]
    BY <1>3, <1>4 DEF Realloc
  <2>2. nb = [i \in 1..Len(rb) |-> IF i > size /\ i <= size + c.len THEN k ELSE rb[i]]
    BY DEF Appended
  <2> HIDE DEF rb
  <2> QED
    BY <1>4, <2>1, <2>2
<1>8. /\ Len(body') = size + c.len
      /\ \A i \in 1..size : body'[i] = body[i]
      /\ \A i \in size + 1..size + c.len : body'[i] = k
  BY <1>3, <1>4, <1>6 DEF ChunkBytes
<1>9. buf'.kind = "dynamic" /\ buf'.bytes = nb
  BY <1>3, <1>5
<1>10. Prefix'
  <2> SUFFICES ASSUME NEW i \in 1..Len(body') PROVE buf'.bytes[i] = body'[i]
    BY DEF Prefix
  <2>1. CASE i <= size
    BY <2>1, <1>3, <1>7, <1>8, <1>9, <1>4 DEF Prefix
  <2>2. CASE i > size
    <3>1. i \in size + 1..size + c.len
      BY <2>2, <1>8, <1>4
    <3>2. nb[i] = k /\ body'[i] = k
      BY <3>1, <1>7, <1>8
    <3> QED
      BY <3>2, <1>9
  <2> QED
    BY <2>1, <2>2, <1>4
<1>11. sent' # <<>>
  BY <1>6
<1> QED
  BY <1>1, <1>3, <1>5, <1>7, <1>8, <1>9, <1>10, <1>11 DEF PInv

\* Every step of the dynamic client keeps PInv.
LEMMA PInvStep == DynamicClient /\ PInv /\ [Next]_vars => PInv'
<1> SUFFICES ASSUME DynamicClient, PInv, [Next]_vars PROVE PInv'
  OBVIOUS
<1>1. CASE ResponseAddHeader
  BY <1>1, AddHeaderPInv
<1>2. CASE \E c \in Chunk : SetPayload(c)
  BY <1>2, SetPayloadPInv
<1>3. CASE \E c \in Chunk : AddPayload(c)
  BY <1>3, AddPayloadPInv
<1>4. CASE ResponseFree
  BY <1>4, FreePInv
<1>5. CASE UNCHANGED vars
  BY <1>5 DEF PInv, TInv, TypeOK, Prefix, vars
<1> QED
  BY <1>1, <1>2, <1>3, <1>4, <1>5 DEF Next

\* PInv holds in every reachable state of the dynamic client.
LEMMA PInvariant == DynamicClient => (Spec => []PInv)
<1> SUFFICES ASSUME DynamicClient PROVE Spec => []PInv
  OBVIOUS
<1>1. Init => PInv
  BY PInvInit
<1>2. PInv /\ [Next]_vars => PInv'
  BY PInvStep
<1> QED
  BY <1>1, <1>2, PTL DEF Spec

\* When the client hands its first chunk to set_payload and every chunk is
\* dynamic, the payload http_response_add_payload builds is the
\* concatenation of the chunks, whatever their number and lengths:
\* payload.size counts their bytes and the buffer's first size bytes are
\* those bytes, in order.
THEOREM ConcatenationProved == DynamicClient => (Spec => []PayloadIsConcatenation)
<1> SUFFICES ASSUME DynamicClient PROVE Spec => []PayloadIsConcatenation
  OBVIOUS
<1>1. PInv => PayloadIsConcatenation
  <2> SUFFICES ASSUME PInv, sent # <<>>
               PROVE  /\ size = Len(body)
                      /\ Len(buf.bytes) >= size
                      /\ SubSeq(buf.bytes, 1, size) = body
    BY DEF PayloadIsConcatenation
  <2>1. /\ size = Len(body) /\ Len(buf.bytes) >= size
        /\ \A i \in 1..Len(body) : buf.bytes[i] = body[i]
    BY DEF PInv, Prefix
  <2>2. buf.bytes \in Seq(0..MaxChunks) /\ body \in Seq(1..MaxChunks)
    BY DEF PInv, TInv, TypeOK
  <2>3. SubSeq(buf.bytes, 1, Len(body)) = body
    BY <2>1, <2>2, PrefixSubSeq
  <2> QED
    BY <2>1, <2>3
<1> QED
  BY <1>1, PInvariant, PTL
=============================================================================
