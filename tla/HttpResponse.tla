---------------------------- MODULE HttpResponse ----------------------------
(***************************************************************************)
(* The response object of src/src/http/request.c as the HTTP client fills *)
(* it: headers appended with http_response_add_header, the body delivered *)
(* in chunks through http_response_set_payload and                         *)
(* http_response_add_payload, and everything released by                  *)
(* http_response_free.                                                     *)
(*                                                                         *)
(* The payload buffer is a sequence of bytes, each byte naming the chunk  *)
(* (its position in the body) it was copied from, 0 for bytes nobody       *)
(* wrote.  A chunk is its length and its property kind: "dynamic" (an      *)
(* owning heap property, which the switch of add_payload matches) or       *)
(* "const" (copied by P_COPY as an alias that keeps its flags).            *)
(***************************************************************************)
EXTENDS Naturals, Sequences

CONSTANTS
    MaxChunks,   \* chunks per response (bound)
    MaxLen,      \* bytes per chunk (bound)
    MaxHeaders,  \* headers per response (bound)
    Kinds,       \* the property kinds the client's chunks have
    FirstBySet   \* the client hands the first chunk to set_payload

ASSUME MaxChunksAssumption == MaxChunks \in Nat \ {0}
ASSUME MaxLenAssumption == MaxLen \in Nat \ {0}
ASSUME MaxHeadersAssumption == MaxHeaders \in Nat
ASSUME KindsAssumption == Kinds # {} /\ Kinds \subseteq {"dynamic", "const"}
ASSUME FirstBySetAssumption == FirstBySet \in BOOLEAN

Chunk == [len : 1..MaxLen, kind : Kinds]
BufKinds == {"empty", "dynamic", "const"}
MaxBody == MaxChunks * MaxLen

VARIABLES
    buf,       \* payload.buf: kind of property and the bytes it holds
    size,      \* payload.size
    sent,      \* the chunks handed to the response, in order
    body,      \* history: the bytes of those chunks, in order
    headers,   \* the header list, as the order numbers of the headers
    overflow   \* a write fell outside the payload buffer

vars == <<buf, size, sent, body, headers, overflow>>

EmptyBuf == [kind |-> "empty", bytes |-> <<>>]

TypeOK ==
    /\ buf \in [kind : BufKinds, bytes : Seq(0..MaxChunks)]
    /\ Len(buf.bytes) <= MaxBody + 1
    /\ size \in 0..MaxBody
    /\ sent \in Seq(Chunk) /\ Len(sent) <= MaxChunks
    /\ body \in Seq(1..MaxChunks)
    /\ headers \in Seq(1..MaxHeaders) /\ Len(headers) <= MaxHeaders
    /\ overflow \in BOOLEAN

Init ==
    /\ buf = EmptyBuf
    /\ size = 0
    /\ sent = <<>>
    /\ body = <<>>
    /\ headers = <<>>
    /\ overflow = FALSE

(* The bytes of the k-th chunk, and their terminator.                       *)
ChunkBytes(k, n) == [i \in 1..n |-> k]

(* P_COPY(res->payload.buf, payload): a dynamic chunk is duplicated into  *)
(* a fresh owned buffer, a const one aliased; either way n bytes and a     *)
(* terminator.                                                             *)
CopyOf(k, c) == [kind |-> c.kind, bytes |-> ChunkBytes(k, c.len) \o <<0>>]

(* The bytes the client delivers next, as the k-th chunk.                   *)
Deliver(c) ==
    /\ sent' = Append(sent, c)
    /\ body' = body \o ChunkBytes(Len(sent) + 1, c.len)

(* http_response_add_header(res, key, value): walk to the tail and append *)
(* a node holding copies of key and value.                                 *)
ResponseAddHeader ==
    /\ Len(headers) < MaxHeaders
    /\ headers' = Append(headers, Len(headers) + 1)
    /\ UNCHANGED <<buf, size, sent, body, overflow>>

(* http_response_set_payload(res, payload, 0): size from P_SIZE, the      *)
(* chunk copied; the caller keeps its own chunk.                           *)
SetPayload(c) ==
    /\ FirstBySet /\ buf.kind = "empty" /\ sent = <<>>
    /\ Deliver(c)
    /\ size' = c.len
    /\ buf' = CopyOf(1, c)
    /\ UNCHANGED <<headers, overflow>>

(* realloc(value, n): the first n bytes kept, the rest not yet written.   *)
Realloc(bytes, n) == [i \in 1..n |-> IF i <= Len(bytes) THEN bytes[i] ELSE 0]

(* memcpy(value + off, chunk k, n) into a buffer of Len(b) bytes.           *)
(* Fault model: the copy lands after the new size, not after the old one. *)
AppendedAtNewSize(b, off, k, n) ==
    [i \in 1..Len(b) |-> IF i > off + n /\ i <= off + 2 * n THEN k ELSE b[i]]
Appended(b, off, k, n) ==
    [i \in 1..Len(b) |-> IF i > off /\ i <= off + n THEN k ELSE b[i]]

(* Fault model: payload.size += payload.size.                              *)
GrowSizeTwice(sz, n) == sz + sz
(* payload.size += size.                                                   *)
GrowSize(sz, n) == sz + n

(* http_response_add_payload(res, payload, 0).  An empty buffer takes a   *)
(* copy of the chunk and returns, leaving size alone.  A dynamic buffer    *)
(* grows size, is reallocated to size bytes, takes the chunk at size - n   *)
(* and gets a terminator at index size (one past the buffer).  Any other   *)
(* buffer returns at once.  Whether the caller's chunk is freed (232) or   *)
(* kept (215, 230) is not recorded: no property reads it.                  *)
AddPayload(c) ==
    LET k == Len(sent) + 1
        n == c.len
        sz == GrowSize(size, n)
        b == Realloc(buf.bytes, sz)
    IN
    /\ ~FirstBySet \/ sent # <<>>
    /\ Len(sent) < MaxChunks
    /\ Deliver(c)
    /\ UNCHANGED headers
    /\ CASE buf.kind = "empty" ->
              /\ buf' = CopyOf(k, c)
              /\ UNCHANGED <<size, overflow>>
         [] buf.kind = "dynamic" ->
              /\ size' = sz
              /\ buf' = [buf EXCEPT !.bytes = Appended(b, sz - n, k, n)]
              /\ overflow' = (overflow \/ sz + 1 > Len(b))
         [] buf.kind = "const" ->
              UNCHANGED <<buf, size, overflow>>

(* http_response_free(res): free the payload and every header; the client *)
(* then starts on the next response.                                       *)
ResponseFree ==
    /\ buf' = EmptyBuf
    /\ size' = 0
    /\ headers' = <<>>
    /\ sent' = <<>>
    /\ body' = <<>>
    /\ UNCHANGED overflow

Next ==
    \/ ResponseAddHeader
    \/ \E c \in Chunk : SetPayload(c)
    \/ \E c \in Chunk : AddPayload(c)
    \/ ResponseFree

Spec == Init /\ [][Next]_vars

-----------------------------------------------------------------------------
(* Once the client has handed over chunks, the payload buffer holds them   *)
(* all, in order, and payload.size counts exactly their bytes: the        *)
(* offset arithmetic of add_payload never overwrites or skips a chunk.     *)
PayloadIsConcatenation ==
    sent # <<>> =>
        /\ size = Len(body)
        /\ Len(buf.bytes) >= size
        /\ SubSeq(buf.bytes, 1, size) = body

(* No write of add_payload lands outside the payload buffer.               *)
WriteWithinBuffer == ~overflow
=============================================================================
