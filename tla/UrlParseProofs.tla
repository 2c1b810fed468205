--------------------------- MODULE UrlParseProofs ---------------------------
(***************************************************************************)
(* Proofs about the URL split of http_request_init.  The parser is        *)
(* correct not only on the URLs the run enumerates but on every URL with  *)
(* a known scheme, "://", a non-empty host without ':', one to five port  *)
(* digits whose value fits in 16 bits, and an empty or '/'-led path.       *)
(***************************************************************************)
EXTENDS UrlParse, SequenceTheorems, WellFoundedInduction, TLAPS

\* Least picks the element of S below every other one, when there is one.
LEMMA LeastIs ==
    ASSUME NEW S \in SUBSET Int, NEW p \in S, \A y \in S : p <= y
    PROVE  Least(S) = p
<1>1. Least(S) \in S /\ \A y \in S : Least(S) <= y
  BY DEF Least
<1>2. Least(S) \in Int /\ Least(S) <= p /\ p <= Least(S)
  BY <1>1
<1> QED
  BY <1>2

\* Every non-empty set of naturals has a least element.
LEMMA LeastNat ==
    ASSUME NEW S \in SUBSET Nat, S # {}
    PROVE  \E x \in S : \A y \in S : x <= y
<1>1. PICK x \in S : \A y \in S : ~(<<y, x>> \in OpToRel(<, Nat))
  BY NatLessThanWellFounded, WFMin
<1>2. \A y \in S : y < x => <<y, x>> \in OpToRel(<, Nat)
  BY DEF OpToRel
<1>3. \A y \in S : ~(y < x)
  BY <1>1, <1>2, Zenon
<1> QED
  BY <1>3

\* strstr(s, pat) finds pat at p when it is there and no earlier character
\* of s is the first character of pat.
LEMMA StrStrAt ==
    ASSUME NEW S, NEW s \in Seq(S), NEW pat \in Seq(S), Len(pat) >= 1,
           NEW p \in 1..Len(s), p + Len(pat) - 1 <= Len(s),
           \A j \in 1..Len(pat) : s[p + j - 1] = pat[j],
           \A i \in 1..p - 1 : s[i] # pat[1]
    PROVE  StrStr(s, pat) = p
<1> DEFINE at == {i \in 1..Len(s) : i + Len(pat) - 1 <= Len(s)
                                     /\ SubSeq(s, i, i + Len(pat) - 1) = pat}
<1>0. \A m \in 1..Len(s) : m + Len(pat) - 1 <= Len(s) =>
         /\ SubSeq(s, m, m + Len(pat) - 1) \in Seq(S)
         /\ Len(SubSeq(s, m, m + Len(pat) - 1)) = Len(pat)
         /\ \A j \in 1..Len(pat) : SubSeq(s, m, m + Len(pat) - 1)[j] = s[m + j - 1]
  <2> TAKE m \in 1..Len(s)
  <2> HAVE m + Len(pat) - 1 <= Len(s)
  <2>1. \A i \in m..m + Len(pat) - 1 : s[i] \in S
    OBVIOUS
  <2> QED
    BY <2>1, SubSeqProperties
<1>1. p \in at
  <2>1. SubSeq(s, p, p + Len(pat) - 1) = pat
    BY <1>0, SeqEqual
  <2> QED
    BY <2>1
<1>2. \A i \in at : p <= i
  <2> SUFFICES ASSUME NEW i \in at, i < p PROVE FALSE
    OBVIOUS
  <2>1. i \in 1..Len(s) /\ i + Len(pat) - 1 <= Len(s)
        /\ SubSeq(s, i, i + Len(pat) - 1) = pat
    OBVIOUS
  <2>2. SubSeq(s, i, i + Len(pat) - 1)[1] = s[i]
    BY <1>0, <2>1
  <2>3. s[i] = pat[1] /\ i \in 1..p - 1
    BY <2>1, <2>2
  <2> QED
    BY <2>3
<1>3. Least(at) = p
  <2>1. at \in SUBSET Int
    OBVIOUS
  <2> QED
    BY <1>1, <1>2, <2>1, LeastIs
<1> QED
  BY <1>1, <1>3 DEF StrStr

\* strstr(s, "c") for one character c: the first place where c occurs.
LEMMA StrStrChar ==
    ASSUME NEW S, NEW u \in Seq(S), NEW c \in S, NEW k \in 1..Len(u), u[k] = c,
           \A i \in 1..k - 1 : u[i] # c
    PROVE  StrStr(u, <<c>>) = k
<1> DEFINE q == <<c>>
<1>0. q \in Seq(S)
  OBVIOUS
<1>1. Len(q) >= 1
  OBVIOUS
<1>2. k + Len(q) - 1 <= Len(u)
  OBVIOUS
<1>3. \A j \in 1..Len(q) : u[k + j - 1] = q[j]
  OBVIOUS
<1>4. \A i \in 1..k - 1 : u[i] # q[1]
  OBVIOUS
<1> HIDE DEF q
<1>5. StrStr(u, q) = k
  BY <1>0, <1>1, <1>2, <1>3, <1>4, StrStrAt
<1> QED
  BY <1>5 DEF q

\* strstr(s, pat) returns 0 when no character of s starts pat.
LEMMA StrStrNone ==
    ASSUME NEW S, NEW s \in Seq(S), NEW pat \in Seq(S), Len(pat) >= 1,
           \A i \in 1..Len(s) : s[i] # pat[1]
    PROVE  StrStr(s, pat) = 0
<1>1. \A i \in 1..Len(s) : i + Len(pat) - 1 <= Len(s) =>
                             SubSeq(s, i, i + Len(pat) - 1)[1] = s[i]
  OBVIOUS
<1> QED
  BY <1>1 DEF StrStr

\* The digit run of s ends before its first non-digit p.
LEMMA DigitRunStop ==
    ASSUME NEW S, NEW s \in Seq(S), NEW p \in 1..Len(s), s[p] \notin Digits,
           \A i \in 1..p - 1 : s[i] \in Digits
    PROVE  DigitRun(s) = p - 1
<1> DEFINE stop == {i \in 1..Len(s) : s[i] \notin Digits}
<1>1. p \in stop /\ \A i \in stop : p <= i
  OBVIOUS
<1>2. Least(stop) = p
  <2>1. stop \in SUBSET Int
    OBVIOUS
  <2> QED
    BY <1>1, <2>1, LeastIs
<1> QED
  BY <1>1, <1>2 DEF DigitRun

\* A string of digits is one digit run.
LEMMA DigitRunAll ==
    ASSUME NEW S, NEW s \in Seq(S), \A i \in 1..Len(s) : s[i] \in Digits
    PROVE  DigitRun(s) = Len(s)
BY DEF DigitRun

\* A string that is one digit run is a string of digits.
LEMMA DigitRunFull ==
    ASSUME NEW S, NEW s \in Seq(S), DigitRun(s) = Len(s)
    PROVE  \A i \in 1..Len(s) : s[i] \in Digits
<1> DEFINE stop == {i \in 1..Len(s) : s[i] \notin Digits}
<1> SUFFICES ASSUME stop # {} PROVE FALSE
  OBVIOUS
<1>0. stop \in SUBSET Nat
  OBVIOUS
<1>1. PICK x \in stop : \A y \in stop : x <= y
  BY <1>0, LeastNat
<1>2. Least(stop) = x
  <2>1. stop \in SUBSET Int
    BY <1>0
  <2> QED
    BY <2>1, <1>1, LeastIs, Zenon
<1>3. DigitRun(s) = x - 1
  BY <1>2 DEF DigitRun
<1> QED
  BY <1>1, <1>3

\* A sequence is its own SubSeq from 1 to its length.
LEMMA SubSeqWhole ==
    ASSUME NEW S, NEW s \in Seq(S)
    PROVE  SubSeq(s, 1, Len(s)) = s
<1>1. /\ SubSeq(s, 1, Len(s)) \in Seq(S)
      /\ Len(SubSeq(s, 1, Len(s))) = Len(s)
      /\ \A i \in 1..Len(s) : SubSeq(s, 1, Len(s))[i] = s[i]
  <2>1. \A i \in 1..Len(s) : s[i] \in S
    OBVIOUS
  <2> QED
    BY <2>1, SubSeqProperties
<1> QED
  BY <1>1, SeqEqual

\* cmp_n_Scheme on a URL that starts with "http" or "https", compared on
\* the scheme's length: "http" is the first entry, "https" the second.
LEMMA SchemeIndex ==
    ASSUME NEW sch \in {Scheme_str[1], Scheme_str[2]}, NEW url,
           \A i \in 1..Len(sch) : url[i] = sch[i]
    PROVE  CmpNScheme(url, Len(sch)) = IF sch = Scheme_str[1] THEN 0 ELSE 1
<1> DEFINE n == Len(sch)
<1> DEFINE hit == {i \in 0..1 : n <= Len(Scheme_str[i + 1])
                                /\ SubSeq(url, 1, n) = SubSeq(Scheme_str[i + 1], 1, n)}
<1>0. hit \in SUBSET Int
  OBVIOUS
<1>1. SubSeq(url, 1, n) = sch
  BY DEF Scheme_str
<1>2. CASE sch = Scheme_str[1]
  <2>1. 0 \in hit
    BY <1>1, <1>2 DEF Scheme_str
  <2>2. Least(hit) = 0
    <3>1. \A y \in hit : 0 <= y
      OBVIOUS
    <3> QED
      BY <1>0, <2>1, <3>1, LeastIs, Zenon
  <2> QED
    BY <1>2, <2>1, <2>2 DEF CmpNScheme
<1>3. CASE sch = Scheme_str[2]
  <2>0. Len(Scheme_str[1]) = 4 /\ Len(Scheme_str[2]) = 5 /\ n = 5
    BY <1>3 DEF Scheme_str
  <2>1. 1 \in hit /\ 0 \notin hit
    <3>1. SubSeq(Scheme_str[2], 1, 5) = Scheme_str[2]
      <4>1. Scheme_str[2] \in Seq({"h", "t", "p", "s"})
        <5>1. Scheme_str[2] = <<"h", "t", "t", "p", "s">>
          BY DEF Scheme_str
        <5>2. <<"h", "t", "t", "p", "s">> \in Seq({"h", "t", "p", "s"})
          OBVIOUS
        <5> QED
          BY <5>1, <5>2
      <4> QED
        BY <2>0, <4>1, SubSeqWhole
    <3> QED
      BY <1>1, <1>3, <2>0, <3>1
  <2>2. Least(hit) = 1
    <3>1. \A y \in hit : 1 <= y
      BY <2>1
    <3> QED
      BY <1>0, <2>1, <3>1, LeastIs, Zenon
  <2>3. sch # Scheme_str[1]
    BY <1>3 DEF Scheme_str
  <2> QED
    BY <2>1, <2>2, <2>3 DEF CmpNScheme
<1> QED
  BY <1>2, <1>3

\* A slice of s inside its bounds: its length and its characters.
LEMMA Slice ==
    ASSUME NEW S, NEW s \in Seq(S), NEW m \in 1..Len(s) + 1, NEW n \in m - 1..Len(s)
    PROVE  /\ SubSeq(s, m, n) \in Seq(S)
           /\ Len(SubSeq(s, m, n)) = n - m + 1
           /\ \A j \in 1..n - m + 1 : SubSeq(s, m, n)[j] = s[m + j - 1]
<1>1. \A i \in m..n : s[i] \in S
  OBVIOUS
<1> QED
  BY <1>1, SubSeqProperties

-----------------------------------------------------------------------------
(* A URL built from its parts: a scheme, "://", a host, ':' and the port   *)
(* digits, and a path, all over an alphabet Char that holds the           *)
(* characters the parser looks for.                                        *)
UrlOf(sch, host, ds, path) ==
    sch \o <<":", "/", "/">> \o host \o (<<":">> \o ds) \o path

\* The two schemes are sequences of letters, of length 4 and 5.
LEMMA SchemeShape ==
    ASSUME NEW sch \in {Scheme_str[1], Scheme_str[2]}
    PROVE  /\ sch \in Seq({"h", "t", "p", "s"})
           /\ Len(sch) \in {4, 5}
           /\ Len(sch) = 4 <=> sch = Scheme_str[1]
<1>1. Scheme_str[1] = <<"h", "t", "t", "p">> /\ Scheme_str[2] = <<"h", "t", "t", "p", "s">>
  BY DEF Scheme_str
<1>2. CASE sch = <<"h", "t", "t", "p">>
  BY <1>1, <1>2
<1>3. CASE sch = <<"h", "t", "t", "p", "s">>
  BY <1>1, <1>3
<1> QED
  BY <1>1, <1>2, <1>3

\* http_request_init on a well-formed URL: the scheme ends at the first
\* "://", the host at the next ':', the port is all the digits after it,
\* and the uri is the path.
\* The remainder of a number below the modulus is the number.
LEMMA ModSmall ==
    ASSUME NEW n \in Nat \ {0}, NEW x \in 0..n - 1
    PROVE  x % n = x
OBVIOUS

LEMMA PortLimitPos == PortLimit \in Nat \ {0}
BY DEF PortLimit

\* A port value below 65536 is left alone by the cut to 16 bits.
LEMMA PortMod ==
    ASSUME NEW x \in 0..PortLimit - 1
    PROVE  x % PortLimit = x
BY ModSmall, PortLimitPos

\* The two fields of sscanf's result, unfolded: the scan succeeds when it
\* read a digit, and with no sign the value is the digits' cut to 16 bits.
LEMMA ScanOk ==
    ASSUME NEW r
    PROVE  LET sgn == IF Len(r) > 0 /\ r[1] \in {"+", "-"} THEN 1 ELSE 0
               win == SubSeq(r, sgn + 1, IF Len(r) < 8 THEN Len(r) ELSE 8)
           IN  Scan(r).ok = (Len(SubSeq(win, 1, DigitRun(win))) > 0)
BY DEF Scan

LEMMA ScanUnsigned ==
    ASSUME NEW r
    PROVE  LET sgn == IF Len(r) > 0 /\ r[1] \in {"+", "-"} THEN 1 ELSE 0
               win == SubSeq(r, sgn + 1, IF Len(r) < 8 THEN Len(r) ELSE 8)
           IN  sgn = 0 => Scan(r).port = Dec(SubSeq(win, 1, DigitRun(win))) % PortLimit
BY DEF Scan

\* sscanf(s, "%8hu") on the port's digits followed by an empty or '/'
\* path: the digit run ends where the digits do, and the value is kept.
ScanArgs(Char, digs, path, r, d, m) ==
    /\ Digits \subseteq Char
    /\ digs \in Seq(Digits) /\ path \in Seq(Char) /\ r \in Seq(Char)
    /\ d \in 1..5 /\ m \in Nat /\ Len(digs) = d /\ Len(path) = m /\ Len(r) = d + m
    /\ \A j \in 1..d : r[j] = digs[j]
    /\ \A j \in 1..m : r[d + j] = path[j]
    /\ (path = <<>> \/ path[1] = "/")
    /\ Dec(digs) \in 0..PortLimit - 1

LEMMA ScanDigits ==
    ASSUME NEW Char, NEW digs, NEW path, NEW r, NEW d, NEW m,
           ScanArgs(Char, digs, path, r, d, m)
    PROVE  Scan(r).ok /\ Scan(r).port = Dec(digs)
<1> USE DEF ScanArgs
<1>1. \A j \in 1..d : r[j] \in Digits
  OBVIOUS
<1>2. (IF Len(r) > 0 /\ r[1] \in {"+", "-"} THEN 1 ELSE 0) = 0
  <2>1. r[1] \in Digits
    BY <1>1
  <2> QED
    BY <2>1 DEF Digits
<1> DEFINE w == IF Len(r) < 8 THEN Len(r) ELSE 8
           W == SubSeq(r, 1, w)
<1>3. w \in d..Len(r) /\ (m > 0 => w >= d + 1)
  OBVIOUS
<1>4. W \in Seq(Char) /\ Len(W) = w /\ \A j \in 1..w : W[j] = r[j]
  <2>1. 1 \in 1..Len(r) + 1 /\ w \in 1 - 1..Len(r)
    BY <1>3
  <2>2. /\ SubSeq(r, 1, w) \in Seq(Char) /\ Len(SubSeq(r, 1, w)) = w - 1 + 1
        /\ \A j \in 1..w - 1 + 1 : SubSeq(r, 1, w)[j] = r[1 + j - 1]
    BY <2>1, Slice
  <2> QED
    BY <2>2, <1>3
<1> HIDE DEF W, w
<1>5. DigitRun(W) = d
  <2>1. \A i \in 1..d : W[i] \in Digits
    BY <1>1, <1>3, <1>4
  <2>2. CASE m = 0
    <3>1. Len(W) = d
      BY <2>2, <1>4 DEF w
    <3>2. \A i \in 1..Len(W) : W[i] \in Digits
      BY <3>1, <2>1
    <3>3. DigitRun(W) = Len(W)
      BY <3>2, <1>4, DigitRunAll
    <3> QED
      BY <3>1, <3>3
  <2>3. CASE m > 0
    <3>1. W[d + 1] = "/"
      <4>1. r[d + 1] = path[1]
        BY <2>3
      <4> QED
        BY <4>1, <2>3, <1>3, <1>4
    <3>2. W[d + 1] \notin Digits
      BY <3>1 DEF Digits
    <3>3. d + 1 \in 1..Len(W) /\ \A i \in 1..d + 1 - 1 : W[i] \in Digits
      BY <2>1, <2>3, <1>3, <1>4
    <3>4. DigitRun(W) = d + 1 - 1
      BY <3>2, <3>3, <1>4, DigitRunStop
    <3> QED
      BY <3>4
  <2> QED
    BY <2>2, <2>3
<1>6. SubSeq(W, 1, d) = digs
  <2>1. 1 \in 1..Len(W) + 1 /\ d \in 1 - 1..Len(W)
    BY <1>3, <1>4
  <2>2. /\ SubSeq(W, 1, d) \in Seq(Char) /\ Len(SubSeq(W, 1, d)) = d - 1 + 1
        /\ \A j \in 1..d - 1 + 1 : SubSeq(W, 1, d)[j] = W[1 + j - 1]
    BY <2>1, <1>4, Slice
  <2>3. \A j \in 1..d : SubSeq(W, 1, d)[j] = digs[j]
    BY <2>2, <1>3, <1>4
  <2> QED
    BY <2>2, <2>3, SeqEqual
<1>7. Dec(digs) % PortLimit = Dec(digs)
  BY PortMod
<1>8. SubSeq(r, (IF Len(r) > 0 /\ r[1] \in {"+", "-"} THEN 1 ELSE 0) + 1,
             IF Len(r) < 8 THEN Len(r) ELSE 8) = W
  BY <1>2 DEF W, w
<1>9. SubSeq(W, 1, DigitRun(W)) = digs /\ Len(digs) > 0
  BY <1>5, <1>6
<1>10. Scan(r).ok = (Len(SubSeq(W, 1, DigitRun(W))) > 0)
  BY <1>8, ScanOk
<1>11. Scan(r).port = Dec(SubSeq(W, 1, DigitRun(W))) % PortLimit
  BY <1>2, <1>8, ScanUnsigned
<1> QED
  BY <1>7, <1>9, <1>10, <1>11

\* The uri after the port: strstr(host_end + 1, "/") finds the path's
\* first '/', since no digit is a '/'; with no path there is no uri.
LEMMA UriPath ==
    ASSUME NEW Char, NEW digs, NEW path, NEW r, NEW d, NEW m,
           ScanArgs(Char, digs, path, r, d, m)
    PROVE  UriOf(r) = IF path = <<>> THEN NoUri ELSE path
<1>1. /\ digs \in Seq(Digits) /\ path \in Seq(Char) /\ r \in Seq(Char)
      /\ d \in 1..5 /\ m \in Nat /\ Len(digs) = d /\ Len(path) = m /\ Len(r) = d + m
      /\ \A j \in 1..d : r[j] = digs[j]
      /\ \A j \in 1..m : r[d + j] = path[j]
      /\ (path = <<>> \/ path[1] = "/")
  BY DEF ScanArgs
<1>2. \A i \in 1..d : r[i] # "/"
  <2>1. \A i \in 1..d : r[i] \in Digits
    BY <1>1
  <2> QED
    BY <2>1 DEF Digits
<1>3. CASE m = 0
  <2> DEFINE slash == <<"/">>
  <2>1. slash \in Seq(Char \cup {"/"}) /\ Len(slash) >= 1 /\ r \in Seq(Char \cup {"/"})
    BY <1>1
  <2>2. \A i \in 1..Len(r) : r[i] # slash[1]
    BY <1>1, <1>2, <1>3
  <2> HIDE DEF slash
  <2>3. StrStr(r, slash) = 0
    BY <2>1, <2>2, StrStrNone
  <2>4. path = <<>>
    BY <1>1, <1>3
  <2> QED
    BY <2>3, <2>4 DEF UriOf, slash
<1>4. CASE m > 0
  <2>1. path # <<>> /\ path[1] = "/"
    BY <1>1, <1>4
  <2>2. "/" \in Char /\ d + 1 \in 1..Len(r) /\ r[d + 1] = "/"
    BY <1>1, <1>4, <2>1
  <2>3. \A i \in 1..d + 1 - 1 : r[i] # "/"
    BY <1>2, <1>1
  <2>4. StrStr(r, <<"/">>) = d + 1
    <3>1. r \in Seq(Char)
      BY <1>1
    <3>2. PICK k \in 1..Len(r) : k = d + 1
      BY <2>2
    <3>3. r[k] = "/" /\ \A i \in 1..k - 1 : r[i] # "/"
      BY <3>2, <2>2, <2>3, <1>1
    <3>4. "/" \in Char
      BY <2>2
    <3>5. StrStr(r, <<"/">>) = k
      BY <3>1, <3>3, <3>4, StrStrChar
    <3> QED
      BY <3>2, <3>5
  <2>5. From(r, d + 1) = path
    <3>1. d + 1 \in 1..Len(r) + 1 /\ Len(r) \in d + 1 - 1..Len(r)
      BY <1>1, <1>4
    <3>2. /\ SubSeq(r, d + 1, Len(r)) \in Seq(Char)
          /\ Len(SubSeq(r, d + 1, Len(r))) = Len(r) - (d + 1) + 1
          /\ \A j \in 1..Len(r) - (d + 1) + 1 :
                SubSeq(r, d + 1, Len(r))[j] = r[d + 1 + j - 1]
      BY <1>1, <3>1, Slice
    <3>3. \A j \in 1..m : SubSeq(r, d + 1, Len(r))[j] = path[j]
      BY <1>1, <3>2
    <3> QED
      BY <1>1, <3>2, <3>3, SeqEqual DEF From
  <2> QED
    BY <1>1, <2>1, <2>4, <2>5 DEF UriOf
<1> QED
  BY <1>1, <1>3, <1>4

\* http_request_init when none of its early returns is taken: the scheme,
\* host, port and uri are read from the places the three scans found.
LEMMA ParseDone ==
    ASSUME NEW url, NEW se \in Nat \ {0}, StrStr(url, <<":", "/", "/">>) = se,
           NEW he \in Nat \ {0}, HostEnd(url, se + 3) = he,
           Scan(From(url, he + 1)).ok
    PROVE  Parse(url) = Result("done", CmpNScheme(url, se - 1), SubSeq(url, se + 3, he - 1),
                               Scan(From(url, he + 1)).port, UriOf(From(url, he + 1)))
BY DEF Parse

\* The parts of a well-formed URL over an alphabet Char, kept as one
\* formula so that each step of ParseGood cites only the parts it uses.
UrlArgs(Char, sch, host, ds, path) ==
    /\ {":", "/", "h", "t", "p", "s"} \cup Digits \subseteq Char
    /\ sch \in {Scheme_str[1], Scheme_str[2]}
    /\ host \in Seq(Char) /\ host # <<>> /\ \A i \in 1..Len(host) : host[i] # ":"
    /\ ds \in Seq(Digits) /\ Len(ds) \in 1..5 /\ Dec(ds) \in 0..PortLimit - 1
    /\ path \in Seq(Char) /\ (path = <<>> \/ path[1] = "/")

\* http_request_init on a well-formed URL: the scheme ends at the first
\* "://", the host at the next ':', the port is all the digits after it,
\* and the uri is the path.
THEOREM ParseGood ==
    ASSUME NEW Char, NEW sch, NEW host, NEW ds, NEW path,
           UrlArgs(Char, sch, host, ds, path)
    PROVE  Parse(UrlOf(sch, host, ds, path))
             = Result("done", IF sch = Scheme_str[1] THEN 0 ELSE 1, host, Dec(ds),
                      IF path = <<>> THEN NoUri ELSE path)
<1>a. {":", "/", "h", "t", "p", "s"} \cup Digits \subseteq Char
  BY DEF UrlArgs
<1>b. sch \in {Scheme_str[1], Scheme_str[2]}
  BY DEF UrlArgs
<1>c. host \in Seq(Char) /\ host # <<>>
  BY DEF UrlArgs
<1>d. \A i \in 1..Len(host) : host[i] # ":"
  BY DEF UrlArgs
<1>e. ds \in Seq(Digits) /\ Len(ds) \in 1..5
  BY DEF UrlArgs
<1>f. Dec(ds) \in 0..PortLimit - 1
  BY DEF UrlArgs
<1>g. path \in Seq(Char)
  BY DEF UrlArgs
<1>h. path = <<>> \/ path[1] = "/"
  BY DEF UrlArgs
<1> DEFINE U == UrlOf(sch, host, ds, path)
           L == Len(sch)
           H == Len(host)
           D == Len(ds)
           P == Len(path)
<1>1. /\ U \in Seq(Char)
      /\ Len(U) = L + 4 + H + D + P
      /\ \A i \in 1..L : U[i] = sch[i]
      /\ U[L + 1] = ":" /\ U[L + 2] = "/" /\ U[L + 3] = "/"
      /\ \A i \in 1..H : U[L + 3 + i] = host[i]
      /\ U[L + 4 + H] = ":"
      /\ \A i \in 1..D : U[L + 4 + H + i] = ds[i]
      /\ \A i \in 1..P : U[L + 4 + H + D + i] = path[i]
  <2>a. sch \in Seq(Char)
    BY <1>a, <1>b, SchemeShape
  <2> DEFINE sep == <<":", "/", "/">>
             A1 == sch \o sep
             A2 == A1 \o host
             port == <<":">> \o ds
             A3 == A2 \o port
  <2>0. sep \in Seq(Char) /\ <<":">> \in Seq(Char) /\ ds \in Seq(Char)
    BY <1>a, <1>e DEF Digits
  <2>1. A1 \in Seq(Char) /\ Len(A1) = Len(sch) + 3
        /\ \A i \in 1..Len(sch) + 3 : A1[i] = IF i <= Len(sch) THEN sch[i] ELSE sep[i - Len(sch)]
    BY <2>a, <2>0, ConcatProperties
  <2>2. A2 \in Seq(Char) /\ Len(A2) = Len(A1) + Len(host)
        /\ \A i \in 1..Len(A1) + Len(host) : A2[i] = IF i <= Len(A1) THEN A1[i] ELSE host[i - Len(A1)]
    BY <2>1, <1>c, ConcatProperties
  <2>3. port \in Seq(Char) /\ Len(port) = 1 + Len(ds)
        /\ \A i \in 1..1 + Len(ds) : port[i] = IF i <= 1 THEN ":" ELSE ds[i - 1]
    BY <2>0, ConcatProperties
  <2>4. A3 \in Seq(Char) /\ Len(A3) = Len(A2) + Len(port)
        /\ \A i \in 1..Len(A2) + Len(port) : A3[i] = IF i <= Len(A2) THEN A2[i] ELSE port[i - Len(A2)]
    BY <2>2, <2>3, ConcatProperties
  <2>5. A3 \o path \in Seq(Char) /\ Len(A3 \o path) = Len(A3) + Len(path)
        /\ \A i \in 1..Len(A3) + Len(path) :
              (A3 \o path)[i] = IF i <= Len(A3) THEN A3[i] ELSE path[i - Len(A3)]
    BY <2>4, <1>g, ConcatProperties
  <2>6. U = A3 \o path
    BY DEF UrlOf
  <2>7. Len(A1) = L + 3 /\ Len(A2) = L + 3 + H /\ Len(A3) = L + 4 + H + D
        /\ Len(U) = L + 4 + H + D + Len(path)
    BY <2>1, <2>2, <2>3, <2>4, <2>5, <2>6
  <2>8. \A i \in 1..L + 3 : U[i] = A1[i]
    BY <2>2, <2>4, <2>5, <2>7, <2>6
  <2>9. \A i \in 1..L : U[i] = sch[i]
    BY <2>1, <2>8, <2>6
  <2>10. U[L + 1] = ":" /\ U[L + 2] = "/" /\ U[L + 3] = "/"
    <3>1. sep[1] = ":" /\ sep[2] = "/" /\ sep[3] = "/"
      OBVIOUS
    <3>2. L \in Nat
      BY <2>a
    <3>3. A1[L + 1] = sep[1] /\ A1[L + 2] = sep[2] /\ A1[L + 3] = sep[3]
      BY <2>1, <3>2
    <3>4. L + 1 \in 1..L + 3 /\ L + 2 \in 1..L + 3 /\ L + 3 \in 1..L + 3
      BY <3>2
    <3>5. U[L + 1] = A1[L + 1] /\ U[L + 2] = A1[L + 2] /\ U[L + 3] = A1[L + 3]
      BY <2>8, <3>4, Zenon
    <3> QED
      BY <3>1, <3>3, <3>5
  <2>11. \A i \in 1..H : U[L + 3 + i] = host[i]
    BY <2>2, <2>4, <2>5, <2>7, <2>6
  <2>12. \A i \in 1..1 + D : U[L + 3 + H + i] = port[i]
    BY <2>4, <2>5, <2>7, <2>6
  <2>13. U[L + 4 + H] = ":" /\ \A i \in 1..D : U[L + 4 + H + i] = ds[i]
    BY <2>3, <2>12, <2>6
  <2>14. \A i \in 1..Len(path) : U[L + 4 + H + D + i] = path[i]
    BY <2>5, <2>7, <2>6
  <2> QED
    BY <2>5, <2>6, <2>7, <2>9, <2>10, <2>11, <2>13, <2>14
<1>2. /\ sch \in Seq({"h", "t", "p", "s"}) /\ L \in {4, 5}
      /\ (L = 4 <=> sch = Scheme_str[1])
  BY <1>b, SchemeShape
<1>3. \A i \in 1..L : U[i] # ":"
  <2>1. \A i \in 1..L : sch[i] \in {"h", "t", "p", "s"}
    BY <1>2
  <2> QED
    BY <1>1, <2>1
\* The scheme separator and the scheme.
<1>4. StrStr(U, <<":", "/", "/">>) = L + 1
  <2> DEFINE pat == <<":", "/", "/">>
  <2>1. pat \in Seq(Char) /\ Len(pat) >= 1
    BY <1>a
  <2>2. L + 1 \in 1..Len(U) /\ L + 1 + Len(pat) - 1 <= Len(U)
    BY <1>1, <1>2
  <2>3. \A j \in 1..Len(pat) : U[L + 1 + j - 1] = pat[j]
    <3>1. Len(pat) = 3 /\ pat[1] = ":" /\ pat[2] = "/" /\ pat[3] = "/"
      OBVIOUS
    <3>2. L \in Nat
      BY <1>2
    <3>3. U[L + 1] = ":" /\ U[L + 2] = "/" /\ U[L + 3] = "/"
      BY <1>1
    <3>4. SUFFICES ASSUME NEW j \in 1..3 PROVE U[L + 1 + j - 1] = pat[j]
      BY <3>1
    <3>5. CASE j = 1
      <4>1. L + 1 + j - 1 = L + 1
        BY <3>2, <3>5
      <4> QED
        BY <4>1, <3>1, <3>3, <3>5, Zenon
    <3>6. CASE j = 2
      <4>1. L + 1 + j - 1 = L + 2
        BY <3>2, <3>6
      <4> QED
        BY <4>1, <3>1, <3>3, <3>6, Zenon
    <3>7. CASE j = 3
      <4>1. L + 1 + j - 1 = L + 3
        BY <3>2, <3>7
      <4> QED
        BY <4>1, <3>1, <3>3, <3>7, Zenon
    <3> QED
      BY <3>5, <3>6, <3>7
  <2>4. \A i \in 1..L + 1 - 1 : U[i] # pat[1]
    BY <1>3
  <2>5. U \in Seq(Char)
    BY <1>1
  <2>6. \A s \in Seq(Char) : \A q \in 1..Len(s) :
           (/\ q + Len(pat) - 1 <= Len(s)
            /\ \A j \in 1..Len(pat) : s[q + j - 1] = pat[j]
            /\ \A i \in 1..q - 1 : s[i] # pat[1]) => StrStr(s, pat) = q
    BY <2>1, StrStrAt
  <2> QED
    BY <2>5, <2>2, <2>3, <2>4, <2>6
<1>5. CmpNScheme(U, L) = IF sch = Scheme_str[1] THEN 0 ELSE 1
  BY <1>1, <1>b, SchemeIndex
\* The host runs to the first ':' after "://".
<1> DEFINE V == From(U, L + 4)
<1>6. /\ V \in Seq(Char) /\ Len(V) = H + 1 + D + P
      /\ \A j \in 1..H + 1 + D + P : V[j] = U[L + 4 + j - 1]
  <2>1. U \in Seq(Char) /\ Len(U) = L + 4 + H + D + P
    BY <1>1
  <2>2. L + 4 \in 1..Len(U) + 1 /\ Len(U) \in L + 4 - 1..Len(U)
    BY <2>1, <1>2, <1>c, <1>e, <1>g
  <2>3. /\ SubSeq(U, L + 4, Len(U)) \in Seq(Char)
        /\ Len(SubSeq(U, L + 4, Len(U))) = Len(U) - (L + 4) + 1
        /\ \A j \in 1..Len(U) - (L + 4) + 1 : SubSeq(U, L + 4, Len(U))[j] = U[L + 4 + j - 1]
    BY <2>1, <2>2, Slice
  <2> QED
    BY <2>1, <2>3, <1>2 DEF From
<1>7. HostEnd(U, L + 4) = L + 4 + H
  <2>1. H \in Nat /\ D \in Nat /\ P \in Nat /\ L \in Nat
    BY <1>2, <1>c, <1>e, <1>g
  <2>2. <<":">> \in Seq(Char) /\ Len(<<":">>) >= 1
    BY <1>a
  <2>3. H + 1 \in 1..Len(V) /\ H + 1 + Len(<<":">>) - 1 <= Len(V)
    BY <1>6, <2>1
  <2>4. \A j \in 1..Len(<<":">>) : V[H + 1 + j - 1] = <<":">>[j]
    <3>1. V[H + 1] = U[L + 4 + H]
      BY <1>6, <2>1
    <3> QED
      BY <3>1, <1>1, <2>1
  <2>5. \A i \in 1..H + 1 - 1 : V[i] # <<":">>[1]
    <3>1. \A i \in 1..H : V[i] = host[i]
      <4>1. SUFFICES ASSUME NEW i \in 1..H PROVE V[i] = host[i]
        OBVIOUS
      <4>2. V[i] = U[L + 4 + i - 1]
        BY <1>6, <2>1
      <4>3. U[L + 3 + i] = host[i]
        BY <1>1
      <4>4. L + 4 + i - 1 = L + 3 + i
        BY <2>1
      <4> QED
        BY <4>2, <4>3, <4>4
    <3> QED
      BY <3>1, <1>d, <2>1
  <2>6. StrStr(V, <<":">>) = H + 1
    <3>1. V \in Seq(Char) /\ ":" \in Char /\ H + 1 \in 1..Len(V)
      BY <1>6, <1>a, <2>3
    <3>2. V[H + 1] = ":"
      BY <2>4
    <3>3. \A i \in 1..H + 1 - 1 : V[i] # ":"
      BY <2>5
    <3> QED
      BY <3>1, <3>2, <3>3, StrStrChar
  <2> QED
    BY <2>6, <2>1 DEF HostEnd
<1>8. SubSeq(U, L + 4, L + 4 + H - 1) = host
  <2> DEFINE hs == SubSeq(U, L + 4, L + 4 + H - 1)
  <2>1. U \in Seq(Char) /\ Len(U) = L + 4 + H + D + P
    BY <1>1
  <2>2. H \in Nat /\ D \in Nat /\ P \in Nat /\ L \in Nat
    BY <1>2, <1>c, <1>e, <1>g
  <2>3. L + 4 \in 1..Len(U) + 1 /\ L + 4 + H - 1 \in L + 4 - 1..Len(U)
    BY <2>1, <2>2
  <2>4. /\ hs \in Seq(Char) /\ Len(hs) = L + 4 + H - 1 - (L + 4) + 1
        /\ \A j \in 1..L + 4 + H - 1 - (L + 4) + 1 : hs[j] = U[L + 4 + j - 1]
    BY <2>1, <2>3, Slice
  <2>5. Len(hs) = H
    BY <2>4, <2>2
  <2>6. \A j \in 1..H : hs[j] = host[j]
    <3>1. SUFFICES ASSUME NEW j \in 1..H PROVE hs[j] = host[j]
      OBVIOUS
    <3>2. hs[j] = U[L + 4 + j - 1]
      BY <2>4, <2>2
    <3>3. U[L + 3 + j] = host[j]
      BY <1>1
    <3>4. L + 4 + j - 1 = L + 3 + j
      BY <2>2
    <3> QED
      BY <3>2, <3>3, <3>4
  <2> QED
    BY <2>4, <2>5, <2>6, <1>c, SeqEqual
\* What follows the ':' of the port: its digits, then the path.
<1> DEFINE R == From(U, L + 4 + H + 1)
<1>9. /\ R \in Seq(Char) /\ Len(R) = D + P
      /\ \A j \in 1..D : R[j] = ds[j]
      /\ \A j \in 1..P : R[D + j] = path[j]
  <2>1. U \in Seq(Char) /\ Len(U) = L + 4 + H + D + P
    BY <1>1
  <2>2. H \in Nat /\ D \in Nat /\ P \in Nat /\ L \in Nat
    BY <1>2, <1>c, <1>e, <1>g
  <2>3. L + 4 + H + 1 \in 1..Len(U) + 1 /\ Len(U) \in L + 4 + H + 1 - 1..Len(U)
    BY <2>1, <2>2
  <2>4. /\ R \in Seq(Char) /\ Len(R) = Len(U) - (L + 4 + H + 1) + 1
        /\ \A j \in 1..Len(U) - (L + 4 + H + 1) + 1 : R[j] = U[L + 4 + H + 1 + j - 1]
    BY <2>1, <2>3, Slice DEF From
  <2>5. Len(R) = D + P
    BY <2>4, <2>1, <2>2
  <2>6. \A j \in 1..D : R[j] = ds[j]
    <3>1. SUFFICES ASSUME NEW j \in 1..D PROVE R[j] = ds[j]
      OBVIOUS
    <3>2. R[j] = U[L + 4 + H + 1 + j - 1]
      BY <2>4, <2>1, <2>2
    <3>3. U[L + 4 + H + j] = ds[j]
      BY <1>1
    <3>4. L + 4 + H + 1 + j - 1 = L + 4 + H + j
      BY <2>2
    <3> QED
      BY <3>2, <3>3, <3>4
  <2>7. \A j \in 1..P : R[D + j] = path[j]
    <3>1. SUFFICES ASSUME NEW j \in 1..P PROVE R[D + j] = path[j]
      OBVIOUS
    <3>2. R[D + j] = U[L + 4 + H + 1 + (D + j) - 1]
      BY <2>4, <2>1, <2>2
    <3>3. U[L + 4 + H + D + j] = path[j]
      BY <1>1
    <3>4. L + 4 + H + 1 + (D + j) - 1 = L + 4 + H + D + j
      BY <2>2
    <3> QED
      BY <3>2, <3>3, <3>4
  <2> QED
    BY <2>4, <2>5, <2>6, <2>7
\* What follows the port's ':' meets the hypotheses of ScanDigits and
\* UriPath.
<1>10. PICK r \in Seq(Char), d \in 1..5, m \in Nat : r = R /\ d = D /\ m = P
  BY <1>9, <1>e, <1>g
<1>11. ScanArgs(Char, ds, path, r, d, m)
  <2>1. /\ R \in Seq(Char) /\ Len(R) = D + P
        /\ \A j \in 1..D : R[j] = ds[j]
        /\ \A j \in 1..P : R[D + j] = path[j]
    BY <1>9
  <2>2. Len(ds) = D /\ Len(path) = P
    OBVIOUS
  <2>3. /\ Len(ds) = d /\ Len(path) = m /\ Len(r) = d + m
        /\ \A j \in 1..d : r[j] = ds[j]
        /\ \A j \in 1..m : r[d + j] = path[j]
    BY <2>1, <2>2, <1>10
  <2> QED
    BY <2>3, <1>10, <1>a, <1>e, <1>f, <1>g, <1>h DEF ScanArgs
\* sscanf "%8hu" reads exactly the port's digits: the path, if any,
\* starts with '/', which stops the digit run.
<1>12. Scan(R).ok /\ Scan(R).port = Dec(ds)
  BY <1>10, <1>11, ScanDigits
<1>13. UriOf(R) = IF path = <<>> THEN NoUri ELSE path
  BY <1>10, <1>11, UriPath
<1>14. PICK se \in Nat \ {0}, he \in Nat \ {0} : se = L + 1 /\ he = L + 4 + H
  BY <1>2, <1>c
<1>15. /\ StrStr(U, <<":", "/", "/">>) = se
       /\ HostEnd(U, se + 3) = he
       /\ CmpNScheme(U, se - 1) = IF sch = Scheme_str[1] THEN 0 ELSE 1
       /\ SubSeq(U, se + 3, he - 1) = host
       /\ From(U, he + 1) = R
  BY <1>2, <1>4, <1>5, <1>7, <1>8, <1>14
<1>16. Scan(From(U, he + 1)).ok /\ Scan(From(U, he + 1)).port = Dec(ds)
       /\ UriOf(From(U, he + 1)) = IF path = <<>> THEN NoUri ELSE path
  BY <1>12, <1>13, <1>15
<1> HIDE DEF U, R
<1>17. Parse(U) = Result("done", CmpNScheme(U, se - 1), SubSeq(U, se + 3, he - 1),
                         Scan(From(U, he + 1)).port, UriOf(From(U, he + 1)))
  <2>1. StrStr(U, <<":", "/", "/">>) = se /\ HostEnd(U, se + 3) = he
    BY <1>15
  <2>2. Scan(From(U, he + 1)).ok
    BY <1>16
  <2> QED
    BY <2>1, <2>2, ParseDone
<1> QED
  BY <1>15, <1>16, <1>17 DEF U
-----------------------------------------------------------------------------
(* The model's inputs.                                                     *)

\* Every character that occurs in a part.
Char == {":", "/", "h", "t", "p", "s", "f", "a", ".", "-"} \cup Digits

\* The port parts are strings over Char.
LEMMA PortPartsChar ==
    ASSUME NEW x \in PortParts
    PROVE  x \in Seq(Char)
<1>1. CASE x = <<":", "8", "0">>
  BY <1>1 DEF Char, Digits
<1>2. CASE x = <<":", "6", "5", "5", "3", "5">>
  BY <1>2 DEF Char, Digits
<1>3. CASE x = <<":", "6", "5", "6", "1", "6">>
  BY <1>3 DEF Char, Digits
<1>4. CASE x = <<":", "-", "1">>
  BY <1>4 DEF Char, Digits
<1>5. CASE x = <<":">>
  BY <1>5 DEF Char, Digits
<1>6. CASE x = <<>>
  BY <1>6 DEF Char, Digits
<1> QED
  BY <1>1, <1>2, <1>3, <1>4, <1>5, <1>6 DEF PortParts

\* The host parts are strings over Char with no ':'.
LEMMA HostPartsChar ==
    ASSUME NEW x \in HostParts
    PROVE  x \in Seq(Char) /\ \A i \in 1..Len(x) : x[i] # ":"
<1>1. CASE x = <<"a">>
  BY <1>1 DEF Char, Digits
<1>2. CASE x = <<"a", ".", "a">>
  BY <1>2 DEF Char, Digits
<1>3. CASE x = <<>>
  BY <1>3 DEF Char, Digits
<1> QED
  BY <1>1, <1>2, <1>3 DEF HostParts

\* The path parts are strings over Char, empty or starting with '/'.
LEMMA PathPartsChar ==
    ASSUME NEW x \in PathParts
    PROVE  x \in Seq(Char) /\ (x = <<>> \/ x[1] = "/")
<1>1. CASE x = <<>>
  BY <1>1 DEF Char, Digits
<1>2. CASE x = <<"/", "a">>
  BY <1>2 DEF Char, Digits
<1>3. CASE x = <<"/", "a", ":", "1">>
  BY <1>3 DEF Char, Digits
<1> QED
  BY <1>1, <1>2, <1>3 DEF PathParts

\* A port part that passes WellFormed is ':' and then its digits.
LEMMA PortSplit ==
    ASSUME NEW pt \in Inputs, WellFormed(pt)
    PROVE  /\ PortDigits(pt) \in Seq(Digits) /\ Len(PortDigits(pt)) \in 1..5
           /\ pt.port = <<":">> \o PortDigits(pt)
<1>1. pt.port \in Seq(Char) /\ Len(pt.port) \in 2..6 /\ pt.port[1] = ":"
  <2>1. pt.port \in PortParts
    BY DEF Inputs
  <2>2. pt.port \in Seq(Char)
    BY <2>1, PortPartsChar
  <2> QED
    BY <2>2 DEF WellFormed
<1> DEFINE ps == PortDigits(pt)
<1>2. /\ ps \in Seq(Char) /\ Len(ps) = Len(pt.port) - 1
      /\ \A j \in 1..Len(pt.port) - 1 : ps[j] = pt.port[j + 1]
  <2>1. 2 \in 1..Len(pt.port) + 1 /\ Len(pt.port) \in 2 - 1..Len(pt.port)
    BY <1>1
  <2>2. /\ SubSeq(pt.port, 2, Len(pt.port)) \in Seq(Char)
        /\ Len(SubSeq(pt.port, 2, Len(pt.port))) = Len(pt.port) - 2 + 1
        /\ \A j \in 1..Len(pt.port) - 2 + 1 :
              SubSeq(pt.port, 2, Len(pt.port))[j] = pt.port[2 + j - 1]
    BY <1>1, <2>1, Slice
  <2> QED
    BY <2>2, <1>1 DEF PortDigits, From
<1>3. \A i \in 1..Len(ps) : ps[i] \in Digits
  <2>1. DigitRun(ps) = Len(ps)
    BY DEF WellFormed
  <2> QED
    BY <1>2, <2>1, DigitRunFull
<1>4. ps \in Seq(Digits)
  BY <1>2, <1>3
<1>5. pt.port = <<":">> \o ps
  <2>1. <<":">> \o ps \in Seq(Char) /\ Len(<<":">> \o ps) = 1 + Len(ps)
        /\ \A i \in 1..1 + Len(ps) : (<<":">> \o ps)[i] = IF i <= 1 THEN ":" ELSE ps[i - 1]
    <3>1. <<":">> \in Seq(Char)
      BY DEF Char
    <3> QED
      BY <3>1, <1>2, ConcatProperties
  <2>2. \A i \in 1..Len(pt.port) : pt.port[i] = (<<":">> \o ps)[i]
    BY <1>1, <1>2, <2>1
  <2> QED
    BY <1>1, <1>2, <2>1, <2>2, SeqEqual
<1>6. Len(ps) \in 1..5
  BY <1>1, <1>2
<1> QED
  BY <1>4, <1>5, <1>6

\* The inputs that pass WellFormed meet the hypotheses of ParseGood.
LEMMA InputsWellFormed ==
    ASSUME NEW pt \in Inputs, WellFormed(pt)
    PROVE  /\ UrlArgs(Char, pt.scheme, pt.host, PortDigits(pt), pt.path)
           /\ Url(pt) = UrlOf(pt.scheme, pt.host, PortDigits(pt), pt.path)
<1>1. PortDigits(pt) \in Seq(Digits) /\ Len(PortDigits(pt)) \in 1..5
      /\ pt.port = <<":">> \o PortDigits(pt)
  BY PortSplit
<1>2. pt.host \in HostParts /\ pt.path \in PathParts
  BY DEF Inputs
<1>3. pt.host \in Seq(Char) /\ \A i \in 1..Len(pt.host) : pt.host[i] # ":"
  BY <1>2, HostPartsChar
<1>4. pt.path \in Seq(Char) /\ (pt.path = <<>> \/ pt.path[1] = "/")
  BY <1>2, PathPartsChar
<1>5. {":", "/", "h", "t", "p", "s"} \cup Digits \subseteq Char
  BY DEF Char
<1>6. UrlArgs(Char, pt.scheme, pt.host, PortDigits(pt), pt.path)
  BY <1>1, <1>3, <1>4, <1>5 DEF UrlArgs, WellFormed
<1>7. Url(pt) = UrlOf(pt.scheme, pt.host, PortDigits(pt), pt.path)
  BY <1>1 DEF Url, UrlOf, WellFormed
<1> QED
  BY <1>6, <1>7

\* The URL never changes: the parser runs once on its input.
InputsInv == parts \in Inputs

\* The invariant of the url_well_formed run, for every input: each URL that
\* passes WellFormed is split by http_request_init into its own scheme,
\* host, port and uri.
THEOREM ParsesWellFormedProved == Spec => []ParsesWellFormed
<1>1. Init => InputsInv
  BY DEF Init, InputsInv
<1>2. InputsInv /\ [Next]_parts => InputsInv'
  BY DEF Next, InputsInv
<1>3. InputsInv => ParsesWellFormed
  <2>1. SUFFICES ASSUME parts \in Inputs, WellFormed(parts)
                 PROVE  Parse(Url(parts)) = Expected(parts)
    BY DEF ParsesWellFormed, InputsInv
  <2>2. UrlArgs(Char, parts.scheme, parts.host, PortDigits(parts), parts.path)
        /\ Url(parts) = UrlOf(parts.scheme, parts.host, PortDigits(parts), parts.path)
    BY <2>1, InputsWellFormed
  <2> QED
    BY <2>2, ParseGood DEF Expected
<1> QED
  BY <1>1, <1>2, <1>3, PTL DEF Spec
=============================================================================
