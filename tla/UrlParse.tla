----------------------------- MODULE UrlParse -----------------------------
(***************************************************************************)
(* The URL parser of http_request_init (src/src/http/request.c): the      *)
(* scheme is what precedes the first "://", matched with strncmp against  *)
(* "http" and "https"; the host runs to the next ':'; the port is read     *)
(* with sscanf "%8hu"; the uri is the rest from the next '/'.              *)
(*                                                                         *)
(* A URL is a sequence of one-character strings.  The inputs are built     *)
(* from parts (scheme, separator, host, port, path) so that the parts of a *)
(* well-formed URL are its reference decomposition, against which the      *)
(* parser's result is checked.                                             *)
(***************************************************************************)
EXTENDS Integers, Sequences, FiniteSets

VARIABLE parts

Digits == {"0", "1", "3", "5", "6", "8"}
DigitOf(c) == CASE c = "0" -> 0 [] c = "1" -> 1 [] c = "3" -> 3
                [] c = "5" -> 5 [] c = "6" -> 6 [] c = "8" -> 8

(* The value of a decimal digit string.                                    *)
Dec(ds) ==
    LET f[i \in 0..Len(ds)] == IF i = 0 THEN 0 ELSE 10 * f[i - 1] + DigitOf(ds[i])
    IN f[Len(ds)]

PortLimit == 65536   \* uint16_t port

From(s, i) == SubSeq(s, i, Len(s))
Least(S) == CHOOSE x \in S : \A y \in S : x <= y

(* strstr(s, pat): the index where pat first starts, 0 when it does not.  *)
StrStr(s, pat) ==
    LET at == {i \in 1..Len(s) : i + Len(pat) - 1 <= Len(s)
                                 /\ SubSeq(s, i, i + Len(pat) - 1) = pat}
    IN IF at = {} THEN 0 ELSE Least(at)

(* The length of the run of digits s starts with.                          *)
DigitRun(s) ==
    LET stop == {i \in 1..Len(s) : s[i] \notin Digits}
    IN IF stop = {} THEN Len(s) ELSE Least(stop) - 1

Scheme_str == <<<<"h", "t", "t", "p">>, <<"h", "t", "t", "p", "s">>>>

(* cmp_n_Scheme(url, n): the first scheme whose first n characters match   *)
(* url's (strncmp stops at the scheme's terminator), else -1.             *)
CmpNScheme(url, n) ==
    LET hit == {i \in 0..1 : n <= Len(Scheme_str[i + 1])
                             /\ SubSeq(url, 1, n) = SubSeq(Scheme_str[i + 1], 1, n)}
    IN IF hit = {} THEN -1 ELSE Least(hit)

(* Fault model: the host ends at the last ':' of the URL (strrchr).       *)
HostEndLast(url, hs) ==
    LET at == {i \in hs..Len(url) : url[i] = ":"}
    IN IF at = {} THEN 0 ELSE CHOOSE i \in at : \A j \in at : j <= i

(* The ':' that ends the host: strstr(host_start, ":").                    *)
HostEnd(url, hs) ==
    LET at == StrStr(From(url, hs), <<":">>)
    IN IF at = 0 THEN 0 ELSE hs + at - 1

(* sscanf(s, "%8hu", &port): an optional sign and digits, eight characters *)
(* at most, converted as strtoul does and cut to 16 bits.                  *)
Scan(s) ==
    LET sign == IF Len(s) > 0 /\ s[1] \in {"+", "-"} THEN 1 ELSE 0
        win == SubSeq(s, sign + 1, IF Len(s) < 8 THEN Len(s) ELSE 8)
        ds == SubSeq(win, 1, DigitRun(win))
        n == Dec(ds) % PortLimit
    IN [ok |-> Len(ds) > 0,
        port |-> IF sign = 1 /\ s[1] = "-" THEN (PortLimit - n) % PortLimit ELSE n]

NoUri == <<"?">>   \* P_COPY of p_stack(NULL): no uri

(* The uri: strstr(host_end + 1, "/") and everything after it.             *)
UriOf(s) == LET at == StrStr(s, <<"/">>) IN IF at = 0 THEN NoUri ELSE From(s, at)

Result(stage, cipher, host, port, uri) ==
    [stage |-> stage, cipher |-> cipher, host |-> host, port |-> port, uri |-> uri]

(* http_request_init(req, meth, url): each early return sets is_corrupt   *)
(* and leaves the later fields unset (-2, <<>>, 0, NoUri here).            *)
Parse(url) ==
    LET se == StrStr(url, <<":", "/", "/">>) IN
    IF se = 0 THEN Result("no_scheme", -2, <<>>, 0, NoUri) ELSE
    LET sch == CmpNScheme(url, se - 1)
        hs == se + 3
        he == HostEnd(url, hs)
    IN
    IF he = 0 THEN Result("no_port", sch, <<>>, 0, NoUri) ELSE
    LET host == SubSeq(url, hs, he - 1)
        sc == Scan(From(url, he + 1))
    IN
    IF ~sc.ok THEN Result("bad_port", sch, host, 0, NoUri)
    ELSE Result("done", sch, host, sc.port, UriOf(From(url, he + 1)))

-----------------------------------------------------------------------------
(* The inputs: every combination of these parts.                           *)
SchemeParts == {Scheme_str[1], Scheme_str[2], <<"h", "t", "t">>, <<"f", "t", "p">>, <<>>}
SepParts == {<<":", "/", "/">>, <<":", "/">>}
HostParts == {<<"a">>, <<"a", ".", "a">>, <<>>}
PortParts == {<<":", "8", "0">>, <<":", "6", "5", "5", "3", "5">>,
              <<":", "6", "5", "6", "1", "6">>, <<":", "-", "1">>, <<":">>, <<>>}
PathParts == {<<>>, <<"/", "a">>, <<"/", "a", ":", "1">>}

Inputs == [scheme : SchemeParts, sep : SepParts, host : HostParts,
           port : PortParts, path : PathParts]

Url(pt) == pt.scheme \o pt.sep \o pt.host \o pt.port \o pt.path

(* The reference: a URL with a known scheme, "://", a non-empty host, a   *)
(* port of one to five digits below 65536, and an empty or '/' path.       *)
PortDigits(pt) == From(pt.port, 2)
WellFormed(pt) ==
    /\ pt.scheme \in {Scheme_str[1], Scheme_str[2]}
    /\ pt.sep = <<":", "/", "/">>
    /\ pt.host # <<>>
    /\ Len(pt.port) \in 2..6 /\ pt.port[1] = ":"
    /\ DigitRun(PortDigits(pt)) = Len(PortDigits(pt))
    /\ Dec(PortDigits(pt)) \in 0..PortLimit - 1

Expected(pt) ==
    Result("done", IF pt.scheme = Scheme_str[1] THEN 0 ELSE 1, pt.host,
           Dec(PortDigits(pt)), IF pt.path = <<>> THEN NoUri ELSE pt.path)

Init == parts \in Inputs
Next == UNCHANGED parts
Spec == Init /\ [][Next]_parts

-----------------------------------------------------------------------------
(* Every well-formed URL is parsed into its own scheme, host, port and    *)
(* uri: the scans of http_request_init find the right separators even     *)
(* when the path holds a ':' of its own.                                   *)
ParsesWellFormed == WellFormed(parts) => Parse(Url(parts)) = Expected(parts)

=============================================================================
